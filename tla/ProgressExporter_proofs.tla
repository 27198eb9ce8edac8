----------------------- MODULE ProgressExporter_proofs -----------------------
(***************************************************************************)
(* Proofs about ProgressExporter: the parser's buffer is bounded whatever  *)
(* the producers write and wherever they die, and how recv cuts a text     *)
(* whose lines are short is invisible, for every cap and every size of the *)
(* receive buffer.                                                         *)
(*                                                                         *)
(* feed parses the lines of buffer and chunk together; the reference, Scan, *)
(* takes the whole text symbol by symbol.  The argument is that a text      *)
(* scanned up to any position has the line under way and the statistics     *)
(* that feed has there, and that an unfinished line put in front of a chunk *)
(* is scanned to itself.  The line under way in a text of short lines is   *)
(* what follows its last line end, so it leaves room for another chunk.    *)
(***************************************************************************)
EXTENDS ProgressExporter, Iteration_proofs

-----------------------------------------------------------------------------
(* Numbers. *)

Digit == DOMAIN DigitValue

LEMMA DigitsCount ==
    \A d \in Digit : DigitValue[d] \in Nat
  BY DEF Digit, DigitValue

\* A counter stays within its word, whatever its digits.
LEMMA CounterInWord ==
    ASSUME NEW v \in Seq(Digit)
    PROVE  parse_u64(v) \in 0..(Word - 1)
<1> DEFINE n == Len(v)
           S == 0..(Word - 1)
           Next1(i, y) == (y * 10 + DigitValue[v[i]]) % Word
           F == [p \in (1..n) \X S |-> Next1(p[1], p[2])]
           P(g) == g = [i \in 0..n |-> IF i = 0 THEN 0 ELSE Next1(i, g[i - 1])]
           x == CHOOSE g : P(g)
<1>1. n \in Nat /\ Word \in Nat \ {0} /\ 0 \in S
  BY ParserAssumption
<1>2. \A i \in 1..n, y \in S : Next1(i, y) \in S
  <2> TAKE i \in 1..n, y \in S
  <2>1. DigitValue[v[i]] \in Nat
    BY DigitsCount
  <2>2. y * 10 + DigitValue[v[i]] \in Nat
    BY <1>1, <2>1
  <2> QED
    BY <1>1, <2>2
<1>3. parse_u64(v) = x[n]
  BY DEF parse_u64
<1> HIDE DEF Next1
<1>4. /\ F \in [(1..n) \X S -> S]
      /\ \A i \in 1..n, y \in S : F[<<i, y>>] = Next1(i, y)
  BY <1>2
<1> HIDE DEF F
<1>5. PICK g \in [0..n -> S] : Iterates(g, n, 0, F)
  BY <1>1, <1>4, IterationExists
<1>6. g[0] = 0 /\ \A i \in 1..n : g[i] = Next1(i, g[i - 1])
  <2>1. g[0] = 0
    BY <1>5 DEF Iterates
  <2>2. ASSUME NEW i \in 1..n PROVE g[i] = Next1(i, g[i - 1])
    <3>1. i - 1 \in 0..n
      BY <1>1
    <3>2. g[i - 1] \in S
      BY <1>5, <3>1
    <3>3. g[i] = F[<<i, g[i - 1]>>]
      BY <1>5 DEF Iterates
    <3> HIDE DEF S, n
    <3> QED
      BY <1>4, <3>2, <3>3
  <2> QED
    BY <2>1, <2>2
<1>7. P(g)
  BY <1>1, <1>5, <1>6
<1>8. P(x)
  BY <1>7
<1> HIDE DEF x
<1>9. x[0] = 0 /\ \A i \in 1..n : x[i] = Next1(i, x[i - 1])
  <2>1. x = [i \in 0..n |-> IF i = 0 THEN 0 ELSE Next1(i, x[i - 1])]
    BY <1>8
  <2>2. ASSUME NEW i \in 0..n
        PROVE  x[i] = IF i = 0 THEN 0 ELSE Next1(i, x[i - 1])
    BY <2>1
  <2>3. 0 \in 0..n /\ \A i \in 1..n : i \in 0..n /\ i # 0
    BY <1>1
  <2> HIDE DEF n, P
  <2> QED
    BY <2>2, <2>3
<1>10. \A k \in 0..n : x[k] = g[k]
  <2>1. Alike(x, g, n)
    BY <1>6, <1>9 DEF Alike
  <2> HIDE DEF n
  <2> QED
    BY <1>1, <2>1, SameAllAlong
<1> QED
  BY <1>1, <1>3, <1>5, <1>10
\* So does the other conversion stay a number.
LEMMA GaugeIsNumber ==
    ASSUME NEW v \in Seq(Digit)
    PROVE  parse_double(v) \in Nat
<1> DEFINE n == Len(v)
           Next1(i, y) == y * 10 + DigitValue[v[i]]
           F == [p \in (1..n) \X Nat |-> Next1(p[1], p[2])]
           P(g) == g = [i \in 0..n |-> IF i = 0 THEN 0 ELSE Next1(i, g[i - 1])]
           x == CHOOSE g : P(g)
<1>1. n \in Nat
  OBVIOUS
<1>2. \A i \in 1..n, y \in Nat : Next1(i, y) \in Nat
  <2> TAKE i \in 1..n, y \in Nat
  <2>1. DigitValue[v[i]] \in Nat
    BY DigitsCount
  <2> QED
    BY <2>1
<1>3. parse_double(v) = x[n]
  BY DEF parse_double
<1> HIDE DEF Next1
<1>4. /\ F \in [(1..n) \X Nat -> Nat]
      /\ \A i \in 1..n, y \in Nat : F[<<i, y>>] = Next1(i, y)
  BY <1>2
<1> HIDE DEF F
<1>5. PICK g \in [0..n -> Nat] : Iterates(g, n, 0, F)
  BY <1>1, <1>4, IterationExists
<1>6. g[0] = 0 /\ \A i \in 1..n : g[i] = Next1(i, g[i - 1])
  <2>1. g[0] = 0
    BY <1>5 DEF Iterates
  <2>2. ASSUME NEW i \in 1..n PROVE g[i] = Next1(i, g[i - 1])
    <3>1. i - 1 \in 0..n
      BY <1>1
    <3>2. g[i - 1] \in Nat
      BY <1>5, <3>1
    <3>3. g[i] = F[<<i, g[i - 1]>>]
      BY <1>5 DEF Iterates
    <3> HIDE DEF n
    <3> QED
      BY <1>4, <3>2, <3>3
  <2> QED
    BY <2>1, <2>2
<1>7. P(g)
  BY <1>1, <1>5, <1>6
<1>8. P(x)
  BY <1>7
<1> HIDE DEF x
<1>9. x[0] = 0 /\ \A i \in 1..n : x[i] = Next1(i, x[i - 1])
  BY <1>1, <1>8
<1>10. \A k \in 0..n : x[k] = g[k]
  <2>1. Alike(x, g, n)
    BY <1>6, <1>9 DEF Alike
  <2> HIDE DEF n
  <2> QED
    BY <1>1, <2>1, SameAllAlong
<1> QED
  BY <1>1, <1>3, <1>5, <1>10

-----------------------------------------------------------------------------
(* Lines. *)

Text == Seq(Symbol)
Stats == {s \in [StatKey -> Nat] : \A k \in CounterKey : s[k] \in 0..(Word - 1)}

LEMMA LastRemoved ==
    ASSUME NEW s \in Text, NEW c
    PROVE  WithoutLast(s, c) \in Text
  BY DEF WithoutLast, Front, Text

\* What is in the statistics after a value has been stored.
LEMMA StatStored ==
    ASSUME NEW stats \in Stats, NEW k \in StatKey, NEW x \in Nat,
           k \in CounterKey => x \in 0..(Word - 1)
    PROVE  [stats EXCEPT ![k] = x] \in Stats
  BY DEF Stats, StatKey

\* A line leaves the statistics with counters within their word.
LEMMA LineParsed ==
    ASSUME NEW stats \in Stats, NEW line \in Text
    PROVE  parse_line(stats, line) \in Stats
<1> DEFINE text == WithoutLast(line, "CR")
           eqs == {i \in DOMAIN text : text[i] = "="}
           eq == Min(eqs)
           key == SubSeq(text, 1, eq - 1)
           value == SubSeq(text, eq + 1, Len(text))
           number == IF key = <<"speed">> THEN WithoutLast(value, "x") ELSE value
           known == eqs # {} /\ Len(key) = 1 /\ key[1] \in StatKey
           k == key[1]
<1>1. parse_line(stats, line) =
        IF ~known THEN stats
        ELSE IF k = "progress" THEN [stats EXCEPT !["progress"] = 1]
        ELSE IF ~IsNumber(number) THEN stats
        ELSE [stats EXCEPT ![k] = IF k \in CounterKey
                                  THEN parse_u64(number) ELSE parse_double(number)]
  BY DEF parse_line
<1>2. text \in Text
  BY LastRemoved
<1> HIDE DEF text
<1>3. ASSUME known PROVE number \in Text
  <2>1. eqs \in SUBSET Nat /\ eqs # {} /\ eqs \subseteq 1..Len(text)
    <3>1. DOMAIN text = 1..Len(text) /\ Len(text) \in Nat
      BY <1>2 DEF Text
    <3>2. eqs \subseteq 1..Len(text) /\ 1..Len(text) \subseteq Nat
      BY <3>1
    <3> HIDE DEF eqs
    <3> QED
      BY <1>3, <3>2
  <2>2. eq \in eqs
    <3> HIDE DEF eqs
    <3>1. \E x \in eqs : \A y \in eqs : x <= y
      BY <2>1, LeastNatural
    <3> QED
      BY <3>1 DEF Min
  <2>3. eq \in 1..Len(text)
    BY <2>1, <2>2
  <2> HIDE DEF eq
  <2>4. value \in Text
    BY <1>2, <2>3 DEF Text
  <2> HIDE DEF value
  <2> QED
    BY <2>4, LastRemoved
<1>4. ASSUME known, IsNumber(number)
      PROVE  parse_u64(number) \in 0..(Word - 1) /\ parse_double(number) \in Nat
  <2>1. number \in Text
    BY <1>3, <1>4
  <2> HIDE DEF number
  <2>2. number \in Seq(Digit)
    BY <1>4, <2>1 DEF Text, IsNumber, Digit
  <2> QED
    BY <2>2, CounterInWord, GaugeIsNumber
<1>5. CASE ~known
  BY <1>1, <1>5
<1>6. CASE known /\ k = "progress"
  <2>1. "progress" \in StatKey /\ "progress" \notin CounterKey
    BY DEF StatKey, CounterKey
  <2>2. [stats EXCEPT !["progress"] = 1] \in Stats
    BY <2>1, StatStored
  <2> QED
    BY <1>1, <1>6, <2>2
<1>7. CASE known /\ k # "progress" /\ ~IsNumber(number)
  BY <1>1, <1>7
<1>8. CASE known /\ k # "progress" /\ IsNumber(number)
  <2> DEFINE x == IF k \in CounterKey THEN parse_u64(number) ELSE parse_double(number)
  <2>1. parse_u64(number) \in 0..(Word - 1) /\ parse_double(number) \in Nat
    BY <1>4, <1>8
  <2>2. k \in StatKey
    BY <1>8
  <2>3. parse_line(stats, line) = [stats EXCEPT ![k] = x]
    BY <1>1, <1>8
  <2> HIDE DEF k, number
  <2>4. x \in Nat /\ (k \in CounterKey => x \in 0..(Word - 1))
    BY <2>1, ParserAssumption
  <2> HIDE DEF x
  <2> QED
    BY <2>2, <2>3, <2>4, StatStored
<1> QED
  BY <1>5, <1>6, <1>7, <1>8

\* Where the line of position i begins: behind the last line end before it.
LEMMA StartsBehindLineEnd ==
    ASSUME NEW text \in Text, NEW i \in 1..(Len(text) + 1)
    PROVE  /\ LineStart(text, i) \in 1..i
           /\ \A j \in LineStart(text, i)..(i - 1) : text[j] # "LF"
           /\ i = 1 => LineStart(text, i) = 1
           /\ i > 1 => LineStart(text, i) =
                         IF text[i - 1] = "LF" THEN i ELSE LineStart(text, i - 1)
<1> DEFINE Ends(k) == {0} \cup {j \in 1..(k - 1) : text[j] = "LF"}
<1>1. ASSUME NEW k \in 1..(Len(text) + 1)
      PROVE  Max(Ends(k)) \in Ends(k) /\ \A y \in Ends(k) : Max(Ends(k)) >= y
  <2> DEFINE E == Ends(k)
             Above == {b \in Nat : \A y \in E : b >= y}
  <2>0. Len(text) \in Nat /\ k \in Nat
    BY DEF Text
  <2>1. E \subseteq 0..(k - 1) /\ 0 \in E
    BY <2>0
  <2> HIDE DEF E
  <2>2. k - 1 \in Above
    BY <2>0, <2>1
  <2>3. PICK b \in Above : \A c \in Above : b <= c
    <3>1. Above \in SUBSET Nat /\ Above # {}
      BY <2>2
    <3> HIDE DEF Above
    <3> QED
      BY <3>1, LeastNatural
  <2>4. b \in E
    <3> SUFFICES ASSUME b \notin E PROVE FALSE
      OBVIOUS
    <3>1. b # 0 /\ b - 1 \in Nat
      BY <2>1
    <3>2. \A y \in E : y \in Nat /\ b >= y /\ b # y
      BY <2>0, <2>1
    <3>3. b - 1 \in Above
      BY <3>1, <3>2
    <3> QED
      BY <2>3, <3>3
  <2>5. \E x \in E : \A y \in E : x >= y
    BY <2>4
  <2>6. Max(E) \in E /\ \A y \in E : Max(E) >= y
    BY <2>5 DEF Max
  <2> QED
    BY <2>6 DEF E
<1>2. \A k : LineStart(text, k) = Max(Ends(k)) + 1
  BY DEF LineStart
<1>3. Len(text) \in Nat /\ i \in Nat
  BY DEF Text
<1>4. LineStart(text, i) \in 1..i
  <2>1. Ends(i) \subseteq 0..(i - 1)
    BY <1>3
  <2>2. Max(Ends(i)) \in Ends(i)
    BY <1>1
  <2> HIDE DEF Ends
  <2>3. Max(Ends(i)) \in 0..(i - 1)
    BY <2>1, <2>2
  <2> QED
    BY <1>2, <1>3, <2>3
<1>5. ASSUME NEW j \in LineStart(text, i)..(i - 1) PROVE text[j] # "LF"
  <2>0. LineStart(text, i) = Max(Ends(i)) + 1 /\ Max(Ends(i)) \in Ends(i)
    BY <1>1, <1>2
  <2>3. Max(Ends(i)) \in Nat
    BY <1>3, <2>0
  <2>1. Max(Ends(i)) \in Nat /\ j > Max(Ends(i)) /\ j \in 1..(i - 1)
    <3> HIDE DEF Ends
    <3> QED
      BY <1>3, <1>5, <2>0, <2>3
  <2>2. j \notin Ends(i)
    BY <1>1, <2>1
  <2> QED
    BY <2>1, <2>2
<1>6. ASSUME i > 1
      PROVE  LineStart(text, i) = IF text[i - 1] = "LF" THEN i ELSE LineStart(text, i - 1)
  <2>0. i - 1 \in 1..(Len(text) + 1) /\ i - 1 \in 1..(i - 1)
    BY <1>3, <1>6
  <2>1. CASE text[i - 1] = "LF"
    <3>1. i - 1 \in Ends(i)
      BY <2>0, <2>1
    <3>2. Max(Ends(i)) >= i - 1 /\ Max(Ends(i)) \in 0..(i - 1)
      BY <1>1, <1>3, <3>1
    <3> QED
      BY <1>2, <1>3, <2>1, <3>2
  <2>2. CASE text[i - 1] # "LF"
    <3>1. Ends(i) = Ends(i - 1)
      <4>1. \A j \in 1..(i - 1) : j \in 1..((i - 1) - 1) \/ j = i - 1
        BY <1>3
      <4>2. 1..((i - 1) - 1) \subseteq 1..(i - 1)
        BY <1>3
      <4> QED
        BY <2>2, <4>1, <4>2
    <3> HIDE DEF Ends
    <3> QED
      BY <1>2, <2>2, <3>1
  <2> QED
    BY <2>1, <2>2
<1> QED
  BY <1>3, <1>4, <1>5, <1>6

-----------------------------------------------------------------------------
(* Scanning a text. *)

Scanning == [line : Text, stats : Stats]

\* One symbol of the reference.
Scanned(c, st) ==
    IF c = "LF" THEN [line |-> <<>>, stats |-> parse_line(st.stats, st.line)]
    ELSE [st EXCEPT !.line = Append(@, c)]

Scans(g, start, text) ==
    /\ g \in [0..Len(text) -> Scanning] /\ g[0] = start
    /\ \A i \in 1..Len(text) : g[i] = Scanned(text[i], g[i - 1])

\* The same on the two parts of a scan.
LEMMA ScannedPair ==
    ASSUME NEW c, NEW l, NEW st
    PROVE  /\ Scanned("LF", [line |-> l, stats |-> st]) =
                [line |-> <<>>, stats |-> parse_line(st, l)]
           /\ c # "LF" => Scanned(c, [line |-> l, stats |-> st]) =
                            [line |-> Append(l, c), stats |-> st]
<1> DEFINE p == [line |-> l, stats |-> st]
<1>1. p.line = l /\ p.stats = st
  OBVIOUS
<1>2. [p EXCEPT !.line = Append(@, c)] = [line |-> Append(l, c), stats |-> st]
  OBVIOUS
<1>3. Scanned("LF", p) = [line |-> <<>>, stats |-> parse_line(p.stats, p.line)]
  BY DEF Scanned
<1>4. c # "LF" => Scanned(c, p) = [p EXCEPT !.line = Append(@, c)]
  BY DEF Scanned
<1> HIDE DEF p
<1>5. Scanned("LF", p) = [line |-> <<>>, stats |-> parse_line(st, l)]
  BY <1>1, <1>3
<1> QED
  BY <1>2, <1>4, <1>5 DEF p

LEMMA SymbolScanned ==
    ASSUME NEW c \in Symbol, NEW st \in Scanning
    PROVE  Scanned(c, st) \in Scanning
<1>1. parse_line(st.stats, st.line) \in Stats
  BY LineParsed DEF Scanning
<1>2. Append(st.line, c) \in Text /\ <<>> \in Text
  BY DEF Scanning, Text
<1> QED
  BY <1>1, <1>2 DEF Scanned, Scanning

\* Scan computes what its symbols lead to.
LEMMA ScanComputes ==
    ASSUME NEW stats \in Stats, NEW text \in Text
    PROVE  \E g : /\ Scans(g, [line |-> <<>>, stats |-> stats], text)
                  /\ Scan(stats, text) = g[Len(text)]
<1> DEFINE n == Len(text)
           a == [line |-> <<>>, stats |-> stats]
           F == [p \in (1..n) \X Scanning |-> Scanned(text[p[1]], p[2])]
           P(g) == g = [i \in 0..n |->
                          IF i = 0 THEN a
                          ELSE IF text[i] = "LF"
                          THEN [line |-> <<>>,
                                stats |-> parse_line(g[i - 1].stats, g[i - 1].line)]
                          ELSE [g[i - 1] EXCEPT !.line = Append(@, text[i])]]
           Q(g) == g = [i \in 0..n |-> IF i = 0 THEN a ELSE Scanned(text[i], g[i - 1])]
           x == CHOOSE g : P(g)
<1>1. n \in Nat /\ a \in Scanning /\ \A i \in 1..n : text[i] \in Symbol
  BY DEF Scanning, Text
<1>2. Scan(stats, text) = x[n]
  BY DEF Scan
<1>3. \A g : P(g) <=> Q(g)
  BY DEF Scanned
<1> HIDE DEF P, a
<1>4. /\ F \in [(1..n) \X Scanning -> Scanning]
      /\ \A i \in 1..n, y \in Scanning : F[<<i, y>>] = Scanned(text[i], y)
  BY <1>1, SymbolScanned
<1> HIDE DEF F
<1>5. PICK g \in [0..n -> Scanning] : Iterates(g, n, a, F)
  BY <1>1, <1>4, IterationExists
<1>6. g[0] = a /\ \A i \in 1..n : g[i] = Scanned(text[i], g[i - 1])
  <2>1. g[0] = a
    BY <1>5 DEF Iterates
  <2>2. ASSUME NEW i \in 1..n PROVE g[i] = Scanned(text[i], g[i - 1])
    <3>1. i - 1 \in 0..n
      BY <1>1
    <3>2. g[i - 1] \in Scanning
      BY <1>5, <3>1
    <3>3. g[i] = F[<<i, g[i - 1]>>]
      BY <1>5 DEF Iterates
    <3> HIDE DEF n
    <3> QED
      BY <1>4, <3>2, <3>3
  <2> QED
    BY <2>1, <2>2
<1>7. Q(g)
  BY <1>1, <1>5, <1>6
<1>8. P(x)
  <2>1. P(g)
    BY <1>3, <1>7
  <2> QED
    BY <2>1
<1> HIDE DEF x
<1>9. x[0] = a /\ \A i \in 1..n : x[i] = Scanned(text[i], x[i - 1])
  <2>1. Q(x)
    BY <1>3, <1>8
  <2> QED
    BY <1>1, <2>1
<1>10. \A k \in 0..n : x[k] = g[k]
  <2>1. Alike(x, g, n)
    BY <1>6, <1>9 DEF Alike
  <2> HIDE DEF n
  <2> QED
    BY <1>1, <2>1, SameAllAlong
<1>11. Scans(g, a, text)
  BY <1>5, <1>6 DEF Scans
<1>12. Scan(stats, text) = g[n]
  BY <1>1, <1>2, <1>10
<1> QED
  BY <1>11, <1>12 DEF a

\* So does ParseLines compute what its lines lead to.
LEMMA LinesCompute ==
    ASSUME NEW stats \in Stats, NEW text \in Text
    PROVE  \E f \in [0..Len(text) -> Stats] :
             /\ f[0] = stats /\ ParseLines(stats, text) = f[Len(text)]
             /\ \A i \in 1..Len(text) :
                  f[i] = IF text[i] = "LF"
                         THEN parse_line(f[i - 1], SubSeq(text, LineStart(text, i), i - 1))
                         ELSE f[i - 1]
<1> DEFINE n == Len(text)
           Line(i) == SubSeq(text, LineStart(text, i), i - 1)
           After(i, y) == IF text[i] = "LF" THEN parse_line(y, Line(i)) ELSE y
           F == [p \in (1..n) \X Stats |-> After(p[1], p[2])]
           P(g) == g = [i \in 0..n |->
                          IF i = 0 THEN stats
                          ELSE IF text[i] = "LF" THEN parse_line(g[i - 1], Line(i))
                          ELSE g[i - 1]]
           Q(g) == g = [i \in 0..n |-> IF i = 0 THEN stats ELSE After(i, g[i - 1])]
           x == CHOOSE g : P(g)
<1>1. n \in Nat
  BY DEF Text
<1>2. ParseLines(stats, text) = x[n]
  BY DEF ParseLines
<1>3. \A g : P(g) <=> Q(g)
  OBVIOUS
<1>4. \A i \in 1..n, y \in Stats : After(i, y) \in Stats
  <2> TAKE i \in 1..n, y \in Stats
  <2>1. LineStart(text, i) \in 1..i
    BY <1>1, StartsBehindLineEnd
  <2>2. Line(i) \in Text
    BY <1>1, <2>1 DEF Text
  <2> HIDE DEF Line
  <2> QED
    BY <2>2, LineParsed
<1> HIDE DEF P
<1>5. \A i, y : After(i, y) = IF text[i] = "LF"
                  THEN parse_line(y, SubSeq(text, LineStart(text, i), i - 1)) ELSE y
  OBVIOUS
<1> HIDE DEF After
<1>6. /\ F \in [(1..n) \X Stats -> Stats]
      /\ \A i \in 1..n, y \in Stats : F[<<i, y>>] = After(i, y)
  BY <1>4
<1> HIDE DEF F
<1>7. PICK g \in [0..n -> Stats] : Iterates(g, n, stats, F)
  BY <1>1, <1>6, IterationExists
<1>8. g[0] = stats /\ \A i \in 1..n : g[i] = After(i, g[i - 1])
  <2>1. g[0] = stats
    BY <1>7 DEF Iterates
  <2>2. ASSUME NEW i \in 1..n PROVE g[i] = After(i, g[i - 1])
    <3>1. i - 1 \in 0..n
      BY <1>1
    <3>2. g[i - 1] \in Stats
      BY <1>7, <3>1
    <3>3. g[i] = F[<<i, g[i - 1]>>]
      BY <1>7 DEF Iterates
    <3> HIDE DEF n
    <3> QED
      BY <1>6, <3>2, <3>3
  <2> QED
    BY <2>1, <2>2
<1>9. Q(g)
  BY <1>1, <1>7, <1>8
<1>10. P(x)
  <2>1. P(g)
    BY <1>3, <1>9
  <2> QED
    BY <2>1
<1> HIDE DEF x
<1>11. x[0] = stats /\ \A i \in 1..n : x[i] = After(i, x[i - 1])
  <2>1. Q(x)
    BY <1>3, <1>10
  <2> QED
    BY <1>1, <2>1
<1>12. \A k \in 0..n : x[k] = g[k]
  <2>1. Alike(x, g, n)
    BY <1>8, <1>11 DEF Alike
  <2> HIDE DEF n
  <2> QED
    BY <1>1, <2>1, SameAllAlong
<1>13. ParseLines(stats, text) = g[n]
  BY <1>1, <1>2, <1>12
<1> QED
  BY <1>5, <1>7, <1>8, <1>13

\* A slice of a text grows by one symbol.
LEMMA SliceGrows ==
    ASSUME NEW text \in Text, NEW i \in 1..Len(text), NEW s \in 1..i
    PROVE  SubSeq(text, s, i) = Append(SubSeq(text, s, i - 1), text[i])
<1> DEFINE u == SubSeq(text, s, i)
           v == SubSeq(text, s, i - 1)
           w == Append(v, text[i])
<1>0. Len(text) \in Nat /\ text \in Seq(Symbol)
  BY DEF Text
<1>1. /\ u \in Seq(Symbol) /\ Len(u) = (i - s) + 1
      /\ \A k \in 1..((i - s) + 1) : u[k] = text[(s + k) - 1]
  BY <1>0
<1>2. /\ v \in Seq(Symbol) /\ Len(v) = i - s
      /\ \A k \in 1..(i - s) : v[k] = text[(s + k) - 1]
  BY <1>0
<1> HIDE DEF u, v
<1>3. w \in Seq(Symbol) /\ Len(w) = (i - s) + 1 /\ w[(i - s) + 1] = text[i]
      /\ \A k \in 1..(i - s) : w[k] = v[k]
  BY <1>0, <1>2
<1>4. \A k \in 1..((i - s) + 1) : w[k] = u[k]
  <2> TAKE k \in 1..((i - s) + 1)
  <2>1. CASE k \in 1..(i - s)
    BY <1>1, <1>2, <1>3, <2>1
  <2>2. CASE k = (i - s) + 1
    <3>1. (s + k) - 1 = i
      BY <2>2
    <3> QED
      BY <1>1, <1>3, <2>2, <3>1
  <2>3. i \in Nat /\ s \in Nat /\ s <= i
    BY <1>0
  <2>4. k \in 1..(i - s) \/ k = (i - s) + 1
    BY <2>3
  <2> QED
    BY <2>1, <2>2, <2>4
<1> HIDE DEF w
<1>5. w = u
  BY <1>1, <1>3, <1>4
<1> QED
  BY <1>5 DEF w, u, v

\* What feed does with buffer and chunk is what the reference does with them:
\* the lines are the same, and so is what is left of the last one.
LEMMA FeedScans ==
    ASSUME NEW stats \in Stats, NEW text \in Text
    PROVE  Scan(stats, text) = [line |-> Rest(text), stats |-> ParseLines(stats, text)]
<1> DEFINE n == Len(text)
           Start(i) == LineStart(text, i)
<1>0. n \in Nat /\ text \in Seq(Symbol)
  BY DEF Text
<1>1. PICK g : /\ Scans(g, [line |-> <<>>, stats |-> stats], text)
               /\ Scan(stats, text) = g[n]
  BY ScanComputes
<1>2. PICK f \in [0..n -> Stats] :
        /\ f[0] = stats /\ ParseLines(stats, text) = f[n]
        /\ \A i \in 1..n : f[i] = IF text[i] = "LF"
                                  THEN parse_line(f[i - 1], SubSeq(text, Start(i), i - 1))
                                  ELSE f[i - 1]
  BY LinesCompute
<1> DEFINE h == [i \in 0..n |-> [line |-> SubSeq(text, Start(i + 1), i), stats |-> f[i]]]
<1>3. g[0] = h[0]
  <2>1. Start(1) = 1
    BY <1>0, StartsBehindLineEnd
  <2>2. SubSeq(text, 1, 0) = <<>>
    BY <1>0
  <2>3. h[0] = [line |-> SubSeq(text, Start(0 + 1), 0), stats |-> f[0]]
    BY <1>0
  <2>4. 0 + 1 = 1
    OBVIOUS
  <2> QED
    BY <1>1, <1>2, <2>1, <2>2, <2>3, <2>4 DEF Scans
<1>4. ASSUME NEW i \in 1..n, g[i - 1] = h[i - 1] PROVE g[i] = h[i]
  <2>0. i - 1 \in 0..n /\ i \in 0..n /\ (i - 1) + 1 = i /\ i + 1 \in 1..(n + 1)
        /\ (i + 1) - 1 = i /\ i \in 1..(n + 1) /\ i + 1 > 1
    BY <1>0
  <2>1. h[i - 1] = [line |-> SubSeq(text, Start(i), i - 1), stats |-> f[i - 1]]
    BY <2>0
  <2>2. h[i] = [line |-> SubSeq(text, Start(i + 1), i), stats |-> f[i]]
    BY <2>0
  <2>3. g[i] = Scanned(text[i], h[i - 1])
    BY <1>1, <1>4 DEF Scans
  <2>4. /\ Start(i) \in 1..i
        /\ Start(i + 1) = IF text[i] = "LF" THEN i + 1 ELSE Start(i)
    BY <2>0, StartsBehindLineEnd
  <2>5. CASE text[i] = "LF"
    <3>1. SubSeq(text, Start(i + 1), i) = <<>>
      <4>1. Start(i + 1) = i + 1
        BY <2>4, <2>5
      <4>2. SubSeq(text, i + 1, i) = <<>>
        BY <1>0
      <4> QED
        BY <4>1, <4>2
    <3>2. f[i] = parse_line(f[i - 1], SubSeq(text, Start(i), i - 1))
      BY <1>2, <2>5
    <3>3. g[i] = Scanned("LF", [line |-> SubSeq(text, Start(i), i - 1),
                                stats |-> f[i - 1]])
      BY <2>1, <2>3, <2>5
    <3>4. g[i] = [line |-> <<>>,
                  stats |-> parse_line(f[i - 1], SubSeq(text, Start(i), i - 1))]
      BY <3>3, ScannedPair
    <3> HIDE DEF Start, h
    <3> QED
      BY <2>2, <3>1, <3>2, <3>4
  <2>6. CASE text[i] # "LF"
    <3>1. SubSeq(text, Start(i + 1), i) = Append(SubSeq(text, Start(i), i - 1), text[i])
      BY <2>4, <2>6, SliceGrows
    <3>2. f[i] = f[i - 1]
      BY <1>2, <2>6
    <3>3. g[i] = Scanned(text[i], [line |-> SubSeq(text, Start(i), i - 1),
                                   stats |-> f[i - 1]])
      BY <2>1, <2>3
    <3>4. g[i] = [line |-> Append(SubSeq(text, Start(i), i - 1), text[i]),
                  stats |-> f[i - 1]]
      BY <2>6, <3>3, ScannedPair
    <3> HIDE DEF Start, h
    <3> QED
      BY <2>2, <3>1, <3>2, <3>4
  <2> QED
    BY <2>5, <2>6
<1>5. h[n] = [line |-> SubSeq(text, Start(n + 1), n), stats |-> f[n]]
  BY <1>0
<1> HIDE DEF h
<1>6. g[n] = h[n]
  <2>1. Alike(g, h, n)
    BY <1>3, <1>4 DEF Alike
  <2> HIDE DEF n
  <2>2. n \in 0..n
    BY <1>0
  <2> QED
    BY <1>0, <2>1, <2>2, SameAllAlong
<1> QED
  BY <1>1, <1>2, <1>5, <1>6 DEF Rest

\* A text continued is scanned like the chunk behind the line it left.
LEMMA ScanGoesOn ==
    ASSUME NEW base \in Stats, NEW s \in Text, NEW c \in Text,
           NEW b \in Text, \A i \in DOMAIN b : b[i] # "LF", NEW stats \in Stats,
           Scan(base, s) = [line |-> b, stats |-> stats]
    PROVE  Scan(base, s \o c) = Scan(stats, b \o c)
<1> DEFINE n == Len(s)
           m == Len(b)
           r == Len(c)
<1>0. /\ n \in Nat /\ m \in Nat /\ r \in Nat /\ DOMAIN b = 1..m
      /\ s \in Seq(Symbol) /\ b \in Seq(Symbol) /\ c \in Seq(Symbol)
  BY DEF Text
<1>1. /\ s \o c \in Text /\ Len(s \o c) = n + r
      /\ \A i \in 1..n : (s \o c)[i] = s[i]
      /\ \A i \in 1..r : (s \o c)[n + i] = c[i]
  BY <1>0 DEF Text
<1>2. /\ b \o c \in Text /\ Len(b \o c) = m + r
      /\ \A i \in 1..m : (b \o c)[i] = b[i]
      /\ \A i \in 1..r : (b \o c)[m + i] = c[i]
  BY <1>0 DEF Text
<1> DEFINE sc == s \o c
           bc == b \o c
<1> HIDE DEF sc, bc
<1>3. PICK g0 : /\ Scans(g0, [line |-> <<>>, stats |-> base], s)
                /\ Scan(base, s) = g0[n]
  BY ScanComputes
<1>4. PICK g1 : /\ Scans(g1, [line |-> <<>>, stats |-> base], sc)
                /\ Scan(base, sc) = g1[n + r]
  <2>1. sc \in Text /\ Len(sc) = n + r
    BY <1>1 DEF sc
  <2>2. PICK g : /\ Scans(g, [line |-> <<>>, stats |-> base], sc)
                 /\ Scan(base, sc) = g[Len(sc)]
    BY <2>1, ScanComputes
  <2> HIDE DEF n, m, r
  <2> QED
    BY <2>1, <2>2
<1>5. PICK g2 : /\ Scans(g2, [line |-> <<>>, stats |-> stats], bc)
                /\ Scan(stats, bc) = g2[m + r]
  <2>1. bc \in Text /\ Len(bc) = m + r
    BY <1>2 DEF bc
  <2>2. PICK g : /\ Scans(g, [line |-> <<>>, stats |-> stats], bc)
                 /\ Scan(stats, bc) = g[Len(bc)]
    BY <2>1, ScanComputes
  <2> HIDE DEF n, m, r
  <2> QED
    BY <2>1, <2>2
<1>6. g1[n] = [line |-> b, stats |-> stats]
  <2>1. g1[0] = g0[0]
    BY <1>3, <1>4 DEF Scans
  <2>2. ASSUME NEW k \in 1..n, g1[k - 1] = g0[k - 1] PROVE g1[k] = g0[k]
    <3>1. k \in 1..(n + r)
      BY <1>0
    <3>2. g1[k] = Scanned(sc[k], g1[k - 1]) /\ sc[k] = s[k]
      BY <1>1, <1>4, <3>1 DEF Scans, sc
    <3>3. g0[k] = Scanned(s[k], g0[k - 1])
      BY <1>3 DEF Scans
    <3> QED
      BY <2>2, <3>2, <3>3
  <2>3. Alike(g1, g0, n)
    BY <2>1, <2>2 DEF Alike
  <2> HIDE DEF n
  <2>4. n \in 0..n
    BY <1>0
  <2>5. g1[n] = g0[n]
    BY <1>0, <2>3, <2>4, SameAllAlong
  <2> QED
    BY <1>3, <2>5
<1>7. g2[m] = [line |-> b, stats |-> stats]
  <2> DEFINE h == [k \in 0..m |-> [line |-> SubSeq(b, 1, k), stats |-> stats]]
  <2>1. g2[0] = h[0]
    <3>1. SubSeq(b, 1, 0) = <<>>
      BY <1>0
    <3>2. h[0] = [line |-> SubSeq(b, 1, 0), stats |-> stats]
      BY <1>0
    <3> QED
      BY <1>5, <3>1, <3>2 DEF Scans
  <2>2. ASSUME NEW k \in 1..m, g2[k - 1] = h[k - 1] PROVE g2[k] = h[k]
    <3>1. k \in 1..(m + r) /\ k \in 0..m /\ k - 1 \in 0..m /\ 1 \in 1..k
      BY <1>0
    <3>2. g2[k] = Scanned(b[k], h[k - 1])
      BY <1>2, <1>5, <2>2, <3>1 DEF Scans, bc
    <3>3. /\ h[k - 1] = [line |-> SubSeq(b, 1, k - 1), stats |-> stats]
          /\ h[k] = [line |-> SubSeq(b, 1, k), stats |-> stats]
      BY <3>1
    <3>4. SubSeq(b, 1, k) = Append(SubSeq(b, 1, k - 1), b[k])
      BY <3>1, SliceGrows
    <3>5. b[k] # "LF"
      BY <1>0
    <3>6. g2[k] = Scanned(b[k], [line |-> SubSeq(b, 1, k - 1), stats |-> stats])
      BY <3>2, <3>3
    <3>7. g2[k] = [line |-> Append(SubSeq(b, 1, k - 1), b[k]), stats |-> stats]
      BY <3>5, <3>6, ScannedPair
    <3> HIDE DEF h
    <3> QED
      BY <3>3, <3>4, <3>7
  <2>3. h[m] = [line |-> SubSeq(b, 1, m), stats |-> stats]
    BY <1>0
  <2> HIDE DEF h
  <2>4. Alike(g2, h, m)
    BY <2>1, <2>2 DEF Alike
  <2>5. SubSeq(b, 1, m) = b
    BY <1>0
  <2> HIDE DEF m
  <2>6. m \in 0..m
    BY <1>0
  <2>7. g2[m] = h[m]
    BY <1>0, <2>4, <2>6, SameAllAlong
  <2> QED
    BY <2>3, <2>5, <2>7
<1>8. g1[n + r] = g2[m + r]
  <2> DEFINE x == [k \in 0..r |-> g1[n + k]]
             y == [k \in 0..r |-> g2[m + k]]
  <2>1. x[0] = y[0]
    <3>1. x[0] = g1[n + 0] /\ y[0] = g2[m + 0] /\ n + 0 = n /\ m + 0 = m
      BY <1>0
    <3> QED
      BY <1>6, <1>7, <3>1
  <2>2. ASSUME NEW k \in 1..r, x[k - 1] = y[k - 1] PROVE x[k] = y[k]
    <3>1. /\ k \in 0..r /\ k - 1 \in 0..r /\ n + k \in 1..(n + r) /\ m + k \in 1..(m + r)
          /\ (n + k) - 1 = n + (k - 1) /\ (m + k) - 1 = m + (k - 1)
      BY <1>0
    <3>2. /\ x[k] = g1[n + k] /\ x[k - 1] = g1[n + (k - 1)]
          /\ y[k] = g2[m + k] /\ y[k - 1] = g2[m + (k - 1)]
      BY <3>1
    <3>3. g1[n + k] = Scanned(c[k], g1[n + (k - 1)])
      BY <1>1, <1>4, <3>1 DEF Scans, sc
    <3>4. g2[m + k] = Scanned(c[k], g2[m + (k - 1)])
      BY <1>2, <1>5, <3>1 DEF Scans, bc
    <3> HIDE DEF x, y
    <3> QED
      BY <2>2, <3>2, <3>3, <3>4
  <2>3. x[r] = g1[n + r] /\ y[r] = g2[m + r]
    BY <1>0
  <2> HIDE DEF x, y
  <2>4. Alike(x, y, r)
    BY <2>1, <2>2 DEF Alike
  <2> HIDE DEF r
  <2>5. r \in 0..r
    BY <1>0
  <2>6. x[r] = y[r]
    BY <1>0, <2>4, <2>5, SameAllAlong
  <2> QED
    BY <2>3, <2>6
<1> QED
  BY <1>4, <1>5, <1>8 DEF sc, bc


-----------------------------------------------------------------------------
(* The inductive invariant. *)

Connection == [data : Text, unsent : Text, gone : BOOLEAN]

\* The parser holds what scanning the text it was fed leaves, if none of its
\* lines was too long, and in any case no more than the cap.
Follows(p, t) ==
    /\ p \in [buffer : Text, stats : Stats] /\ t \in Text
    /\ Len(p.buffer) <= MaxBufferedLine
    /\ \A i \in DOMAIN p.buffer : p.buffer[i] # "LF"
    /\ ShortLines(t) => Scan(ZeroStats, t) = [line |-> p.buffer, stats |-> p.stats]

HttpInv ==
    /\ http_at \in {"top", "polling", "reading", "writing", "done"}
    /\ peer \in {"none", "silent", "asked", "garbage", "gone"}
    /\ backlog \in 0..MaxBacklog /\ http_stop \in BOOLEAN

ThreadInv ==
    /\ at \in {"top", "listening", "serving", "reading", "closing", "done"}
    /\ main \in {"running", "stopping", "joining_progress", "joining_http", "exited"}
    /\ prog_stop \in BOOLEAN /\ stop \in BOOLEAN /\ connected \in BOOLEAN

\* A connection is served only while there is one.
ConnInv ==
    /\ conns \in Seq(Connection) /\ dialed \in 0..MaxConnections
    /\ Len(conns) <= dialed
    /\ at \in {"serving", "reading", "closing"} => conns # <<>>

ExporterInv == HttpInv /\ ThreadInv /\ ConnInv /\ Follows(parser, fed)

LEMMA ConstantTypes ==
    /\ Scripts \subseteq Text /\ ChunkSize \in Nat \ {0} /\ MaxConnections \in Nat
    /\ MaxBufferedLine \in Nat /\ Word \in Nat \ {0} /\ MaxBacklog \in Nat
  BY ExporterAssumption, ParserAssumption, BacklogAssumption DEF Text

\* Nothing scanned is nothing parsed.
LEMMA NothingScanned ==
    ASSUME NEW stats \in Stats
    PROVE  Scan(stats, <<>>) = [line |-> <<>>, stats |-> stats]
<1>1. <<>> \in Text /\ Len(<<>>) = 0
  BY DEF Text
<1>2. PICK g : /\ Scans(g, [line |-> <<>>, stats |-> stats], <<>>)
               /\ Scan(stats, <<>>) = g[Len(<<>>)]
  BY <1>1, ScanComputes
<1> QED
  BY <1>1, <1>2 DEF Scans

\* The rest of a text is shorter and holds no line end.
LEMMA RestOfText ==
    ASSUME NEW text \in Text
    PROVE  /\ Rest(text) \in Text /\ Len(Rest(text)) <= Len(text)
           /\ Len(Rest(text)) = (Len(text) + 1) - LineStart(text, Len(text) + 1)
           /\ \A i \in DOMAIN Rest(text) : Rest(text)[i] # "LF"
<1> DEFINE n == Len(text)
           a == LineStart(text, n + 1)
           r == SubSeq(text, a, n)
<1>1. n \in Nat /\ text \in Seq(Symbol)
  BY DEF Text
<1>2. n + 1 \in 1..(n + 1) /\ (n + 1) - 1 = n
  BY <1>1
<1>3. a \in 1..(n + 1) /\ \A j \in a..n : text[j] # "LF"
  BY <1>2, StartsBehindLineEnd
<1> HIDE DEF a
<1>4. /\ r \in Seq(Symbol) /\ Len(r) = (n - a) + 1
      /\ \A i \in 1..((n - a) + 1) : r[i] = text[(a + i) - 1]
  BY <1>1, <1>3
<1>5. DOMAIN r = 1..((n - a) + 1)
  BY <1>4
<1>6. \A i \in 1..((n - a) + 1) : (a + i) - 1 \in a..n
  BY <1>1, <1>3
<1>7. Len(r) <= n /\ Len(r) = (n + 1) - a
  BY <1>1, <1>3, <1>4
<1> HIDE DEF r
<1>8. \A i \in DOMAIN r : r[i] # "LF"
  BY <1>3, <1>4, <1>5, <1>6
<1>9. Rest(text) = r
  BY DEF Rest, r, a
<1> QED
  BY <1>4, <1>7, <1>8, <1>9 DEF Text, a

LEMMA StatsParsed ==
    ASSUME NEW stats \in Stats, NEW text \in Text
    PROVE  ParseLines(stats, text) \in Stats
<1>1. PICK f \in [0..Len(text) -> Stats] : ParseLines(stats, text) = f[Len(text)]
  BY LinesCompute
<1>2. Len(text) \in 0..Len(text)
  BY DEF Text
<1> QED
  BY <1>1, <1>2

LEMMA ZeroIsStats == ZeroStats \in Stats
  BY ConstantTypes DEF ZeroStats, Stats, StatKey, CounterKey, GaugeKey

\* Where a line begins does not depend on what follows.
LEMMA ShortSoFar ==
    ASSUME NEW t \in Text, NEW c \in Text, ShortLines(t \o c)
    PROVE  ShortLines(t)
<1> DEFINE whole == t \o c
<1>1. /\ t \in Seq(Symbol) /\ Len(t) \in Nat /\ Len(c) \in Nat
      /\ Len(whole) = Len(t) + Len(c)
      /\ \A j \in 1..Len(t) : whole[j] = t[j]
  BY DEF Text
<1> HIDE DEF whole
<1> SUFFICES ASSUME NEW n \in 1..(Len(t) + 1) PROVE Short(t, n)
  BY DEF ShortLines
<1>2. Short(whole, n)
  BY <1>1 DEF ShortLines, whole
<1>3. {j \in 1..(n - 1) : whole[j] = "LF"} = {j \in 1..(n - 1) : t[j] = "LF"}
  BY <1>1
<1>4. LineStart(whole, n) = LineStart(t, n)
  BY <1>3 DEF LineStart
<1> QED
  BY <1>2, <1>4 DEF Short

\* A text of short lines leaves room in the buffer for one more chunk.
LEMMA RoomForChunk ==
    ASSUME NEW p, NEW t, Follows(p, t), ShortLines(t),
           NEW chunk \in Text, Len(chunk) <= ChunkSize
    PROVE  ~Overflows(p, chunk)
<1>1. /\ p.buffer \in Text /\ t \in Text
      /\ Scan(ZeroStats, t) = [line |-> p.buffer, stats |-> p.stats]
  BY DEF Follows
<1>2. Scan(ZeroStats, t) = [line |-> Rest(t), stats |-> ParseLines(ZeroStats, t)]
  BY <1>1, ZeroIsStats, FeedScans
<1>3. p.buffer = Rest(t)
  <2>1. [line |-> p.buffer, stats |-> p.stats].line = p.buffer
    OBVIOUS
  <2>2. [line |-> Rest(t), stats |-> ParseLines(ZeroStats, t)].line = Rest(t)
    OBVIOUS
  <2> QED
    BY <1>1, <1>2, <2>1, <2>2
<1> DEFINE a == LineStart(t, Len(t) + 1)
<1>4. Len(t) \in Nat /\ Len(chunk) \in Nat /\ Len(p.buffer) \in Nat
  BY <1>1 DEF Text
<1>5. Len(t) + 1 \in 1..(Len(t) + 1)
  BY <1>4
<1>6. a \in 1..(Len(t) + 1)
  BY <1>1, <1>5, StartsBehindLineEnd
<1>7. Len(p.buffer) = (Len(t) + 1) - a
  BY <1>1, <1>3, RestOfText
<1>8. ((Len(t) + 1) - a) + ChunkSize <= MaxBufferedLine
  BY <1>5 DEF ShortLines, Short
<1>9. Len(p.buffer \o chunk) = Len(p.buffer) + Len(chunk)
  BY <1>1 DEF Text
<1> HIDE DEF a
<1> QED
  BY <1>4, <1>6, <1>7, <1>8, <1>9, ConstantTypes DEF Overflows

\* One chunk fed: the buffer stays within its cap, and buffer and statistics
\* follow the longer text while its lines are short.
LEMMA FeedFollows ==
    ASSUME NEW p, NEW t, Follows(p, t), NEW chunk \in Text, Len(chunk) <= ChunkSize
    PROVE  Follows(feed(p, chunk), t \o chunk)
<1> DEFINE text == p.buffer \o chunk
           whole == t \o chunk
<1>1. /\ p \in [buffer : Text, stats : Stats] /\ t \in Text
      /\ p.buffer \in Text /\ p.stats \in Stats
  BY DEF Follows
<1>2. text \in Text /\ whole \in Text /\ <<>> \in Text
  BY <1>1 DEF Text
<1>3. CASE Overflows(p, chunk)
  <2> DEFINE q == [p EXCEPT !.buffer = <<>>]
  <2>1. feed(p, chunk) = q
    BY <1>3 DEF feed
  <2>2. q \in [buffer : Text, stats : Stats] /\ q.buffer = <<>>
    BY <1>1, <1>2
  <2>3. ~ShortLines(whole)
    BY <1>1, <1>3, ShortSoFar, RoomForChunk
  <2>4. Len(<<>>) <= MaxBufferedLine /\ DOMAIN <<>> = {}
    BY ConstantTypes
  <2> HIDE DEF q, whole
  <2>5. Follows(q, whole)
    BY <1>2, <2>2, <2>3, <2>4 DEF Follows
  <2> QED
    BY <2>1, <2>5 DEF whole
<1>4. CASE ~Overflows(p, chunk)
  <2> DEFINE q == [buffer |-> Rest(text), stats |-> ParseLines(p.stats, text)]
  <2>1. feed(p, chunk) = q
    BY <1>4 DEF feed
  <2>2. Rest(text) \in Text /\ ParseLines(p.stats, text) \in Stats
    BY <1>1, <1>2, RestOfText, StatsParsed
  <2>3. /\ q \in [buffer : Text, stats : Stats] /\ q.buffer = Rest(text)
        /\ q.stats = ParseLines(p.stats, text)
    BY <2>2
  <2>4. Len(Rest(text)) <= MaxBufferedLine
    <3>1. Len(text) <= MaxBufferedLine
      BY <1>2, <1>4, ConstantTypes DEF Overflows, Text
    <3>2. Len(Rest(text)) <= Len(text)
      BY <1>2, RestOfText
    <3>3. Len(Rest(text)) \in Nat /\ Len(text) \in Nat
      BY <1>2, <2>2 DEF Text
    <3> HIDE DEF text
    <3> QED
      BY <3>1, <3>2, <3>3, ConstantTypes
  <2>5. \A i \in DOMAIN Rest(text) : Rest(text)[i] # "LF"
    BY <1>2, RestOfText
  <2>6. ASSUME ShortLines(whole)
        PROVE  Scan(ZeroStats, whole) =
                 [line |-> Rest(text), stats |-> ParseLines(p.stats, text)]
    <3>1. ShortLines(t)
      BY <1>1, <2>6, ShortSoFar
    <3>2. /\ Scan(ZeroStats, t) = [line |-> p.buffer, stats |-> p.stats]
          /\ \A i \in DOMAIN p.buffer : p.buffer[i] # "LF"
      BY <3>1 DEF Follows
    <3>3. Scan(ZeroStats, whole) = Scan(p.stats, text)
      BY <1>1, <3>2, ZeroIsStats, ScanGoesOn
    <3>4. Scan(p.stats, text) = [line |-> Rest(text), stats |-> ParseLines(p.stats, text)]
      BY <1>1, <1>2, FeedScans
    <3> QED
      BY <3>3, <3>4
  <2> HIDE DEF q, text, whole
  <2>7. Follows(q, whole)
    BY <1>2, <2>3, <2>4, <2>5, <2>6 DEF Follows
  <2> QED
    BY <2>1, <2>7 DEF whole
<1> QED
  BY <1>3, <1>4


-----------------------------------------------------------------------------
(* The steps. *)

LEMMA InitHolds == ExporterInit => ExporterInv
<1> SUFFICES ASSUME ExporterInit PROVE ExporterInv
  OBVIOUS
<1>1. ZeroStats \in Stats
  BY ZeroIsStats
<1>2. HttpInv
  <2>1. http_at = "top" /\ peer = "none" /\ backlog = 0 /\ http_stop = FALSE
    BY DEF ExporterInit, HttpInit
  <2>2. 0 \in 0..MaxBacklog
    BY ConstantTypes
  <2> QED
    BY <2>1, <2>2 DEF HttpInv
<1>3. ThreadInv
  BY DEF ExporterInit, ThreadInv
<1>4. ConnInv
  BY ConstantTypes DEF ExporterInit, ConnInv
<1>5. Follows(parser, fed)
  <2>1. parser = [buffer |-> <<>>, stats |-> ZeroStats] /\ fed = <<>>
    BY DEF ExporterInit
  <2>2. Scan(ZeroStats, <<>>) = [line |-> <<>>, stats |-> ZeroStats]
    BY <1>1, NothingScanned
  <2>3. /\ <<>> \in Text /\ Len(<<>>) <= MaxBufferedLine /\ DOMAIN <<>> = {}
    BY ConstantTypes DEF Text
  <2> QED
    BY <1>1, <2>1, <2>2, <2>3 DEF Follows
<1> QED
  BY <1>2, <1>3, <1>4, <1>5 DEF ExporterInv

\* The HTTP thread and its clients.
LEMMA HttpKeeps ==
    ASSUME ExporterInv, HttpSteps
    PROVE  ExporterInv'
<1>1. HttpInv'
  <2>1. CASE HttpRun
    BY <2>1, ConstantTypes
    DEF ExporterInv, HttpInv, HttpRun, HttpTop, HttpPoll, HttpRead, HttpWrite
  <2>2. CASE ClientConnects
    BY <2>2, ConstantTypes DEF ExporterInv, HttpInv, ClientConnects
  <2>3. CASE ClientActs
    BY <2>3 DEF ExporterInv, HttpInv, ClientActs
  <2> QED
    BY <2>1, <2>2, <2>3 DEF HttpSteps
<1>2. UNCHANGED <<prog, world, main, stop, history>>
  BY DEF HttpSteps
<1> QED
  BY <1>1, <1>2 DEF ExporterInv, ThreadInv, ConnInv, prog, world, history

\* A chunk read: the parser follows, the rest of the data stays.
LEMMA ReceiveKeeps ==
    ASSUME ExporterInv, Receive
    PROVE  ExporterInv'
<1> DEFINE conn == Head(conns)
           n == IF Len(conn.data) < ChunkSize THEN Len(conn.data) ELSE ChunkSize
           chunk == SubSeq(conn.data, 1, n)
<1>1. at = "reading" /\ conns \in Seq(Connection) /\ conns # <<>>
  BY DEF ExporterInv, ConnInv, Receive
<1>2. conn \in Connection /\ conn = conns[1] /\ 1 \in DOMAIN conns
  BY <1>1
<1>3. conn.data \in Seq(Symbol) /\ Len(conn.data) \in Nat
  BY <1>2 DEF Connection, Text
<1>4. n \in 0..Len(conn.data)
  BY <1>3, ConstantTypes
<1>5. chunk \in Text /\ SubSeq(conn.data, n + 1, Len(conn.data)) \in Text
  BY <1>3, <1>4 DEF Text
<1>6. /\ UNCHANGED <<http_vars, prog_stop, connected, dialed, main, stop>>
      /\ HttpInv /\ ThreadInv /\ ConnInv /\ Follows(parser, fed)
  BY DEF Receive, ExporterInv
<1>7. CASE n > 0
  <2>1. /\ at' = "serving" /\ parser' = feed(parser, chunk)
        /\ conns' = [conns EXCEPT ![1].data = SubSeq(@, n + 1, Len(@))]
        /\ fed' = fed \o chunk
    BY <1>7 DEF Receive
  <2>8. Len(chunk) <= ChunkSize
    BY <1>3, <1>4, ConstantTypes
  <2> HIDE DEF chunk
  <2>2. Follows(parser', fed')
    BY <1>5, <1>6, <2>1, <2>8, FeedFollows
  <2> DEFINE d == [conns[1] EXCEPT !.data = SubSeq(@, n + 1, Len(@))]
  <2>3. d \in Connection
    BY <1>2, <1>5 DEF Connection
  <2>4. conns' = [conns EXCEPT ![1] = d]
    BY <2>1
  <2> HIDE DEF d
  <2>5. conns' \in Seq(Connection) /\ Len(conns') = Len(conns) /\ conns' # <<>>
    BY <1>1, <1>2, <2>3, <2>4
  <2>6. ConnInv'
    BY <1>6, <2>5 DEF ConnInv
  <2>7. HttpInv' /\ ThreadInv'
    BY <1>6, <2>1 DEF HttpInv, ThreadInv, http_vars
  <2> QED
    BY <2>2, <2>6, <2>7 DEF ExporterInv
<1>8. CASE ~(n > 0)
  <2>1. /\ at' \in {"closing", "serving"}
        /\ UNCHANGED <<parser, conns, history>>
    BY <1>8 DEF Receive, AfterEof
  <2> QED
    BY <1>1, <1>6, <2>1
    DEF ExporterInv, HttpInv, ThreadInv, ConnInv, http_vars, history
<1> QED
  BY <1>7, <1>8

LEMMA ProgKeeps ==
    ASSUME ExporterInv, ProgRun
    PROVE  ExporterInv'
<1>1. CASE ProgTop
  BY <1>1 DEF ProgTop, ExporterInv, HttpInv, ThreadInv, ConnInv, http_vars, world, history
<1>2. CASE Accept
  <2>1. /\ UNCHANGED <<http_vars, prog_stop, parser, world, main, stop, fed>>
        /\ (conns # <<>> /\ at' = "serving" /\ connected' = TRUE)
             \/ (at' = "top" /\ connected' = connected)
    BY <1>2 DEF Accept
  <2>2. HttpInv' /\ Follows(parser, fed)'
    BY <2>1 DEF ExporterInv, HttpInv, http_vars
  <2>3. ThreadInv'
    BY <2>1 DEF ExporterInv, ThreadInv
  <2>4. ConnInv'
    BY <2>1 DEF ExporterInv, ConnInv, world
  <2> QED
    BY <2>2, <2>3, <2>4 DEF ExporterInv
<1>3. CASE Serve
  BY <1>3 DEF Serve, AfterLoopTest, ExporterInv, HttpInv, ThreadInv, ConnInv,
              http_vars, world, history
<1>4. CASE Receive
  BY <1>4, ReceiveKeeps
<1>5. CASE CloseConnection
  <2>1. conns \in Seq(Connection) /\ conns # <<>> /\ conns' = Tail(conns)
        /\ dialed' = dialed /\ dialed \in 0..MaxConnections /\ Len(conns) <= dialed
    BY <1>5 DEF CloseConnection, ExporterInv, ConnInv
  <2>2. conns' \in Seq(Connection) /\ Len(conns') <= dialed'
    <3>1. Tail(conns) \in Seq(Connection) /\ Len(Tail(conns)) = Len(conns) - 1
      BY <2>1
    <3>2. Len(conns) \in Nat
      BY <2>1
    <3> QED
      BY <2>1, <3>1, <3>2, ConstantTypes
  <2>3. ConnInv'
    BY <1>5, <2>1, <2>2 DEF CloseConnection, ConnInv
  <2>4. HttpInv' /\ ThreadInv' /\ Follows(parser, fed)'
    BY <1>5 DEF CloseConnection, ExporterInv, HttpInv, ThreadInv, http_vars, history
  <2> QED
    BY <2>3, <2>4 DEF ExporterInv
<1> QED
  BY <1>1, <1>2, <1>3, <1>4, <1>5 DEF ProgRun

LEMMA MainKeeps ==
    ASSUME ExporterInv, MainRun \/ Signal
    PROVE  ExporterInv'
<1>1. CASE StopProgress
  BY <1>1 DEF StopProgress, ExporterInv, HttpInv, ThreadInv, ConnInv, http_vars, world, history
<1>2. CASE StopHttp
  BY <1>2 DEF StopHttp, HttpServerStop, ExporterInv, HttpInv, ThreadInv, ConnInv,
              prog, world, history
<1>3. CASE JoinProgress
  BY <1>3 DEF JoinProgress, ExporterInv, HttpInv, ThreadInv, ConnInv, http_vars,
              prog, world, history
<1>4. CASE JoinHttp
  BY <1>4 DEF JoinHttp, ExporterInv, HttpInv, ThreadInv, ConnInv, http_vars,
              prog, world, history
<1>5. CASE Signal
  <2>1. /\ stop' = TRUE
        /\ UNCHANGED <<prog_stop, connected, parser, world, main, history>>
        /\ http_stop' = http_stop /\ backlog' = backlog
        /\ (http_at' = http_at /\ peer' = peer) \/ (http_at' = "top" /\ peer' = "none")
        /\ at' = at \/ (at = "listening" /\ at' = "top")
             \/ (at = "reading" /\ at' = "closing")
    BY <1>5 DEF Signal, http_vars
  <2>2. HttpInv'
    BY <2>1 DEF ExporterInv, HttpInv
  <2>3. ThreadInv'
    BY <2>1 DEF ExporterInv, ThreadInv
  <2>4. ConnInv' /\ Follows(parser, fed)'
    BY <2>1 DEF ExporterInv, ConnInv, world, history
  <2> QED
    BY <2>2, <2>3, <2>4 DEF ExporterInv
<1> QED
  BY <1>1, <1>2, <1>3, <1>4, <1>5 DEF MainRun

\* What a producer writes is what it had to write.
LEMMA ProducersKeep ==
    ASSUME ExporterInv,
           ProducerDials \/ \E i \in DOMAIN conns : ProducerWrites(i) \/ ProducerHangsUp(i)
    PROVE  ExporterInv'
<1>1. /\ UNCHANGED <<http_vars, prog, main, stop, history>>
  BY DEF ProducerDials, ProducerWrites, ProducerHangsUp
<1>2. HttpInv' /\ ThreadInv' /\ Follows(parser, fed)'
  BY <1>1 DEF ExporterInv, HttpInv, ThreadInv, http_vars, prog, history
<1>3. /\ conns \in Seq(Connection) /\ dialed \in 0..MaxConnections /\ Len(conns) <= dialed
      /\ at' = at /\ at \in {"serving", "reading", "closing"} => conns # <<>>
  BY <1>1 DEF ExporterInv, ConnInv, prog
<1>4. CASE ProducerDials
  <2>1. PICK s \in Scripts :
          conns' = Append(conns, [data |-> <<>>, unsent |-> s, gone |-> FALSE])
    BY <1>4 DEF ProducerDials
  <2> DEFINE d == [data |-> <<>>, unsent |-> s, gone |-> FALSE]
  <2>2. s \in Text /\ <<>> \in Text
    BY ConstantTypes DEF Text
  <2>3. d \in Connection
    BY <2>2 DEF Connection
  <2> HIDE DEF d
  <2>4. conns' \in Seq(Connection) /\ Len(conns') = Len(conns) + 1 /\ conns' # <<>>
    <3>1. conns' = Append(conns, d)
      BY <2>1 DEF d
    <3> QED
      BY <1>3, <2>3, <3>1
  <2>5. dialed < MaxConnections /\ dialed' = dialed + 1
    BY <1>4 DEF ProducerDials
  <2>6. dialed' \in 0..MaxConnections /\ Len(conns') <= dialed'
    <3>1. Len(conns) \in Nat
      BY <1>3
    <3> QED
      BY <1>3, <2>4, <2>5, <3>1, ConstantTypes
  <2>7. ConnInv'
    BY <2>4, <2>6 DEF ConnInv
  <2> QED
    BY <1>2, <2>7 DEF ExporterInv
<1>5. CASE \E i \in DOMAIN conns : ProducerWrites(i) \/ ProducerHangsUp(i)
  <2>1. PICK i \in DOMAIN conns : ProducerWrites(i) \/ ProducerHangsUp(i)
    BY <1>5
  <2>2. /\ conns[i] \in Connection /\ conns[i].data \in Text /\ conns[i].unsent \in Text
        /\ <<>> \in Text
    <3>1. conns[i] \in Connection
      BY <1>3
    <3>2. <<>> \in Text
      BY DEF Text
    <3> QED
      BY <3>1, <3>2 DEF Connection
  <2>3. \E d \in Connection : conns' = [conns EXCEPT ![i] = d]
    <3>1. CASE ProducerWrites(i)
      <4>1. PICK n \in 1..Len(conns[i].unsent) :
              conns' = [conns EXCEPT ![i].data = @ \o SubSeq(conns[i].unsent, 1, n),
                                     ![i].unsent = SubSeq(@, n + 1, Len(@))]
        BY <3>1 DEF ProducerWrites
      <4> DEFINE written == conns[i].data \o SubSeq(conns[i].unsent, 1, n)
                 left == SubSeq(conns[i].unsent, n + 1, Len(conns[i].unsent))
                 d == [conns[i] EXCEPT !.data = written, !.unsent = left]
      <4>2. written \in Text /\ left \in Text
        <5>1. /\ conns[i].unsent \in Seq(Symbol) /\ conns[i].data \in Seq(Symbol)
              /\ Len(conns[i].unsent) \in Nat
          BY <2>2 DEF Text
        <5>2. SubSeq(conns[i].unsent, 1, n) \in Seq(Symbol) /\ left \in Seq(Symbol)
          BY <5>1
        <5> QED
          BY <5>1, <5>2 DEF Text
      <4>3. conns' = [conns EXCEPT ![i] = d]
        BY <4>1
      <4> HIDE DEF written, left
      <4>4. d \in Connection
        BY <2>2, <4>2 DEF Connection
      <4> QED
        BY <4>3, <4>4
    <3>2. CASE ProducerHangsUp(i)
      <4> DEFINE d == [conns[i] EXCEPT !.gone = TRUE, !.unsent = <<>>]
      <4>1. conns' = [conns EXCEPT ![i] = d]
        BY <3>2 DEF ProducerHangsUp
      <4>2. d \in Connection
        BY <2>2 DEF Connection
      <4> QED
        BY <4>1, <4>2
    <3> QED
      BY <2>1, <3>1, <3>2
  <2>4. dialed' = dialed
    BY <2>1 DEF ProducerWrites, ProducerHangsUp
  <2>5. conns' \in Seq(Connection) /\ Len(conns') = Len(conns) /\ conns' # <<>>
    BY <1>3, <2>1, <2>3
  <2>6. ConnInv'
    BY <1>3, <2>4, <2>5 DEF ConnInv
  <2> QED
    BY <1>2, <2>6 DEF ExporterInv
<1> QED
  BY <1>4, <1>5


\* Every step of the threads, the producers and the scrapers keeps the
\* invariant.
THEOREM ExporterInductive ==
    ExporterInv /\ [ExporterNext]_exporter_vars => ExporterInv'
<1> SUFFICES ASSUME ExporterInv, [ExporterNext]_exporter_vars PROVE ExporterInv'
  OBVIOUS
<1>1. CASE ProgRun
  BY <1>1, ProgKeeps
<1>2. CASE MainRun \/ Signal
  BY <1>2, MainKeeps
<1>3. CASE HttpSteps
  BY <1>3, HttpKeeps
<1>4. CASE ProducerDials \/ \E i \in DOMAIN conns : ProducerWrites(i) \/ ProducerHangsUp(i)
  BY <1>4, ProducersKeep
<1>5. CASE UNCHANGED exporter_vars
  BY <1>5 DEF exporter_vars, http_vars, prog, world, history,
              ExporterInv, HttpInv, ThreadInv, ConnInv
<1> QED
  BY <1>1, <1>2, <1>3, <1>4, <1>5 DEF ExporterNext

\* In every reachable state of the exporter the parser holds what scanning the
\* text it was fed leaves, and whoever is served is there to be served.
THEOREM ExporterInvariance == ExporterSpec => []ExporterInv
  BY InitHolds, ExporterInductive, PTL DEF ExporterSpec

\* Every variable of the exporter keeps its type: the parser's buffer never
\* outgrows its cap or keeps a finished line, and its counters fit their word,
\* whatever the producers write and however recv cuts it.
THEOREM ExporterTypeCorrect == ExporterSpec => []ExporterTypeOK
<1>1. ExporterInv => ExporterTypeOK
  <2> SUFFICES ASSUME ExporterInv PROVE ExporterTypeOK
    OBVIOUS
  <2>1. Len(conns) <= MaxConnections
    <3>1. Len(conns) \in Nat /\ dialed \in 0..MaxConnections /\ Len(conns) <= dialed
      BY DEF ExporterInv, ConnInv
    <3> QED
      BY <3>1, ConstantTypes
  <2>2. /\ Len(parser.buffer) <= MaxBufferedLine
        /\ \A i \in DOMAIN parser.buffer : parser.buffer[i] # "LF"
        /\ parser.stats \in Stats
    BY DEF ExporterInv, Follows
  <2>3. \A k \in CounterKey : parser.stats[k] \in 0..(Word - 1)
    BY <2>2 DEF Stats
  <2>4. dialed \in 0..MaxConnections
    BY DEF ExporterInv, ConnInv
  <2> QED
    BY <2>1, <2>2, <2>3, <2>4 DEF ExporterInv, HttpInv, ThreadInv, ExporterTypeOK
<1> QED
  BY <1>1, ExporterInvariance, PTL

\* How recv cuts the text into chunks is invisible: whatever the size of the
\* receive buffer, the cap and the texts, as long as no line comes within a
\* chunk of the cap, the statistics and the unfinished line are those of the
\* whole text received.
THEOREM ChunkingIsInvisible == ExporterSpec => []ChunkingInvisible
<1>1. ExporterInv => ChunkingInvisible
  <2> SUFFICES ASSUME ExporterInv, ShortLines(fed)
               PROVE  /\ parser.buffer = Scan(ZeroStats, fed).line
                      /\ \A k \in StatKey :
                           parser.stats[k] = Scan(ZeroStats, fed).stats[k]
    BY DEF ChunkingInvisible
  <2>1. Scan(ZeroStats, fed) = [line |-> parser.buffer, stats |-> parser.stats]
    BY DEF ExporterInv, Follows
  <2>2. /\ Scan(ZeroStats, fed).line = parser.buffer
        /\ Scan(ZeroStats, fed).stats = parser.stats
    BY <2>1
  <2> QED
    BY <2>2
<1> QED
  BY <1>1, ExporterInvariance, PTL

=============================================================================
