------------------------- MODULE CommandLine_proofs -------------------------
(***************************************************************************)
(* Proofs about CommandLine: parse_flags and resolve give an operator whose *)
(* line is accepted what the line means, for every list of options in      *)
(* either spelling, whatever word follows them.                            *)
(*                                                                         *)
(* The parser works word by word, the operator thinks option by option.    *)
(* The argument follows the parser from one option to the next: between    *)
(* options it waits for no value, and its map holds the last value of every *)
(* flag read so far and no other flag.                                     *)
(***************************************************************************)
EXTENDS Lifecycle, Iteration_proofs

Option == [flag : Written, value : Written, joined : BOOLEAN]
ArgWord == [name : Written, value : Written, joined : BOOLEAN]

\* The parser between two words.
FlagMap == UNION {[D -> Written] : D \in SUBSET Written}
Reading == [ok : BOOLEAN, want : Written, out : FlagMap]
Start == [ok |-> TRUE, want |-> "", out |-> <<>>]

\* parse_flags up to its last word.
Read(program, argv) ==
    LET after[i \in 0..Len(argv)] ==
          IF i = 0 THEN [ok |-> TRUE, want |-> "", out |-> <<>>]
          ELSE NextWord(program, after[i - 1], argv[i])
    IN  after[Len(argv)]

-----------------------------------------------------------------------------
(* One word. *)

\* A flag stored in the map.
LEMMA FlagStored ==
    ASSUME NEW out \in FlagMap, NEW f \in Written, NEW v \in Written
    PROVE  /\ With(out, f, v) \in FlagMap
           /\ DOMAIN With(out, f, v) = DOMAIN out \cup {f} /\ With(out, f, v)[f] = v
           /\ \A e \in DOMAIN out : e # f => With(out, f, v)[e] = out[e]
<1>1. PICK D \in SUBSET Written : out \in [D -> Written]
  BY DEF FlagMap
<1> DEFINE new == With(out, f, v)
<1>2. new = [x \in D \cup {f} |-> IF x = f THEN v ELSE out[x]]
  BY <1>1 DEF With
<1> HIDE DEF new
<1>3. /\ new \in [D \cup {f} -> Written] /\ D \cup {f} \in SUBSET Written
      /\ DOMAIN new = D \cup {f} /\ DOMAIN out = D
      /\ new[f] = v /\ \A e \in D : e # f => new[e] = out[e]
  BY <1>1, <1>2
<1>4. new \in FlagMap
  BY <1>3 DEF FlagMap
<1> QED
  BY <1>3, <1>4 DEF new

LEMMA StartReading == Start \in Reading
<1>1. <<>> \in [{} -> Written] /\ {} \in SUBSET Written
  OBVIOUS
<1>2. <<>> \in FlagMap
  BY <1>1 DEF FlagMap
<1> QED
  BY <1>2 DEF Start, Reading, Written

LEMMA WordRead ==
    ASSUME NEW program, NEW st \in Reading, NEW word \in ArgWord
    PROVE  NextWord(program, st, word) \in Reading
<1>1. /\ word.name \in Written /\ word.value \in Written /\ word.joined \in BOOLEAN
      /\ st.ok \in BOOLEAN /\ st.want \in Written /\ st.out \in FlagMap
  BY DEF ArgWord, Reading
<1>2. Text(word) \in Written
  BY <1>1 DEF Text, Written
<1> DEFINE a == With(st.out, st.want, Text(word))
           b == With(st.out, word.name, word.value)
<1>3. a \in FlagMap /\ b \in FlagMap
  BY <1>1, <1>2, FlagStored
<1>4. NextWord(program, st, word) \in
        {st, [st EXCEPT !.out = a, !.want = ""], [st EXCEPT !.ok = FALSE],
         [st EXCEPT !.out = b], [st EXCEPT !.want = word.name]}
  BY DEF NextWord
<1> HIDE DEF a, b
<1>5. "" \in Written
  BY DEF Written
<1> QED
  BY <1>1, <1>3, <1>4, <1>5 DEF Reading

-----------------------------------------------------------------------------
(* All words. *)

Reads(program, g, argv) ==
    /\ g \in [0..Len(argv) -> Reading] /\ g[0] = Start
    /\ \A i \in 1..Len(argv) : g[i] = NextWord(program, g[i - 1], argv[i])

LEMMA ReadComputes ==
    ASSUME NEW program, NEW argv \in Seq(ArgWord)
    PROVE  \E g : Reads(program, g, argv) /\ Read(program, argv) = g[Len(argv)]
<1> DEFINE n == Len(argv)
           F == [p \in (1..n) \X Reading |-> NextWord(program, p[2], argv[p[1]])]
           P(g) == g = [i \in 0..n |->
                          IF i = 0 THEN Start ELSE NextWord(program, g[i - 1], argv[i])]
           x == CHOOSE g : P(g)
<1>1. n \in Nat /\ Start \in Reading /\ \A i \in 1..n : argv[i] \in ArgWord
  BY StartReading
<1>2. Read(program, argv) = x[n]
  BY DEF Read, Start
<1>3. /\ F \in [(1..n) \X Reading -> Reading]
      /\ \A i \in 1..n, y \in Reading : F[<<i, y>>] = NextWord(program, y, argv[i])
  BY <1>1, WordRead
<1> HIDE DEF F
<1>4. PICK g \in [0..n -> Reading] : Iterates(g, n, Start, F)
  BY <1>1, <1>3, IterationExists
<1>5. g[0] = Start /\ \A i \in 1..n : g[i] = NextWord(program, g[i - 1], argv[i])
  <2>1. g[0] = Start
    BY <1>4 DEF Iterates
  <2>2. ASSUME NEW i \in 1..n PROVE g[i] = NextWord(program, g[i - 1], argv[i])
    <3>1. i - 1 \in 0..n
      BY <1>1
    <3>2. g[i - 1] \in Reading
      BY <1>4, <3>1
    <3>3. g[i] = F[<<i, g[i - 1]>>]
      BY <1>4 DEF Iterates
    <3> HIDE DEF n
    <3> QED
      BY <1>3, <3>2, <3>3
  <2> QED
    BY <2>1, <2>2
<1>6. P(g)
  BY <1>1, <1>4, <1>5
<1>7. P(x)
  BY <1>6
<1> HIDE DEF x
<1>8. x[0] = Start /\ \A i \in 1..n : x[i] = NextWord(program, x[i - 1], argv[i])
  BY <1>1, <1>7
<1>9. \A k \in 0..n : x[k] = g[k]
  <2>1. Alike(x, g, n)
    BY <1>5, <1>8 DEF Alike
  <2> HIDE DEF n
  <2> QED
    BY <1>1, <2>1, SameAllAlong
<1>10. Reads(program, g, argv)
  BY <1>4, <1>5 DEF Reads
<1> QED
  BY <1>1, <1>2, <1>9, <1>10

LEMMA NothingRead ==
    ASSUME NEW program PROVE Read(program, <<>>) = Start
<1>1. <<>> \in Seq(ArgWord) /\ Len(<<>>) = 0
  OBVIOUS
<1>2. PICK g : Reads(program, g, <<>>) /\ Read(program, <<>>) = g[Len(<<>>)]
  BY <1>1, ReadComputes
<1> QED
  BY <1>1, <1>2 DEF Reads

LEMMA OneMore ==
    ASSUME NEW S, NEW s \in Seq(S), NEW x \in S
    PROVE  s \o <<x>> = Append(s, x)
  OBVIOUS

\* One more word is one more turn of the loop.
LEMMA ReadAppend ==
    ASSUME NEW program, NEW argv \in Seq(ArgWord), NEW word \in ArgWord
    PROVE  /\ Read(program, argv) \in Reading
           /\ Read(program, Append(argv, word)) = NextWord(program, Read(program, argv), word)
<1> DEFINE n == Len(argv)
           more == Append(argv, word)
<1>1. /\ n \in Nat /\ more \in Seq(ArgWord) /\ Len(more) = n + 1
      /\ more[n + 1] = word /\ \A i \in 1..n : more[i] = argv[i]
  OBVIOUS
<1> HIDE DEF more
<1>2. PICK g : Reads(program, g, argv) /\ Read(program, argv) = g[n]
  BY ReadComputes
<1>3. PICK h : Reads(program, h, more) /\ Read(program, more) = h[Len(more)]
  BY <1>1, ReadComputes
<1>4. /\ g[0] = Start /\ g \in [0..n -> Reading]
      /\ \A i \in 1..n : g[i] = NextWord(program, g[i - 1], argv[i])
  BY <1>2 DEF Reads
<1>5. h[0] = Start /\ \A i \in 1..(n + 1) : h[i] = NextWord(program, h[i - 1], more[i])
  BY <1>1, <1>3 DEF Reads
<1> HIDE DEF n
<1>6. \A i \in 1..n : i \in 1..(n + 1)
  BY <1>1
<1>7. Alike(h, g, n)
  BY <1>1, <1>4, <1>5, <1>6 DEF Alike
<1>8. h[n] = g[n]
  <2>1. n \in 0..n
    BY <1>1
  <2> QED
    BY <1>1, <1>7, <2>1, SameAllAlong
<1>9. h[n + 1] = NextWord(program, h[n], word)
  <2>1. n + 1 \in 1..(n + 1) /\ (n + 1) - 1 = n
    BY <1>1
  <2> QED
    BY <1>1, <1>5, <2>1
<1>10. g[n] \in Reading
  <2>1. n \in 0..n
    BY <1>1
  <2> QED
    BY <1>4, <2>1
<1> QED
  BY <1>1, <1>2, <1>3, <1>8, <1>9, <1>10 DEF more

-----------------------------------------------------------------------------
(* One option. *)

OptionWords(o) ==
    IF o.joined THEN <<[name |-> o.flag, value |-> o.value, joined |-> TRUE]>>
    ELSE <<Word(o.flag), Word(o.value)>>

LEMMA OptionIsWords ==
    ASSUME NEW o \in Option
    PROVE  /\ OptionWords(o) \in Seq(ArgWord)
           /\ Word(o.flag) \in ArgWord /\ Word(o.value) \in ArgWord
           /\ [name |-> o.flag, value |-> o.value, joined |-> TRUE] \in ArgWord
<1>1. o.flag \in Written /\ o.value \in Written
  BY DEF Option
<1>2. "" \in Written
  BY DEF Written
<1>3. Word(o.flag) \in ArgWord /\ Word(o.value) \in ArgWord
  BY <1>1, <1>2 DEF Word, ArgWord
<1>4. [name |-> o.flag, value |-> o.value, joined |-> TRUE] \in ArgWord
  BY <1>1 DEF ArgWord
<1> HIDE DEF ArgWord
<1> QED
  BY <1>3, <1>4 DEF OptionWords

LEMMA FlagsAreNames == \A program : "" \notin KnownFlags(program)
  BY DEF KnownFlags

\* An option leaves a parser that has failed alone; it makes another fail or
\* store the option's value.
LEMMA OptionRead ==
    ASSUME NEW program, NEW argv \in Seq(ArgWord), NEW o \in Option
    PROVE  LET st == Read(program, argv)
               new == Read(program, argv \o OptionWords(o))
           IN  /\ st \in Reading /\ new \in Reading
               /\ ~st.ok => ~new.ok
               /\ st.ok /\ st.want = "" /\ new.ok =>
                    new.want = "" /\ new.out = With(st.out, o.flag, o.value)
<1> DEFINE st == Read(program, argv)
           new == Read(program, argv \o OptionWords(o))
           w == [name |-> o.flag, value |-> o.value, joined |-> TRUE]
           w1 == Word(o.flag)
           w2 == Word(o.value)
           mid == NextWord(program, st, w1)
<1>1. w \in ArgWord /\ w1 \in ArgWord /\ w2 \in ArgWord
  BY OptionIsWords
<1>2. /\ w.name = o.flag /\ w.value = o.value /\ w.joined = TRUE
      /\ w1.name = o.flag /\ w1.joined = FALSE /\ w2.name = o.value /\ w2.joined = FALSE
  BY DEF Word
<1>3. st \in Reading
  BY <1>1, ReadAppend
<1> HIDE DEF w, w1, w2
<1>4. CASE o.joined
  <2>1. argv \o OptionWords(o) = Append(argv, w)
    BY <1>1, <1>4 DEF OptionWords, w
  <2>2. new = NextWord(program, st, w)
    BY <1>1, <2>1, ReadAppend
  <2>3. new \in Reading
    BY <1>1, <1>3, <2>2, WordRead
  <2> HIDE DEF new, st
  <2>4. ~st.ok => new = st
    BY <2>2 DEF NextWord
  <2>5. ASSUME st.ok, st.want = "", new.ok
        PROVE  new.want = "" /\ new.out = With(st.out, o.flag, o.value)
    <3>1. w.name \in KnownFlags(program)
      <4> SUFFICES ASSUME w.name \notin KnownFlags(program) PROVE FALSE
        OBVIOUS
      <4>1. new = [st EXCEPT !.ok = FALSE]
        BY <2>2, <2>5 DEF NextWord
      <4> QED
        BY <1>3, <2>5, <4>1 DEF Reading
    <3>2. new = [st EXCEPT !.out = With(@, o.flag, o.value)]
      BY <1>2, <2>2, <2>5, <3>1 DEF NextWord
    <3> QED
      BY <1>3, <2>5, <3>2 DEF Reading
  <2> QED
    BY <1>3, <2>3, <2>4, <2>5 DEF st, new
<1>5. CASE ~o.joined
  <2>1. argv \o OptionWords(o) = Append(Append(argv, w1), w2)
    BY <1>1, <1>5 DEF OptionWords, w1, w2
  <2>2. Append(argv, w1) \in Seq(ArgWord) /\ Read(program, Append(argv, w1)) = mid
    BY <1>1, ReadAppend
  <2>3. new = NextWord(program, mid, w2)
    BY <1>1, <2>1, <2>2, ReadAppend
  <2>4. mid \in Reading
    BY <1>1, <1>3, WordRead
  <2>5. new \in Reading
    BY <1>1, <2>3, <2>4, WordRead
  <2>6. mid = NextWord(program, st, w1)
    OBVIOUS
  <2> HIDE DEF new, st, mid
  <2>7. ~st.ok => new = st
    BY <2>3, <2>6 DEF NextWord
  <2>8. ASSUME st.ok, st.want = "", new.ok
        PROVE  new.want = "" /\ new.out = With(st.out, o.flag, o.value)
    <3>1. w1.name \in KnownFlags(program)
      <4> SUFFICES ASSUME w1.name \notin KnownFlags(program) PROVE FALSE
        OBVIOUS
      <4>1. mid = [st EXCEPT !.ok = FALSE]
        BY <2>6, <2>8 DEF NextWord
      <4>2. ~mid.ok
        BY <1>3, <4>1 DEF Reading
      <4>3. new = mid
        BY <2>3, <4>2 DEF NextWord
      <4> QED
        BY <2>8, <4>2, <4>3
    <3>2. mid = [st EXCEPT !.want = o.flag]
      BY <1>2, <2>6, <2>8, <3>1 DEF NextWord
    <3>3. mid.ok /\ mid.want = o.flag /\ mid.out = st.out
      BY <1>3, <2>8, <3>2 DEF Reading
    <3>4. o.flag # ""
      BY <1>2, <3>1, FlagsAreNames
    <3>5. Text(w2) = o.value
      BY <1>2 DEF Text
    <3>6. new = [mid EXCEPT !.out = With(@, mid.want, Text(w2)), !.want = ""]
      BY <2>3, <3>3, <3>4 DEF NextWord
    <3>7. new.want = "" /\ new.out = With(mid.out, mid.want, Text(w2))
      BY <2>4, <3>6 DEF Reading
    <3> QED
      BY <3>3, <3>5, <3>7
  <2> QED
    BY <1>3, <2>5, <2>7, <2>8 DEF st, new
<1> QED
  BY <1>4, <1>5


-----------------------------------------------------------------------------
(* All options. *)

\* argv grows by the words of one option after the other.
LEMMA WordsCompute ==
    ASSUME NEW options \in Seq(Option), NEW stray
    PROVE  \E w \in [0..Len(options) -> Seq(ArgWord)] :
             /\ w[0] = <<>>
             /\ \A i \in 1..Len(options) : w[i] = w[i - 1] \o OptionWords(options[i])
             /\ Words(options, stray) =
                  w[Len(options)] \o IF stray = "" THEN <<>> ELSE <<Word(stray)>>
<1> DEFINE n == Len(options)
           S == Seq(ArgWord)
           F == [p \in (1..n) \X S |-> p[2] \o OptionWords(options[p[1]])]
           P(g) == g = [i \in 0..n |->
                          IF i = 0 THEN <<>> ELSE g[i - 1] \o OptionWords(options[i])]
           x == CHOOSE g : P(g)
           last == IF stray = "" THEN <<>> ELSE <<Word(stray)>>
<1>1. n \in Nat /\ <<>> \in S /\ \A i \in 1..n : options[i] \in Option
  OBVIOUS
<1>2. Words(options, stray) = x[n] \o last
  BY DEF Words, OptionWords
<1>3. \A i \in 1..n, y \in S : y \o OptionWords(options[i]) \in S
  <2> TAKE i \in 1..n, y \in S
  <2>1. OptionWords(options[i]) \in S
    BY <1>1, OptionIsWords
  <2> QED
    BY <2>1
<1> HIDE DEF S
<1>4. /\ F \in [(1..n) \X S -> S]
      /\ \A i \in 1..n, y \in S : F[<<i, y>>] = y \o OptionWords(options[i])
  BY <1>1, <1>3
<1> HIDE DEF F
<1>5. PICK g \in [0..n -> S] : Iterates(g, n, <<>>, F)
  BY <1>1, <1>4, IterationExists
<1>6. g[0] = <<>> /\ \A i \in 1..n : g[i] = g[i - 1] \o OptionWords(options[i])
  <2>1. g[0] = <<>>
    BY <1>5 DEF Iterates
  <2>2. ASSUME NEW i \in 1..n PROVE g[i] = g[i - 1] \o OptionWords(options[i])
    <3>1. i - 1 \in 0..n
      BY <1>1
    <3>2. g[i - 1] \in S
      BY <1>5, <3>1
    <3>3. g[i] = F[<<i, g[i - 1]>>]
      BY <1>5 DEF Iterates
    <3> HIDE DEF n
    <3> QED
      BY <1>4, <3>2, <3>3
  <2> QED
    BY <2>1, <2>2
<1>7. P(g)
  BY <1>1, <1>5, <1>6
<1>8. P(x)
  BY <1>7
<1> HIDE DEF x
<1>9. x[0] = <<>> /\ \A i \in 1..n : x[i] = x[i - 1] \o OptionWords(options[i])
  BY <1>1, <1>8
<1>10. \A k \in 0..n : x[k] = g[k]
  <2>1. Alike(x, g, n)
    BY <1>6, <1>9 DEF Alike
  <2> HIDE DEF n
  <2> QED
    BY <1>1, <2>1, SameAllAlong
<1>11. Words(options, stray) = g[n] \o last
  <2>1. n \in 0..n
    BY <1>1
  <2>2. x[n] = g[n]
    BY <1>10, <2>1
  <2> HIDE DEF n, P, last
  <2> QED
    BY <1>2, <2>2
<1> QED
  BY <1>5, <1>6, <1>11 DEF S

\* Option j is the last of the first i for flag f.
LastFor(options, i, f, j) ==
    /\ j \in 1..i /\ options[j].flag = f
    /\ \A k \in 1..i : options[k].flag = f => k <= j

\* The parser between two options: it waits for nothing, and the map holds
\* the last value of every flag among the first i options.
Holds(out, options, i) ==
    /\ \A f \in DOMAIN out :
         \E j \in 1..i : LastFor(options, i, f, j) /\ out[f] = options[j].value
    /\ \A j \in 1..i : options[j].flag \in DOMAIN out

Reflects(st, options, i) ==
    st \in Reading /\ (st.ok => st.want = "" /\ Holds(st.out, options, i))

LEMMA OptionReflected ==
    ASSUME NEW program, NEW options \in Seq(Option), NEW i \in 1..Len(options),
           NEW argv \in Seq(ArgWord), Reflects(Read(program, argv), options, i - 1)
    PROVE  Reflects(Read(program, argv \o OptionWords(options[i])), options, i)
<1> DEFINE st == Read(program, argv)
           o == options[i]
           new == Read(program, argv \o OptionWords(o))
<1>1. o \in Option /\ i \in Nat /\ o.flag \in Written /\ o.value \in Written
  <2>1. o \in Option /\ i \in Nat
    OBVIOUS
  <2> HIDE DEF o
  <2> QED
    BY <2>1 DEF Option
<1> HIDE DEF o
<1>2. /\ st \in Reading /\ new \in Reading /\ (~st.ok => ~new.ok)
      /\ st.ok /\ st.want = "" /\ new.ok =>
           new.want = "" /\ new.out = With(st.out, o.flag, o.value)
  BY <1>1, OptionRead
<1>3. Reflects(st, options, i - 1)
  OBVIOUS
<1> HIDE DEF st, new
<1>4. st.ok /\ new.ok => /\ new.want = "" /\ new.out = With(st.out, o.flag, o.value)
                        /\ Holds(st.out, options, i - 1)
  BY <1>2, <1>3 DEF Reflects
<1>5. st.out \in FlagMap
  <2>1. st \in Reading
    BY <1>2
  <2> QED
    BY <2>1 DEF Reading
<1>6. ASSUME Holds(st.out, options, i - 1), new.out = With(st.out, o.flag, o.value)
      PROVE  Holds(new.out, options, i)
  <2>1. /\ DOMAIN new.out = DOMAIN st.out \cup {o.flag} /\ new.out[o.flag] = o.value
        /\ \A e \in DOMAIN st.out : e # o.flag => new.out[e] = st.out[e]
    <3> DEFINE out == st.out
               f == o.flag
               v == o.value
    <3>1. out \in FlagMap /\ f \in Written /\ v \in Written
      BY <1>1, <1>5
    <3>2. new.out = With(out, f, v)
      BY <1>6
    <3> HIDE DEF out, f, v
    <3>3. /\ DOMAIN With(out, f, v) = DOMAIN out \cup {f} /\ With(out, f, v)[f] = v
          /\ \A e \in DOMAIN out : e # f => With(out, f, v)[e] = out[e]
      BY <3>1, FlagStored
    <3>4. /\ DOMAIN new.out = DOMAIN out \cup {f} /\ new.out[f] = v
          /\ \A e \in DOMAIN out : e # f => new.out[e] = out[e]
      BY <3>2, <3>3
    <3> QED
      BY <3>4 DEF out, f, v
  <2>2. i \in 1..i /\ \A j \in 1..i : j = i \/ j \in 1..(i - 1)
    BY <1>1
  <2>3. \A j \in 1..i : options[j].flag \in DOMAIN new.out
    BY <1>6, <2>1, <2>2 DEF Holds, o
  <2>4. ASSUME NEW f \in DOMAIN new.out
        PROVE  \E j \in 1..i : LastFor(options, i, f, j) /\ new.out[f] = options[j].value
    <3>1. CASE f = o.flag
      <4>1. LastFor(options, i, f, i)
        BY <1>1, <2>2, <3>1 DEF LastFor, o
      <4> QED
        BY <2>1, <2>2, <3>1, <4>1 DEF o
    <3>2. CASE f # o.flag
      <4>1. f \in DOMAIN st.out /\ new.out[f] = st.out[f]
        BY <2>1, <3>2
      <4>2. PICK j \in 1..(i - 1) :
              LastFor(options, i - 1, f, j) /\ st.out[f] = options[j].value
        BY <1>6, <4>1 DEF Holds
      <4>3. j \in 1..i
        BY <1>1
      <4>4. LastFor(options, i, f, j)
        BY <2>2, <3>2, <4>2, <4>3 DEF LastFor, o
      <4> QED
        BY <4>1, <4>2, <4>3, <4>4
    <3> QED
      BY <3>1, <3>2
  <2> QED
    BY <2>3, <2>4 DEF Holds
<1>7. Reflects(new, options, i)
  <2>1. new \in Reading
    BY <1>2
  <2>2. new.ok => new.want = "" /\ Holds(new.out, options, i)
    BY <1>2, <1>4, <1>6
  <2> QED
    BY <2>1, <2>2 DEF Reflects
<1> QED
  BY <1>7 DEF new, o

\* Behind the last option the map holds what the options say.
LEMMA OptionsReflected ==
    ASSUME NEW program, NEW options \in Seq(Option),
           NEW w \in [0..Len(options) -> Seq(ArgWord)], w[0] = <<>>,
           \A i \in 1..Len(options) : w[i] = w[i - 1] \o OptionWords(options[i])
    PROVE  Reflects(Read(program, w[Len(options)]), options, Len(options))
<1> DEFINE n == Len(options)
           Good(i) == Reflects(Read(program, w[i]), options, i)
           Bad == {i \in 0..n : ~Good(i)}
<1>1. n \in Nat
  OBVIOUS
<1>2. Good(0)
  <2>1. Read(program, w[0]) = Start
    BY NothingRead
  <2>2. Start \in Reading /\ Start.want = "" /\ Start.out = <<>>
    BY StartReading DEF Start
  <2>3. 1..0 = {} /\ DOMAIN <<>> = {}
    OBVIOUS
  <2>4. Holds(<<>>, options, 0)
    BY <2>3 DEF Holds
  <2> QED
    BY <2>1, <2>2, <2>4 DEF Reflects
<1>3. ASSUME NEW i \in 1..n, Good(i - 1) PROVE Good(i)
  <2>1. i - 1 \in 0..n
    BY <1>1
  <2>2. w[i - 1] \in Seq(ArgWord)
    BY <2>1
  <2> QED
    BY <1>3, <2>2, OptionReflected
<1> HIDE DEF Good
<1>4. Bad = {}
  <2> SUFFICES ASSUME Bad # {} PROVE FALSE
    OBVIOUS
  <2>1. Bad \in SUBSET Nat
    OBVIOUS
  <2> HIDE DEF n
  <2>2. PICK m \in Bad : \A k \in Bad : m <= k
    BY <2>1, LeastNatural
  <2>3. m # 0 /\ m \in 1..n /\ m - 1 \in 0..n
    BY <1>1, <1>2, <2>2
  <2>4. m - 1 \notin Bad
    BY <2>2, <2>3
  <2> QED
    BY <1>3, <2>2, <2>3, <2>4
<1>5. n \in 0..n
  BY <1>1
<1> QED
  BY <1>4, <1>5 DEF Good

LEMMA ParseOutcome ==
    ASSUME NEW program, NEW argv
    PROVE  /\ parse_flags(program, argv).ok
                <=> Read(program, argv).ok /\ Read(program, argv).want = ""
           /\ parse_flags(program, argv).out = Read(program, argv).out
<1> DEFINE st == Read(program, argv)
           b == st.ok /\ st.want = ""
<1>1. parse_flags(program, argv) = [ok |-> b, out |-> st.out]
  BY DEF parse_flags, Read
<1> HIDE DEF st, b
<1>2. parse_flags(program, argv).ok <=> b
  BY <1>1
<1>3. parse_flags(program, argv).out = st.out
  BY <1>1
<1> QED
  BY <1>2, <1>3 DEF b, st

\* A word behind the options is never taken: it is an unknown flag or one
\* without a value.
LEMMA StrayRefused ==
    ASSUME NEW program, NEW argv \in Seq(ArgWord), NEW stray \in Written, stray # "",
           Read(program, argv).ok => Read(program, argv).want = ""
    PROVE  ~parse_flags(program, Append(argv, Word(stray))).ok
<1> DEFINE st == Read(program, argv)
           more == Append(argv, Word(stray))
           end == Read(program, more)
<1>1. Word(stray) \in ArgWord
  BY DEF Word, ArgWord, Written
<1>2. st \in Reading /\ end = NextWord(program, st, Word(stray))
  BY <1>1, ReadAppend
<1>3. Word(stray).name = stray /\ ~Word(stray).joined
  BY DEF Word
<1>4. parse_flags(program, more).ok <=> end.ok /\ end.want = ""
  BY ParseOutcome
<1> HIDE DEF st, end, more
<1>5. ~(end.ok /\ end.want = "")
  <2>1. CASE ~st.ok
    BY <1>2, <2>1 DEF NextWord
  <2>2. CASE st.ok
    <3>1. st.want = ""
      BY <2>2 DEF st
    <3>2. CASE stray \notin KnownFlags(program)
      <4>1. end = [st EXCEPT !.ok = FALSE]
        BY <1>2, <1>3, <2>2, <3>1, <3>2 DEF NextWord
      <4> QED
        BY <1>2, <4>1 DEF Reading
    <3>3. CASE stray \in KnownFlags(program)
      <4>1. end = [st EXCEPT !.want = stray]
        BY <1>2, <1>3, <2>2, <3>1, <3>3 DEF NextWord
      <4> QED
        BY <1>2, <4>1 DEF Reading
    <3> QED
      BY <3>2, <3>3
  <2> QED
    BY <2>1, <2>2
<1>6. ~parse_flags(program, more).ok
  BY <1>4, <1>5
<1> QED
  BY <1>6 DEF more

\* What parse_flags and resolve make of an accepted line is what the line
\* means: of a flag given several times, in either spelling, the last value;
\* of one not given the environment's, else the default.  A value that looks
\* like a flag and a flag whose value is missing are told apart.
THEOREM FlagsAsMeant ==
    ASSUME NEW program, NEW options \in Seq(Option), NEW stray \in Written, NEW env, NEW flag,
           parse_flags(program, Words(options, stray)).ok
    PROVE  resolve(program, parse_flags(program, Words(options, stray)).out, env, flag)
             = Meant(program, options, env, flag)
<1> DEFINE n == Len(options)
<1>1. PICK w \in [0..n -> Seq(ArgWord)] :
        /\ w[0] = <<>> /\ \A i \in 1..n : w[i] = w[i - 1] \o OptionWords(options[i])
        /\ Words(options, stray) = w[n] \o IF stray = "" THEN <<>> ELSE <<Word(stray)>>
  BY WordsCompute
<1> DEFINE st == Read(program, w[n])
<1>2. n \in Nat /\ w[n] \in Seq(ArgWord)
  <2>1. n \in Nat /\ n \in 0..n
    OBVIOUS
  <2> QED
    BY <1>1, <2>1
<1>3. Reflects(st, options, n)
  BY <1>1, OptionsReflected
<1>4. stray = ""
  <2> SUFFICES ASSUME stray # "" PROVE FALSE
    OBVIOUS
  <2>1. Words(options, stray) = Append(w[n], Word(stray))
    <3>1. Words(options, stray) = w[n] \o <<Word(stray)>>
      BY <1>1
    <3>2. Word(stray) \in ArgWord
      BY DEF Word, ArgWord, Written
    <3> HIDE DEF n
    <3>3. w[n] \o <<Word(stray)>> = Append(w[n], Word(stray))
      BY <1>2, <3>2, OneMore
    <3> QED
      BY <3>1, <3>3
  <2>2. st.ok => st.want = ""
    BY <1>3 DEF Reflects
  <2>3. ~parse_flags(program, Append(w[n], Word(stray))).ok
    BY <1>2, <2>2, StrayRefused
  <2> QED
    BY <2>1, <2>3
<1>5. Words(options, stray) = w[n]
  <2>1. Words(options, stray) = w[n] \o <<>>
    BY <1>1, <1>4
  <2> QED
    BY <1>2, <2>1
<1>6. /\ parse_flags(program, w[n]).ok <=> st.ok /\ st.want = ""
      /\ parse_flags(program, w[n]).out = st.out
  BY ParseOutcome
<1> HIDE DEF st
<1>7. st.ok /\ parse_flags(program, w[n]).out = st.out
  BY <1>5, <1>6
<1> DEFINE given == {i \in DOMAIN options : options[i].flag = flag}
<1>8. DOMAIN options = 1..n
  OBVIOUS
<1>9. CASE flag \in DOMAIN st.out
  <2>1. PICK j \in 1..n : LastFor(options, n, flag, j) /\ st.out[flag] = options[j].value
    BY <1>3, <1>7, <1>9 DEF Reflects, Holds
  <2>2. j \in given /\ \A k \in given : k <= j
    BY <1>8, <2>1 DEF LastFor
  <2> DEFINE m == CHOOSE i \in given : \A k \in given : k <= i
  <2>3. m \in given /\ \A k \in given : k <= m
    BY <2>2
  <2> HIDE DEF m
  <2>4. m = j
    <3>1. m <= j /\ j <= m /\ m \in Nat /\ j \in Nat
      BY <1>2, <1>8, <2>2, <2>3
    <3> QED
      BY <3>1
  <2>5. Meant(program, options, env, flag) = options[m].value
    BY <2>3 DEF Meant, m
  <2>6. resolve(program, st.out, env, flag) = st.out[flag]
    BY <1>9 DEF resolve
  <2> QED
    BY <1>5, <1>7, <2>1, <2>4, <2>5, <2>6
<1>10. CASE flag \notin DOMAIN st.out
  <2>1. given = {}
    BY <1>3, <1>7, <1>8, <1>10 DEF Reflects, Holds
  <2>2. Meant(program, options, env, flag) =
          IF flag \in DOMAIN env THEN env[flag] ELSE DefaultOf(program, flag)
    BY <2>1 DEF Meant
  <2>3. resolve(program, st.out, env, flag) =
          IF flag \in DOMAIN env THEN env[flag] ELSE DefaultOf(program, flag)
    BY <1>10 DEF resolve
  <2> QED
    BY <1>5, <1>7, <2>2, <2>3
<1> QED
  BY <1>9, <1>10

\* The parser gives an operator whose line is accepted what the line means.
ParsesAsMeant ==
    \A p \in Proc, options \in CommandLines, stray \in Strays, env \in Environments :
      IsExporter(p) /\ Accepted(Program[p], Words(options, stray), env)
        => Resolved(p, options, stray, env, "--progress-socket")
             = Meant(Program[p], options, env, "--progress-socket")

\* So an operator whose exporter comes up gets the socket path asked for.
THEOREM ParsedAsMeant == ParsesAsMeant
<1> SUFFICES ASSUME NEW p \in Proc, NEW options \in CommandLines, NEW stray \in Strays,
                    NEW env \in Environments,
                    Accepted(Program[p], Words(options, stray), env)
             PROVE  Resolved(p, options, stray, env, "--progress-socket")
                      = Meant(Program[p], options, env, "--progress-socket")
  BY DEF ParsesAsMeant
<1>1. options \in Seq(Option) /\ stray \in Written
  BY LifecycleAssumption DEF Option, Written
<1>2. parse_flags(Program[p], Words(options, stray)).ok
  BY DEF Accepted
<1> QED
  BY <1>1, <1>2, FlagsAsMeant DEF Resolved

=============================================================================
