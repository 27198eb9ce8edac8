--------------------------- MODULE ProgressParser ---------------------------
(***************************************************************************)
(* The parser of ffmpeg's -progress text (src/src/progress_parser.cpp) as  *)
(* operators over one record: buffer, the bytes of the unfinished line, and *)
(* stats, the statistics it stores into.                                   *)
(*                                                                         *)
(* Text is a sequence of symbols.  A key is one symbol, so is a digit, "=", *)
(* "LF", "CR" and everything else a value may hold; a line may be cut      *)
(* between any two symbols.                                                *)
(***************************************************************************)
EXTENDS Naturals, Sequences, SequencesExt

CONSTANTS
    MaxBufferedLine,  \* kMaxBufferedLine, in symbols
    Word              \* how many values a std::uint64_t has

ASSUME ParserAssumption == MaxBufferedLine \in Nat /\ Word \in Nat \ {0}

CounterKey == {"frame", "drop_frames", "dup_frames"}
GaugeKey == {"fps", "speed"}

\* The keys parse_line knows.  "progress", which ends a block, stores the time:
\* here 0 until the first block has ended, then 1.
StatKey == CounterKey \cup GaugeKey \cup {"progress"}

DigitValue == [d \in {"0", "1", "2", "3"} |->
                 CASE d = "0" -> 0 [] d = "1" -> 1 [] d = "2" -> 2 [] OTHER -> 3]

\* What both conversions accept: digits and nothing else.
IsNumber(v) == v # <<>> /\ \A i \in DOMAIN v : v[i] \in DOMAIN DigitValue

\* parse_u64: the accumulator wraps around.
parse_u64(v) ==
    LET value[i \in 0..Len(v)] ==
          IF i = 0 THEN 0 ELSE (value[i - 1] * 10 + DigitValue[v[i]]) % Word
    IN  value[Len(v)]

\* parse_double, on the numbers the model writes.
parse_double(v) ==
    LET value[i \in 0..Len(v)] ==
          IF i = 0 THEN 0 ELSE value[i - 1] * 10 + DigitValue[v[i]]
    IN  value[Len(v)]

WithoutLast(s, c) == IF s # <<>> /\ Last(s) = c THEN Front(s) ELSE s

\* A line without "=", an unknown key or a value that is no number changes
\* nothing.
parse_line(stats, line) ==
    LET text == WithoutLast(line, "CR")
        eqs  == {i \in DOMAIN text : text[i] = "="}
        eq   == Min(eqs)
        key  == SubSeq(text, 1, eq - 1)
        value == SubSeq(text, eq + 1, Len(text))
        number == IF key = <<"speed">> THEN WithoutLast(value, "x") ELSE value
        known == eqs # {} /\ Len(key) = 1 /\ key[1] \in StatKey
    IN  IF ~known THEN stats
        ELSE IF key[1] = "progress" THEN [stats EXCEPT !["progress"] = 1]
        ELSE IF ~IsNumber(number) THEN stats
        ELSE [stats EXCEPT ![key[1]] = IF key[1] \in CounterKey
                                       THEN parse_u64(number) ELSE parse_double(number)]

-----------------------------------------------------------------------------

\* consumed: where the line begins that position i of the text belongs to.
LineStart(text, i) == Max({0} \cup {j \in 1..(i - 1) : text[j] = "LF"}) + 1

\* Every complete line of the text is parsed, in order.
ParseLines(stats, text) ==
    LET after[i \in 0..Len(text)] ==
          IF i = 0 THEN stats
          ELSE IF text[i] = "LF"
          THEN parse_line(after[i - 1], SubSeq(text, LineStart(text, i), i - 1))
          ELSE after[i - 1]
    IN  after[Len(text)]

\* Erases up to the last line end and not including it.
RestWithLineEnd(text) ==
    LET start == LineStart(text, Len(text) + 1)
    IN  SubSeq(text, IF start > 1 THEN start - 1 ELSE 1, Len(text))

\* What follows the last line end.
Rest(text) == SubSeq(text, LineStart(text, Len(text) + 1), Len(text))

\* A feed that looks at the size of the chunk and not of the buffer.
FeedChecksChunk(p, chunk) ==
    LET text == p.buffer \o chunk
    IN  IF Len(chunk) > MaxBufferedLine THEN [p EXCEPT !.buffer = <<>>]
        ELSE [buffer |-> Rest(text), stats |-> ParseLines(p.stats, text)]

\* Past the cap everything buffered is dropped, finished lines too.
Overflows(p, chunk) == Len(p.buffer \o chunk) > MaxBufferedLine

\* A feed that refuses a chunk it has no room for and keeps the buffer.
FeedRefusesChunk(p, chunk) ==
    LET text == p.buffer \o chunk
    IN  IF Overflows(p, chunk) THEN p
        ELSE [buffer |-> Rest(text), stats |-> ParseLines(p.stats, text)]

feed(p, chunk) ==
    LET text == p.buffer \o chunk
    IN  IF Overflows(p, chunk) THEN [p EXCEPT !.buffer = <<>>]
        ELSE [buffer |-> Rest(text), stats |-> ParseLines(p.stats, text)]
=============================================================================
