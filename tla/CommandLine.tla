---------------------------- MODULE CommandLine ----------------------------
(***************************************************************************)
(* The settings of the two programs: parse_flags and resolve, which        *)
(* src/src/main.cpp and src/src/exporter_main.cpp share, and the tests     *)
(* main makes of the values.                                               *)
(*                                                                         *)
(* A word of argv is [name, value, joined]: "--flag=value" is joined, any   *)
(* other word is its name alone.  An environment maps flag names to the    *)
(* values of the variables that stand for them.                            *)
(***************************************************************************)
EXTENDS Naturals, Sequences

CONSTANTS
    Number,  \* the texts parse_u32 or parse_duration_ms accepts
    Level    \* the texts parse_log_level accepts

KnownFlags(program) ==
    {"--metrics-addr", "--log-level"} \cup
      IF program = "exporter" THEN {"--progress-socket"}
      ELSE {"--device", "--expected-fps", "--stall-multiple", "--buffer-count",
            "--reconnect-max-backoff", "--awaiting-producer-max-backoff"}

NumericFlags(program) ==
    KnownFlags(program) \ {"--metrics-addr", "--log-level", "--progress-socket", "--device"}

DefaultOf(program, flag) ==
    CASE flag = "--progress-socket" -> "run_sock"
      [] flag = "--metrics-addr"    -> IF program = "exporter" THEN ":9844" ELSE ":9843"
      [] flag = "--device"          -> "video40"
      [] flag = "--log-level"       -> CHOOSE l \in Level : TRUE
      [] OTHER                      -> CHOOSE n \in Number : TRUE

\* What a word says when it is taken as a value.
Text(word) == IF word.joined THEN "flag=value" ELSE word.name

\* out[flag] = value.
With(out, flag, value) ==
    [f \in DOMAIN out \cup {flag} |-> IF f = flag THEN value ELSE out[f]]

\* One turn of parse_flags: want is the flag whose value comes next.
NextWord(program, st, word) ==
    IF ~st.ok THEN st
    ELSE IF st.want # "" THEN [st EXCEPT !.out = With(@, st.want, Text(word)), !.want = ""]
    ELSE IF word.name \notin KnownFlags(program) THEN [st EXCEPT !.ok = FALSE]
    ELSE IF word.joined THEN [st EXCEPT !.out = With(@, word.name, word.value)]
    ELSE [st EXCEPT !.want = word.name]

\* Refuses an unknown flag and a missing value; a later value of a flag
\* replaces an earlier one.
parse_flags(program, argv) ==
    LET after[i \in 0..Len(argv)] ==
          IF i = 0 THEN [ok |-> TRUE, want |-> "", out |-> <<>>]
          ELSE NextWord(program, after[i - 1], argv[i])
        end == after[Len(argv)]
    IN  [ok |-> end.ok /\ end.want = "", out |-> end.out]

\* The environment before the command line.
EnvironmentWins(program, flags, env, flag) ==
    IF flag \in DOMAIN env THEN env[flag]
    ELSE IF flag \in DOMAIN flags THEN flags[flag] ELSE DefaultOf(program, flag)

resolve(program, flags, env, flag) ==
    IF flag \in DOMAIN flags THEN flags[flag]
    ELSE IF flag \in DOMAIN env THEN env[flag] ELSE DefaultOf(program, flag)

\* The exporter answers --help or -h, wherever it stands, and does nothing else.
AsksHelp(program, argv) ==
    /\ program = "exporter"
    /\ \E i \in DOMAIN argv : ~argv[i].joined /\ argv[i].name \in {"--help", "-h"}

\* main goes on to start its servers.
Accepted(program, argv, env) ==
    LET parsed == parse_flags(program, argv)
    IN  /\ ~AsksHelp(program, argv) /\ parsed.ok
        /\ resolve(program, parsed.out, env, "--log-level") \in Level
        /\ \A f \in NumericFlags(program) : resolve(program, parsed.out, env, f) \in Number
=============================================================================
