---------------------------- MODULE MCLifecycle ----------------------------
(***************************************************************************)
(* Two exporters and a capture daemon on one machine, for TLC.             *)
(***************************************************************************)
EXTENDS Lifecycle, TLC

MCProgram == [p \in {"e1", "e2", "d"} |-> IF p = "d" THEN "hamstercamd" ELSE "exporter"]

Option(flag, value, joined) == [flag |-> flag, value |-> value, joined |-> joined]

\* Nothing; a path twice, in both spellings; a path over the cap; one in no
\* directory; an address of its own; an address that is none; settings of one
\* program only.
MCCommandLines ==
    { <<>>,
      <<Option("--progress-socket", "tmp_sock", TRUE),
        Option("--progress-socket", "run_sock", FALSE)>>,
      <<Option("--progress-socket", "long_sock", TRUE)>>,
      <<Option("--progress-socket", "nodir_sock", TRUE)>>,
      <<Option("--metrics-addr", ":9845", FALSE)>>,
      <<Option("--metrics-addr", "nowhere", TRUE)>>,
      <<Option("--buffer-count", "4", TRUE), Option("--log-level", "info", FALSE)>> }

\* No stray word, a flag without its value, an unknown one, and both calls for help.
MCStrays == {"", "--metrics-addr", "--bogus", "--help", "-h"}

\* No variables; one that names a path; the address variable, which both
\* programs read; a level that is none.
MCEnvironments ==
    { <<>>, "--progress-socket" :> "tmp_sock", "--metrics-addr" :> ":9845",
      "--log-level" :> "loud" }
=============================================================================
