----------------------------- MODULE JsonLogger -----------------------------
(***************************************************************************)
(* The daemon's log (src/src/json_logger.cpp): the level of each line and  *)
(* the filter of --log-level.  A line is named by its event; its fields    *)
(* and its JSON text are left out.                                         *)
(***************************************************************************)
EXTENDS Naturals, Sequences

LogLevel == {"debug", "info", "warn", "error"}

\* The order of the enumeration.
Rank == [debug |-> 0, info |-> 1, warn |-> 2, error |-> 3]

\* JsonLogger::log returns a line without a stream below min_level_.
Passes(level, min_level) == ~(Rank[level] < Rank[min_level])

\* Every state change at one level.
AllInfo(type) == "info"

\* JsonEventSink::emit: losses and stalls are warnings; startup and shutdown,
\* which main logs itself, are information like all the rest.
LevelOf(type) == IF type \in {"DeviceLost", "StallDetected"} THEN "warn" ELSE "info"

\* The last line of a log whose last line so far is given, after these events.
LastLine(last, types, min_level) ==
    LET shown == {i \in DOMAIN types : Passes(LevelOf(types[i]), min_level)}
    IN  IF shown = {} THEN last
        ELSE types[CHOOSE i \in shown : \A j \in shown : j <= i]
=============================================================================
