------------------------------ MODULE Backoff ------------------------------
(***************************************************************************)
(* The bounded exponential backoff of include/hamstercam/backoff.hpp.  A   *)
(* Backoff object is its current_ delay; initial_ and max_ never change    *)
(* and are passed in.  next() returns the current delay and doubles what   *)
(* is left behind; the returned delay is the argument itself, so only the  *)
(* delay left behind needs an operator.                                    *)
(***************************************************************************)
EXTENDS Naturals

\* A next() that doubles without looking at the ceiling.
UncappedNext(current, max) == 2 * current

\* The current_ that next() leaves behind.
next(current, max) == IF 2 * current < max THEN 2 * current ELSE max

\* The current_ that the constructor and reset() leave behind.
reset(initial) == initial
=============================================================================
