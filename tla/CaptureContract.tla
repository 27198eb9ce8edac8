-------------------------- MODULE CaptureContract --------------------------
(***************************************************************************)
(* What the capture state machine promises those who watch it from outside *)
(* (operators reading the log, alerts on the counters, other openers of    *)
(* the device node), stated without formats, frames, backoffs or time.     *)
(*                                                                         *)
(*   phase      Absent, Waiting (for a first producer on this open),       *)
(*              Live, or Released (let go after a stall or a mismatch)     *)
(*   ever_live  some stream has started since the process did              *)
(*   attached   the daemon holds a descriptor of the device node           *)
(*   said       the types of the events the last step emitted, in order    *)
(*   bumped     which of stalls_total and reconnects_total it incremented  *)
(***************************************************************************)
VARIABLES phase, ever_live, attached, said, bumped

Phase == {"Absent", "Waiting", "Live", "Released"}

\* The device node is held exactly while waiting for a first producer or
\* streaming, and in every phase entered from here on.
Move(p, es, bs) ==
    /\ phase' = p
    /\ attached' = (p \in {"Waiting", "Live"})
    /\ said' = es /\ bumped' = bs

Init == /\ phase = "Absent" /\ ever_live = FALSE /\ attached = FALSE
        /\ said = <<>> /\ bumped = {}

Open == /\ phase = "Absent"
        /\ Move("Waiting", <<"DeviceOpened", "AwaitingProducer">>, {})
        /\ UNCHANGED ever_live

\* A stream after a (re)open: the first one starts, any later one reconnects.
GoLive == /\ phase = "Waiting"
          /\ IF ever_live THEN Move("Live", <<"Reconnecting">>, {"reconnects"})
                          ELSE Move("Live", <<"StreamingStarted">>, {})
          /\ ever_live' = TRUE

Release == /\ phase = "Live"
           /\ Move("Released", <<"StallDetected">>, {"stalls"})
           /\ UNCHANGED ever_live

\* Resuming after a release is never a reconnection.
Resume == /\ phase = "Released" /\ ever_live
          /\ \/ Move("Live", <<"StallCleared", "StreamingStarted">>, {})
             \/ Move("Live", <<"StallCleared", "FormatChanged", "StreamingStarted">>, {})
          /\ UNCHANGED ever_live

Lose == /\ phase \in {"Live", "Released"}
        /\ Move("Absent", <<"DeviceLost">>, {})
        /\ UNCHANGED ever_live

\* A step that makes no progress says nothing.
Quiet == Move(phase, <<>>, {}) /\ UNCHANGED ever_live

Next == Open \/ GoLive \/ Release \/ Resume \/ Lose \/ Quiet

Spec == Init /\ [][Next]_<<phase, ever_live, attached, said, bumped>>
=============================================================================
