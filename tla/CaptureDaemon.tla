--------------------------- MODULE CaptureDaemon ---------------------------
(***************************************************************************)
(* hamstercamd's capture thread: the main loop of src/src/main.cpp around  *)
(* the state machine, on a v4l2loopback node and a producer that come, go  *)
(* and change as they please.  The node, the driver and the producer are   *)
(* not part of the repository.  On one point its texts disagree about the  *)
(* driver: whether a descriptor that stays open is shown a writer that     *)
(* comes later (include/hamstercam/daemon_config.hpp:22-23) or the format  *)
(* there was when it was opened (tests/support/fake_capture_device.hpp and *)
(* src/capture_state_machine.cpp:181-183).  The model has both: which of   *)
(* them a descriptor meets is left open whenever one is opened.            *)
(*                                                                         *)
(*   loop       where main is: about to test g_stop_requested ("top"),     *)
(*              in the poll() of dequeue_frame, asleep, or past the loop   *)
(*   remaining  ticks left of the poll timeout or of the sleep             *)
(*   stop       g_stop_requested                                           *)
(*   node       "ok", "gone" (open fails) or "faulty" (open works, buffers *)
(*              and dequeues fail)                                         *)
(*   producer   the format being written, NoFormat when nobody writes      *)
(*   flowing    the producer is delivering frames                          *)
(*   frozen     the descriptor being waited on is shown the same format    *)
(*              for as long as it is open,                                 *)
(*   seen       namely this one                                            *)
(*   fd_dead    the node vanished under our descriptor                     *)
(*   pending    payload size of a frame ready to be dequeued, 0 if none    *)
(*   log        the last line of the log, for each setting of --log-level  *)
(*   blind, lag history variables, for BlindTimeBounded and StopIsPrompt   *)
(***************************************************************************)
EXTENDS CaptureStateMachine, JsonLogger

CONSTANTS
    PollTimeout,   \* the poll timeout main passes to step(), in ticks
    PinnedByOther  \* the format another opener pins, or NoFormat

ASSUME DaemonAssumption ==
    /\ PollTimeout \in Nat \ {0}
    /\ PinnedByOther \in Format \cup {NoFormat}
    /\ 0 \notin Sizes /\ \A f \in Format : SizeImage[f] \in Sizes

VARIABLES loop, remaining, stop, node, producer, flowing, frozen, seen,
          fd_dead, pending, log, blind, lag

env == <<node, producer, flowing>>
main == <<loop, remaining, stop>>
driver == <<fd_dead, frozen, seen, pending>>
history == <<blind, lag>>
daemon_vars == <<vars, main, env, driver, log, history>>

DaemonInit ==
    /\ Init
    /\ loop = "top" /\ remaining = 0 /\ stop = FALSE
    /\ node \in {"ok", "gone"} /\ producer = NoFormat /\ flowing = FALSE
    /\ frozen = FALSE /\ seen = NoFormat
    /\ fd_dead = FALSE /\ pending = 0
    /\ log = [l \in LogLevel |-> LastLine("none", <<"startup">>, l)]
    /\ blind = 0 /\ lag = 0

-----------------------------------------------------------------------------
(* What the node answers. *)

OpenAnswer == IF node = "gone" THEN "Absent" ELSE "Opened"

\* The format a fresh descriptor is shown.
NodeFormat == IF PinnedByOther = NoFormat THEN producer ELSE PinnedByOther

AsAnswer(f) == [result |-> IF f = NoFormat THEN "NoProducer" ELSE "Known",
                format |-> f]

\* What a descriptor held since an earlier step is shown.
HeldAnswer == IF fd_dead THEN [result |-> "Error", format |-> NoFormat]
              ELSE AsAnswer(IF frozen THEN seen ELSE NodeFormat)

StartResult == IF node = "ok"
               THEN [reqbufs |-> TRUE, mapped |-> BufferCount, on |-> TRUE]
               ELSE [reqbufs |-> FALSE, mapped |-> 0, on |-> FALSE]

\* The payload sizes of a producer's frames.
Payloads(f) == IF f \in Compressed THEN Sizes ELSE {SizeImage[f]}

\* What poll and DQBUF report: a lost or failing device at once, a frame when
\* there is one, a timeout when poll has waited long enough or a signal
\* interrupted it.
DequeueResults ==
    IF fd_dead THEN {[result |-> "DeviceLost"]}
    ELSE IF node # "ok" THEN {[result |-> "Error"]}
    ELSE IF pending # 0
         THEN {[result |-> "Frame", bytes_used |-> pending, requeued |-> TRUE]}
    ELSE IF remaining = 0 \/ stop THEN {[result |-> "Timeout"]} ELSE {}

\* What a step does to the driver's end of the descriptor.  Only the one the
\* machine waits on is asked for its format again; if it is frozen, then at
\* what the open found.
DriverFollows ==
    /\ fd_dead' = (fd_dead /\ dev'.fd)
    /\ IF ~dev'.fd \/ state' # "AwaitingProducer"
       THEN frozen' = FALSE /\ seen' = NoFormat
       ELSE IF dev.fd THEN UNCHANGED <<frozen, seen>>
       ELSE frozen' \in BOOLEAN /\ seen' = IF frozen' THEN NodeFormat ELSE NoFormat

-----------------------------------------------------------------------------
(* The main loop. *)

\* Sleeps one chunk less than asked.
SleepsShort(w) == IF w > 0 THEN w - 1 ELSE 0

\* interruptible_sleep(recommended_wait): how long it sleeps unless stopped.
SleepTime(w) == w

\* What these lines add to the log.
Log(types) == log' = [l \in LogLevel |-> LastLine(log[l], types, l)]

\* After a step: its events are in the log; interruptible_sleep, which returns
\* at once for a wait of 0.
AfterStep ==
    /\ remaining' = SleepTime(wait')
    /\ loop' = IF remaining' > 0 THEN "sleeping" ELSE "top"
    /\ Log([i \in DOMAIN events' |-> events'[i].type])
    /\ UNCHANGED <<stop, env, history>>
    /\ DriverFollows

\* step() while the machine is not streaming: it returns without blocking.
CallStep ==
    /\ loop = "top" /\ ~stop
    /\ \/ step_device_absent(OpenAnswer)
       \/ step_awaiting_producer(HeldAnswer, StartResult)
       \/ step_recovering(OpenAnswer, AsAnswer(NodeFormat), StartResult)
    /\ AfterStep
    /\ UNCHANGED pending

\* step() while streaming: it blocks in poll() ...
CallPoll ==
    /\ loop = "top" /\ ~stop /\ state = "Streaming"
    /\ loop' = "polling" /\ remaining' = PollTimeout
    /\ UNCHANGED <<vars, stop, env, driver, log, history>>

\* ... until there is something to dequeue or nothing came.
PollReturns ==
    /\ loop = "polling"
    /\ \E a \in DequeueResults : step_streaming(a)
    /\ AfterStep
    /\ pending' = 0

\* Sleeps the whole backoff whatever g_stop_requested says.
SleepsThrough(r) == r = 0

\* The loop of interruptible_sleep ends: time is up, or stop was seen.
SleepOver(r) == r = 0 \/ stop

\* handle_signal
Signal == /\ loop # "exited" /\ ~stop /\ stop' = TRUE
          /\ UNCHANGED <<vars, loop, remaining, env, driver, log, history>>

\* After the loop: main releases the device and logs its end (the HTTP
\* thread, which it joins first, is in MetricsScrape).
Exit == /\ loop = "top" /\ stop
        /\ loop' = "exited" /\ remaining' = 0
        /\ dev' = LetGo(dev)
        /\ Log(<<"shutdown">>)
        /\ pending' = 0
        /\ UNCHANGED <<state, recovering, has_streamed_before, current_format,
                       backoffs, next_attempt_in, frame_clock, capture_state,
                       stream_info, outputs, stop, env, history>>
        /\ DriverFollows

-----------------------------------------------------------------------------
(* The environment. *)

\* The descriptor of a wait for a first producer was opened with nobody
\* writing and frozen at that.
FrozenOut == ~recovering /\ frozen /\ seen = NoFormat

\* The machine is waiting although an attempt now would show it a producer.
Blind == /\ state = "AwaitingProducer" /\ node = "ok" /\ producer # NoFormat
         /\ ~fd_dead /\ ~FrozenOut

\* Time passes only while main is blocked; main takes a frame, and leaves
\* its other states, before the next tick.
TimePasses ==
    /\ loop \in {"polling", "sleeping"} /\ remaining > 0 /\ pending = 0
    /\ Tick
    /\ IF loop = "sleeping" /\ SleepOver(remaining - 1)
       THEN loop' = "top" /\ remaining' = 0
       ELSE loop' = loop /\ remaining' = remaining - 1
    /\ \/ ~(flowing /\ dev.streaming) /\ UNCHANGED pending
       \/ flowing /\ dev.streaming /\ pending' \in Payloads(producer)
    /\ blind' = IF ~Blind THEN 0
                ELSE IF blind <= AwaitingProducerMaxBackoff THEN blind + 1 ELSE blind
    /\ lag' = IF stop THEN lag + 1 ELSE 0
    /\ UNCHANGED <<stop, env, fd_dead, frozen, seen, log>>

\* A producer starts, stops, falls silent, speaks again or changes format.
ProducerActs ==
    /\ loop # "exited" /\ node # "gone"
    /\ producer' \in Format \cup {NoFormat}
    /\ flowing' \in BOOLEAN /\ (flowing' => producer' # NoFormat)
    /\ blind' = IF producer' = producer THEN blind ELSE 0
    /\ UNCHANGED <<vars, main, node, driver, log, lag>>

\* The node vanishes, and its producer with it, comes back or misbehaves.
NodeActs ==
    /\ loop # "exited"
    /\ node' \in {"ok", "gone", "faulty"} \ {node}
    /\ IF node' = "gone"
       THEN producer' = NoFormat /\ flowing' = FALSE /\ fd_dead' = dev.fd
       ELSE UNCHANGED <<producer, flowing, fd_dead>>
    /\ blind' = 0
    /\ UNCHANGED <<vars, main, frozen, seen, pending, log, lag>>

DaemonNext == \/ CallStep \/ CallPoll \/ PollReturns \/ Signal \/ Exit
              \/ TimePasses \/ ProducerActs \/ NodeActs

\* Time does not stand still and the capture thread is scheduled; nothing is
\* assumed of the producer, the node or the operator.
Fairness ==
    /\ WF_daemon_vars(CallStep \/ CallPoll \/ PollReturns \/ Exit)
    /\ WF_daemon_vars(TimePasses)

DaemonSpec == DaemonInit /\ [][DaemonNext]_daemon_vars /\ Fairness

-----------------------------------------------------------------------------
(* Properties *)

\* The loop, the driver and the history keep their types, and no poll or
\* sleep is longer than the longest the settings allow.
DaemonTypeOK ==
    /\ loop \in {"top", "polling", "sleeping", "exited"}
    /\ \/ remaining <= PollTimeout
       \/ loop = "sleeping" /\ remaining <= ReconnectMaxBackoff
       \/ loop = "sleeping" /\ remaining <= AwaitingProducerMaxBackoff
    /\ stop \in BOOLEAN /\ flowing \in BOOLEAN /\ fd_dead \in BOOLEAN
    /\ node \in {"ok", "gone", "faulty"} /\ frozen \in BOOLEAN
    /\ producer \in Format \cup {NoFormat} /\ seen \in Format \cup {NoFormat}
    /\ pending \in Sizes \cup {0}
    /\ blind \in Nat /\ lag \in Nat
    /\ log \in [LogLevel -> EventType \cup {"none", "startup", "shutdown"}]

\* The main loop's sleep and the machine's own deadline agree: a call of
\* step() is never wasted on an attempt that is not due.
StepIsDue == loop \in {"top", "polling"} /\ ~stop => next_attempt_in = 0

\* A producer an attempt would be shown is noticed within the
\* awaiting_producer ceiling, however long the daemon had been waiting: in
\* recovery, which probes afresh, under either driver, and on the descriptor
\* of the first wait unless the driver froze it with nobody writing.
BlindTimeBounded == blind <= AwaitingProducerMaxBackoff

\* The phases a last line leaves open: with every line shown ...
PhasesAfter(line) ==
    CASE line \in {"startup", "DeviceLost"}               -> {"Absent"}
      [] line = "AwaitingProducer"                        -> {"Waiting"}
      [] line \in {"StreamingStarted", "Reconnecting"}    -> {"Live"}
      [] line = "StallDetected"                           -> {"Released"}
      [] OTHER                                            -> {}

\* ... and with the warnings only.
PhasesAfterWarning(line) ==
    CASE line = "none"          -> {"Absent", "Waiting", "Live"}
      [] line = "DeviceLost"    -> {"Absent", "Waiting", "Live"}
      [] line = "StallDetected" -> {"Released", "Live"}
      [] OTHER                  -> {}

\* The last line of the log tells the phase the daemon is in, whatever came
\* before it; filtered to warnings it still tells a release from a loss, and
\* nothing is ever logged as an error.
LogTellsPhase ==
    loop # "exited" =>
      /\ phase \in PhasesAfter(log["info"]) /\ log["debug"] = log["info"]
      /\ phase \in PhasesAfterWarning(log["warn"])
      /\ log["error"] = "none"

\* SIGTERM ends the loop within one poll timeout or one sleep chunk, never
\* only after the backoff it interrupted.
StopIsPrompt == lag <= PollTimeout

\* A signal ends the loop, and by then the device is released: nothing
\* stays attached to the node.
StopReleases == stop ~> (loop = "exited" /\ ~dev.fd /\ ~dev.streaming)

\* A stream that delivered a frame and then fell silent is released.
StallNoticed ==
    (state = "Streaming" /\ have_last_frame /\ ~flowing)
      ~> (flowing \/ state # "Streaming" \/ node # "ok" \/ stop)

\* A device that vanished under a stream is let go of.
StreamLossNoticed == (fd_dead /\ state = "Streaming") ~> (~fd_dead \/ stop)

\* A device that vanished under an open descriptor is let go of, in every
\* state that holds one.
LossNoticed == fd_dead ~> (~fd_dead \/ stop)

\* The stream's format is that of the producer as far as payload sizes tell.
Agrees == \/ producer = NoFormat \/ current_format = NoFormat
          \/ {producer, current_format} \cap Compressed # {}
          \/ SizeImage[producer] = SizeImage[current_format]

Settled == <>[][FALSE]_env

\* Once the surroundings settle with a producer that delivers, the daemon ends
\* up streaming, and in a format that fits what the producer writes, under
\* either driver, unless the descriptor held for a first producer is dead or
\* frozen: after any number of releases and losses it is not cut off from a
\* producer its next attempt could see.
ProducerFoundEventually ==
    Settled /\ <>[](node = "ok" /\ flowing /\ ~fd_dead /\ ~FrozenOut)
      => <>[](state = "Streaming" /\ Agrees) \/ <>stop

\* Waiting on the open descriptor is enough for a writer to show up: once the
\* surroundings settle with a producer that delivers on a node that is alive,
\* the daemon streams.
WriterShowsUp ==
    Settled /\ <>[](node = "ok" /\ flowing /\ ~fd_dead)
      => <>[](state = "Streaming") \/ <>stop

\* Once the surroundings settle, the log falls silent: events report changes
\* of state, never frames.
SettlesQuietly == Settled => <>[](events = <<>>) \/ <>stop

KeepsBlocking == []<><<TimePasses>>_daemon_vars \/ <>stop

\* A wait of zero is never a busy loop: once the surroundings settle, with a
\* node whose dequeues do not fail at once, main keeps blocking in poll() or in
\* its sleep.
SpinsOnlyOnFault == Settled /\ <>[](node # "faulty") => KeepsBlocking
=============================================================================
