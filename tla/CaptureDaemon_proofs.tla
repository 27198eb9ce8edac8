------------------------ MODULE CaptureDaemon_proofs ------------------------
(***************************************************************************)
(* Proofs about CaptureDaemon: the main loop of hamstercamd around the     *)
(* state machine, for every setting, every node and every producer.  They  *)
(* rest on the invariant Inv of the machine and on the steps it makes of   *)
(* its contract (CaptureStateMachine_proofs).                              *)
(***************************************************************************)
EXTENDS CaptureDaemon, CaptureStateMachine_proofs

-----------------------------------------------------------------------------
(* The inductive invariant. *)

\* What the surroundings and the driver hold; only a producer that writes a
\* format delivers frames.
EnvInv ==
    /\ node \in {"ok", "gone", "faulty"} /\ producer \in AnyFormat
    /\ flowing \in BOOLEAN /\ (flowing => producer # NoFormat)
    /\ fd_dead \in BOOLEAN /\ pending \in Sizes \cup {0}
    /\ frozen \in BOOLEAN /\ seen \in AnyFormat

\* Where main is, and how its sleep and the machine's deadline go together.
LoopInv ==
    /\ loop \in {"top", "polling", "sleeping", "exited"} /\ stop \in BOOLEAN
    /\ loop \in {"top", "exited"} => remaining = 0
    /\ loop = "polling" => remaining \in 0..PollTimeout /\ state = "Streaming"
    /\ loop = "sleeping" => /\ remaining \in Nat \ {0}
                            /\ remaining = next_attempt_in
    /\ loop = "top" /\ ~stop => next_attempt_in = 0

\* The machine's invariant holds until main lets go of the device, and then
\* nothing is attached.
MachineInv ==
    /\ loop # "exited" => Inv
    /\ loop = "exited" => ~dev.fd /\ ~dev.streaming

\* What is left of the poll bounds what a stop can still take; a sleep is
\* left at the tick after the signal.
StopInv ==
    /\ lag \in 0..PollTimeout
    /\ ~stop \/ loop = "sleeping" => lag = 0
    /\ loop = "polling" => lag + remaining <= PollTimeout

\* Only a machine that would be shown a producer is blind to it, and only
\* until its sleep is over.
BlindInv ==
    /\ blind \in 0..AwaitingProducerMaxBackoff
    /\ state = "DeviceAbsent" \/ node # "ok" \/ producer = NoFormat \/ fd_dead
         => blind = 0
    /\ state = "AwaitingProducer" /\ FrozenOut => blind = 0
    /\ loop = "sleeping" => blind + next_attempt_in <= AwaitingProducerMaxBackoff
                            \/ state # "AwaitingProducer"

-----------------------------------------------------------------------------
(* What the node answers is an answer the machine knows. *)

\* The answers of the node are among those the machine is proved for.
LEMMA AnswersOK ==
    ASSUME EnvInv
    PROVE  /\ OpenAnswer \in OpenResult
           /\ HeldAnswer \in FormatAnswer /\ AsAnswer(NodeFormat) \in FormatAnswer
           /\ StartResult \in StartAnswer
           /\ DequeueResults \subseteq DequeueAnswer
  <1>1. OpenAnswer \in OpenResult
    BY DEF OpenAnswer, OpenResult
  <1>2. NodeFormat \in AnyFormat
    BY DaemonAssumption DEF NodeFormat, EnvInv, AnyFormat
  <1>3. ASSUME NEW f \in AnyFormat PROVE AsAnswer(f) \in FormatAnswer
    <2>1. CASE f = NoFormat
      BY <2>1 DEF AsAnswer, FormatAnswer
    <2>2. CASE f \in Format /\ f # NoFormat
      BY <2>2 DEF AsAnswer, FormatAnswer
    <2> QED
      BY <1>3, <2>1, <2>2 DEF AnyFormat
  <1>4. HeldAnswer \in FormatAnswer
    BY <1>2, <1>3 DEF HeldAnswer, FormatAnswer, EnvInv
  <1>5. StartResult \in StartAnswer
    BY BufferCountAssumption DEF StartResult, StartAnswer
  <1>6. DequeueResults \subseteq DequeueAnswer
    <2> SUFFICES ASSUME NEW a \in DequeueResults PROVE a \in DequeueAnswer
      OBVIOUS
    <2>1. CASE a = [result |-> "Frame", bytes_used |-> pending, requeued |-> TRUE]
               /\ pending # 0
      BY <2>1 DEF DequeueAnswer, EnvInv
    <2>2. CASE a \in {[result |-> "DeviceLost"], [result |-> "Error"],
                      [result |-> "Timeout"]}
      BY <2>2 DEF DequeueAnswer
    <2> QED
      BY <2>1, <2>2 DEF DequeueResults
  <1> QED
    BY <1>1, <1>2, <1>3, <1>4, <1>5, <1>6

\* Whatever main and its surroundings do, the machine makes a step of its
\* own or none, until main exits.
LEMMA DaemonStep ==
    ASSUME EnvInv, DaemonNext, ~Exit
    PROVE  [Next]_vars
  <1>1. CASE CallStep
    BY <1>1, AnswersOK DEF CallStep, Next, step
  <1>2. CASE PollReturns
    BY <1>2, AnswersOK DEF PollReturns, Next, step
  <1>3. CASE TimePasses
    BY <1>3 DEF TimePasses, Next
  <1>4. CASE CallPoll \/ Signal \/ ProducerActs \/ NodeActs
    BY <1>4 DEF CallPoll, Signal, ProducerActs, NodeActs
  <1> QED
    BY <1>1, <1>2, <1>3, <1>4 DEF DaemonNext

\* What a step recommends to wait is what is left to its next attempt.
LEMMA StepWaits ==
    ASSUME Inv, step PROVE wait' = next_attempt_in' /\ wait' \in Nat
  <1>0. /\ next_attempt_in \in Nat /\ device_absent_backoff \in Nat
        /\ awaiting_producer_backoff \in Nat
        /\ state = "Streaming" => next_attempt_in = 0
    BY DEF Inv, ControlInv, MachineTypeOK, FreshBackoff
  <1> DEFINE Agree == wait' = next_attempt_in' /\ wait' \in Nat
  <1>1. NotYet => Agree
    BY <1>0 DEF NotYet, Emit
  <1>2. ASSUME NEW STATE d, lose_device(d) PROVE Agree
    BY <1>2 DEF lose_device, Emit
  <1>3. ASSUME NEW STATE d, NEW STATE cs, NEW r, begin_release_cycle(d, cs, r)
        PROVE  Agree
    BY <1>3 DEF begin_release_cycle, Emit
  <1>4. ASSUME NEW o, step_device_absent(o) PROVE Agree
    BY <1>0, <1>1, <1>4 DEF step_device_absent, DeviceFound, DeviceMissing, Emit
  <1>5. ASSUME NEW STATE d, NEW q, NoFormatYet(d, q) PROVE Agree
    BY <1>0, <1>5 DEF NoFormatYet, BackOffAwaiting, Emit
  <1>6. ASSUME NEW q, NEW s, step_awaiting_producer(q, s) PROVE Agree
    <2>1. CASE next_attempt_in = 0 /\ ProducerFound(q.format, s)
      BY <1>0, <2>1
         DEF ProducerFound, enter_configuring, Configured, ConfigureFailed,
             BackOffAwaiting, FirstStart, BufferFailure, Emit
    <2> QED
      BY <1>1, <1>5, <1>6, <2>1 DEF step_awaiting_producer
  <1>7. ASSUME NEW o, NEW q, NEW s, step_recovering(o, q, s) PROVE Agree
    <2>1. CASE next_attempt_in = 0 /\ Resume(q.format, s)
      BY <1>0, <2>1
         DEF Resume, enter_configuring, Configured, ConfigureFailed,
             BackOffAwaiting, Emit
    <2> QED
      BY <1>1, <1>2, <1>5, <1>7, <2>1 DEF step_recovering
  <1>8. ASSUME NEW a, step_streaming(a) PROVE Agree
    <2>1. state = "Streaming" /\ next_attempt_in = 0
      BY <1>0, <1>8 DEF step_streaming
    <2>2. CASE Frame(a)
      BY <1>3, <2>1, <2>2 DEF Frame, Emit
    <2>3. CASE NoFrame(<<>>) \/ NoFrame(<<"Dequeue">>)
      BY <2>1, <2>3 DEF NoFrame, Emit
    <2> QED
      BY <1>2, <1>3, <1>8, <2>2, <2>3 DEF step_streaming
  <1> QED
    BY <1>4, <1>6, <1>7, <1>8 DEF step

\* A dequeue never makes main sleep.
LEMMA StreamingNeverWaits ==
    ASSUME NEW a, step_streaming(a) PROVE wait' = 0
  BY DEF step_streaming, Frame, NoFrame, begin_release_cycle, lose_device, Emit

-----------------------------------------------------------------------------
(* The invariant is inductive: one lemma per part. *)

\* The part that needs nothing of the settings.
DaemonInv == EnvInv /\ LoopInv /\ MachineInv /\ StopInv

\* What main is about to do is a call of step() that returns.
LEMMA CallsStep ==
    ASSUME EnvInv, CallStep \/ PollReturns PROVE step
  BY AnswersOK DEF CallStep, PollReturns, step

\* The surroundings and the driver keep what EnvInv says of them.
LEMMA EnvKeeps ==
    ASSUME EnvInv, MachineInv, [DaemonNext]_daemon_vars PROVE EnvInv'
  <1> USE DEF EnvInv, env, main, driver, history
  <1>0. ASSUME DriverFollows
        PROVE  fd_dead' \in BOOLEAN /\ frozen' \in BOOLEAN /\ seen' \in AnyFormat
    BY <1>0, DaemonAssumption DEF DriverFollows, NodeFormat, AnyFormat
  <1>1. CASE CallStep
    BY <1>0, <1>1 DEF CallStep, AfterStep
  <1>2. CASE CallPoll \/ Signal
    BY <1>2 DEF CallPoll, Signal
  <1>3. CASE PollReturns
    BY <1>0, <1>3 DEF PollReturns, AfterStep
  <1>4. CASE Exit
    BY <1>0, <1>4 DEF Exit
  <1>5. CASE TimePasses
    <2>1. ASSUME flowing PROVE Payloads(producer) \subseteq Sizes
      BY <2>1, DaemonAssumption DEF Payloads, AnyFormat
    <2> QED
      BY <1>5, <2>1 DEF TimePasses
  <1>6. CASE ProducerActs
    BY <1>6 DEF ProducerActs, AnyFormat
  <1>7. CASE NodeActs
    <2>1. dev.fd \in BOOLEAN
      BY <1>7 DEF NodeActs, MachineInv, Inv, DeviceInv, DeviceTypeOK, Device
    <2> QED
      BY <1>7, <2>1 DEF NodeActs, AnyFormat
  <1>8. CASE UNCHANGED daemon_vars
    BY <1>8 DEF daemon_vars
  <1> QED
    BY <1>1, <1>2, <1>3, <1>4, <1>5, <1>6, <1>7, <1>8 DEF DaemonNext

\* The machine keeps its own invariant until main lets go of the device.
LEMMA MachineKeeps ==
    ASSUME EnvInv, LoopInv, MachineInv, [DaemonNext]_daemon_vars PROVE MachineInv'
  <1>1. CASE DaemonNext /\ ~Exit
    <2>1. loop # "exited"
      BY <1>1
         DEF DaemonNext, CallStep, CallPoll, PollReturns, Signal, TimePasses,
             ProducerActs, NodeActs
    <2>2. Inv'
      BY <1>1, <2>1, DaemonStep, Inductive DEF MachineInv
    <2>3. loop' # "exited"
      BY <1>1, <2>1
         DEF DaemonNext, CallStep, CallPoll, PollReturns, AfterStep, Signal,
             TimePasses, ProducerActs, NodeActs, main
    <2> QED
      BY <2>2, <2>3 DEF MachineInv
  <1>2. CASE Exit
    <2>1. dev \in Device
      BY <1>2 DEF Exit, MachineInv, Inv, DeviceInv, DeviceTypeOK
    <2> QED
      BY <1>2, <2>1, LetGoDetaches DEF Exit, MachineInv, Detached
  <1>3. CASE UNCHANGED daemon_vars
    <2>1. UNCHANGED vars /\ UNCHANGED loop
      BY <1>3 DEF daemon_vars, main
    <2>2. loop # "exited" => Inv'
      BY <2>1, Inductive DEF MachineInv
    <2>3. UNCHANGED dev
      BY <2>1 DEF vars
    <2> QED
      BY <2>1, <2>2, <2>3 DEF MachineInv
  <1> QED
    BY <1>1, <1>2, <1>3

\* Main's sleep and the machine's deadline stay in step.
LEMMA LoopKeeps ==
    ASSUME EnvInv, LoopInv, MachineInv, [DaemonNext]_daemon_vars PROVE LoopInv'
  <1> USE DEF LoopInv
  <1>0. loop # "exited" => /\ next_attempt_in \in Nat
                           /\ state = "Streaming" => next_attempt_in = 0
    BY DEF MachineInv, Inv, ControlInv, MachineTypeOK, FreshBackoff
  <1>1. CASE CallStep \/ PollReturns
    <2>1. wait' = next_attempt_in' /\ wait' \in Nat
      BY <1>1, CallsStep, StepWaits DEF MachineInv, CallStep, PollReturns
    <2>2. AfterStep
      BY <1>1 DEF CallStep, PollReturns
    <2> QED
      BY <2>1, <2>2 DEF AfterStep, SleepTime
  <1>2. CASE CallPoll
    BY <1>2, DaemonAssumption DEF CallPoll, vars
  <1>3. CASE Signal
    BY <1>3 DEF Signal, vars
  <1>4. CASE Exit
    BY <1>4 DEF Exit
  <1>5. CASE TimePasses
    BY <1>0, <1>5, DaemonAssumption DEF TimePasses, Tick, SleepOver
  <1>6. CASE ProducerActs \/ NodeActs \/ UNCHANGED daemon_vars
    BY <1>6 DEF ProducerActs, NodeActs, daemon_vars, vars, main
  <1> QED
    BY <1>1, <1>2, <1>3, <1>4, <1>5, <1>6 DEF DaemonNext

\* Every tick after a signal uses up what is left of a poll, or ends a sleep.
LEMMA StopKeeps ==
    ASSUME EnvInv, LoopInv, MachineInv, StopInv, [DaemonNext]_daemon_vars
    PROVE  StopInv'
  <1> USE DaemonAssumption DEF StopInv, LoopInv, history
  <1>1. CASE CallStep
    BY <1>1 DEF CallStep, AfterStep
  <1>2. CASE CallPoll
    BY <1>2 DEF CallPoll
  <1>3. CASE PollReturns
    <2>1. wait' = 0
      BY <1>3, StreamingNeverWaits DEF PollReturns
    <2> QED
      BY <1>3, <2>1 DEF PollReturns, AfterStep, SleepTime
  <1>4. CASE Signal \/ Exit
    BY <1>4 DEF Signal, Exit
  <1>5. CASE TimePasses
    BY <1>5 DEF TimePasses, SleepOver
  <1>6. CASE ProducerActs \/ NodeActs \/ UNCHANGED daemon_vars
    BY <1>6 DEF ProducerActs, NodeActs, daemon_vars, main
  <1> QED
    BY <1>1, <1>2, <1>3, <1>4, <1>5, <1>6 DEF DaemonNext

\* The daemon starts within its invariant.
LEMMA DaemonInitial == DaemonInit => DaemonInv
  <1> SUFFICES ASSUME DaemonInit PROVE DaemonInv
    OBVIOUS
  <1>0. /\ node \in {"ok", "gone"} /\ producer = NoFormat /\ flowing = FALSE
        /\ fd_dead = FALSE /\ pending = 0 /\ frozen = FALSE /\ seen = NoFormat
        /\ lag = 0 /\ loop = "top" /\ stop = FALSE
    BY DEF DaemonInit
  <1>1. EnvInv
    BY <1>0, Zenon DEF EnvInv, AnyFormat
  <1>2. StopInv
    BY <1>0, DaemonAssumption DEF StopInv
  <1>3. LoopInv
    BY DEF DaemonInit, Init, LoopInv
  <1>4. MachineInv
    BY Initial DEF DaemonInit, MachineInv
  <1> QED
    BY <1>1, <1>2, <1>3, <1>4 DEF DaemonInv

\* Every step of main, of time and of the surroundings keeps it.
THEOREM DaemonInductive == DaemonInv /\ [DaemonNext]_daemon_vars => DaemonInv'
  BY EnvKeeps, MachineKeeps, LoopKeeps, StopKeeps DEF DaemonInv

\* The invariant holds in every reachable state of the daemon.
THEOREM DaemonInvariance == DaemonSpec => []DaemonInv
  BY DaemonInitial, DaemonInductive, PTL DEF DaemonSpec

-----------------------------------------------------------------------------
(* Consequences. *)

\* For every setting, a call of step() is never wasted on an attempt that is
\* not due: the sleep of the main loop ends no sooner than the deadline.
THEOREM StepsAreDue == DaemonSpec => []StepIsDue
  <1>1. DaemonInv => StepIsDue
    BY DEF DaemonInv, LoopInv, MachineInv, Inv, ControlInv, FreshBackoff, StepIsDue
  <1> QED
    BY <1>1, DaemonInvariance, PTL

\* For every setting and whatever is going on, SIGTERM ends the loop within
\* one poll timeout or one sleep chunk.
THEOREM StopsPromptly == DaemonSpec => []StopIsPrompt
  <1>1. DaemonInv => StopIsPrompt
    BY DaemonAssumption DEF DaemonInv, StopInv, StopIsPrompt
  <1> QED
    BY <1>1, DaemonInvariance, PTL

\* The safety half of StopReleases: when main is past its loop, nothing is
\* attached to the node or streaming.
ReleasedAtExit == loop = "exited" => ~dev.fd /\ ~dev.streaming

\* However the loop was left, the device was released.
THEOREM ExitReleases == DaemonSpec => []ReleasedAtExit
  <1>1. DaemonInv => ReleasedAtExit
    BY DEF DaemonInv, MachineInv, ReleasedAtExit
  <1> QED
    BY <1>1, DaemonInvariance, PTL

-----------------------------------------------------------------------------
(* The log. *)

\* What a log may hold as its last line.
LogLine == EventType \cup {"none", "startup", "shutdown"}

\* What each setting of --log-level lets through.
LEMMA WhatPasses ==
    ASSUME NEW t
    PROVE  /\ Passes(LevelOf(t), "debug") /\ Passes(LevelOf(t), "info")
           /\ Passes(LevelOf(t), "warn") <=> t \in {"DeviceLost", "StallDetected"}
           /\ ~Passes(LevelOf(t), "error")
  BY DEF Passes, LevelOf, Rank

\* Nothing shown leaves the last line; otherwise it is the last one shown.
LEMMA LastLineIs ==
    ASSUME NEW last, NEW ts, NEW l
    PROVE  /\ (\A i \in DOMAIN ts : ~Passes(LevelOf(ts[i]), l)) => LastLine(last, ts, l) = last
           /\ \A n \in Nat :
                /\ n > 0 /\ DOMAIN ts = 1..n /\ Passes(LevelOf(ts[n]), l)
                => LastLine(last, ts, l) = ts[n]
  <1> DEFINE shown == {i \in DOMAIN ts : Passes(LevelOf(ts[i]), l)}
  <1>1. LastLine(last, ts, l) = IF shown = {} THEN last
                                ELSE ts[CHOOSE i \in shown : \A j \in shown : j <= i]
    BY DEF LastLine
  <1>2. ASSUME \A i \in DOMAIN ts : ~Passes(LevelOf(ts[i]), l)
        PROVE  LastLine(last, ts, l) = last
    BY <1>1, <1>2
  <1>3. ASSUME NEW n \in Nat, n > 0, DOMAIN ts = 1..n, Passes(LevelOf(ts[n]), l)
        PROVE  LastLine(last, ts, l) = ts[n]
    <2>1. n \in shown /\ \A j \in shown : j \in 1..n
      BY <1>3
    <2> HIDE DEF shown
    <2>2. \A i \in shown : (\A j \in shown : j <= i) => i = n
      BY <2>1
    <2>3. \E i \in shown : \A j \in shown : j <= i
      BY <2>1
    <2>4. (CHOOSE i \in shown : \A j \in shown : j <= i) = n
      BY <2>2, <2>3
    <2> QED
      BY <1>1, <2>1, <2>4
  <1> QED
    BY <1>2, <1>3

\* The last line after n events, for each setting.
Lines(last, ts, n) ==
    /\ n = 0 => \A l : LastLine(last, ts, l) = last
    /\ n > 0 => LastLine(last, ts, "debug") = ts[n] /\ LastLine(last, ts, "info") = ts[n]
    /\ n > 0 /\ ts[n] \in {"DeviceLost", "StallDetected"}
         => LastLine(last, ts, "warn") = ts[n]
    /\ (\A i \in 1..n : ts[i] \notin {"DeviceLost", "StallDetected"})
         => LastLine(last, ts, "warn") = last
    /\ LastLine(last, ts, "error") = last

\* Everything is information or a warning: the last event of a step is the
\* last line at the two lower levels, and an error log stays as it was.
LEMMA LinesAfter ==
    ASSUME NEW last, NEW ts, NEW n \in Nat, DOMAIN ts = 1..n
    PROVE  Lines(last, ts, n)
  <1>1. n = 0 => \A l : LastLine(last, ts, l) = last
    BY LastLineIs
  <1>2. n > 0 => LastLine(last, ts, "debug") = ts[n] /\ LastLine(last, ts, "info") = ts[n]
    BY LastLineIs, WhatPasses
  <1>3. n > 0 /\ ts[n] \in {"DeviceLost", "StallDetected"}
          => LastLine(last, ts, "warn") = ts[n]
    BY LastLineIs, WhatPasses
  <1>4. (\A i \in 1..n : ts[i] \notin {"DeviceLost", "StallDetected"})
          => LastLine(last, ts, "warn") = last
    BY LastLineIs, WhatPasses
  <1>5. LastLine(last, ts, "error") = last
    BY LastLineIs, WhatPasses
  <1> QED
    BY <1>1, <1>2, <1>3, <1>4, <1>5 DEF Lines

\* The four logs after a step that says nothing, something harmless that ends
\* in ts[n], or one warning.
LEMMA LogAfter ==
    ASSUME log \in [LogLevel -> LogLine],
           NEW ts, NEW n \in Nat, DOMAIN ts = 1..n, Log(ts)
    PROVE  /\ n = 0 => UNCHANGED log
           /\ n > 0 => log'["debug"] = ts[n] /\ log'["info"] = ts[n]
           /\ n = 1 /\ ts[n] \in {"DeviceLost", "StallDetected"} => log'["warn"] = ts[n]
           /\ (\A i \in 1..n : ts[i] \notin {"DeviceLost", "StallDetected"})
                => log'["warn"] = log["warn"]
           /\ log'["error"] = log["error"]
           /\ n > 0 => log' = [l \in LogLevel |-> log'[l]]
  <1>0. \A l : Lines(log[l], ts, n)
    BY LinesAfter
  <1>1. /\ log' = [l \in LogLevel |-> LastLine(log[l], ts, l)]
        /\ {"debug", "info", "warn", "error"} = LogLevel
    BY DEF Log, LogLevel
  <1>2. \A l \in LogLevel : log'[l] = LastLine(log[l], ts, l)
    BY <1>1
  <1>3. ASSUME n = 0 PROVE UNCHANGED log
    <2>1. \A l \in LogLevel : LastLine(log[l], ts, l) = log[l]
      BY <1>0, <1>3 DEF Lines
    <2> QED
      BY <1>1, <2>1
  <1>4. n > 0 => log'["debug"] = ts[n] /\ log'["info"] = ts[n]
    BY <1>0, <1>1, <1>2 DEF Lines
  <1>5. n = 1 /\ ts[n] \in {"DeviceLost", "StallDetected"} => log'["warn"] = ts[n]
    <2>1. n = 1 /\ ts[n] \in {"DeviceLost", "StallDetected"}
            => LastLine(log["warn"], ts, "warn") = ts[n]
      BY <1>0 DEF Lines
    <2> QED
      BY <1>1, <1>2, <2>1
  <1>6. (\A i \in 1..n : ts[i] \notin {"DeviceLost", "StallDetected"})
          => log'["warn"] = log["warn"]
    BY <1>0, <1>1, <1>2 DEF Lines
  <1>7. log'["error"] = log["error"]
    BY <1>0, <1>1, <1>2 DEF Lines
  <1>8. log' = [l \in LogLevel |-> log'[l]]
    BY <1>1
  <1> QED
    BY <1>3, <1>4, <1>5, <1>6, <1>7, <1>8

\* The last lines after a step whose last event is t; w is the last warning.
LogIs(t, w) ==
    /\ log' \in [LogLevel -> LogLine]
    /\ log'["debug"] = t /\ log'["info"] = t
    /\ log'["warn"] = w /\ log'["error"] = log["error"]

\* What is no warning, and what is one.
LEMMA HarmlessLines ==
    ASSUME log \in [LogLevel -> LogLine],
           NEW ts, NEW n \in Nat, n > 0, DOMAIN ts = 1..n, ts[n] \in LogLine,
           \A i \in 1..n : ts[i] \notin {"DeviceLost", "StallDetected"}, Log(ts)
    PROVE  LogIs(ts[n], log["warn"])
  <1>1. /\ log'["debug"] = ts[n] /\ log'["info"] = ts[n]
        /\ log'["warn"] = log["warn"] /\ log'["error"] = log["error"]
        /\ log' = [l \in LogLevel |-> log'[l]]
    BY LogAfter
  <1>2. \A l \in LogLevel : log'[l] \in LogLine
    BY <1>1 DEF LogLevel
  <1> QED
    BY <1>1, <1>2 DEF LogIs

LEMMA WarningLine ==
    ASSUME log \in [LogLevel -> LogLine],
           NEW t \in {"DeviceLost", "StallDetected"}, Log(<<t>>)
    PROVE  LogIs(t, t)
  <1> DEFINE ts == <<t>>
  <1>1. DOMAIN ts = 1..1 /\ ts[1] = t /\ 1 \in Nat /\ 1 > 0
    OBVIOUS
  <1>2. Log(ts)
    OBVIOUS
  <1> HIDE DEF ts
  <1>3. /\ log'["debug"] = t /\ log'["info"] = t
        /\ log'["warn"] = t /\ log'["error"] = log["error"]
        /\ log' = [l \in LogLevel |-> log'[l]]
    BY <1>1, <1>2, LogAfter
  <1>4. \A l \in LogLevel : log'[l] \in LogLine
    BY <1>3 DEF LogLevel, LogLine, EventType
  <1> QED
    BY <1>3, <1>4 DEF LogIs

\* The last lines and the phase go together: LogTellsPhase before the exit.
LogMatches ==
    /\ log \in [LogLevel -> LogLine]
    /\ phase \in PhasesAfter(log["info"]) /\ log["debug"] = log["info"]
    /\ phase \in PhasesAfterWarning(log["warn"])
    /\ log["error"] = "none"

\* What the contract makes a step say keeps the log and the phase together.
LEMMA LogFollowsContract ==
    ASSUME LogMatches, Contract!Next, Log(said') PROVE LogMatches'
  <1> USE DEF PhasesAfter, PhasesAfterWarning
  <1>0. log \in [LogLevel -> LogLine]
    BY DEF LogMatches
  <1>1. CASE Contract!Quiet
    <2>1. said' = <<>> /\ phase' = phase
      BY <1>1 DEF Contract!Quiet, Contract!Move
    <2>2. DOMAIN <<>> = 1..0 /\ 0 \in Nat
      OBVIOUS
    <2>3. UNCHANGED log
      BY <1>0, <2>1, <2>2, LogAfter
    <2> QED
      BY <2>1, <2>3 DEF LogMatches
  <1>2. CASE Contract!Open
    <2> DEFINE ts == <<"DeviceOpened", "AwaitingProducer">>
    <2>1. said' = ts /\ phase = "Absent" /\ phase' = "Waiting"
      BY <1>2 DEF Contract!Open, Contract!Move
    <2>2. /\ DOMAIN ts = 1..2 /\ 2 \in Nat /\ 2 > 0 /\ ts[2] = "AwaitingProducer"
          /\ ts[2] \in LogLine
          /\ \A i \in 1..2 : ts[i] \notin {"DeviceLost", "StallDetected"}
      BY DEF LogLine, EventType
    <2> HIDE DEF ts
    <2>3. LogIs("AwaitingProducer", log["warn"])
      BY <1>0, <2>1, <2>2, HarmlessLines
    <2> QED
      BY <2>1, <2>3 DEF LogMatches, LogIs
  <1>3. CASE Contract!GoLive
    <2>1. PICK t \in {"Reconnecting", "StreamingStarted"} :
               said' = <<t>> /\ phase = "Waiting" /\ phase' = "Live"
      BY <1>3 DEF Contract!GoLive, Contract!Move
    <2> DEFINE ts == <<t>>
    <2>2. /\ DOMAIN ts = 1..1 /\ 1 \in Nat /\ 1 > 0 /\ ts[1] = t
          /\ ts[1] \in LogLine
          /\ \A i \in 1..1 : ts[i] \notin {"DeviceLost", "StallDetected"}
      BY DEF LogLine, EventType
    <2>3. Log(ts)
      BY <2>1
    <2> HIDE DEF ts
    <2>4. LogIs(t, log["warn"])
      BY <1>0, <2>2, <2>3, HarmlessLines
    <2> QED
      BY <2>1, <2>4 DEF LogMatches, LogIs
  <1>4. CASE Contract!Release
    <2>1. said' = <<"StallDetected">> /\ phase' = "Released"
      BY <1>4 DEF Contract!Release, Contract!Move
    <2>2. LogIs("StallDetected", "StallDetected")
      BY <1>0, <2>1, WarningLine
    <2> QED
      BY <2>1, <2>2 DEF LogMatches, LogIs
  <1>5. CASE Contract!Resume
    <2>1. PICK ts \in {<<"StallCleared", "StreamingStarted">>,
                       <<"StallCleared", "FormatChanged", "StreamingStarted">>} :
               said' = ts /\ phase = "Released" /\ phase' = "Live"
      BY <1>5 DEF Contract!Resume, Contract!Move
    <2>2. ASSUME NEW n \in Nat, n > 0, DOMAIN ts = 1..n, ts[n] = "StreamingStarted",
                 \A i \in 1..n : ts[i] \notin {"DeviceLost", "StallDetected"}
          PROVE  LogIs("StreamingStarted", log["warn"])
      BY <1>0, <2>1, <2>2, HarmlessLines DEF LogLine, EventType
    <2>3. CASE ts = <<"StallCleared", "StreamingStarted">>
      <3>1. DOMAIN ts = 1..2 /\ ts[1] = "StallCleared" /\ ts[2] = "StreamingStarted"
        BY <2>3
      <3>2. \A i \in 1..2 : ts[i] \notin {"DeviceLost", "StallDetected"}
        BY <3>1
      <3> QED
        BY <2>1, <2>2, <3>1, <3>2 DEF LogMatches, LogIs
    <2>4. CASE ts = <<"StallCleared", "FormatChanged", "StreamingStarted">>
      <3>1. /\ DOMAIN ts = 1..3 /\ ts[1] = "StallCleared" /\ ts[2] = "FormatChanged"
            /\ ts[3] = "StreamingStarted"
        BY <2>4
      <3>2. \A i \in 1..3 : ts[i] \notin {"DeviceLost", "StallDetected"}
        BY <3>1
      <3> QED
        BY <2>1, <2>2, <3>1, <3>2 DEF LogMatches, LogIs
    <2> QED
      BY <2>1, <2>3, <2>4
  <1>6. CASE Contract!Lose
    <2>1. said' = <<"DeviceLost">> /\ phase' = "Absent"
      BY <1>6 DEF Contract!Lose, Contract!Move
    <2>2. LogIs("DeviceLost", "DeviceLost")
      BY <1>0, <2>1, WarningLine
    <2> QED
      BY <2>1, <2>2 DEF LogMatches, LogIs
  <1> QED
    BY <1>1, <1>2, <1>3, <1>4, <1>5, <1>6 DEF Contract!Next

\* The log keeps its type past the exit, and tells the phase up to it.
LogInv == log \in [LogLevel -> LogLine] /\ (loop # "exited" => LogMatches)

\* The line main logs before its loop.
LEMMA LogInitial == DaemonInit => LogInv
  <1> SUFFICES ASSUME DaemonInit PROVE LogInv
    OBVIOUS
  <1> DEFINE ts == <<"startup">>
  <1>1. DOMAIN ts = 1..1 /\ ts[1] = "startup"
    OBVIOUS
  <1>2. log = [l \in LogLevel |-> LastLine("none", ts, l)]
    BY DEF DaemonInit
  <1> HIDE DEF ts
  <1>3. Lines("none", ts, 1)
    BY <1>1, LinesAfter
  <1>4. \A i \in 1..1 : ts[i] \notin {"DeviceLost", "StallDetected"}
    BY <1>1
  <1>5. /\ log["debug"] = "startup" /\ log["info"] = "startup"
        /\ log["warn"] = "none" /\ log["error"] = "none"
    BY <1>1, <1>2, <1>3, <1>4 DEF Lines, LogLevel
  <1>6. log \in [LogLevel -> LogLine]
    <2>1. \A l \in LogLevel : log[l] \in LogLine
      BY <1>5 DEF LogLevel, LogLine
    <2> QED
      BY <1>2, <2>1
  <1>7. phase = "Absent"
    BY DEF DaemonInit, Init, phase
  <1> QED
    BY <1>5, <1>6, <1>7 DEF LogInv, LogMatches, PhasesAfter, PhasesAfterWarning

\* Every step keeps the log and the phase together.
LEMMA LogKeeps ==
    ASSUME DaemonInv, DaemonInv', LogInv, [DaemonNext]_daemon_vars PROVE LogInv'
  <1>1. CASE CallStep \/ PollReturns
    <2>1. loop # "exited" /\ loop' # "exited" /\ Inv /\ Inv'
      BY <1>1 DEF CallStep, PollReturns, AfterStep, DaemonInv, MachineInv
    <2>2. Contract!Next
      BY <1>1, <2>1, CallsStep, DeviceAbsentStep, AwaitingProducerStep,
         RecoveringStep, StreamingStep DEF step, DaemonInv
    <2>3. Log(said')
      BY <1>1 DEF CallStep, PollReturns, AfterStep, said
    <2>4. LogMatches'
      BY <2>1, <2>2, <2>3, LogFollowsContract DEF LogInv
    <2> QED
      BY <2>1, <2>4 DEF LogInv, LogMatches
  <1>2. CASE Exit
    <2> DEFINE ts == <<"shutdown">>
    <2>1. DOMAIN ts = 1..1 /\ ts[1] = "shutdown" /\ Log(ts)
      BY <1>2 DEF Exit
    <2> HIDE DEF ts
    <2>2. /\ ts[1] \in LogLine /\ 1 \in Nat /\ 1 > 0
          /\ \A i \in 1..1 : ts[i] \notin {"DeviceLost", "StallDetected"}
      BY <2>1 DEF LogLine
    <2>3. LogIs(ts[1], log["warn"])
      BY <2>1, <2>2, HarmlessLines DEF LogInv
    <2> QED
      BY <1>2, <2>3 DEF Exit, LogInv, LogIs
  <1>3. CASE CallPoll \/ Signal \/ TimePasses \/ ProducerActs \/ NodeActs
             \/ UNCHANGED daemon_vars
    <2>1. UNCHANGED <<state, recovering, log>> /\ (loop' # "exited" => loop # "exited")
      BY <1>3
         DEF CallPoll, Signal, TimePasses, Tick, ProducerActs, NodeActs,
             daemon_vars, vars, main
    <2>2. UNCHANGED phase
      BY <2>1 DEF phase
    <2> QED
      BY <2>1, <2>2 DEF LogInv, LogMatches
  <1> QED
    BY <1>1, <1>2, <1>3 DEF DaemonNext

\* What the log holds, in every reachable state.
THEOREM LogInvariance == DaemonSpec => []LogInv
  <1>1. DaemonInv /\ DaemonInv' /\ LogInv /\ [DaemonNext]_daemon_vars => LogInv'
    BY LogKeeps
  <1> QED
    BY <1>1, LogInitial, DaemonInvariance, PTL DEF DaemonSpec

\* At every level, the last line of the log tells the phase of the daemon,
\* for every history of the node and the producer and for all settings.
THEOREM LogIsTelling == DaemonSpec => []LogTellsPhase
  <1>1. LogInv => LogTellsPhase
    BY DEF LogInv, LogMatches, LogTellsPhase
  <1> QED
    BY <1>1, LogInvariance, PTL

-----------------------------------------------------------------------------
(* What is left of a wait. *)

\* A machine that would be shown a producer goes live at its next attempt.
LEMMA SeesProducer ==
    ASSUME EnvInv, CallStep, next_attempt_in = 0, Blind
    PROVE  state' = "Streaming"
  <1>1. /\ ~recovering => HeldAnswer.result = "Known"
        /\ AsAnswer(NodeFormat).result = "Known"
    BY DEF Blind, FrozenOut, HeldAnswer, AsAnswer, NodeFormat
  <1>2. OpenAnswer = "Opened" /\ Started(StartResult)
    BY DEF Blind, OpenAnswer, StartResult, Started
  <1>3. CASE step_awaiting_producer(HeldAnswer, StartResult)
    BY <1>1, <1>2, <1>3
       DEF step_awaiting_producer, NotYet, ProducerFound, enter_configuring,
           Configured, Enter
  <1>4. CASE step_recovering(OpenAnswer, AsAnswer(NodeFormat), StartResult)
    BY <1>1, <1>2, <1>4
       DEF step_recovering, NotYet, Resume, enter_configuring, Configured, Enter
  <1> QED
    BY <1>3, <1>4 DEF CallStep, Blind, step_device_absent

\* The device is only lost when the node is gone.
LEMMA LostWhenGone ==
    ASSUME EnvInv, CallStep \/ PollReturns, state' = "DeviceAbsent",
           state # "DeviceAbsent"
    PROVE  fd_dead \/ node # "ok"
  <1>1. CASE CallStep
    <2>1. ASSUME NEW q, NEW s, step_awaiting_producer(q, s) PROVE FALSE
      BY <2>1
         DEF step_awaiting_producer, NotYet, NoFormatYet, ProducerFound,
             enter_configuring, Configured, ConfigureFailed, Enter
    <2>2. ASSUME OpenAnswer = "Opened",
                 step_recovering(OpenAnswer, AsAnswer(NodeFormat), StartResult)
          PROVE  FALSE
      BY <2>2
         DEF step_recovering, NotYet, NoFormatYet, Resume, enter_configuring,
             Configured, ConfigureFailed, Enter
    <2> QED
      BY <1>1, <2>1, <2>2 DEF CallStep, step_device_absent, OpenAnswer
  <1>2. CASE PollReturns
    <2>1. PICK a \in DequeueResults : step_streaming(a)
      BY <1>2 DEF PollReturns
    <2>2. a.result = "DeviceLost"
      BY <2>1
         DEF step_streaming, Frame, NoFrame, begin_release_cycle, Enter
    <2> QED
      BY <2>1, <2>2 DEF DequeueResults
  <1> QED
    BY <1>1, <1>2

\* With initial delays under both ceilings, every wait is within its own.
LEMMA DaemonCeilingKeeps ==
    ASSUME ReconnectInitialBackoff <= ReconnectMaxBackoff,
           ReconnectInitialBackoff <= AwaitingProducerMaxBackoff,
           DaemonInv, CeilingInv, [DaemonNext]_daemon_vars
    PROVE  CeilingInv'
  <1>1. CASE DaemonNext /\ ~Exit
    <2>1. Inv
      BY <1>1
         DEF DaemonNext, CallStep, CallPoll, PollReturns, Signal, TimePasses,
             ProducerActs, NodeActs, DaemonInv, MachineInv
    <2> QED
      BY <1>1, <2>1, DaemonStep, CeilingStep DEF DaemonInv
  <1>2. CASE Exit \/ UNCHANGED daemon_vars
    BY <1>2 DEF Exit, daemon_vars, vars, backoffs, CeilingInv, WaitWithinCeiling
  <1> QED
    BY <1>1, <1>2

\* The time a producer goes unnoticed and what is left of the sleep stay
\* within the ceiling together.
LEMMA BlindKeeps ==
    ASSUME DaemonInv, DaemonInv', CeilingInv, CeilingInv', BlindInv,
           [DaemonNext]_daemon_vars
    PROVE  BlindInv'
  <1> USE SettingsAssumption DEF BlindInv
  <1>0. /\ EnvInv /\ LoopInv
        /\ loop # "exited" => next_attempt_in \in Nat /\ Inv
        /\ loop' # "exited" => next_attempt_in' \in Nat
    BY DEF DaemonInv, MachineInv, Inv, ControlInv, MachineTypeOK
  <1>1. CASE CallStep
    <2>1. /\ UNCHANGED <<node, producer, blind>> /\ (fd_dead' => fd_dead)
          /\ loop' # "exited" /\ loop = "top" /\ next_attempt_in = 0
      BY <1>0, <1>1
         DEF CallStep, AfterStep, DriverFollows, env, history, LoopInv
    <2>2. CASE Blind
      BY <1>0, <1>1, <2>1, <2>2, SeesProducer, LostWhenGone DEF Blind
    <2>3. CASE ~Blind
      <3>1. blind = 0
        BY <1>0, <1>1, <2>1, <2>3
           DEF Blind, CallStep, step_device_absent, step_awaiting_producer,
               step_recovering
      <3>2. state' = "AwaitingProducer"
              => next_attempt_in' <= AwaitingProducerMaxBackoff
        BY DEF CeilingInv, WaitWithinCeiling
      <3>3. blind' = 0
        BY <2>1, <3>1
      <3> QED
        BY <1>0, <2>1, <3>2, <3>3
    <2> QED
      BY <2>2, <2>3
  <1>2. CASE PollReturns
    <2>1. /\ UNCHANGED <<node, producer, blind>> /\ (fd_dead' => fd_dead)
          /\ state = "Streaming" /\ loop' = "top"
      <3>1. wait' = 0 /\ state = "Streaming"
        BY <1>2, StreamingNeverWaits DEF PollReturns, step_streaming
      <3>2. AfterStep
        BY <1>2 DEF PollReturns
      <3>3. loop' = "top"
        BY <3>1, <3>2 DEF AfterStep, SleepTime
      <3> QED
        BY <3>1, <3>2, <3>3 DEF AfterStep, DriverFollows, env, history
    <2>2. state' = "AwaitingProducer" => ~FrozenOut'
      BY <1>2, <2>1
         DEF PollReturns, step_streaming, Frame, NoFrame, begin_release_cycle,
             lose_device, Enter, FrozenOut
    <2> QED
      BY <1>0, <1>2, <2>1, <2>2, LostWhenGone
  <1>3. CASE CallPoll \/ Signal \/ UNCHANGED daemon_vars
    <2>1. /\ UNCHANGED <<state, recovering, next_attempt_in, node, producer, fd_dead,
                         frozen, seen, blind>>
          /\ loop' = "sleeping" => loop = "sleeping"
      BY <1>3 DEF CallPoll, Signal, daemon_vars, vars, main, env, driver, history
    <2>2. UNCHANGED FrozenOut
      BY <2>1 DEF FrozenOut
    <2> QED
      BY <2>1, <2>2
  <1>4. CASE Exit
    <2>1. /\ UNCHANGED <<state, next_attempt_in, node, producer, blind>>
          /\ DriverFollows /\ loop' = "exited" /\ ~dev'.fd
      BY <1>4 DEF Exit, env, history, DaemonInv, MachineInv
    <2>2. ~fd_dead' /\ ~frozen'
      BY <2>1 DEF DriverFollows
    <2> QED
      BY <2>1, <2>2 DEF FrozenOut
  <1>5. CASE TimePasses
    <2>0. UNCHANGED <<recovering, frozen, seen>>
      BY <1>5 DEF TimePasses, Tick
    <2>1. /\ UNCHANGED <<state, node, producer, fd_dead, FrozenOut>>
          /\ blind' = IF ~Blind THEN 0
                      ELSE IF blind <= AwaitingProducerMaxBackoff THEN blind + 1
                      ELSE blind
      BY <1>5, <2>0 DEF TimePasses, Tick, env, FrozenOut
    <2>2. CASE ~Blind
      <3>1. state = "AwaitingProducer"
              => next_attempt_in' <= AwaitingProducerMaxBackoff
        BY <2>1 DEF CeilingInv, WaitWithinCeiling
      <3> QED
        BY <2>1, <2>2, <3>1, <1>0, <1>5 DEF TimePasses
    <2>3. CASE Blind
      <3>1. loop = "sleeping" /\ next_attempt_in > 0
        BY <1>0, <1>5, <2>3 DEF TimePasses, LoopInv, Blind
      <3>2. next_attempt_in' = next_attempt_in - 1
        BY <1>5, <3>1 DEF TimePasses, Tick
      <3> QED
        BY <1>0, <2>1, <2>3, <3>1, <3>2 DEF Blind
    <2> QED
      BY <2>2, <2>3
  <1>6. CASE ProducerActs
    <2>1. UNCHANGED <<state, next_attempt_in, loop, node, fd_dead, FrozenOut>>
      BY <1>6 DEF ProducerActs, vars, main, driver, FrozenOut
    <2>2. blind' = IF producer' = producer THEN blind ELSE 0
      BY <1>6 DEF ProducerActs
    <2>3. state = "AwaitingProducer" => next_attempt_in <= AwaitingProducerMaxBackoff
      BY DEF CeilingInv, WaitWithinCeiling
    <2> QED
      BY <1>0, <1>6, <2>1, <2>2, <2>3 DEF ProducerActs
  <1>7. CASE NodeActs
    <2>1. UNCHANGED <<state, next_attempt_in, loop>> /\ blind' = 0
      BY <1>7 DEF NodeActs, vars, main
    <2>2. state = "AwaitingProducer" => next_attempt_in <= AwaitingProducerMaxBackoff
      BY DEF CeilingInv, WaitWithinCeiling
    <2> QED
      BY <1>0, <1>7, <2>1, <2>2 DEF NodeActs
  <1> QED
    BY <1>1, <1>2, <1>3, <1>4, <1>5, <1>6, <1>7 DEF DaemonNext

\* The parts that need ceilings no lower than the initial delay.
THEOREM TimedInvariance ==
    ASSUME ReconnectInitialBackoff <= ReconnectMaxBackoff,
           ReconnectInitialBackoff <= AwaitingProducerMaxBackoff
    PROVE  DaemonSpec => [](CeilingInv /\ BlindInv)
  <1>1. DaemonInit => CeilingInv
    BY SettingsAssumption
       DEF DaemonInit, Init, CeilingInv, WaitWithinCeiling, reset
  <1>2. DaemonInit => BlindInv
    BY SettingsAssumption DEF DaemonInit, BlindInv
  <1>3. DaemonInv /\ CeilingInv /\ [DaemonNext]_daemon_vars => CeilingInv'
    BY DaemonCeilingKeeps
  <1>4. DaemonInv /\ DaemonInv' /\ CeilingInv /\ CeilingInv' /\ BlindInv
          /\ [DaemonNext]_daemon_vars => BlindInv'
    BY BlindKeeps
  <1> QED
    BY <1>1, <1>2, <1>3, <1>4, DaemonInvariance, PTL DEF DaemonSpec

\* Whether or not the driver freezes formats, a machine in recovery, which
\* probes a fresh descriptor, notices a producer within the awaiting_producer
\* ceiling, whatever the ceiling for an absent device is and however long it
\* had been waiting.  The wait for a first producer, which holds its
\* descriptor, is as quick on a driver that shows it later writers; on one
\* that froze it with nobody writing nothing is claimed.
THEOREM ProducerNoticed ==
    ASSUME ReconnectInitialBackoff <= ReconnectMaxBackoff,
           ReconnectInitialBackoff <= AwaitingProducerMaxBackoff
    PROVE  DaemonSpec => []BlindTimeBounded
  <1>1. BlindInv => BlindTimeBounded
    BY SettingsAssumption DEF BlindInv, BlindTimeBounded
  <1> QED
    BY <1>1, TimedInvariance, PTL

\* Every variable of the daemon keeps its type, and no poll or sleep is
\* longer than the longest the settings allow.
THEOREM DaemonTypeCorrect ==
    ASSUME ReconnectInitialBackoff <= ReconnectMaxBackoff,
           ReconnectInitialBackoff <= AwaitingProducerMaxBackoff
    PROVE  DaemonSpec => []DaemonTypeOK
  <1>1. DaemonInv /\ LogInv /\ CeilingInv /\ BlindInv => DaemonTypeOK
    <2> SUFFICES ASSUME DaemonInv, LogInv, CeilingInv, BlindInv PROVE DaemonTypeOK
      OBVIOUS
    <2>1. \/ remaining <= PollTimeout
          \/ loop = "sleeping" /\ remaining <= ReconnectMaxBackoff
          \/ loop = "sleeping" /\ remaining <= AwaitingProducerMaxBackoff
      BY DaemonAssumption, SettingsAssumption
         DEF DaemonInv, LoopInv, CeilingInv, WaitWithinCeiling
    <2>2. blind \in Nat /\ lag \in Nat
      BY DaemonAssumption, SettingsAssumption DEF BlindInv, DaemonInv, StopInv
    <2>3. log \in [LogLevel -> EventType \cup {"none", "startup", "shutdown"}]
      BY DEF LogInv, LogLine
    <2> QED
      BY <2>1, <2>2, <2>3
         DEF DaemonTypeOK, DaemonInv, EnvInv, LoopInv, AnyFormat
  <1> QED
    BY <1>1, DaemonInvariance, LogInvariance, TimedInvariance, PTL
=============================================================================
