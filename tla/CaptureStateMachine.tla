------------------------ MODULE CaptureStateMachine ------------------------
(***************************************************************************)
(* The capture state machine (src/src/capture_state_machine.cpp): one      *)
(* action per step_ function, for every answer the device can give.        *)
(*                                                                         *)
(* Time is counted in ticks and kept relative: next_attempt_in is the time *)
(* from now to next_attempt_at_ (0 once it has passed), since_last_frame   *)
(* the time since last_frame_at_, rate.elapsed the time since              *)
(* rate_window_start_.  A value the code can no longer distinguish is      *)
(* capped or set to zero.                                                  *)
(*                                                                         *)
(* What a step hands out is kept until the next step: the events it        *)
(* emitted, the counters it incremented (both in order) and the wait it    *)
(* recommends.                                                             *)
(***************************************************************************)
EXTENDS Naturals, Sequences, Backoff, V4L2CaptureDevice

CONSTANTS
    Format,        \* the stream formats a producer can establish
    NoFormat,      \* StreamFormat{}: what current_format_ starts as
    SizeImage,     \* SizeImage[f] is the size_image of f
    Compressed,    \* the formats classified as compressed
    Sizes,         \* the payload sizes a frame can have
    ExpectedFps, StallMultiple,                    \* settings
    ReconnectInitialBackoff, ReconnectMaxBackoff,
    AwaitingProducerMaxBackoff,
    TicksPerSecond,                                \* the grain of time
    MaxWindowFrames,  \* bound: frames explored in one rate window
    MaxWindowTicks    \* rate.elapsed is capped here

ASSUME FormatAssumption ==
    /\ NoFormat \notin Format
    /\ Compressed \subseteq Format
    /\ SizeImage \in [Format -> Nat]

ASSUME SettingsAssumption ==
    /\ ExpectedFps \in Nat /\ StallMultiple \in Nat
    /\ ReconnectInitialBackoff \in Nat /\ ReconnectMaxBackoff \in Nat
    /\ AwaitingProducerMaxBackoff \in Nat
    /\ TicksPerSecond \in Nat \ {0}

\* kRateAnomalyFactor, and kRateAnomalyWindow in ticks.
kRateAnomalyFactor == 5
kRateAnomalyWindow == 2 * TicksPerSecond

\* With no more than MaxWindowFrames + 1 frames in a window, one that lasts
\* MaxWindowTicks or more is never an excursion, so the cap changes nothing.
ASSUME BoundsAssumption ==
    /\ MaxWindowFrames \in Nat /\ MaxWindowTicks \in Nat
    /\ MaxWindowTicks >= kRateAnomalyWindow
    /\ ExpectedFps > 0 => (MaxWindowFrames + 1) * TicksPerSecond
                            <= ExpectedFps * kRateAnomalyFactor * MaxWindowTicks

CaptureState == {"DeviceAbsent", "AwaitingProducer", "Configuring",
                 "Streaming", "Stalled"}

EventType == {"DeviceOpened", "AwaitingProducer", "StreamingStarted",
              "DeviceLost", "Reconnecting", "StallDetected", "StallCleared",
              "FormatChanged"}

ErrorReason == {"Open", "Format", "Buffer", "Timeout", "Dequeue",
                "DeviceLost", "Geometry"}

\* What query_format and dequeue_frame answer, and for a frame whether the
\* QBUF of requeue_frame is accepted.
FormatAnswer == [result: {"Known"}, format: Format]
                  \cup [result: {"NoProducer", "Error"}, format: {NoFormat}]

DequeueAnswer == [result: {"Frame"}, bytes_used: Sizes, requeued: BOOLEAN]
                   \cup [result: {"Timeout", "Error", "DeviceLost"}]

Event(type) == [type |-> type, format |-> NoFormat, previous |-> NoFormat]

VARIABLES
    state, recovering, has_streamed_before, current_format,
    device_absent_backoff, awaiting_producer_backoff, next_attempt_in,
    have_last_frame, since_last_frame,
    rate,           \* rate_window_start_, rate_window_frame_count_, rate_anomaly_active_
    dev,            \* the device object
    capture_state,  \* stats_.capture_state, the exported gauge
    stream_info,    \* stats_.stream_info, NoFormat until known
    events, counted, wait

backoffs == <<device_absent_backoff, awaiting_producer_backoff>>
frame_clock == <<have_last_frame, since_last_frame, rate>>
outputs == <<events, counted, wait>>
vars == <<state, recovering, has_streamed_before, current_format, backoffs,
          next_attempt_in, frame_clock, dev, capture_state, stream_info,
          outputs>>

stall_threshold == IF ExpectedFps > 0
                   THEN (TicksPerSecond * StallMultiple) \div ExpectedFps
                   ELSE TicksPerSecond * StallMultiple

Init ==
    /\ state = "DeviceAbsent" /\ capture_state = "DeviceAbsent"
    /\ recovering = FALSE /\ has_streamed_before = FALSE
    /\ current_format = NoFormat /\ stream_info = NoFormat
    /\ device_absent_backoff = reset(ReconnectInitialBackoff)
    /\ awaiting_producer_backoff = reset(ReconnectInitialBackoff)
    /\ next_attempt_in = 0
    /\ have_last_frame = FALSE /\ since_last_frame = 0
    /\ rate = [elapsed |-> 0, frames |-> 0, active |-> FALSE]
    /\ dev = NewDevice
    /\ events = <<>> /\ counted = <<>> /\ wait = 0

-----------------------------------------------------------------------------
(* Fragments the steps share. *)

Emit(es, cs, w) == events' = es /\ counted' = cs /\ wait' = w

\* A reset_backoffs that forgets the second instance.
ResetsOnlyAbsent ==
    /\ device_absent_backoff' = reset(ReconnectInitialBackoff)
    /\ UNCHANGED awaiting_producer_backoff

reset_backoffs ==
    /\ device_absent_backoff' = reset(ReconnectInitialBackoff)
    /\ awaiting_producer_backoff' = reset(ReconnectInitialBackoff)

\* The gauge stored before state_ is assigned.
GaugeFirst(s) == state' = s /\ capture_state' = state

\* Every store of state_ is followed by one of the gauge.
Enter(s) == state' = s /\ capture_state' = s

\* The reset of have_last_frame_ left out.
KeepsLastFrame == UNCHANGED <<have_last_frame, since_last_frame>>

\* have_last_frame_ = false; last_frame_at_ is then never read.
ForgetLastFrame == have_last_frame' = FALSE /\ since_last_frame' = 0

\* One ceiling for both backoffs.
SharedCeiling ==
    /\ awaiting_producer_backoff' =
         next(awaiting_producer_backoff, ReconnectMaxBackoff)
    /\ next_attempt_in' = awaiting_producer_backoff
    /\ UNCHANGED device_absent_backoff

\* A failed attempt while awaiting a producer: the delay it returns is the
\* old backoff.
BackOffAwaiting ==
    /\ awaiting_producer_backoff' =
         next(awaiting_producer_backoff, AwaitingProducerMaxBackoff)
    /\ next_attempt_in' = awaiting_producer_backoff
    /\ UNCHANGED device_absent_backoff

\* The early return of the three polling steps: next_attempt_at_ is ahead.
NotYet ==
    /\ next_attempt_in > 0
    /\ Emit(<<>>, <<>>, next_attempt_in)
    /\ UNCHANGED <<state, recovering, has_streamed_before, current_format,
                   backoffs, next_attempt_in, frame_clock, dev,
                   capture_state, stream_info>>

\* enter_configuring with a device that starts.
Configured(f) ==
    /\ Enter("Streaming")
    /\ reset_backoffs
    /\ stream_info' = f
    /\ ForgetLastFrame
    /\ rate' = [elapsed |-> 0, frames |-> 0, active |-> FALSE]
    /\ UNCHANGED next_attempt_in

\* enter_configuring with a buffer error: back to awaiting_producer.
ConfigureFailed ==
    /\ Enter("AwaitingProducer")
    /\ BackOffAwaiting
    /\ UNCHANGED <<stream_info, frame_clock>>

enter_configuring(f, s) == IF Started(s) THEN Configured(f) ELSE ConfigureFailed

\* A release that keeps the device attached.
KeepsDevice(d) == d

\* How a release and a loss let go of the device: stop streaming, then close.
LetGo(d) == close(stop_streaming(d))

\* Runs on the device d the calling step has so far; cs counts what that step
\* counted before.
begin_release_cycle(d, cs, reason) ==
    /\ dev' = LetGo(d)
    /\ Enter("AwaitingProducer")
    /\ recovering' = TRUE
    /\ awaiting_producer_backoff' = reset(ReconnectInitialBackoff)
    /\ next_attempt_in' = 0
    /\ ForgetLastFrame
    /\ Emit(<<Event("StallDetected")>>, cs \o <<"stalls", reason>>, 0)
    /\ UNCHANGED <<has_streamed_before, current_format, stream_info,
                   device_absent_backoff>>

lose_device(d) ==
    /\ dev' = LetGo(d)
    /\ Enter("DeviceAbsent")
    /\ recovering' = FALSE
    /\ reset_backoffs
    /\ next_attempt_in' = 0
    /\ ForgetLastFrame
    /\ Emit(<<Event("DeviceLost")>>, <<"DeviceLost">>, 0)
    /\ UNCHANGED <<has_streamed_before, current_format, stream_info, rate>>

-----------------------------------------------------------------------------
(* device_absent *)

DeviceFound ==
    /\ dev' = open(dev, "Opened")
    /\ reset_backoffs
    /\ Enter("AwaitingProducer")
    /\ Emit(<<Event("DeviceOpened"), Event("AwaitingProducer")>>, <<>>, 0)
    /\ UNCHANGED <<recovering, has_streamed_before, current_format,
                   next_attempt_in, frame_clock, stream_info>>

DeviceMissing ==
    /\ dev' = open(dev, "Absent")
    /\ device_absent_backoff' = next(device_absent_backoff, ReconnectMaxBackoff)
    /\ next_attempt_in' = device_absent_backoff
    /\ Emit(<<>>, <<"Open">>, device_absent_backoff)
    /\ UNCHANGED <<state, recovering, has_streamed_before, current_format,
                   awaiting_producer_backoff, frame_clock, capture_state,
                   stream_info>>

step_device_absent(o) ==
    /\ state = "DeviceAbsent"
    /\ \/ NotYet
       \/ next_attempt_in = 0 /\ o = "Opened" /\ DeviceFound
       \/ next_attempt_in = 0 /\ o = "Absent" /\ DeviceMissing

-----------------------------------------------------------------------------
(* awaiting_producer, before any release: the descriptor is held. *)

\* No format, whether there is no producer or the query failed; d is the
\* device this leaves.
NoFormatYet(d, q) ==
    /\ dev' = d
    /\ BackOffAwaiting
    /\ Emit(<<>>, IF q.result = "Error" THEN <<"Format">> ELSE <<>>,
            awaiting_producer_backoff)
    /\ UNCHANGED <<state, recovering, has_streamed_before, current_format,
                   frame_clock, capture_state, stream_info>>

\* The events and counters of a start outside recovery.
FirstStart(f) ==
    /\ has_streamed_before' = TRUE
    /\ IF has_streamed_before
       THEN Emit(<<Event("Reconnecting")>>, <<"reconnects">>, 0)
       ELSE Emit(<<[Event("StreamingStarted") EXCEPT !.format = f]>>, <<>>, 0)

BufferFailure == Emit(<<>>, <<"Buffer">>, awaiting_producer_backoff)
                   /\ UNCHANGED has_streamed_before

ProducerFound(f, s) ==
    /\ current_format' = f
    /\ dev' = start_streaming(dev, s)
    /\ enter_configuring(f, s)
    /\ IF Started(s) THEN FirstStart(f) ELSE BufferFailure
    /\ UNCHANGED recovering

step_awaiting_producer(q, s) ==
    /\ state = "AwaitingProducer" /\ ~recovering
    /\ \/ NotYet
       \/ next_attempt_in = 0 /\ q.result # "Known" /\ NoFormatYet(dev, q)
       \/ next_attempt_in = 0 /\ q.result = "Known" /\ ProducerFound(q.format, s)

-----------------------------------------------------------------------------
(* awaiting_producer, after a release: a transient probe on every attempt. *)

\* streaming_started emitted before stall_cleared.
StartedFirst(f, previous) ==
    <<[Event("StreamingStarted") EXCEPT !.format = f], Event("StallCleared")>>

\* stall_cleared first, format_changed only if the format differs from the
\* one last observed, streaming_started last.
ResumeEvents(f, previous) ==
    LET cleared == Event("StallCleared")
        changed == [type |-> "FormatChanged", format |-> f, previous |-> previous]
        started == [Event("StreamingStarted") EXCEPT !.format = f]
    IN  IF f = previous THEN <<cleared, started>> ELSE <<cleared, changed, started>>

\* A probe that keeps its descriptor when the stream does not start.
KeepsProbeOpen(d, s) == start_streaming(d, s)

\* The probe's descriptor becomes the stream's, or is closed: none is left
\* open between two attempts.
ProbedDevice(d, s) ==
    IF Started(s) THEN start_streaming(d, s) ELSE close(start_streaming(d, s))

Resume(f, s) ==
    /\ current_format' = f
    /\ enter_configuring(f, s)
    /\ dev' = ProbedDevice(open(dev, "Opened"), s)
    /\ recovering' = ~Started(s)
    /\ IF Started(s) THEN Emit(ResumeEvents(f, current_format), <<>>, 0)
                     ELSE Emit(<<>>, <<"Buffer">>, awaiting_producer_backoff)
    /\ UNCHANGED has_streamed_before

step_recovering(o, q, s) ==
    /\ state = "AwaitingProducer" /\ recovering
    /\ \/ NotYet
       \/ next_attempt_in = 0 /\ o = "Absent" /\ lose_device(open(dev, "Absent"))
       \/ /\ next_attempt_in = 0 /\ o = "Opened" /\ q.result # "Known"
          /\ NoFormatYet(close(open(dev, "Opened")), q)
       \/ next_attempt_in = 0 /\ o = "Opened" /\ q.result = "Known" /\ Resume(q.format, s)

-----------------------------------------------------------------------------
(* streaming *)

\* The frames of this window exceed kRateAnomalyFactor times the expected.
Excursion(r) ==
    /\ ExpectedFps > 0
    /\ r.frames * TicksPerSecond > ExpectedFps * kRateAnomalyFactor * r.elapsed

\* A window that is never emptied.
KeepsWindowCount(r) ==
    LET more == [r EXCEPT !.frames = @ + 1]
    IN  IF r.elapsed < kRateAnomalyWindow THEN more
        ELSE [more EXCEPT !.elapsed = 0, !.active = Excursion(more)]

\* The rate window after one more frame ...
check_arrival_rate(r) ==
    LET more == [r EXCEPT !.frames = @ + 1]
    IN  IF r.elapsed < kRateAnomalyWindow THEN more
        ELSE [elapsed |-> 0, frames |-> 0, active |-> Excursion(more)]

\* ... and the error it counts: one per sustained excursion.
RateErrors(r) == IF ~r.active /\ check_arrival_rate(r).active
                 THEN <<"Geometry">> ELSE <<>>

\* What handle_frame counts: no interval on the first frame.
FrameCounts == IF have_last_frame THEN <<"frames", "interval">> ELSE <<"frames">>

\* Two wrong payload checks: none at all, and one that takes the size_image
\* of a compressed format for exact.
IgnoresPayload(bytes) == FALSE
ChecksCompressed(bytes) == bytes # SizeImage[current_format]

\* size_image is exact for an uncompressed format only.
Mismatch(bytes) == current_format \notin Compressed /\ bytes # SizeImage[current_format]

\* handle_frame, check_arrival_rate and the payload check.
Frame(a) ==
    LET d  == requeue_frame(dequeue_frame(dev), a.requeued)
        cs == FrameCounts \o RateErrors(rate)
    IN  /\ dev.pinned < dev.buffers
        /\ rate.frames < MaxWindowFrames \/ rate.elapsed >= kRateAnomalyWindow
        /\ rate' = check_arrival_rate(rate)
        /\ IF Mismatch(a.bytes_used)
           THEN begin_release_cycle(d, cs, "Geometry")
           ELSE /\ dev' = d
                /\ have_last_frame' = TRUE /\ since_last_frame' = 0
                /\ Emit(<<>>, cs, 0)
                /\ UNCHANGED <<state, recovering, has_streamed_before,
                               current_format, backoffs, next_attempt_in,
                               capture_state, stream_info>>

\* A dequeue that changes no more than the outputs.
NoFrame(cs) ==
    /\ Emit(<<>>, cs, 0)
    /\ UNCHANGED <<state, recovering, has_streamed_before, current_format,
                   backoffs, next_attempt_in, frame_clock, dev,
                   capture_state, stream_info>>

\* The test of have_last_frame_ inverted.
StallWithoutFrame == ~have_last_frame /\ since_last_frame >= stall_threshold

\* The stall threshold has been reached since the last frame of this stream.
StallReached == have_last_frame /\ since_last_frame >= stall_threshold

step_streaming(a) ==
    /\ state = "Streaming"
    /\ \/ a.result = "Frame" /\ Frame(a)
       \/ /\ a.result = "Timeout" /\ StallReached
          /\ begin_release_cycle(dev, <<>>, "Timeout")
          /\ UNCHANGED rate
       \/ a.result = "Timeout" /\ ~StallReached /\ NoFrame(<<>>)
       \/ a.result = "Error" /\ NoFrame(<<"Dequeue">>)
       \/ a.result = "DeviceLost" /\ lose_device(dev)

-----------------------------------------------------------------------------

\* Time passes between two steps, and during the poll() of a dequeue.
Tick ==
    /\ next_attempt_in' = IF next_attempt_in > 0 THEN next_attempt_in - 1 ELSE 0
    /\ since_last_frame' = IF have_last_frame /\ since_last_frame < stall_threshold
                           THEN since_last_frame + 1 ELSE since_last_frame
    /\ rate' = IF state = "Streaming" /\ rate.elapsed < MaxWindowTicks
               THEN [rate EXCEPT !.elapsed = @ + 1] ELSE rate
    /\ UNCHANGED <<state, recovering, has_streamed_before, current_format,
                   backoffs, have_last_frame, dev, capture_state, stream_info,
                   outputs>>

step ==
    \/ \E o \in OpenResult : step_device_absent(o)
    \/ \E q \in FormatAnswer, s \in StartAnswer : step_awaiting_producer(q, s)
    \/ \E o \in OpenResult, q \in FormatAnswer, s \in StartAnswer :
          step_recovering(o, q, s)
    \/ \E a \in DequeueAnswer : step_streaming(a)

Next == step \/ Tick

Spec == Init /\ [][Next]_vars

-----------------------------------------------------------------------------
(* Properties *)

Counter == {"frames", "interval", "stalls", "reconnects"} \cup ErrorReason

AnyFormat == Format \cup {NoFormat}
EventRecord == [type: EventType, format: AnyFormat, previous: AnyFormat]

MachineTypeOK ==
    /\ state \in CaptureState /\ capture_state \in CaptureState
    /\ recovering \in BOOLEAN /\ has_streamed_before \in BOOLEAN
    /\ have_last_frame \in BOOLEAN
    /\ current_format \in AnyFormat /\ stream_info \in AnyFormat
    /\ device_absent_backoff \in Nat /\ awaiting_producer_backoff \in Nat
    /\ next_attempt_in \in Nat
    /\ since_last_frame \in 0..stall_threshold
    /\ rate \in [elapsed: 0..MaxWindowTicks, frames: 0..MaxWindowFrames,
                 active: BOOLEAN]

DeviceTypeOK ==
    dev \in Device /\ dev.buffers <= BufferCount /\ dev.pinned <= dev.buffers

OutputTypeOK ==
    /\ wait \in Nat
    /\ events \in Seq(EventRecord)
    /\ counted \in Seq(Counter)

\* Every variable keeps its type, every capped clock stays under its cap and
\* the driver never has fewer buffers than the daemon took from it.
TypeOK == MachineTypeOK /\ DeviceTypeOK /\ OutputTypeOK

\* What the device holds is a function of the state: no descriptor while the
\* device is absent or between two probes of the recovery poll (a held one
\* would freeze the format it saw), one while a first producer is awaited,
\* and a mapped stream only while streaming.  The two transient states are
\* never rested in.
DeviceMatchesState ==
    /\ state = "DeviceAbsent" => ~dev.fd /\ ~recovering
    /\ state = "AwaitingProducer" => (dev.fd <=> ~recovering)
    /\ state = "Streaming" => dev.fd /\ dev.streaming /\ ~recovering
    /\ state # "Streaming" => ~dev.streaming /\ dev.buffers = 0
    /\ state \notin {"Configuring", "Stalled"}

\* No sequence of device answers makes the daemon overwrite an open
\* descriptor or forget a mapping: memory and descriptors stay flat however
\* often a stream is released, lost or fails to start.
NothingLost == ~dev.lost_fd /\ dev.lost_maps = 0

\* A buffer the driver refused to take back is only ever held by a stream
\* whose stall detection is armed, so a stream starved of buffers is
\* released, and its buffers with it.
PinnedIsWatched == dev.pinned > 0 => state = "Streaming" /\ have_last_frame

\* A new phase always starts its retries at the initial delay, whatever the
\* phases before it left behind.
FreshBackoff ==
    /\ state # "DeviceAbsent" => device_absent_backoff = ReconnectInitialBackoff
    /\ state # "AwaitingProducer" =>
         awaiting_producer_backoff = ReconnectInitialBackoff
    /\ state = "Streaming" => next_attempt_in = 0

\* No retry is ever further away than the ceiling configured for the phase.
WaitWithinCeiling ==
    next_attempt_in <= IF state = "DeviceAbsent" THEN ReconnectMaxBackoff
                       ELSE AwaitingProducerMaxBackoff

\* Recovery only ever follows a stream, so resuming is never mistaken for a
\* first start and the previous format of a format_changed is a real one; and
\* what the metrics publish is what the machine holds.
PublishedMatches ==
    /\ capture_state = state
    /\ has_streamed_before <=> stream_info # NoFormat
    /\ recovering => has_streamed_before /\ current_format # NoFormat
    /\ state = "Streaming" => has_streamed_before /\ stream_info = current_format

\* Each stream starts with no last frame and an empty rate window: no gap
\* between two streams is measured as a frame interval or taken for a stall.
SessionStartsClean ==
    /\ have_last_frame => state = "Streaming"
    /\ state = "Streaming" /\ ~have_last_frame => rate.frames = 0 /\ ~rate.active

\* A resumed stream is announced as changed exactly when its format differs
\* from that of the stream before it.
FormatChangeReported ==
    [][recovering /\ state' = "Streaming" =>
         ((current_format' # stream_info)
            <=> \E i \in DOMAIN events' : events'[i].type = "FormatChanged")]_vars

\* What an observer of the contract sees of a state.
phase == CASE state = "DeviceAbsent" -> "Absent"
           [] state = "AwaitingProducer" /\ ~recovering -> "Waiting"
           [] state = "AwaitingProducer" /\ recovering -> "Released"
           [] OTHER -> "Live"

said == [i \in DOMAIN events |-> events[i].type]

bumped == {c \in {"stalls", "reconnects"} : \E i \in DOMAIN counted : counted[i] = c}

Contract == INSTANCE CaptureContract WITH
    ever_live <- has_streamed_before, attached <- dev.fd

\* The machine keeps the contract of its observers: which events a step may
\* emit and in which order, which incidents it counts, and when it is
\* attached to the node, given only the phase it is in and whether it ever
\* streamed.
ImplementsContract == Contract!Spec
=============================================================================
