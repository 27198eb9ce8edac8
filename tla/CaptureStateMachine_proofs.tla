--------------------- MODULE CaptureStateMachine_proofs ---------------------
(***************************************************************************)
(* Proofs about CaptureStateMachine, for every set of formats, every value *)
(* of the settings and every answer of the device.                         *)
(***************************************************************************)
EXTENDS CaptureStateMachine, TLAPS

-----------------------------------------------------------------------------
(* What the operations of the device return. *)

\* A device object whose counts are within what the driver granted.
Bounded(d) == d \in Device /\ d.buffers <= BufferCount /\ d.pinned <= d.buffers

\* Nothing is attached, mapped or pinned: stop_streaming followed by close
\* leaves this behind, whatever the device was doing.
Detached(d) == ~d.fd /\ ~d.streaming /\ d.buffers = 0 /\ d.pinned = 0

\* The buffer bookkeeping and the descriptors that got lost on the way.
SameLosses(d, e) == e.lost_fd = d.lost_fd /\ e.lost_maps = d.lost_maps

\* Closing a device that is not streaming detaches it and loses nothing.
LEMMA CloseDetaches ==
    ASSUME NEW d \in Device, ~d.streaming
    PROVE  Bounded(close(d)) /\ Detached(close(d)) /\ SameLosses(d, close(d))
  <1> USE DEF close, unmap_buffers
  <1>1. close(d) \in Device
    BY DEF Device
  <1>2. close(d).buffers = 0 /\ close(d).pinned = 0
    BY DEF Device
  <1>3. ~close(d).fd /\ ~close(d).streaming
    BY DEF Device
  <1>4. SameLosses(d, close(d))
    BY DEF Device, SameLosses
  <1>5. close(d).buffers <= BufferCount /\ close(d).pinned <= close(d).buffers
    BY <1>2, BufferCountAssumption
  <1> QED
    BY <1>1, <1>2, <1>3, <1>4, <1>5 DEF Bounded, Detached

\* Letting go of a device detaches it completely, whatever it was doing, and
\* loses nothing.
LEMMA LetGoDetaches ==
    ASSUME NEW d \in Device
    PROVE  Bounded(LetGo(d)) /\ Detached(LetGo(d)) /\ SameLosses(d, LetGo(d))
  <1> DEFINE e == stop_streaming(d)
  <1>1. e \in Device
    BY DEF stop_streaming, unmap_buffers, Device
  <1>2. ~e.streaming
    BY DEF stop_streaming, unmap_buffers, Device
  <1>3. SameLosses(d, e)
    BY DEF stop_streaming, unmap_buffers, Device, SameLosses
  <1>4. Bounded(close(e)) /\ Detached(close(e)) /\ SameLosses(e, close(e))
    BY <1>1, <1>2, CloseDetaches
  <1> QED
    BY <1>3, <1>4 DEF LetGo, SameLosses

\* Opening a detached device attaches it, if it is there, and loses nothing.
LEMMA OpenAttaches ==
    ASSUME NEW d, NEW r \in OpenResult, Bounded(d), Detached(d)
    PROVE  /\ Bounded(open(d, r)) /\ SameLosses(d, open(d, r))
           /\ open(d, r).fd = (r = "Opened") /\ ~open(d, r).streaming
           /\ open(d, r).buffers = 0 /\ open(d, r).pinned = 0
  BY DEF Bounded, Detached, Device, OpenResult, SameLosses, open

\* Starting an idle stream either streams or leaves the device as idle as it
\* was, and in neither case loses a mapping.
LEMMA StartKeeps ==
    ASSUME NEW d, NEW s \in StartAnswer, Bounded(d),
           d.fd, ~d.streaming, d.buffers = 0, d.pinned = 0
    PROVE  LET e == start_streaming(d, s)
           IN  /\ Bounded(e) /\ SameLosses(d, e)
               /\ e.fd /\ e.streaming = Started(s) /\ e.pinned = 0
               /\ ~Started(s) => e.buffers = 0
  <1> DEFINE m == [d EXCEPT !.lost_maps = @ + d.buffers, !.buffers = s.mapped]
             e == start_streaming(d, s)
  <1>0. s.mapped \in Nat /\ d.lost_maps + d.buffers \in Nat
    BY BufferCountAssumption DEF Bounded, Device, StartAnswer
  <1>1. m \in Device /\ m.fd /\ ~m.streaming /\ m.pinned = 0 /\ m.buffers = s.mapped
    <2>1. m \in Device
      BY <1>0 DEF Bounded, Device
    <2> QED
      BY <2>1 DEF Bounded, Device
  <1>2. SameLosses(d, m)
    BY DEF Bounded, Device, SameLosses
  <1>3. s.mapped \in 0..BufferCount
    BY DEF StartAnswer
  <1> HIDE DEF m
  <1>4. CASE ~s.reqbufs
    <2>1. e = d
      BY <1>4, <1>1 DEF start_streaming
    <2> QED
      BY <2>1, <1>4 DEF Started, SameLosses, StartAnswer, Bounded, Device
  <1>5. CASE s.reqbufs /\ s.on
    <2>1. e = [m EXCEPT !.streaming = TRUE]
      BY <1>5 DEF start_streaming, m
    <2>2. e \in Device /\ e.fd /\ e.streaming /\ e.pinned = 0 /\ e.buffers = s.mapped
      BY <2>1, <1>1 DEF Device
    <2>3. SameLosses(d, e)
      BY <2>1, <1>1, <1>2 DEF Device, SameLosses
    <2>4. Bounded(e)
      BY <2>2, <1>3, BufferCountAssumption DEF Bounded
    <2>5. Started(s) /\ e.streaming = TRUE
      BY <2>2, <1>5 DEF Started, Device
    <2> QED
      BY <2>2, <2>3, <2>4, <2>5
  <1>6. CASE s.reqbufs /\ ~s.on
    <2>1. e = [m EXCEPT !.buffers = 0]
      BY <1>6 DEF start_streaming, unmap_buffers, m
    <2>2. e \in Device /\ e.fd /\ ~e.streaming /\ e.pinned = 0 /\ e.buffers = 0
      BY <2>1, <1>1 DEF Device
    <2>3. SameLosses(d, e)
      BY <2>1, <1>1, <1>2 DEF Device, SameLosses
    <2> QED
      BY <2>2, <2>3, <1>6, BufferCountAssumption DEF Bounded, Started, Device
  <1> QED
    BY <1>4, <1>5, <1>6 DEF StartAnswer

\* A frame that was dequeued and offered back pins at most one more buffer.
LEMMA FrameKeeps ==
    ASSUME NEW d, NEW b \in BOOLEAN, Bounded(d), d.pinned < d.buffers
    PROVE  LET e == requeue_frame(dequeue_frame(d), b)
           IN  /\ Bounded(e) /\ SameLosses(d, e)
               /\ e.fd = d.fd /\ e.streaming = d.streaming
  <1> DEFINE m == dequeue_frame(d)
             e == requeue_frame(m, b)
  <1>1. m \in Device /\ m.pinned = d.pinned + 1
    BY DEF Bounded, Device, dequeue_frame
  <1>2. m.buffers = d.buffers /\ m.fd = d.fd /\ m.streaming = d.streaming
    BY DEF Bounded, Device, dequeue_frame
  <1>3. SameLosses(d, m)
    BY DEF Bounded, Device, dequeue_frame, SameLosses
  <1> HIDE DEF m
  <1>4. e = [m EXCEPT !.pinned = IF b THEN m.pinned - 1 ELSE m.pinned]
    BY <1>1 DEF requeue_frame, Device
  <1>5. d.pinned \in Nat /\ d.buffers \in Nat
    BY DEF Bounded, Device
  <1>6. (IF b THEN m.pinned - 1 ELSE m.pinned) \in 0..m.buffers
    BY <1>1, <1>2, <1>5
  <1>7. e \in Device /\ e.pinned \in 0..m.buffers
    BY <1>1, <1>4, <1>6 DEF Device
  <1>8. e.buffers = m.buffers /\ e.fd = m.fd /\ e.streaming = m.streaming
    BY <1>1, <1>4 DEF Device
  <1>9. SameLosses(m, e)
    BY <1>1, <1>4 DEF Device, SameLosses
  <1> QED
    BY <1>2, <1>3, <1>5, <1>7, <1>8, <1>9 DEF Bounded, SameLosses, m

-----------------------------------------------------------------------------
(* The inductive invariant. *)

\* What the device holds, in every state.
DeviceInv == DeviceTypeOK /\ DeviceMatchesState /\ NothingLost /\ PinnedIsWatched

\* What the machine's own variables and the published ones hold.
ControlInv == MachineTypeOK /\ FreshBackoff /\ PublishedMatches /\ SessionStartsClean

\* The invariants are inductive only together: that opening loses nothing
\* needs the descriptor to be closed in the states that open, that the gauge
\* and stream_info agree needs the states that a stream is entered from, and
\* the types of the device need a stream to start with nothing pinned.
Inv == DeviceInv /\ ControlInv /\ OutputTypeOK

\* The stall threshold is a duration.
LEMMA ThresholdNat == stall_threshold \in Nat
  <1>1. TicksPerSecond * StallMultiple \in Nat
    BY SettingsAssumption
  <1>2. ASSUME NEW x \in Nat, NEW y \in Nat, y > 0 PROVE x \div y \in Nat
    BY <1>2
  <1> QED
    BY <1>1, <1>2, SettingsAssumption DEF stall_threshold

\* The rate window of a stream that just started.
LEMMA FreshWindow ==
    [elapsed |-> 0, frames |-> 0, active |-> FALSE]
      \in [elapsed: 0..MaxWindowTicks, frames: 0..MaxWindowFrames, active: BOOLEAN]
  <1>1. 0 \in 0..MaxWindowTicks /\ 0 \in 0..MaxWindowFrames
    BY BoundsAssumption
  <1> QED
    BY <1>1

\* In a state that holds no stream the device has nothing mapped or pinned.
LEMMA IdleDevice ==
    ASSUME DeviceInv, state # "Streaming"
    PROVE  /\ Bounded(dev) /\ ~dev.streaming
           /\ dev.buffers = 0 /\ dev.pinned = 0
           /\ ~dev.fd => Detached(dev)
  BY DEF DeviceInv, DeviceTypeOK, DeviceMatchesState, Bounded, Detached, Device

\* Events and counters of a step are well formed.
LEMMA OutputsOK ==
    ASSUME NEW STATE es, es \in Seq(EventRecord), NEW STATE cs, cs \in Seq(Counter),
           NEW STATE w, w \in Nat,
           Emit(es, cs, w)
    PROVE  OutputTypeOK'
  BY DEF OutputTypeOK, Emit

\* A step that emits and counts nothing keeps the types of its outputs.
LEMMA NothingOK == <<>> \in Seq(EventRecord) /\ <<>> \in Seq(Counter)
  OBVIOUS

\* An event without formats (Event{EventType}) is an event record.
LEMMA EventOK ==
    ASSUME NEW t \in EventType
    PROVE  Event(t) \in EventRecord /\ <<Event(t)>> \in Seq(EventRecord)
  <1>1. Event(t) \in EventRecord
    BY DEF Event, EventRecord, AnyFormat
  <1> QED
    BY <1>1

\* The constructor establishes the inductive invariant.
THEOREM Initial == Init => Inv
  <1> SUFFICES ASSUME Init PROVE Inv
    OBVIOUS
  <1>1. DeviceInv
    BY BufferCountAssumption
       DEF Init, DeviceInv, DeviceTypeOK, DeviceMatchesState, NothingLost,
           PinnedIsWatched, NewDevice, Device
  <1>2. ControlInv
    <2>1. MachineTypeOK
      <3>1. since_last_frame \in 0..stall_threshold
        BY ThresholdNat DEF Init
      <3>2. device_absent_backoff \in Nat /\ awaiting_producer_backoff \in Nat
        BY SettingsAssumption DEF Init, reset
      <3> QED
        BY <3>1, <3>2, FreshWindow DEF Init, MachineTypeOK, CaptureState, AnyFormat
    <2>2. FreshBackoff /\ PublishedMatches /\ SessionStartsClean
      BY DEF Init, FreshBackoff, PublishedMatches, SessionStartsClean, reset
    <2> QED
      BY <2>1, <2>2 DEF ControlInv
  <1>3. OutputTypeOK
    BY DEF Init, OutputTypeOK
  <1> QED
    BY <1>1, <1>2, <1>3 DEF Inv

\* A call before the next attempt is due changes nothing but the outputs.
LEMMA NotYetKeeps == Inv /\ NotYet => Inv'
  <1> SUFFICES ASSUME Inv, NotYet PROVE Inv'
    OBVIOUS
  <1>1. DeviceInv'
    BY DEF Inv, DeviceInv, DeviceTypeOK, DeviceMatchesState, NothingLost,
           PinnedIsWatched, NotYet, frame_clock, backoffs
  <1>2. ControlInv'
    BY DEF Inv, ControlInv, MachineTypeOK, FreshBackoff, PublishedMatches,
           SessionStartsClean, NotYet, frame_clock, backoffs
  <1>3. OutputTypeOK'
    BY OutputsOK, NothingOK DEF Inv, ControlInv, MachineTypeOK, NotYet
  <1> QED
    BY <1>1, <1>2, <1>3 DEF Inv

-----------------------------------------------------------------------------
(* The fragments the steps share, on the machine's variables. *)

LEMMA BackOffTypes ==
    ASSUME MachineTypeOK, BackOffAwaiting
    PROVE  /\ awaiting_producer_backoff' \in Nat /\ next_attempt_in' \in Nat
           /\ device_absent_backoff' = device_absent_backoff
  BY SettingsAssumption DEF MachineTypeOK, BackOffAwaiting, next

\* Clearing have_last_frame_ leaves the frame clock in its range.
LEMMA ForgetTypes ==
    ASSUME ForgetLastFrame
    PROVE  have_last_frame' = FALSE /\ since_last_frame' \in 0..stall_threshold
  BY ThresholdNat DEF ForgetLastFrame

\* Entering a stream, with the format just observed, from awaiting_producer.
LEMMA ConfiguredKeeps ==
    ASSUME ControlInv, NEW f \in Format, Configured(f), current_format' = f,
           has_streamed_before' = TRUE, recovering' = FALSE,
           state = "AwaitingProducer", next_attempt_in = 0
    PROVE  ControlInv'
  <1>1. MachineTypeOK'
    BY ForgetTypes, FreshWindow, SettingsAssumption
       DEF ControlInv, MachineTypeOK, Configured, Enter, reset_backoffs, reset,
           CaptureState, AnyFormat
  <1>2. FreshBackoff'
    BY DEF Configured, Enter, reset_backoffs, reset, FreshBackoff
  <1>3. PublishedMatches'
    BY FormatAssumption DEF Configured, Enter, PublishedMatches
  <1>4. SessionStartsClean'
    BY DEF Configured, ForgetLastFrame, SessionStartsClean
  <1> QED
    BY <1>1, <1>2, <1>3, <1>4 DEF ControlInv

\* Failing to enter one.
LEMMA ConfigureFailedKeeps ==
    ASSUME ControlInv, NEW f \in Format, ConfigureFailed, current_format' = f,
           UNCHANGED <<has_streamed_before, recovering>>,
           state = "AwaitingProducer"
    PROVE  ControlInv'
  <1>1. MachineTypeOK'
    BY BackOffTypes
       DEF ControlInv, MachineTypeOK, ConfigureFailed, Enter, frame_clock,
           CaptureState, AnyFormat
  <1>2. FreshBackoff'
    BY BackOffTypes DEF ControlInv, ConfigureFailed, Enter, FreshBackoff
  <1>3. PublishedMatches'
    BY FormatAssumption DEF ControlInv, ConfigureFailed, Enter, PublishedMatches
  <1>4. SessionStartsClean'
    BY DEF ControlInv, ConfigureFailed, Enter, frame_clock, SessionStartsClean
  <1> QED
    BY <1>1, <1>2, <1>3, <1>4 DEF ControlInv

\* Leaving a stream for the recovery poll.
LEMMA ReleaseKeeps ==
    ASSUME Inv, state = "Streaming",
           NEW STATE d, NEW STATE cs, cs \in Seq(Counter), NEW reason \in ErrorReason,
           Bounded(d), SameLosses(dev, d), begin_release_cycle(d, cs, reason),
           rate' \in [elapsed: 0..MaxWindowTicks, frames: 0..MaxWindowFrames,
                      active: BOOLEAN]
    PROVE  Inv'
  <1> USE DEF Inv
  <1>1. DeviceInv'
    <2>1. Bounded(dev') /\ Detached(dev') /\ SameLosses(dev, dev')
      BY LetGoDetaches DEF begin_release_cycle, SameLosses, Bounded
    <2> QED
      BY <2>1
         DEF DeviceInv, DeviceTypeOK, DeviceMatchesState, NothingLost,
             PinnedIsWatched, Bounded, Detached, SameLosses,
             begin_release_cycle, Enter
  <1>2. MachineTypeOK'
    BY ForgetTypes, SettingsAssumption
       DEF ControlInv, MachineTypeOK, begin_release_cycle, Enter, reset,
           CaptureState
  <1>3. FreshBackoff' /\ SessionStartsClean'
    BY DEF ControlInv, FreshBackoff, SessionStartsClean, begin_release_cycle,
           Enter, ForgetLastFrame, reset
  <1>4. PublishedMatches'
    BY DEF ControlInv, PublishedMatches, begin_release_cycle, Enter
  <1>5. OutputTypeOK'
    <2>1. cs \o <<"stalls", reason>> \in Seq(Counter)
      BY DEF Counter
    <2>2. <<Event("StallDetected")>> \in Seq(EventRecord)
      BY EventOK DEF EventType
    <2> QED
      BY <2>1, <2>2, OutputsOK DEF begin_release_cycle
  <1> QED
    BY <1>1, <1>2, <1>3, <1>4, <1>5 DEF ControlInv

\* Losing the device, from a stream or from a failed probe.
LEMMA LossKeeps ==
    ASSUME Inv, NEW STATE d, Bounded(d), SameLosses(dev, d), lose_device(d)
    PROVE  Inv'
  <1> USE DEF Inv
  <1>1. DeviceInv'
    <2>1. Bounded(dev') /\ Detached(dev') /\ SameLosses(dev, dev')
      BY LetGoDetaches DEF lose_device, SameLosses, Bounded
    <2> QED
      BY <2>1
         DEF DeviceInv, DeviceTypeOK, DeviceMatchesState, NothingLost,
             PinnedIsWatched, Bounded, Detached, SameLosses, lose_device, Enter
  <1>2. MachineTypeOK'
    BY ForgetTypes, SettingsAssumption
       DEF ControlInv, MachineTypeOK, lose_device, Enter, reset_backoffs, reset,
           CaptureState
  <1>3. FreshBackoff' /\ SessionStartsClean' /\ PublishedMatches'
    BY DEF ControlInv, FreshBackoff, SessionStartsClean, PublishedMatches,
           lose_device, Enter, ForgetLastFrame, reset_backoffs, reset
  <1>4. OutputTypeOK'
    <2>1. <<"DeviceLost">> \in Seq(Counter)
      BY DEF Counter, ErrorReason
    <2>2. <<Event("DeviceLost")>> \in Seq(EventRecord)
      BY EventOK DEF EventType
    <2> QED
      BY <2>1, <2>2, OutputsOK DEF lose_device
  <1> QED
    BY <1>1, <1>2, <1>3, <1>4 DEF ControlInv

-----------------------------------------------------------------------------
(* The steps. *)

LEMMA DeviceAbsentKeeps ==
    ASSUME Inv, NEW o \in OpenResult, step_device_absent(o)
    PROVE  Inv'
  <1> USE DEF Inv
  <1>1. state = "DeviceAbsent"
    BY DEF step_device_absent
  <1>2. Bounded(dev) /\ Detached(dev)
    BY <1>1, IdleDevice DEF DeviceInv, DeviceMatchesState
  <1>3. CASE NotYet
    BY <1>3, NotYetKeeps
  <1>4. CASE next_attempt_in = 0 /\ DeviceFound
    <2>1. DeviceInv'
      <3>1. /\ Bounded(dev') /\ SameLosses(dev, dev') /\ dev'.fd
            /\ ~dev'.streaming /\ dev'.buffers = 0 /\ dev'.pinned = 0
        BY <1>2, <1>4, OpenAttaches DEF DeviceFound, OpenResult
      <3>2. state' = "AwaitingProducer" /\ ~recovering'
        BY <1>1, <1>4 DEF DeviceFound, Enter, DeviceInv, DeviceMatchesState
      <3> QED
        BY <3>1, <3>2
           DEF DeviceInv, DeviceTypeOK, DeviceMatchesState, NothingLost,
               PinnedIsWatched, Bounded, SameLosses
    <2>2. MachineTypeOK'
      BY <1>4, SettingsAssumption
         DEF ControlInv, MachineTypeOK, DeviceFound, Enter, reset_backoffs, reset,
             frame_clock, CaptureState
    <2>3. FreshBackoff' /\ PublishedMatches' /\ SessionStartsClean'
      BY <1>1, <1>4
         DEF ControlInv, FreshBackoff, PublishedMatches, SessionStartsClean,
             DeviceFound, Enter, reset_backoffs, reset, frame_clock
    <2>4. OutputTypeOK'
      <3>1. <<Event("DeviceOpened"), Event("AwaitingProducer")>> \in Seq(EventRecord)
        BY EventOK DEF EventType
      <3> QED
        BY <1>4, <3>1, NothingOK, OutputsOK DEF DeviceFound
    <2> QED
      BY <2>1, <2>2, <2>3, <2>4 DEF ControlInv
  <1>5. CASE next_attempt_in = 0 /\ DeviceMissing
    <2>1. DeviceInv'
      <3>1. Bounded(dev') /\ SameLosses(dev, dev') /\ Detached(dev')
        BY <1>2, <1>5, OpenAttaches DEF DeviceMissing, OpenResult, Detached
      <3> QED
        BY <1>1, <1>5, <3>1
           DEF DeviceInv, DeviceTypeOK, DeviceMatchesState, NothingLost,
               PinnedIsWatched, Bounded, Detached, SameLosses, DeviceMissing
    <2>2. MachineTypeOK'
      BY <1>5, SettingsAssumption
         DEF ControlInv, MachineTypeOK, DeviceMissing, next, frame_clock
    <2>3. FreshBackoff' /\ PublishedMatches' /\ SessionStartsClean'
      BY <1>1, <1>5
         DEF ControlInv, FreshBackoff, PublishedMatches, SessionStartsClean,
             DeviceMissing, frame_clock
    <2>4. OutputTypeOK'
      <3>1. <<"Open">> \in Seq(Counter)
        BY DEF Counter, ErrorReason
      <3> QED
        BY <1>5, <3>1, NothingOK, OutputsOK
           DEF DeviceMissing, ControlInv, MachineTypeOK
    <2> QED
      BY <2>1, <2>2, <2>3, <2>4 DEF ControlInv
  <1> QED
    BY <1>3, <1>4, <1>5 DEF step_device_absent

\* A poll that finds no format; d is what the poll leaves of the device.
LEMMA NoFormatKeeps ==
    ASSUME Inv, state = "AwaitingProducer", NEW STATE d, NEW q, NoFormatYet(d, q),
           Bounded(d), SameLosses(dev, d), ~d.streaming, d.buffers = 0,
           d.pinned = 0, d.fd <=> ~recovering
    PROVE  Inv'
  <1> USE DEF Inv
  <1>1. DeviceInv'
    BY DEF DeviceInv, DeviceTypeOK, DeviceMatchesState, NothingLost,
           PinnedIsWatched, Bounded, SameLosses, NoFormatYet
  <1>2. MachineTypeOK'
    BY BackOffTypes DEF ControlInv, MachineTypeOK, NoFormatYet, frame_clock
  <1>3. FreshBackoff' /\ PublishedMatches' /\ SessionStartsClean'
    BY BackOffTypes
       DEF ControlInv, FreshBackoff, PublishedMatches, SessionStartsClean,
           NoFormatYet, frame_clock
  <1>4. OutputTypeOK'
    <2>1. (IF q.result = "Error" THEN <<"Format">> ELSE <<>>) \in Seq(Counter)
      <3>1. <<"Format">> \in Seq(Counter)
        BY DEF Counter, ErrorReason
      <3> QED
        BY <3>1, NothingOK
    <2> QED
      BY <2>1, NothingOK, OutputsOK DEF NoFormatYet, ControlInv, MachineTypeOK
  <1> QED
    BY <1>1, <1>2, <1>3, <1>4 DEF ControlInv

\* step_awaiting_producer keeps the invariant, whether the query fails, the
\* stream starts or its buffers cannot be set up.
LEMMA AwaitingProducerKeeps ==
    ASSUME Inv, NEW q \in FormatAnswer, NEW s \in StartAnswer,
           step_awaiting_producer(q, s)
    PROVE  Inv'
  <1> USE DEF Inv
  <1>1. state = "AwaitingProducer" /\ ~recovering
    BY DEF step_awaiting_producer
  <1>2. /\ Bounded(dev) /\ dev.fd /\ ~dev.streaming
        /\ dev.buffers = 0 /\ dev.pinned = 0
    BY <1>1, IdleDevice DEF DeviceInv, DeviceMatchesState
  <1>3. CASE NotYet
    BY <1>3, NotYetKeeps
  <1>4. CASE NoFormatYet(dev, q)
    BY <1>1, <1>2, <1>4, NoFormatKeeps DEF SameLosses
  <1>5. CASE next_attempt_in = 0 /\ q.result = "Known" /\ ProducerFound(q.format, s)
    <2>1. q.format \in Format
      BY <1>5 DEF FormatAnswer
    <2>2. /\ Bounded(dev') /\ SameLosses(dev, dev') /\ dev'.fd /\ dev'.pinned = 0
          /\ dev'.streaming <=> Started(s)
          /\ ~Started(s) => dev'.buffers = 0
      BY <1>2, <1>5, StartKeeps DEF ProducerFound
    <2>3. state' = (IF Started(s) THEN "Streaming" ELSE "AwaitingProducer")
      BY <1>5 DEF ProducerFound, enter_configuring, Configured, ConfigureFailed, Enter
    <2>4. DeviceInv'
      BY <1>1, <1>5, <2>2, <2>3
         DEF DeviceInv, DeviceTypeOK, DeviceMatchesState, NothingLost,
             PinnedIsWatched, Bounded, SameLosses, ProducerFound
    <2>5. ControlInv'
      <3>1. CASE Started(s)
        BY <1>1, <1>5, <2>1, <3>1, ConfiguredKeeps
           DEF ProducerFound, enter_configuring, FirstStart, ControlInv, MachineTypeOK
      <3>2. CASE ~Started(s)
        BY <1>1, <1>5, <2>1, <3>2, ConfigureFailedKeeps
           DEF ProducerFound, enter_configuring, BufferFailure
      <3> QED
        BY <3>1, <3>2
    <2>6. OutputTypeOK'
      <3>1. <<"reconnects">> \in Seq(Counter) /\ <<"Buffer">> \in Seq(Counter)
        BY DEF Counter, ErrorReason
      <3>2. <<Event("Reconnecting")>> \in Seq(EventRecord)
        BY EventOK DEF EventType
      <3>3. <<[Event("StreamingStarted") EXCEPT !.format = q.format]>> \in Seq(EventRecord)
        BY <2>1 DEF Event, EventRecord, EventType, AnyFormat
      <3>4. CASE Started(s)
        BY <1>5, <3>1, <3>2, <3>3, <3>4, NothingOK, OutputsOK
           DEF ProducerFound, FirstStart
      <3>5. CASE ~Started(s)
        BY <1>5, <3>1, <3>5, NothingOK, OutputsOK
           DEF ProducerFound, BufferFailure, ControlInv, MachineTypeOK
      <3> QED
        BY <3>4, <3>5
    <2> QED
      BY <2>4, <2>5, <2>6
  <1> QED
    BY <1>3, <1>4, <1>5 DEF step_awaiting_producer

\* step_recovering keeps the invariant on each of its exits: not due, device
\* lost, no format, resumed, and a start that fails and closes its probe.
LEMMA RecoveringKeeps ==
    ASSUME Inv, NEW o \in OpenResult, NEW q \in FormatAnswer, NEW s \in StartAnswer,
           step_recovering(o, q, s)
    PROVE  Inv'
  <1> USE DEF Inv
  <1>1. state = "AwaitingProducer" /\ recovering
    BY DEF step_recovering
  <1>2. Bounded(dev) /\ Detached(dev)
    BY <1>1, IdleDevice DEF DeviceInv, DeviceMatchesState
  <1>3. CASE NotYet
    BY <1>3, NotYetKeeps
  <1>4. CASE lose_device(open(dev, "Absent"))
    <2>1. Bounded(open(dev, "Absent")) /\ SameLosses(dev, open(dev, "Absent"))
      BY <1>2, OpenAttaches DEF OpenResult
    <2> QED
      BY <1>4, <2>1, LossKeeps
  <1> DEFINE d == open(dev, "Opened")
  <1>5. /\ Bounded(d) /\ SameLosses(dev, d) /\ d.fd /\ ~d.streaming
        /\ d.buffers = 0 /\ d.pinned = 0
    BY <1>2, OpenAttaches DEF OpenResult
  <1> HIDE DEF d
  <1>6. CASE NoFormatYet(close(d), q)
    <2>1. Bounded(close(d)) /\ Detached(close(d)) /\ SameLosses(dev, close(d))
      BY <1>5, CloseDetaches DEF Bounded, SameLosses
    <2> QED
      BY <1>1, <1>6, <2>1, NoFormatKeeps DEF Detached
  <1>7. CASE next_attempt_in = 0 /\ q.result = "Known" /\ Resume(q.format, s)
    <2>1. q.format \in Format
      BY <1>7 DEF FormatAnswer
    <2> DEFINE e == start_streaming(d, s)
    <2>2. /\ Bounded(e) /\ SameLosses(dev, e) /\ e.fd /\ e.pinned = 0
          /\ e.streaming <=> Started(s)
          /\ ~Started(s) => e.buffers = 0
      BY <1>5, StartKeeps DEF SameLosses
    <2>3. dev' = (IF Started(s) THEN e ELSE close(e))
      BY <1>7 DEF Resume, ProbedDevice, d
    <2> HIDE DEF e
    <2>4. state' = (IF Started(s) THEN "Streaming" ELSE "AwaitingProducer")
      BY <1>7 DEF Resume, enter_configuring, Configured, ConfigureFailed, Enter
    <2>5. recovering' = ~Started(s)
      BY <1>7 DEF Resume
    <2>6. DeviceInv'
      <3>1. CASE Started(s)
        <4>1. dev' = e /\ state' = "Streaming" /\ ~recovering' /\ e.streaming
          BY <2>2, <2>3, <2>4, <2>5, <3>1
        <4> QED
          BY <2>2, <4>1
             DEF DeviceInv, DeviceTypeOK, DeviceMatchesState, NothingLost,
                 PinnedIsWatched, Bounded, SameLosses
      <3>2. CASE ~Started(s)
        <4>1. Bounded(dev') /\ Detached(dev') /\ SameLosses(dev, dev')
          BY <2>2, <2>3, <3>2, CloseDetaches DEF Bounded, SameLosses
        <4>2. state' = "AwaitingProducer" /\ recovering'
          BY <2>4, <2>5, <3>2
        <4> QED
          BY <4>1, <4>2
             DEF DeviceInv, DeviceTypeOK, DeviceMatchesState, NothingLost,
                 PinnedIsWatched, Bounded, Detached, SameLosses
      <3> QED
        BY <3>1, <3>2
    <2>7. ControlInv'
      <3>1. has_streamed_before' = has_streamed_before /\ has_streamed_before = TRUE
        BY <1>1, <1>7 DEF Resume, ControlInv, PublishedMatches, MachineTypeOK
      <3>2. CASE Started(s)
        BY <1>1, <1>7, <2>1, <2>5, <3>1, <3>2, ConfiguredKeeps
           DEF Resume, enter_configuring
      <3>3. CASE ~Started(s)
        BY <1>1, <1>7, <2>1, <2>5, <3>1, <3>3, ConfigureFailedKeeps
           DEF Resume, enter_configuring, ControlInv, MachineTypeOK
      <3> QED
        BY <3>2, <3>3
    <2>8. OutputTypeOK'
      <3>1. <<"Buffer">> \in Seq(Counter)
        BY DEF Counter, ErrorReason
      <3>2. ResumeEvents(q.format, current_format) \in Seq(EventRecord)
        <4>1. Event("StallCleared") \in EventRecord
          BY EventOK DEF EventType
        <4>2. [Event("StreamingStarted") EXCEPT !.format = q.format] \in EventRecord
          BY <2>1 DEF Event, EventRecord, EventType, AnyFormat
        <4>3. [type |-> "FormatChanged", format |-> q.format,
               previous |-> current_format] \in EventRecord
          BY <2>1 DEF EventRecord, EventType, AnyFormat, ControlInv, MachineTypeOK
        <4> QED
          BY <4>1, <4>2, <4>3 DEF ResumeEvents
      <3>3. CASE Started(s)
        BY <1>7, <3>2, <3>3, NothingOK, OutputsOK DEF Resume
      <3>4. CASE ~Started(s)
        BY <1>7, <3>1, <3>4, NothingOK, OutputsOK DEF Resume, ControlInv, MachineTypeOK
      <3> QED
        BY <3>3, <3>4
    <2> QED
      BY <2>6, <2>7, <2>8
  <1> QED
    BY <1>3, <1>4, <1>6, <1>7 DEF step_recovering, d

RateWindow == [elapsed: 0..MaxWindowTicks, frames: 0..MaxWindowFrames, active: BOOLEAN]

\* Counting one more frame, when the window has room for it or is over,
\* leaves a window.
LEMMA RateKeeps ==
    ASSUME NEW r \in RateWindow,
           r.frames < MaxWindowFrames \/ r.elapsed >= kRateAnomalyWindow
    PROVE  check_arrival_rate(r) \in RateWindow
  <1> DEFINE more == [r EXCEPT !.frames = @ + 1]
  <1>1. CASE r.elapsed < kRateAnomalyWindow
    <2>1. kRateAnomalyWindow \in Nat
      BY SettingsAssumption DEF kRateAnomalyWindow
    <2>2. r.frames + 1 \in 0..MaxWindowFrames
      BY <1>1, <2>1, BoundsAssumption DEF RateWindow
    <2>3. more \in RateWindow
      BY <2>2 DEF RateWindow
    <2>4. check_arrival_rate(r) = more
      BY <1>1 DEF check_arrival_rate
    <2> QED
      BY <2>3, <2>4
  <1>2. CASE ~(r.elapsed < kRateAnomalyWindow)
    <2>1. check_arrival_rate(r) = [elapsed |-> 0, frames |-> 0, active |-> Excursion(more)]
      BY <1>2 DEF check_arrival_rate
    <2>2. Excursion(more) \in BOOLEAN
      BY DEF Excursion
    <2>3. 0 \in 0..MaxWindowTicks /\ 0 \in 0..MaxWindowFrames
      BY BoundsAssumption
    <2> QED
      BY <2>1, <2>2, <2>3 DEF RateWindow
  <1> QED
    BY <1>1, <1>2

\* What a frame counts.
LEMMA FrameCountsOK == FrameCounts \o RateErrors(rate) \in Seq(Counter)
  <1>1. FrameCounts \in Seq(Counter)
    <2>1. <<"frames", "interval">> \in Seq(Counter) /\ <<"frames">> \in Seq(Counter)
      BY DEF Counter
    <2> QED
      BY <2>1 DEF FrameCounts
  <1>2. RateErrors(rate) \in Seq(Counter)
    <2>1. <<"Geometry">> \in Seq(Counter)
      BY DEF Counter, ErrorReason
    <2> QED
      BY <2>1, NothingOK DEF RateErrors
  <1> QED
    BY <1>1, <1>2

\* step_streaming keeps the invariant for every result of dequeue_frame.
LEMMA StreamingKeeps ==
    ASSUME Inv, NEW a \in DequeueAnswer, step_streaming(a)
    PROVE  Inv'
  <1> USE DEF Inv
  <1>1. state = "Streaming"
    BY DEF step_streaming
  <1>2. Bounded(dev) /\ rate \in RateWindow
    BY DEF DeviceInv, DeviceTypeOK, Bounded, ControlInv, MachineTypeOK, RateWindow
  <1>3. CASE a.result = "Frame" /\ Frame(a)
    <2> DEFINE d == requeue_frame(dequeue_frame(dev), a.requeued)
               cs == FrameCounts \o RateErrors(rate)
    <2>1. a.requeued \in BOOLEAN
      BY <1>3 DEF DequeueAnswer
    <2>2. dev.pinned < dev.buffers /\ rate' \in RateWindow
      BY <1>2, <1>3, RateKeeps DEF Frame
    <2>3. /\ Bounded(d) /\ SameLosses(dev, d)
          /\ d.fd = dev.fd /\ d.streaming = dev.streaming
      BY <1>2, <2>1, <2>2, FrameKeeps
    <2>4. cs \in Seq(Counter)
      BY FrameCountsOK
    <2>5. CASE Mismatch(a.bytes_used)
      <3>1. begin_release_cycle(d, cs, "Geometry")
        BY <1>3, <2>5 DEF Frame
      <3> QED
        BY <1>1, <2>2, <2>3, <2>4, <3>1, ReleaseKeeps DEF RateWindow, ErrorReason
    <2>6. CASE ~Mismatch(a.bytes_used)
      <3>1. /\ dev' = d /\ have_last_frame' = TRUE /\ since_last_frame' = 0
            /\ Emit(<<>>, cs, 0)
            /\ UNCHANGED <<state, recovering, has_streamed_before, current_format,
                           backoffs, next_attempt_in, capture_state, stream_info>>
        BY <1>3, <2>6 DEF Frame
      <3> HIDE DEF d, cs
      <3>2. DeviceInv'
        BY <1>1, <2>3, <3>1
           DEF DeviceInv, DeviceTypeOK, DeviceMatchesState, NothingLost,
               PinnedIsWatched, Bounded, SameLosses
      <3>3. MachineTypeOK'
        BY <2>2, <3>1, ThresholdNat
           DEF ControlInv, MachineTypeOK, RateWindow, backoffs
      <3>4. FreshBackoff' /\ PublishedMatches' /\ SessionStartsClean'
        BY <1>1, <3>1
           DEF ControlInv, FreshBackoff, PublishedMatches, SessionStartsClean, backoffs
      <3>5. OutputTypeOK'
        BY <2>4, <3>1, NothingOK, OutputsOK
      <3> QED
        BY <3>2, <3>3, <3>4, <3>5 DEF ControlInv
    <2> QED
      BY <2>5, <2>6
  <1>4. CASE begin_release_cycle(dev, <<>>, "Timeout") /\ UNCHANGED rate
    BY <1>1, <1>2, <1>4, NothingOK, ReleaseKeeps DEF SameLosses, ErrorReason, RateWindow
  <1>5. CASE NoFrame(<<>>) \/ NoFrame(<<"Dequeue">>)
    <2>1. UNCHANGED <<state, recovering, has_streamed_before, current_format,
                      backoffs, next_attempt_in, frame_clock, dev,
                      capture_state, stream_info>>
      BY <1>5 DEF NoFrame
    <2>2. DeviceInv'
      BY <2>1 DEF DeviceInv, DeviceTypeOK, DeviceMatchesState, NothingLost,
                  PinnedIsWatched, frame_clock
    <2>3. ControlInv'
      BY <2>1 DEF ControlInv, MachineTypeOK, FreshBackoff, PublishedMatches,
                  SessionStartsClean, backoffs, frame_clock
    <2>4. <<"Dequeue">> \in Seq(Counter)
      BY DEF Counter, ErrorReason
    <2>5. OutputTypeOK'
      BY <1>5, <2>4, NothingOK, OutputsOK DEF NoFrame
    <2> QED
      BY <2>2, <2>3, <2>5
  <1>6. CASE lose_device(dev)
    BY <1>2, <1>6, LossKeeps DEF SameLosses
  <1> QED
    BY <1>3, <1>4, <1>5, <1>6 DEF step_streaming

\* Time changes the clocks only, and none beyond its cap.
LEMMA TickKeeps == Inv /\ Tick => Inv'
  <1> SUFFICES ASSUME Inv, Tick PROVE Inv'
    OBVIOUS
  <1> USE DEF Inv
  <1>1. UNCHANGED <<state, recovering, has_streamed_before, current_format, backoffs,
                    have_last_frame, dev, capture_state, stream_info, outputs>>
    BY DEF Tick
  <1>2. DeviceInv'
    BY <1>1 DEF DeviceInv, DeviceTypeOK, DeviceMatchesState, NothingLost, PinnedIsWatched
  <1>3. next_attempt_in' \in Nat /\ (next_attempt_in = 0 => next_attempt_in' = 0)
    BY DEF Tick, ControlInv, MachineTypeOK
  <1>4. since_last_frame' \in 0..stall_threshold
    BY ThresholdNat DEF Tick, ControlInv, MachineTypeOK
  <1>5. rate' \in RateWindow /\ rate'.frames = rate.frames /\ rate'.active = rate.active
    <2>1. rate \in RateWindow
      BY DEF ControlInv, MachineTypeOK, RateWindow
    <2>2. CASE state = "Streaming" /\ rate.elapsed < MaxWindowTicks
      <3>1. rate.elapsed + 1 \in 0..MaxWindowTicks
        BY <2>1, <2>2, BoundsAssumption DEF RateWindow
      <3>2. rate' = [rate EXCEPT !.elapsed = rate.elapsed + 1]
        BY <2>1, <2>2 DEF Tick, RateWindow
      <3> QED
        BY <2>1, <3>1, <3>2 DEF RateWindow
    <2>3. CASE ~(state = "Streaming" /\ rate.elapsed < MaxWindowTicks)
      BY <2>1, <2>3 DEF Tick
    <2> QED
      BY <2>2, <2>3
  <1>6. MachineTypeOK'
    BY <1>1, <1>3, <1>4, <1>5 DEF ControlInv, MachineTypeOK, RateWindow, backoffs
  <1>7. FreshBackoff' /\ PublishedMatches' /\ SessionStartsClean'
    BY <1>1, <1>3, <1>5
       DEF ControlInv, FreshBackoff, PublishedMatches, SessionStartsClean, backoffs
  <1>8. OutputTypeOK'
    BY <1>1 DEF OutputTypeOK, outputs
  <1> QED
    BY <1>2, <1>6, <1>7, <1>8 DEF ControlInv

\* Every call of step() and every tick keeps the inductive invariant.
THEOREM Inductive == Inv /\ [Next]_vars => Inv'
  <1> SUFFICES ASSUME Inv, [Next]_vars PROVE Inv'
    OBVIOUS
  <1>1. CASE \E o \in OpenResult : step_device_absent(o)
    BY <1>1, DeviceAbsentKeeps
  <1>2. CASE \E q \in FormatAnswer, s \in StartAnswer : step_awaiting_producer(q, s)
    BY <1>2, AwaitingProducerKeeps
  <1>3. CASE \E o \in OpenResult, q \in FormatAnswer, s \in StartAnswer :
               step_recovering(o, q, s)
    BY <1>3, RecoveringKeeps
  <1>4. CASE \E a \in DequeueAnswer : step_streaming(a)
    BY <1>4, StreamingKeeps
  <1>5. CASE Tick
    BY <1>5, TickKeeps
  <1>6. CASE UNCHANGED vars
    BY <1>6
       DEF vars, Inv, DeviceInv, DeviceTypeOK, DeviceMatchesState, NothingLost,
           PinnedIsWatched, ControlInv, MachineTypeOK, FreshBackoff,
           PublishedMatches, SessionStartsClean, OutputTypeOK, backoffs,
           frame_clock, outputs
  <1> QED
    BY <1>1, <1>2, <1>3, <1>4, <1>5, <1>6 DEF Next, step

\* The inductive invariant holds in every reachable state of the machine.
THEOREM Invariance == Spec => []Inv
  BY Initial, Inductive, PTL DEF Spec

-----------------------------------------------------------------------------
(* Consequences. *)

\* Every variable keeps its type, whatever the device answers.
THEOREM TypeCorrect == Spec => []TypeOK
  <1>1. Inv => TypeOK
    BY DEF Inv, DeviceInv, ControlInv, TypeOK
  <1> QED
    BY <1>1, Invariance, PTL

\* The daemon holds a descriptor, a stream and buffers exactly in the states
\* that need them.
THEOREM DeviceSafety == Spec => []DeviceMatchesState
  <1>1. Inv => DeviceMatchesState
    BY DEF Inv, DeviceInv
  <1> QED
    BY <1>1, Invariance, PTL

\* No descriptor and no mapping is ever lost.
THEOREM NoLeak == Spec => []NothingLost
  <1>1. Inv => NothingLost
    BY DEF Inv, DeviceInv
  <1> QED
    BY <1>1, Invariance, PTL

\* A buffer that is not given back is held by a stream that can stall.
THEOREM PinnedBuffersWatched == Spec => []PinnedIsWatched
  <1>1. Inv => PinnedIsWatched
    BY DEF Inv, DeviceInv
  <1> QED
    BY <1>1, Invariance, PTL

\* Each phase starts its retries at the initial delay: reset_backoffs, and the
\* reset of a release, are on every path out of a phase.
THEOREM PhasesStartFresh == Spec => []FreshBackoff
  <1>1. Inv => FreshBackoff
    BY DEF Inv, ControlInv
  <1> QED
    BY <1>1, Invariance, PTL

\* The exported gauge and stream_info agree with the machine, and the recovery
\* poll is only ever entered by a machine that has streamed.
THEOREM MetricsAgree == Spec => []PublishedMatches
  <1>1. Inv => PublishedMatches
    BY DEF Inv, ControlInv
  <1> QED
    BY <1>1, Invariance, PTL

\* Each stream starts with no last frame and an empty rate window.
THEOREM StreamsStartClean == Spec => []SessionStartsClean
  <1>1. Inv => SessionStartsClean
    BY DEF Inv, ControlInv
  <1> QED
    BY <1>1, Invariance, PTL

-----------------------------------------------------------------------------
(* The ceilings of the two backoffs. *)

\* A deadline is within its ceiling because the backoff it came from was.
CeilingInv ==
    /\ device_absent_backoff <= ReconnectMaxBackoff
    /\ awaiting_producer_backoff <= AwaitingProducerMaxBackoff
    /\ WaitWithinCeiling

\* Backoff::next never leaves a delay above max_.
LEMMA NextWithinCeiling ==
    ASSUME NEW c \in Nat, NEW m \in Nat PROVE next(c, m) \in Nat /\ next(c, m) <= m
  BY DEF next

\* With initial delays under both ceilings, no step schedules a retry beyond
\* the ceiling of its phase.
LEMMA CeilingStep ==
    ASSUME ReconnectInitialBackoff <= ReconnectMaxBackoff,
           ReconnectInitialBackoff <= AwaitingProducerMaxBackoff,
           Inv, CeilingInv, [Next]_vars
    PROVE  CeilingInv'
  <1> USE SettingsAssumption DEF CeilingInv, WaitWithinCeiling
  <1>0. /\ device_absent_backoff \in Nat /\ awaiting_producer_backoff \in Nat
        /\ next_attempt_in \in Nat
    BY DEF Inv, ControlInv, MachineTypeOK
  <1>1. ASSUME NotYet PROVE CeilingInv'
    BY <1>1 DEF NotYet, backoffs
  <1>2. ASSUME NEW STATE d, lose_device(d) PROVE CeilingInv'
    BY <1>2 DEF lose_device, Enter, reset_backoffs, reset
  <1>3. ASSUME NEW STATE d, NEW STATE cs, NEW r, begin_release_cycle(d, cs, r) PROVE CeilingInv'
    BY <1>3 DEF begin_release_cycle, Enter, reset
  <1>4. ASSUME BackOffAwaiting, state' = "AwaitingProducer" PROVE CeilingInv'
    <2>1. awaiting_producer_backoff' <= AwaitingProducerMaxBackoff
      BY <1>0, <1>4, NextWithinCeiling DEF BackOffAwaiting
    <2> QED
      BY <1>4, <2>1 DEF BackOffAwaiting
  <1>5. ASSUME NEW f, NEW s, enter_configuring(f, s), state = "AwaitingProducer",
               next_attempt_in = 0
        PROVE  CeilingInv'
    <2>1. CASE Started(s)
      BY <1>5, <2>1 DEF enter_configuring, Configured, Enter, reset_backoffs, reset
    <2>2. CASE ~Started(s)
      BY <1>4, <1>5, <2>2 DEF enter_configuring, ConfigureFailed, Enter
    <2> QED
      BY <2>1, <2>2
  <1>6. ASSUME NEW o \in OpenResult, step_device_absent(o) PROVE CeilingInv'
    <2>1. CASE next_attempt_in = 0 /\ DeviceFound
      BY <2>1 DEF DeviceFound, Enter, reset_backoffs, reset
    <2>2. CASE state = "DeviceAbsent" /\ DeviceMissing
      <3>1. device_absent_backoff' <= ReconnectMaxBackoff
        BY <1>0, <2>2, NextWithinCeiling DEF DeviceMissing
      <3> QED
        BY <2>2, <3>1 DEF DeviceMissing
    <2> QED
      BY <1>1, <1>6, <2>1, <2>2 DEF step_device_absent
  <1>7. ASSUME NEW q, NEW s, step_awaiting_producer(q, s) PROVE CeilingInv'
    BY <1>1, <1>4, <1>5, <1>7 DEF step_awaiting_producer, NoFormatYet, ProducerFound
  <1>8. ASSUME NEW o, NEW q, NEW s, step_recovering(o, q, s) PROVE CeilingInv'
    BY <1>1, <1>2, <1>4, <1>5, <1>8 DEF step_recovering, NoFormatYet, Resume
  <1>9. ASSUME NEW a, step_streaming(a) PROVE CeilingInv'
    <2>1. CASE Frame(a)
      BY <1>3, <2>1 DEF Frame, backoffs
    <2>2. CASE NoFrame(<<>>) \/ NoFrame(<<"Dequeue">>)
      BY <2>2 DEF NoFrame, backoffs
    <2> QED
      BY <1>2, <1>3, <1>9, <2>1, <2>2 DEF step_streaming
  <1>10. ASSUME Tick PROVE CeilingInv'
    BY <1>0, <1>10 DEF Tick, backoffs
  <1>11. ASSUME UNCHANGED vars PROVE CeilingInv'
    BY <1>11 DEF vars, backoffs
  <1> QED
    BY <1>6, <1>7, <1>8, <1>9, <1>10, <1>11 DEF Next, step

\* When neither ceiling is below the initial delay, no retry is ever further
\* away than the ceiling configured for the phase.
THEOREM CeilingHolds ==
    ASSUME ReconnectInitialBackoff <= ReconnectMaxBackoff,
           ReconnectInitialBackoff <= AwaitingProducerMaxBackoff
    PROVE  Spec => []WaitWithinCeiling
  <1>1. Init => CeilingInv
    BY SettingsAssumption DEF Init, CeilingInv, WaitWithinCeiling, reset
  <1>2. Inv /\ CeilingInv /\ [Next]_vars => CeilingInv'
    BY CeilingStep
  <1>3. CeilingInv => WaitWithinCeiling
    BY DEF CeilingInv
  <1> QED
    BY <1>1, <1>2, <1>3, Invariance, PTL DEF Spec

-----------------------------------------------------------------------------
(* The machine implements its contract. *)

\* No incident among the counters a step increments.
NoIncident(cs) == \A i \in DOMAIN cs : cs[i] \notin {"stalls", "reconnects"}

\* What an observer hears of a step.
LEMMA Heard ==
    ASSUME NEW STATE es, NEW STATE cs, NEW STATE w, Emit(es, cs, w)
    PROVE  /\ es = <<>> => said' = <<>>
           /\ \A a : es = <<a>> => said' = <<a.type>>
           /\ \A a, b : es = <<a, b>> => said' = <<a.type, b.type>>
           /\ \A a, b, c : es = <<a, b, c>> => said' = <<a.type, b.type, c.type>>
           /\ NoIncident(cs) => bumped' = {}
           /\ cs = <<"reconnects">> => bumped' = {"reconnects"}
  <1>1. said' = [i \in DOMAIN es |-> es[i].type] /\ counted' = cs
    BY DEF Emit, said
  <1>2. es = <<>> => said' = <<>>
    BY <1>1
  <1>3. ASSUME NEW a, es = <<a>> PROVE said' = <<a.type>>
    BY <1>1, <1>3
  <1>4. ASSUME NEW a, NEW b, es = <<a, b>> PROVE said' = <<a.type, b.type>>
    BY <1>1, <1>4
  <1>5. ASSUME NEW a, NEW b, NEW c, es = <<a, b, c>>
        PROVE  said' = <<a.type, b.type, c.type>>
    BY <1>1, <1>5
  <1>6. NoIncident(cs) => bumped' = {}
    BY <1>1 DEF NoIncident, bumped
  <1>7. cs = <<"reconnects">> => bumped' = {"reconnects"}
    BY <1>1 DEF bumped
  <1> QED
    BY <1>2, <1>3, <1>4, <1>5, <1>6, <1>7

\* The counters of handle_frame and check_arrival_rate are no incident.
LEMMA FrameNoIncident == NoIncident(FrameCounts \o RateErrors(rate))
  BY DEF NoIncident, FrameCounts, RateErrors

\* A release is heard as one stall, whatever the frame before it counted.
LEMMA ReleaseHeard ==
    ASSUME NEW STATE es, NEW STATE cs, NEW STATE r, cs \in Seq(Counter), NoIncident(cs),
           r \in ErrorReason, Emit(es, cs \o <<"stalls", r>>, 0)
    PROVE  bumped' = {"stalls"}
  <1> DEFINE ds == cs \o <<"stalls", r>>
  <1>1. counted' = ds
    BY DEF Emit
  <1>2. Len(cs) \in Nat /\ Len(ds) = Len(cs) + 2 /\ DOMAIN ds = 1..Len(ds)
    BY DEF Counter
  <1>3. ds[Len(cs) + 1] = "stalls" /\ ds[Len(cs) + 2] = r
    BY <1>2
  <1>4. \A i \in 1..Len(cs) : ds[i] = cs[i] /\ cs[i] # "reconnects"
    BY <1>2 DEF NoIncident
  <1>5. r # "reconnects"
    BY DEF ErrorReason
  <1> HIDE DEF ds
  <1>6. Len(cs) + 1 \in DOMAIN ds
    BY <1>2
  <1>7. \A i \in DOMAIN ds : i \in 1..Len(cs) \/ i = Len(cs) + 1 \/ i = Len(cs) + 2
    BY <1>2
  <1>8. \A i \in DOMAIN ds : ds[i] # "reconnects"
    BY <1>3, <1>4, <1>5, <1>7
  <1> QED
    BY <1>1, <1>3, <1>6, <1>8 DEF bumped

\* The phase of a state, and what the daemon then holds.
PhaseFacts ==
    /\ state = "DeviceAbsent" => phase = "Absent"
    /\ state = "AwaitingProducer" /\ ~recovering => phase = "Waiting"
    /\ state = "AwaitingProducer" /\ recovering => phase = "Released"
    /\ state = "Streaming" => phase = "Live"
    /\ dev.fd = (phase \in {"Waiting", "Live"})

\* Which phase of the contract a state is in, and what it is attached to.
LEMMA PhaseOf == Inv => PhaseFacts
  <1> SUFFICES ASSUME Inv PROVE PhaseFacts
    OBVIOUS
  <1> USE DEF PhaseFacts
  <1>1. dev.fd \in BOOLEAN /\ recovering \in BOOLEAN
    BY DEF Inv, DeviceInv, DeviceTypeOK, Device, ControlInv, MachineTypeOK
  <1>2. state \in {"DeviceAbsent", "AwaitingProducer", "Streaming"}
    BY DEF Inv, ControlInv, MachineTypeOK, DeviceInv, DeviceMatchesState, CaptureState
  <1>3. CASE state = "DeviceAbsent"
    BY <1>1, <1>3 DEF phase, Inv, DeviceInv, DeviceMatchesState
  <1>4. CASE state = "AwaitingProducer" /\ recovering
    BY <1>1, <1>4 DEF phase, Inv, DeviceInv, DeviceMatchesState
  <1>5. CASE state = "AwaitingProducer" /\ ~recovering
    BY <1>1, <1>5 DEF phase, Inv, DeviceInv, DeviceMatchesState
  <1>6. CASE state = "Streaming"
    BY <1>1, <1>6 DEF phase, Inv, DeviceInv, DeviceMatchesState
  <1> QED
    BY <1>2, <1>3, <1>4, <1>5, <1>6

\* The same for the state after a step.
LEMMA PhaseNext == Inv' => PhaseFacts'
  BY PhaseOf, PTL

\* A step that says nothing, counts no incident and stays in its phase.
LEMMA QuietStep ==
    ASSUME Inv, Inv', NEW STATE cs, NEW STATE w, Emit(<<>>, cs, w), NoIncident(cs),
           UNCHANGED <<state, recovering, has_streamed_before>>
    PROVE  Contract!Next
  <1>1. phase' = phase
    BY DEF phase
  <1>2. said' = <<>> /\ bumped' = {}
    BY Heard
  <1>3. dev'.fd = (phase \in {"Waiting", "Live"})
    BY <1>1, PhaseNext DEF PhaseFacts
  <1> QED
    BY <1>1, <1>2, <1>3 DEF Contract!Next, Contract!Quiet, Contract!Move

\* A release and a loss are steps of the contract.
LEMMA ReleaseStep ==
    ASSUME Inv, Inv', state = "Streaming",
           NEW STATE d, NEW STATE cs, NEW STATE r, cs \in Seq(Counter), NoIncident(cs),
           r \in ErrorReason, begin_release_cycle(d, cs, r)
    PROVE  Contract!Next
  <1>1. phase = "Live" /\ phase' = "Released"
    BY PhaseOf, PhaseNext DEF PhaseFacts, begin_release_cycle, Enter
  <1>2. dev'.fd = ("Released" \in {"Waiting", "Live"})
    BY <1>1, PhaseNext DEF PhaseFacts
  <1>3. bumped' = {"stalls"}
    BY ReleaseHeard DEF begin_release_cycle
  <1>4. said' = <<"StallDetected">>
    BY Heard DEF begin_release_cycle, Event
  <1>5. UNCHANGED has_streamed_before
    BY DEF begin_release_cycle
  <1> QED
    BY <1>1, <1>2, <1>3, <1>4, <1>5 DEF Contract!Next, Contract!Release, Contract!Move

\* lose_device maps to the contract's Lose.
LEMMA LossStep ==
    ASSUME Inv, Inv', state = "Streaming" \/ (state = "AwaitingProducer" /\ recovering),
           NEW STATE d, lose_device(d)
    PROVE  Contract!Next
  <1>1. phase \in {"Live", "Released"} /\ phase' = "Absent"
    BY PhaseOf, PhaseNext DEF PhaseFacts, lose_device, Enter
  <1>2. dev'.fd = ("Absent" \in {"Waiting", "Live"})
    BY <1>1, PhaseNext DEF PhaseFacts
  <1>3. NoIncident(<<"DeviceLost">>)
    BY DEF NoIncident
  <1>4. said' = <<"DeviceLost">> /\ bumped' = {}
    BY <1>3, Heard DEF lose_device, Event
  <1>5. UNCHANGED has_streamed_before
    BY DEF lose_device
  <1> QED
    BY <1>1, <1>2, <1>4, <1>5 DEF Contract!Next, Contract!Lose, Contract!Move

\* None of the counters a silent step increments is an incident.
LEMMA QuietCounters ==
    /\ NoIncident(<<>>) /\ NoIncident(<<"Open">>) /\ NoIncident(<<"Format">>)
    /\ NoIncident(<<"Buffer">>) /\ NoIncident(<<"Dequeue">>)
  BY DEF NoIncident

\* The early return of the polling steps maps to Quiet.
LEMMA NotYetStep == Inv /\ Inv' /\ NotYet => Contract!Next
  BY QuietStep, QuietCounters DEF NotYet

\* step_device_absent maps to Open or Quiet.
LEMMA DeviceAbsentStep ==
    ASSUME Inv, Inv', NEW o \in OpenResult, step_device_absent(o)
    PROVE  Contract!Next
  <1>1. CASE state = "DeviceAbsent" /\ DeviceFound
    <2>1. ~recovering /\ UNCHANGED <<recovering, has_streamed_before>>
      BY <1>1 DEF DeviceFound, Inv, DeviceInv, DeviceMatchesState
    <2>2. phase = "Absent" /\ phase' = "Waiting"
      BY <1>1, <2>1, PhaseOf, PhaseNext DEF PhaseFacts, DeviceFound, Enter
    <2>3. dev'.fd = ("Waiting" \in {"Waiting", "Live"})
      BY <2>2, PhaseNext DEF PhaseFacts
    <2>4. said' = <<"DeviceOpened", "AwaitingProducer">> /\ bumped' = {}
      BY <1>1, Heard, QuietCounters DEF DeviceFound, Event
    <2> QED
      BY <2>1, <2>2, <2>3, <2>4 DEF Contract!Next, Contract!Open, Contract!Move
  <1>2. CASE DeviceMissing
    BY <1>2, QuietStep, QuietCounters DEF DeviceMissing
  <1> QED
    BY <1>1, <1>2, NotYetStep DEF step_device_absent

\* An attempt that finds no format maps to Quiet.
LEMMA NoFormatStep ==
    ASSUME Inv, Inv', NEW STATE d, NEW q, NoFormatYet(d, q)
    PROVE  Contract!Next
  <1>1. NoIncident(IF q.result = "Error" THEN <<"Format">> ELSE <<>>)
    BY QuietCounters
  <1> QED
    BY <1>1, QuietStep DEF NoFormatYet

\* step_awaiting_producer maps to GoLive, or to Quiet when nothing starts.
LEMMA AwaitingProducerStep ==
    ASSUME Inv, Inv', NEW q \in FormatAnswer, NEW s \in StartAnswer,
           step_awaiting_producer(q, s)
    PROVE  Contract!Next
  <1>1. CASE state = "AwaitingProducer" /\ ~recovering /\ ProducerFound(q.format, s)
    <2>1. CASE ~Started(s)
      <3>1. UNCHANGED <<state, recovering, has_streamed_before>>
        BY <1>1, <2>1
           DEF ProducerFound, enter_configuring, ConfigureFailed, Enter, BufferFailure
      <3> QED
        BY <1>1, <2>1, <3>1, QuietStep, QuietCounters DEF ProducerFound, BufferFailure
    <2>2. CASE Started(s)
      <3>1. state' = "Streaming" /\ has_streamed_before' = TRUE
        BY <1>1, <2>2
           DEF ProducerFound, enter_configuring, Configured, Enter, FirstStart
      <3>2. phase = "Waiting" /\ phase' = "Live"
        BY <1>1, <3>1, PhaseOf, PhaseNext DEF PhaseFacts
      <3>3. dev'.fd = ("Live" \in {"Waiting", "Live"})
        BY <3>2, PhaseNext DEF PhaseFacts
      <3>4. CASE has_streamed_before
        <4>1. said' = <<"Reconnecting">> /\ bumped' = {"reconnects"}
          BY <1>1, <2>2, <3>4, Heard DEF ProducerFound, FirstStart, Event
        <4> QED
          BY <3>1, <3>2, <3>3, <3>4, <4>1
             DEF Contract!Next, Contract!GoLive, Contract!Move
      <3>5. CASE ~has_streamed_before
        <4>1. said' = <<"StreamingStarted">> /\ bumped' = {}
          BY <1>1, <2>2, <3>5, Heard, QuietCounters
             DEF ProducerFound, FirstStart, Event
        <4> QED
          BY <3>1, <3>2, <3>3, <3>5, <4>1
             DEF Contract!Next, Contract!GoLive, Contract!Move
      <3> QED
        BY <3>4, <3>5
    <2> QED
      BY <2>1, <2>2
  <1> QED
    BY <1>1, NotYetStep, NoFormatStep DEF step_awaiting_producer

\* step_recovering maps to Lose, Resume or Quiet.
LEMMA RecoveringStep ==
    ASSUME Inv, Inv', NEW o \in OpenResult, NEW q \in FormatAnswer,
           NEW s \in StartAnswer, step_recovering(o, q, s)
    PROVE  Contract!Next
  <1>1. state = "AwaitingProducer" /\ recovering
    BY DEF step_recovering
  <1>2. CASE Resume(q.format, s)
    <2>1. CASE ~Started(s)
      <3>1. UNCHANGED <<state, recovering, has_streamed_before>>
        BY <1>1, <1>2, <2>1
           DEF Resume, enter_configuring, ConfigureFailed, Enter, Inv, ControlInv,
               MachineTypeOK
      <3> QED
        BY <1>2, <2>1, <3>1, QuietStep, QuietCounters DEF Resume
    <2>2. CASE Started(s)
      <3>1. state' = "Streaming"
        BY <1>2, <2>2 DEF Resume, enter_configuring, Configured, Enter
      <3>2. phase = "Released" /\ phase' = "Live"
        BY <1>1, <3>1, PhaseOf, PhaseNext DEF PhaseFacts
      <3>3. dev'.fd = ("Live" \in {"Waiting", "Live"})
        BY <3>2, PhaseNext DEF PhaseFacts
      <3>4. has_streamed_before /\ UNCHANGED has_streamed_before
        BY <1>1, <1>2 DEF Resume, Inv, ControlInv, PublishedMatches
      <3>5. Emit(ResumeEvents(q.format, current_format), <<>>, 0)
        BY <1>2, <2>2 DEF Resume
      <3>6. bumped' = {}
        BY <3>5, Heard, QuietCounters
      <3>7. CASE q.format = current_format
        <4>1. said' = <<"StallCleared", "StreamingStarted">>
          BY <3>5, <3>7, Heard DEF ResumeEvents, Event
        <4> QED
          BY <3>2, <3>3, <3>4, <3>6, <4>1
             DEF Contract!Next, Contract!Resume, Contract!Move
      <3>8. CASE q.format # current_format
        <4>1. said' = <<"StallCleared", "FormatChanged", "StreamingStarted">>
          BY <3>5, <3>8, Heard DEF ResumeEvents, Event
        <4> QED
          BY <3>2, <3>3, <3>4, <3>6, <4>1
             DEF Contract!Next, Contract!Resume, Contract!Move
      <3> QED
        BY <3>7, <3>8
    <2> QED
      BY <2>1, <2>2
  <1> QED
    BY <1>1, <1>2, NotYetStep, NoFormatStep, LossStep DEF step_recovering

\* step_streaming maps to Release, Lose or Quiet.
LEMMA StreamingStep ==
    ASSUME Inv, Inv', NEW a \in DequeueAnswer, step_streaming(a)
    PROVE  Contract!Next
  <1>1. state = "Streaming"
    BY DEF step_streaming
  <1>2. CASE Frame(a)
    <2> DEFINE d == requeue_frame(dequeue_frame(dev), a.requeued)
               cs == FrameCounts \o RateErrors(rate)
    <2>1. cs \in Seq(Counter) /\ NoIncident(cs)
      BY FrameCountsOK, FrameNoIncident
    <2>2. CASE Mismatch(a.bytes_used)
      <3>1. begin_release_cycle(d, cs, "Geometry") /\ "Geometry" \in ErrorReason
        BY <1>2, <2>2 DEF Frame, ErrorReason
      <3> HIDE DEF d, cs
      <3> QED
        BY <1>1, <2>1, <3>1, ReleaseStep
    <2>3. CASE ~Mismatch(a.bytes_used)
      <3>1. Emit(<<>>, cs, 0) /\ UNCHANGED <<state, recovering, has_streamed_before>>
        BY <1>2, <2>3 DEF Frame
      <3> HIDE DEF cs
      <3> QED
        BY <2>1, <3>1, QuietStep
    <2> QED
      BY <2>2, <2>3
  <1>3. CASE begin_release_cycle(dev, <<>>, "Timeout")
    BY <1>1, <1>3, ReleaseStep, QuietCounters, NothingOK DEF ErrorReason
  <1>4. CASE NoFrame(<<>>) \/ NoFrame(<<"Dequeue">>)
    BY <1>4, QuietStep, QuietCounters DEF NoFrame
  <1>5. CASE lose_device(dev)
    BY <1>1, <1>5, LossStep
  <1> QED
    BY <1>2, <1>3, <1>4, <1>5 DEF step_streaming

\* The state machine implements its contract: for every behaviour of the
\* device, the events, the incident counters and the attachment to the node
\* follow the contract's phases.
THEOREM Refinement == Spec => ImplementsContract
  <1>1. Init => Contract!Init
    BY DEF Init, Contract!Init, phase, said, bumped, NewDevice
  <1>2. Inv /\ Inv' /\ [Next]_vars =>
          [Contract!Next]_<<phase, has_streamed_before, dev.fd, said, bumped>>
    <2> SUFFICES ASSUME Inv, Inv', [Next]_vars
                 PROVE  \/ Contract!Next
                        \/ UNCHANGED <<phase, has_streamed_before, dev.fd, said, bumped>>
      OBVIOUS
    <2>1. CASE step
      BY <2>1, DeviceAbsentStep, AwaitingProducerStep, RecoveringStep, StreamingStep
         DEF step
    <2>2. CASE Tick
      BY <2>2 DEF Tick, outputs, phase, said, bumped
    <2>3. CASE UNCHANGED vars
      BY <2>3 DEF vars, outputs, phase, said, bumped
    <2> QED
      BY <2>1, <2>2, <2>3 DEF Next
  <1> QED
    BY <1>1, <1>2, Invariance, PTL DEF Spec, ImplementsContract, Contract!Spec
=============================================================================
