# hamstercam in TLA+

A verification project for hamstercam: the capture daemon `hamstercamd`, which
reads frames from a v4l2loopback node and reports whether they arrive, and
`hamstercam-exporter`, which turns ffmpeg's `-progress` text into metrics. The
modules are translated from the C++ under `src/src` and
`src/include/hamstercam`; the driver, ffmpeg and the scrapers are external and
modelled from how that code uses them. `PROJECT.json` maps every definition to
its lines.

## The system

`hamstercamd` has two threads. The capture thread runs the loop of `main.cpp`:
call `CaptureStateMachine::step`, sleep for the wait it recommends, until a
signal sets `g_stop_requested`. The HTTP thread renders `CaptureStats`.
`hamstercam-exporter` has three: one reads the progress socket into a
`ProgressParser`, one serves metrics, and main waits for a signal, sets two stop
flags and joins. The threads of `hamstercamd` share the stop flags and
`CaptureStats`: relaxed atomics, and a histogram and a format under a mutex
each. Processes share the kernel's names: socket paths and addresses.

| Component | State | Operations | What makes it correct |
|---|---|---|---|
| capture state machine | state, `recovering_`, format, two backoffs, deadline, last frame, rate window | `step` in four states, release, loss | holds the device exactly when it should; fresh retries; events in order; stalls and losses noticed |
| backoff | current delay | `next`, `reset` | never beyond its ceiling |
| V4L2 device | descriptor, mappings, streaming flag | open, close, start, stop, dequeue, requeue | nothing leaks on any error exit |
| main loop | stop flag, sleep | step, sleep, release | shutdown is prompt and releases the node; no busy loop; bounded blind time |
| progress parser | unfinished line, statistics | `feed`, `parse_line` | how the text is cut is invisible; the buffer is bounded; a line too long does not cost the rest |
| progress socket server | connection, gauge, stop flag | `run`, `stop`, `start` | drained whatever scrapers do; hang-ups seen; ends when told |
| HTTP server | connection, stop flag, listener | `run`, `stop`, `start`, destructor | ends when told; starts again after a crash |
| exporter main | stop flag | start, stop and join | ends both threads; leaves no socket file; fails only for a cause |
| statistics, histogram, rendering | relaxed atomics, buckets and format under mutexes | store, `observe`, `snapshot`, `render_metrics` | what a scrape shows fits together; exact at rest; never holds up capture |
| logger | minimum level | `log`, `emit` | the last line tells the phase |
| flags and environment | none | `parse_flags`, `resolve` | the operator gets what was asked for |
| process info | none | read procfs | left out |

Hard behaviours: every device call can fail, at any point of a multi-step start;
what a descriptor shows depends on when it was opened; stalls, losses and format
changes follow each other in any order; two clocks (the machine's deadline, the
loop's sleep) must agree; signals arrive in polls and sleeps; text is cut
anywhere; a peer may say nothing for ever; relaxed stores are
seen out of order by a scrape; a process dies between any two system calls and
another one takes its names.

## Modules

| Module | Models |
|---|---|
| `Backoff` | `backoff.hpp`: the delay left behind by `next` and `reset` |
| `V4L2CaptureDevice` | `v4l2_capture_device.cpp` as operators over one record: the members plus the kernel's view (overwritten descriptors, forgotten mappings, buffers not given back) |
| `CaptureStateMachine` | `capture_state_machine.cpp`: one action per `step_` function, for every answer of the device, and `Tick` |
| `CaptureContract` | the abstract specification: what observers of log, counters and node may rely on, without formats, frames, backoffs or time |
| `JsonLogger` | `json_logger.cpp`: the level of each line and the filter of `--log-level` |
| `CaptureDaemon` | the loop of `main.cpp` around the state machine, with its log, node, driver and producer |
| `RelaxedMemory` | external: in which order the operations of one thread may take effect |
| `CaptureStats` | `stats.hpp`, `histogram.hpp`, `metrics.cpp`: the stores of each step and the loads of a scrape as sequences of operations |
| `MetricsScrape` | the capture thread, the HTTP thread and the shutdown of `hamstercamd` on `CaptureStats`, composed with `HttpServer` |
| `ProgressParser` | `progress_parser.cpp` as operators over [buffer, stats] |
| `HttpServer` | `HttpServer::run` and its clients |
| `ProgressExporter` | `ProgressSocketServer::run`, exporter main and the HTTP thread composed, with ffmpeg processes that come and go |
| `CommandLine` | `parse_flags`, `resolve` and the tests both mains make of their settings |
| `Lifecycle` | processes of both programs from command line to exit: both `start()`s and destructors, crashes, a supervisor |
| `MC*` | constants for TLC |
| `CaptureStateMachine_proofs`, `CaptureDaemon_proofs`, `MetricsScrape_proofs`, `ProgressExporter_proofs`, `Lifecycle_proofs` | the theorems about the module each is named after |
| `CommandLine_proofs` | what the command line parser computes, for `Lifecycle_proofs` |
| `Iteration_proofs` | recursive functions over `0..n`: they exist and are unique |

Conventions. Definitions keep the names of the code. A step is one action, from
its early return to its last store; what it hands out (`events`, `counted`,
`wait`) is kept until the next step, in order. The intermediate gauge values
`Configuring` and `Stalled` are stored and overwritten within one step and so
are not visible there; `MetricsScrape` is where they are. Time is relative:
`next_attempt_in`, `since_last_frame` and `rate.elapsed` are distances to the machine's time points, capped where the code
no longer tells values apart. A format is a model value with a size and a class
(compressed or not). REQBUFS grants at most the buffers asked for. The float
comparison of the arrival rate is cross-multiplied. Parser text is a sequence of
symbols: a key, a digit, `=`, a line end.

In `CaptureDaemon`, time passes only while main is blocked, and a frame that is
ready is taken before the next tick. What a descriptor shows of a writer that
arrives after its open is described twice, and differently:
`daemon_config.hpp:22-23` waits on it "for a writer to show up", while
`fake_capture_device.hpp:28-33` says that the real driver freezes the answer at
open, and `capture_state_machine.cpp:181-183` reopens in recovery because of
that. The model keeps both: each open of the descriptor that the first wait
holds may give a live one or a frozen one (`frozen`, and `seen`, what it was
shown), and every run of `CaptureDaemon` has both. A first wait whose descriptor
was opened before there was a producer, and is frozen, is `FrozenOut`: no
producer can end it. `BlindTimeBounded` and `ProducerFoundEventually` speak of
every other wait (recovery with either driver included), and `WriterShowsUp` of
this one. `PinnedByOther` chooses whether another opener pins a format. `log` holds, for
each setting of `--log-level`, the last line that setting shows.

In `MetricsScrape` a step issues its stores at once and they take effect later,
one by one. `Eligible` says which may overtake which: operations on one location
never do; nothing moves out of a critical section, but what is outside may move
in; locks keep their order. The next step may begin while up to `MaxInFlight`
stores are outstanding. The capture thread is reduced to the phases of
`CaptureContract`; the histogram has two buckets, and the seven error counters
are one. Loads that nothing is compared with are left out of `render_metrics`.

In `Lifecycle` every system call that another process could notice is a step of
its own: the unlink and the bind of `start()`, the close and the unlink of the
destructor. What becomes of a listener or a socket file when its process closes
it or dies is the kernel's doing (`NoListener`, `Orphaned`). `fs` says whose socket a path names, `port` who listens on an
address, `linger` which addresses have connections in TIME_WAIT. The supervisor
is the `Restart=on-failure` that `progress_socket_server.cpp:48` names. A start
fails for a path over the cap (`LongPath`), for one that `bind()` refuses because
its directory is missing or may not be written to (`BadPath`), for an address,
or for another process.

Next to some definitions stands a wrong variant (`KeepsProbeOpen` next to
`ProbedDevice`): the bug a property is meant to catch. Replacing the definition
by its variant makes TLC report that property.

## Runs that pass

| Run | Instance | States | Shows |
|---|---|---|---|
| `capture_state_machine` | 3 formats (two sizes, one compressed), 2 buffers, backoffs 1/4/2, threshold 2 ticks, windows of 10 frames | 46 thousand | types; device matches state; nothing lost; refused buffers are watched; fresh backoff; ceilings; metrics agree; clean sessions; the contract is implemented |
| `capture_daemon` | the same formats, 1 buffer, poll of 1 tick, backoffs 1/2/1, live and frozen descriptors | 145 thousand | a step is never called early; blind time within the ceiling; a signal ends the loop within one poll, and the node is released; the last log line tells the phase, at every log level; a stream that falls silent is released; its loss is noticed; a settled producer is found, in a fitting format, unless the first wait is frozen out; the log falls quiet; main keeps blocking |
| `metrics_scrape` | 2 streams, 2 frames, 1 failure, 1 store in flight, window of 3 operations | 3.0 million | a scrape that says Streaming shows a format at least as new; its histogram is whole; a later scrape counts more frames than an earlier one intervals; with nothing in flight the statistics are exact; a held mutex has its unlock to come |
| `metrics_liveness` | 1 stream, 2 frames, 1 failure, window of 2 | 145 thousand | `Configuring` and `Stalled` pass; every step finishes whatever scrapers do; a signal ends both threads if clients let go |
| `exporter` | chunk 2, cap 4, a line longer than the cap allows, deaths in mid-line, 2 connections, a scraper that may be silent | 251 thousand | the buffer is bounded; chunking is invisible; a long line is forgotten; the socket is drained; hang-ups are seen; the process ends if scrapers let go |
| `process_lifecycle` | 2 exporters and a daemon, 2 launches, 2 kills, 4 paths (one over the cap, one in a missing directory), 3 addresses | 77 thousand | an exporter is reached where its operator asked; a start fails only for its own settings or for a process it met; an exit leaves no socket file; what was killed comes back |

Bounds. Backoffs of 1, 4 and 2 double, reach their cap and have different
ceilings; in the daemon run they are 1, 2 and 1, still different. A threshold of
two ticks separates a late frame from a stall. With
`ExpectedFps = 1` and windows of at least 2 ticks an excursion needs more than
10 frames in a window, which `MaxWindowFrames = 10` (the frame that closes the
window comes on top) just reaches; `BoundsAssumption` states that capping
`rate.elapsed` then changes nothing. The daemon runs use smaller windows, in
which no excursion happens: it changes only a counter there. Two buffers allow
one to be pinned, and all. Two connections are enough for one to leave something
to the next. With a cap of 4 and chunks of 2 a line of two symbols is short
(`progress=`), one of three is not: whether it is dropped, alone or with the line
end and the beginning of the next line, depends on the cut, and every cut
happens. The script behind it has a line end far enough away for the parser to
have found its way again. What the values are does not matter to these
properties, since the reference uses `parse_line` too; a wrapping counter
(`Word = 10`), a carriage return, a suffix and a value that is no number are in
the scripts of `cut_line`. Two streams are enough for a format to be older than
the stream a scrape names, two frames for an interval, and a window of three
operations for stores to overtake each other and to move into a critical
section. Two launches give every pair of processes that meet; a killed process
is restarted without limit, so two kills reach a crash during the recovery from
a crash. The command lines cover a flag given twice, both spellings, a flag of
the other program, a missing value and a call for help, with and without the
environment.

Deadlock is checked in `capture_state_machine` and not in the runs with a main
thread, where the process may exit.

Fairness. The threads, time and a process that is up go on (`WF` on their
steps): the operating system schedules them. In `MetricsScrape` the operations
of the two threads have strong fairness: a `std::mutex` that is free again and
again is obtained, as its critical sections are a few instructions long and the
other side sleeps or polls between them. In `Lifecycle` the supervisor restarts
what it finds killed or failed. Nothing is assumed of producers, nodes,
operators or scrapers; what a property needs of them it says itself (`Settled`,
`[]<>(peer # "silent")`).

Two processes on one path or address. `met` records that a process shared a
path or an address with another that was up. The properties of `Lifecycle`
exempt those: `start()` and the destructor unlink the path whatever it names, so
a second exporter takes the path of the first, and one that then fails to bind
its address, or ends late, removes the socket of the other, which runs on
unreachable. Nothing in the repository
promises otherwise; the runs show that it takes a second process.

## Runs that find a disagreement

Each of these checks one property that a comment, a test or the README states,
and which the code does not have. `PROJECT.json` quotes the lines.

| Run | What happens |
|---|---|
| `format_change` | a resume whose first start lacks buffers compares the next attempt's format with the one it has just stored and reports no change |
| `vanish_waiting` | a node that vanishes while a first producer is awaited is never let go of |
| `frozen_wait` | with a driver that freezes what a descriptor shows at its open, a producer that arrives during the first wait is never found: nothing reopens the descriptor |
| `pinned_by_other` | with a format pinned by another opener each frame is a release and a resume |
| `cut_line` | the unfinished line of a dead producer swallows the next one's first line |
| `silent_scraper` | a silent client keeps the HTTP thread from ending |

Known limits that no run repeats, since the runs above assume them away where
they say so: a stream that never delivers its first frame is never stalled
(`capture_state_machine.cpp:158`, `StallNoticed` speaks of streams that did); a
dequeue that fails at once is retried without a pause (line 166,
`SpinsOnlyOnFault` excludes a faulty node); `feed` tests the cap before it takes
finished lines out (`progress_parser.cpp:44`), so a chunk that overflows is
dropped with the finished lines in it, although the comment at lines 10-13 speaks
of "the pending partial line" (with a cap of 6 and chunks of 3, the lines
`junk junk junk junk` and `frame=3`, both under the cap, lose the second one when
the third chunk ends behind its `=`: `ReportedApplied` fails on that text with a
single connection that never dies). `ChunkingInvisible` therefore asks that every
line stay a chunk short of the cap, and `LongLineForgotten` bounds the damage
otherwise; the log line `device_lost` carries
the reason "unknown", as `lose_device` (line 303) leaves the event's reason at
its default.

## What is proved

`CaptureStateMachine_proofs` proves, for every set of formats, every setting and
every buffer count that satisfies the named assumptions (`FormatAssumption`,
`SettingsAssumption`, `BoundsAssumption`, `BufferCountAssumption`: mostly that
settings are natural numbers, which `parse_u32` gives):

| Theorem | Says |
|---|---|
| `TypeCorrect` | `Spec => []TypeOK` |
| `DeviceSafety` | `Spec => []DeviceMatchesState` |
| `NoLeak` | `Spec => []NothingLost` |
| `PinnedBuffersWatched` | `Spec => []PinnedIsWatched` |
| `PhasesStartFresh`, `MetricsAgree`, `StreamsStartClean` | `FreshBackoff`, `PublishedMatches`, `SessionStartsClean` |
| `CeilingHolds` | `WaitWithinCeiling`, if the initial delay is under both ceilings; the hypothesis is needed, since `next` returns the initial delay before it applies the cap |
| `Refinement` | `Spec => ImplementsContract` |

The argument. None of the invariants is inductive alone: that `open` overwrites
no descriptor needs to know that none is held while recovering, that
`start_streaming` forgets no mapping needs that none exists outside a stream,
and that a resume reports a real previous format needs that recovery follows a
stream. `Inv == DeviceInv /\ ControlInv /\ OutputTypeOK` joins them. `Initial`
and `Inductive` establish it; `Inductive` has one lemma per `step_` function
(`DeviceAbsentKeeps`, `AwaitingProducerKeeps`, `RecoveringKeeps`,
`StreamingKeeps`, `TickKeeps`), over lemmas for what the device operators
preserve (`CloseDetaches`, `OpenAttaches`, `StartKeeps`, `FrameKeeps`) and for
the shared fragments (`ReleaseKeeps`, `LossKeeps`, `ConfiguredKeeps`).
`CeilingHolds` adds `CeilingInv`: both backoffs and the deadline are under their
ceilings. `Refinement` maps each step function to a step of the contract
(`DeviceAbsentStep` to `Open` or `Quiet`, `RecoveringStep` to `Lose`, `Resume`
or `Quiet`, and so on), using `Inv` before and after the step.

The other theorems state, again for every value of the constants:

| Module | Theorems (property) |
|---|---|
| `CaptureDaemon_proofs` | `StepsAreDue` (`StepIsDue`), `StopsPromptly` (`StopIsPrompt`), `LogIsTelling` (`LogTellsPhase`), `ExitReleases` (the safety half of `StopReleases`); and, if the initial delay is under both ceilings, `ProducerNoticed` (`BlindTimeBounded`) and `DaemonTypeCorrect` (`DaemonTypeOK`). `ProducerNoticed` covers the recovering wait with either driver, and the first wait only where its descriptor is not frozen out |
| `MetricsScrape_proofs` | `ScrapeTypeCorrect` (`ScrapeTypeOK`), `HistogramIsWhole` (`HistogramWhole`), `StreamingShowsFormat` (`StreamingHasFormat`), `FramesCover` (`FramesCoverIntervals`), `StatsAreExact` (`StatsExact`) |
| `ProgressExporter_proofs` | `ExporterTypeCorrect` (`ExporterTypeOK`), `ChunkingIsInvisible` (`ChunkingInvisible`) |
| `CommandLine_proofs` | `FlagsAsMeant`: what `parse_flags` and `resolve` make of a line is what the line means |
| `Lifecycle_proofs` | `LifecycleTypeCorrect` (`LifecycleTypeOK`), `FailuresHaveCause` (`FailsForCause`), `ExitsClean` (`CleanExit`), `ExporterReachable` (`ReachableWhereAsked`) |

*The daemon.* `DaemonInv == EnvInv /\ MachineInv /\ LoopInv /\ StopInv`.
`MachineInv` is `Inv` of the state machine, so that the lemmas of
`CaptureStateMachine_proofs` apply to each call of `step()`. `LoopInv` says
that what is left of the sleep is what is left until the machine's deadline,
which is what `StepIsDue` lacks to be inductive.
`StopInv` relates the time since a signal to what is left of the poll or sleep it
came in. `LogTellsPhase` needs `LogInv`: what each log level shows last, for
every phase, and not only at the level asked about. `CeilingInv` and `BlindInv`
add that the time a producer has been there and the rest of the wait stay under
the ceiling together.

*The scrape.* The stores of the capture thread take effect out of order, so no
relation between two locations is inductive by itself. The proof follows the
memory as the capture thread sees it: `Execution` is the sequence of views that
the operations in flight lead through if they take effect in program order, from
what the memory holds to what the steps did. `WriterInv` says that such an
execution exists and that every operation in it is `Proper` (guarded locations
are touched by the holder of the mutex only, the gauge follows the format).
`Overtaking` shows that when an operation jumps the queue as `Eligible` allows,
there is an execution for the rest. `ReaderInv` and `ShownInv` say what a scrape
that holds a mutex has found, or will, in the view at its lock.

*The exporter.* `feed` parses the lines of buffer and chunk together; `Scan`, the
reference, takes the whole text symbol by symbol. `FeedScans` shows that both
give the same statistics and the same rest, `ScanGoesOn` that scanning on from
an unfinished line is scanning the line in front of the chunk, because it holds
no line end and so scans to itself. `Follows` is the invariant: the buffer is
under its cap and holds no line end whatever was received, and buffer and
statistics are what scanning all of the text leaves if its lines are short
(`ChunkingInvisible` alone does not say that the buffer holds no line end, and
without it the next chunk could be parsed differently). `RoomForChunk` shows
that nothing is then dropped: the buffer is what follows the last line end
(`FeedScans`), so a short line and a chunk fit together; `ShortSoFar` that a text
with short lines had short lines all along.

*The command line.* The parser reads words, the operator writes options.
`OptionReflected` follows the parser from one option to the next: between
options it waits for no value, and its map holds the last value of every flag
so far and no other flag. `StrayRefused` shows that a word behind the options
is never taken.

*The processes.* `LifecycleInv` has what each process has done to path and port
so far (`OwnInv`: whoever a path or port names bound it and has not closed it,
and a process past its start is named by its address),
that whoever shares a name with a process that is up has met it (`MeetInv`), and
what the path of an exporter that has met nobody names at each point
(`AloneInv`). The properties only speak of two or three points; the steps in
between need the rest.

*Recursion.* The library's induction theorems take the hypothesis as an operator,
which the provers cannot instantiate. `Iteration_proofs` replaces them:
`LeastNatural` (a set of naturals has a least element, from the library's
well-founded minimum), `IterationExists` and `SameAllAlong`. Parser, scan,
command line and queue are therefore written as recursive functions over `0..n`.

Assumptions. Named ones of the modules, evaluated by TLC in the runs: mostly
that constants are numbers, and sets of the right things; `PathAssumption` of
`Lifecycle` says that `Path` holds every path a command line can lead to, as a
file system does. The ceilings are a hypothesis of the theorems that need them,
because `hamstercamd` accepts settings that violate it.

Only model-checked: the liveness properties (`StopReleases`, `StallNoticed`,
`StreamLossNoticed`, `ProducerFoundEventually`, `SettlesQuietly`,
`SpinsOnlyOnFault`, `IngestKeepsUp`, `DisconnectSeen`, `ExporterStops`,
`KilledRecovers` and those of `metrics_liveness`): fairness and `ENABLED` are
outside what the proof system can do. The properties of the runs that find a
disagreement do not hold. Every invariant and the refinement that the passing
runs check is proved, with one exception: `LongLineForgotten`, which compares
two scans from different statistics, is only model-checked.

## Not modelled

- The text of metrics, log lines and HTTP headers: formatting with no state.
- The loads of `render_exporter_metrics`: seven independent values that nothing
  relates to each other.
- What number a flag's text stands for; `parse_u32` keeps the lower 32 bits of
  what `stoul` returns.
- Process information, wall-clock stamps, four-character codes.
- Failures of `socket()` and `listen()`, which end a start in the same way as
  those of `bind()`.
- Failures of `accept()`: both servers go round their loops and poll again, as
  after a timeout.
- A REQBUFS that grants more buffers than were asked for.
- A supervisor for what an early SIGTERM ended: `Restart=on-failure` takes it for
  a clean stop. The model starts it again as an operator would.

## Plan

1. Done: device, backoff, state machine and contract; the daemon's loop and log;
   statistics and scrape; the exporter's ingest and shutdown; command lines and
   process lifecycle.
2. Done: proofs of the invariants that a passing run checks, all but
   `LongLineForgotten`.
3. Next: a proof of that one; the steps of the liveness arguments that are safety
   (what a signal, a stop flag or a hang-up can no longer be followed by), as
   action properties; what `parse_u64` computes below its word; the order in
   which the daemon's log shows the events of the contract.
