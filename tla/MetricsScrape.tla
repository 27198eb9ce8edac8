--------------------------- MODULE MetricsScrape ---------------------------
(***************************************************************************)
(* hamstercamd's two threads on the shared statistics: the capture thread, *)
(* whose steps make their stores one by one, the HTTP thread, which loads  *)
(* them one by one for a scrape, and main's shutdown, which the capture    *)
(* thread runs (src/src/main.cpp).  The capture thread moves between the   *)
(* phases of CaptureContract.                                              *)
(*                                                                         *)
(*   phase           Absent, Waiting, Live or Released                     *)
(*   mem, held       the statistics, and who holds each mutex              *)
(*   writer, reader  operations the capture thread, and the scrape being   *)
(*                   served, have issued and that have not taken effect    *)
(*   shown           what the scrape being served has loaded so far        *)
(*   delivered       the present stream has delivered a frame              *)
(*   main, stop      "running", "joining" or "exited"; g_stop_requested    *)
(*                                                                         *)
(* History: tally, what the steps did; published, the stream the gauge     *)
(* last said to stream, and claimed, the one it named to this scrape;      *)
(* before, the intervals the last scrape counted.                          *)
(***************************************************************************)
EXTENDS CaptureStats, HttpServer

CONSTANTS
    MaxStreams, MaxFrames, MaxFailures,  \* bounds on what the steps do
    MaxInFlight  \* bound: stores still in flight when the next step starts

ASSUME ScrapeAssumption ==
    {MaxStreams, MaxFrames, MaxFailures, MaxInFlight} \subseteq Nat

VARIABLES phase, mem, held, writer, reader, shown, delivered, main, stop,
          tally, published, claimed, before

scrape == <<reader, shown, claimed, before>>
capture == <<phase, writer, delivered, tally>>
scrape_vars == <<http_vars, phase, mem, held, writer, delivered, scrape,
                 main, stop, tally, published>>

ScrapeInit ==
    /\ HttpInit /\ phase = "Absent"
    /\ mem = ZeroStats /\ held = [m \in Mutexes |-> "none"]
    /\ writer = <<>> /\ reader = <<>> /\ shown = <<>> /\ delivered = FALSE
    /\ main = "running" /\ stop = FALSE
    /\ tally = [frames |-> 0, streams |-> 0, delivering |-> 0, stalls |-> 0,
                reconnects |-> 0, failures |-> 0, errors |-> 0]
    /\ published = 0 /\ claimed = 0 /\ before = 0

-----------------------------------------------------------------------------
(* The steps of the capture thread. *)

\* The loop of main calls step(), which makes these stores, leaves the
\* machine in phase p and did these things.
Step(stores, p, did) ==
    /\ main = "running" /\ ~stop
    /\ Len(writer) <= MaxInFlight
    /\ ~\E i \in DOMAIN writer : IsMutexOp(writer[i])
    /\ writer' = writer \o stores
    /\ phase' = p
    /\ delivered' = (p = "Live" /\ (delivered \/ "frames" \in DOMAIN did))
    /\ tally' = [k \in DOMAIN tally |->
                   IF k \in DOMAIN did THEN tally[k] + did[k] ELSE tally[k]]
    /\ UNCHANGED <<http_vars, mem, held, reader, shown, claimed, before, main,
                   stop, published>>

\* step_device_absent finds the device.
DeviceFound == /\ phase = "Absent"
               /\ Step(StoreState("AwaitingProducer"), "Waiting", <<>>)

\* A start from awaiting_producer, a reconnection if there was a stream
\* before, or out of recovery, which is none.
StreamStarts ==
    /\ phase \in {"Waiting", "Released"} /\ tally.streams < MaxStreams
    /\ LET again == IF phase = "Waiting" /\ tally.streams > 0 THEN 1 ELSE 0
       IN  Step(Configured(tally.streams + 1)
                  \o [i \in 1..again |-> FetchAdd("reconnects", 1)],
                "Live", [streams |-> 1, reconnects |-> again])

\* An open, a query or a dequeue fails, or a start for want of buffers.
AttemptFails ==
    /\ tally.failures < MaxFailures
    /\ \/ Step(record_error, phase, [failures |-> 1, errors |-> 1])
       \/ /\ phase \in {"Waiting", "Released"}
          /\ Step(ConfigureFailed, phase, [failures |-> 1, errors |-> 1])

\* A frame, possibly with an excursion of the arrival rate, possibly of the
\* wrong size.
FrameArrives ==
    /\ phase = "Live" /\ tally.frames < MaxFrames
    /\ \E v \in {Short, Long}, excursion \in 0..1, mismatch \in 0..1 :
         LET stores == handle_frame(tally.frames + 1,
                                    IF delivered THEN observe(v) ELSE <<>>)
                         \o (IF excursion = 1 THEN record_error ELSE <<>>)
                         \o (IF mismatch = 1 THEN begin_release_cycle ELSE <<>>)
         IN  /\ tally.failures + excursion <= MaxFailures
             /\ Step(stores, IF mismatch = 1 THEN "Released" ELSE "Live",
                     [frames |-> 1, delivering |-> IF delivered THEN 0 ELSE 1,
                      failures |-> excursion, stalls |-> mismatch,
                      errors |-> excursion + mismatch])

StreamStalls == /\ phase = "Live" /\ delivered
                /\ Step(begin_release_cycle, "Released", [stalls |-> 1, errors |-> 1])

\* A dequeue, or the open of a probe, finds the device gone.
DeviceLost == /\ phase \in {"Live", "Released"}
              /\ Step(lose_device, "Absent", [errors |-> 1])

CaptureSteps == DeviceFound \/ StreamStarts \/ AttemptFails \/ FrameArrives
                  \/ StreamStalls \/ DeviceLost

\* One store, lock or unlock of the capture thread takes effect.
StoreLands ==
    \E i \in DOMAIN writer :
       LET op == writer[i]
       IN  /\ Eligible(writer, i) /\ CanAcquire(held, op)
           /\ writer' = RemoveAt(writer, i)
           /\ mem' = Applied(mem, op)
           /\ held' = Holding(held, "capture", op)
           /\ published' = IF op = Store("gauge", "Streaming") THEN published + 1
                           ELSE published
           /\ UNCHANGED <<http_vars, phase, delivered, scrape, main, stop, tally>>

-----------------------------------------------------------------------------
(* The HTTP thread. *)

\* A request has been read: the handler renders metrics, or answers anything
\* else without touching the statistics.
Handle ==
    /\ HttpRead
    /\ reader' \in IF http_at' = "writing" THEN {render_metrics, <<>>} ELSE {<<>>}
    /\ UNCHANGED <<capture, mem, held, shown, claimed, before, main, stop, published>>

\* One load, lock or unlock of the scrape takes effect.
LoadLands ==
    \E i \in DOMAIN reader :
       LET op == reader[i]
       IN  /\ Eligible(reader, i) /\ CanAcquire(held, op)
           /\ reader' = RemoveAt(reader, i)
           /\ held' = Holding(held, "http", op)
           /\ shown' = IF op.do = "load"
                       THEN [l \in DOMAIN shown \cup {op.loc} |->
                               IF l = op.loc THEN mem[l] ELSE shown[l]]
                       ELSE shown
           /\ claimed' = IF op = Load("gauge") /\ mem["gauge"] = "Streaming"
                         THEN published ELSE claimed
           /\ UNCHANGED <<http_vars, capture, mem, before, main, stop, published>>

Scraped == http_at = "writing" /\ reader = <<>> /\ shown # <<>>

\* The response goes out once it has been rendered.
Respond ==
    /\ HttpWrite /\ reader = <<>>
    /\ before' = IF Scraped THEN shown["total"] ELSE before
    /\ shown' = <<>> /\ claimed' = 0
    /\ UNCHANGED <<capture, mem, held, reader, main, stop, published>>

HttpThread == \/ (HttpTop \/ HttpPoll)
                   /\ UNCHANGED <<capture, mem, held, scrape, main, stop, published>>
              \/ Handle \/ LoadLands \/ Respond

Clients == (ClientConnects \/ ClientActs)
             /\ UNCHANGED <<capture, mem, held, scrape, main, stop, published>>

-----------------------------------------------------------------------------
(* Shutdown. *)

\* handle_signal; on the HTTP thread it fails the poll or recv at hand.
Signal ==
    /\ ~stop /\ stop' = TRUE
    /\ \/ UNCHANGED http_vars
       \/ /\ http_at \in {"polling", "reading"}
          /\ http_at' = "top" /\ peer' = "none"
          /\ UNCHANGED <<http_stop, backlog>>
    /\ UNCHANGED <<capture, mem, held, scrape, main, published>>

\* The loop ends, the device is let go of, server.stop().
StopServer ==
    /\ main = "running" /\ stop /\ writer = <<>>
    /\ main' = "joining" /\ HttpServerStop
    /\ UNCHANGED <<capture, mem, held, scrape, stop, published>>

\* http_thread.join() and the end of main.
Join == /\ main = "joining" /\ http_at = "done" /\ main' = "exited"
        /\ UNCHANGED <<http_vars, capture, mem, held, scrape, stop, published>>

ScrapeNext == CaptureSteps \/ StoreLands \/ HttpThread \/ Clients \/ Signal
                \/ StopServer \/ Join

\* Both threads are scheduled, stores become visible, and a thread waiting
\* for a mutex that is free again and again gets it.  Nothing is assumed of
\* the device, the scrapers or the operator.
ScrapeFairness ==
    /\ SF_scrape_vars(StoreLands) /\ SF_scrape_vars(HttpThread)
    /\ WF_scrape_vars(StopServer \/ Join)

ScrapeSpec == ScrapeInit /\ [][ScrapeNext]_scrape_vars /\ ScrapeFairness

-----------------------------------------------------------------------------
(* Properties *)

\* The threads' variables keep their types, and a mutex is only held by a
\* thread that still has its unlock to make.
ScrapeTypeOK ==
    /\ main \in {"running", "joining", "exited"} /\ stop \in BOOLEAN
    /\ DOMAIN mem = DOMAIN ZeroStats /\ DOMAIN shown \subseteq DOMAIN mem
    /\ mem["gauge"] \in {"DeviceAbsent", "AwaitingProducer", "Configuring",
                         "Streaming", "Stalled"}
    /\ \A m \in Mutexes :
         \/ held[m] = "none"
         \/ held[m] = "capture" /\ Contains(writer, Unlock(m))
         \/ held[m] = "http" /\ Contains(reader, Unlock(m))

\* A scrape that says Streaming also shows a format, and never one older than
\* the stream it says: the mutex around stream_info orders the gauge, which
\* is relaxed, behind it.
StreamingHasFormat ==
    Scraped /\ claimed > 0 => shown["known"] /\ shown["info"] >= claimed

\* The histogram of a scrape is whole: its +Inf bucket equals its count, and
\* its sum is that of the observations in its buckets.
HistogramWhole ==
    Scraped => /\ shown["bucket"] + shown["overflow"] = shown["total"]
               /\ shown["sum"] = Short * shown["bucket"] + Long * shown["overflow"]

\* A later scrape counts more frames than an earlier one counted intervals,
\* although frames are loaded outside the histogram's mutex.
FramesCoverIntervals == Scraped /\ before > 0 => shown["frames"] > before

\* What the gauge says in each phase.
GaugeOf == [Absent |-> "DeviceAbsent", Waiting |-> "AwaitingProducer",
            Live |-> "Streaming", Released |-> "AwaitingProducer"]

\* With no store in flight the statistics, and so a scrape, say exactly what
\* happened: the gauge of the phase, every frame, stall, reconnection and
\* error, the format of the last stream, and one interval for every frame but
\* the first of its stream.
StatsExact ==
    writer = <<>> =>
      /\ mem["gauge"] = GaugeOf[phase]
      /\ mem["frames"] = tally.frames /\ mem["bytes"] = tally.frames
      /\ mem["last_frame"] = tally.frames
      /\ mem["total"] = tally.frames - tally.delivering
      /\ mem["stalls"] = tally.stalls /\ mem["reconnects"] = tally.reconnects
      /\ mem["errors"] = tally.errors
      /\ mem["info"] = tally.streams /\ mem["known"] = (tally.streams > 0)

\* Configuring and Stalled are never rested in.
TransientsPass ==
    (mem["gauge"] \in {"Configuring", "Stalled"})
      ~> (mem["gauge"] \notin {"Configuring", "Stalled"})

\* No scrape, and no client that goes silent in the middle of one, holds up
\* the capture thread: every step it has begun is finished.
StepFinishes == (writer # <<>>) ~> (writer = <<>>)

\* A signal ends both threads, provided every client finishes its request or
\* hangs up.
DaemonStops == []<>(peer # "silent") => (stop ~> (main = "exited"))
=============================================================================
