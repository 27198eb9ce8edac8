---------------------------- MODULE CaptureStats ----------------------------
(***************************************************************************)
(* The statistics the capture thread and the HTTP thread share             *)
(* (src/include/hamstercam/stats.hpp, histogram.hpp), as the sequences of  *)
(* stores the steps of the state machine make and the loads render_metrics *)
(* makes (src/src/metrics.cpp), each in the order of the code.             *)
(*                                                                         *)
(* The histogram has one bound, so two buckets; an interval is within it   *)
(* (Short) or not (Long).  A format is named by the number of the stream   *)
(* it came with, a wall clock time by the number of the frame it stamps,   *)
(* and a payload is one unit.  The error counters, one per reason, are one *)
(* here: which reason a step counts is in CaptureStateMachine.             *)
(***************************************************************************)
EXTENDS RelaxedMemory

Counters == {"frames", "bytes", "errors", "reconnects", "stalls"}
Buckets == {"bucket", "overflow"}
Mutexes == {"histogram_mutex", "stream_info_mutex"}

Short == 1
Long == 2

ZeroStats == [l \in Counters \cup Buckets \cup {"sum", "total", "last_frame",
                                                 "info", "known", "gauge"} |->
                CASE l = "gauge" -> "DeviceAbsent"
                  [] l = "known" -> FALSE
                  [] OTHER       -> 0]

-----------------------------------------------------------------------------
(* What the capture thread stores. *)

record_error == <<FetchAdd("errors", 1)>>

StoreState(s) == <<Store("gauge", s)>>

observe(v) ==
    <<Lock("histogram_mutex"),
      FetchAdd(IF v <= Short THEN "bucket" ELSE "overflow", 1),
      FetchAdd("sum", v), FetchAdd("total", 1), Unlock("histogram_mutex")>>

set_stream_info(f) ==
    <<Lock("stream_info_mutex"), Store("info", f), Store("known", TRUE),
      Unlock("stream_info_mutex")>>

\* The gauge said to stream before the format is published.
StreamsBeforeInfo(f) ==
    StoreState("Configuring") \o StoreState("Streaming") \o set_stream_info(f)

\* enter_configuring for the stream f, and with a device that does not start.
Configured(f) ==
    StoreState("Configuring") \o set_stream_info(f) \o StoreState("Streaming")

ConfigureFailed ==
    StoreState("Configuring") \o record_error \o StoreState("AwaitingProducer")

\* The interval observed before the frame is counted.
ObservesFirst(n, interval) ==
    interval
      \o <<FetchAdd("frames", 1), FetchAdd("bytes", 1), Store("last_frame", n)>>

\* The n-th frame; interval is the observation of the interval since the frame
\* before it, or empty if that one was not of the same stream.
handle_frame(n, interval) ==
    <<FetchAdd("frames", 1), FetchAdd("bytes", 1), Store("last_frame", n)>>
      \o interval

\* Awaiting_producer entered without a store of the gauge.
RestsStalled ==
    <<FetchAdd("stalls", 1)>> \o record_error \o StoreState("Stalled")

begin_release_cycle ==
    <<FetchAdd("stalls", 1)>> \o record_error
      \o StoreState("Stalled") \o StoreState("AwaitingProducer")

lose_device == record_error \o StoreState("DeviceAbsent")

-----------------------------------------------------------------------------
(* What a scrape loads. *)

\* A snapshot that reads without the mutex, and one that keeps it.
SnapshotUnlocked == <<Load("bucket"), Load("overflow"), Load("sum"), Load("total")>>
SnapshotKeepsLock == <<Lock("histogram_mutex")>> \o SnapshotUnlocked

snapshot == <<Lock("histogram_mutex"), Load("bucket"), Load("overflow"),
              Load("sum"), Load("total"), Unlock("histogram_mutex")>>

GetStreamInfo == <<Lock("stream_info_mutex"), Load("known"), Load("info"),
                   Unlock("stream_info_mutex")>>

\* The counters loaded beside these, each once, are left out: no property
\* relates what a scrape shows of them to anything else it shows.
render_metrics ==
    <<Load("frames")>> \o snapshot \o <<Load("gauge")>> \o GetStreamInfo
=============================================================================
