-------------------------- MODULE ProgressExporter --------------------------
(***************************************************************************)
(* hamstercam-exporter: the progress socket thread                         *)
(* (src/src/progress_socket_server.cpp) and its parser, the HTTP thread,   *)
(* and the main thread of src/src/exporter_main.cpp that stops and joins   *)
(* them, with ffmpeg processes that connect one after the other.           *)
(*                                                                         *)
(*   at         the progress thread: "top" and "listening" are the outer   *)
(*              loop's test and poll, "serving" and "reading" the inner     *)
(*              loop's, "closing", "done"                                  *)
(*   prog_stop  stop_requested_ of the progress server                     *)
(*   connected  the gauge                                                  *)
(*   parser     the ProgressParser and the statistics                      *)
(*   main       the main thread; stop is its g_stop_requested              *)
(*   conns      connections not yet closed by the server, the first one    *)
(*              being served: data written and not yet received, what the  *)
(*              producer has still to write, and whether it has hung up     *)
(*   dialed     connections made so far                                    *)
(*   fed, own   history: all that was received, dropped or not, and what   *)
(*              was received from the present connection                   *)
(***************************************************************************)
EXTENDS ProgressParser, HttpServer

CONSTANTS
    Scripts,         \* what one ffmpeg may write, as sequences of symbols
    ChunkSize,       \* the size of the receive buffer, in symbols
    MaxConnections,  \* bound on the connections made
    CutMidLine       \* an ffmpeg may die in the middle of a line

\* What an ffmpeg writes.
Symbol == UNION {Range(s) : s \in Scripts}

ASSUME ExporterAssumption ==
    /\ Scripts \subseteq Seq(Symbol)
    /\ ChunkSize \in Nat \ {0} /\ MaxConnections \in Nat
    /\ CutMidLine \in BOOLEAN

VARIABLES at, prog_stop, connected, parser, main, stop, conns, dialed,
          fed, own

prog == <<at, prog_stop, connected, parser>>
world == <<conns, dialed>>
history == <<fed, own>>
exporter_vars == <<http_vars, prog, world, main, stop, history>>

ZeroStats == [k \in StatKey |-> 0]

ExporterInit ==
    /\ HttpInit
    /\ at = "top" /\ prog_stop = FALSE /\ connected = FALSE
    /\ parser = [buffer |-> <<>>, stats |-> ZeroStats]
    /\ conns = <<>> /\ dialed = 0
    /\ main = "running" /\ stop = FALSE
    /\ fed = <<>> /\ own = <<>>

-----------------------------------------------------------------------------
(* The progress thread: ProgressSocketServer::run. *)

ProgTop == /\ at = "top"
           /\ at' = IF prog_stop THEN "done" ELSE "listening"
           /\ UNCHANGED <<http_vars, prog_stop, connected, parser, world, main,
                          stop, history>>

\* poll on the listening socket: accept, or the timeout.
Accept == /\ at = "listening"
          /\ IF conns # <<>>
             THEN at' = "serving" /\ connected' = TRUE /\ own' = <<>>
             ELSE at' = "top" /\ UNCHANGED <<connected, own>>
          /\ UNCHANGED <<http_vars, prog_stop, parser, world, main, stop, fed>>

\* The inner loop without its test of stop_requested_.
ServesOn == "reading"

\* The test of the inner loop.
AfterLoopTest == IF prog_stop THEN "closing" ELSE "reading"

Serve == /\ at = "serving"
         /\ at' = AfterLoopTest
         /\ UNCHANGED <<http_vars, prog_stop, connected, parser, world, main,
                        stop, history>>

\* recv returning 0 taken for "no data yet".
RetriesEof == "serving"

\* Where recv's 0, an orderly close, leads.
AfterEof == "closing"

\* poll on the connection: a chunk is fed to the parser, a hang-up ends the
\* inner loop, a timeout goes round it.
Receive ==
    /\ at = "reading"
    /\ LET conn  == Head(conns)
           n     == IF Len(conn.data) < ChunkSize THEN Len(conn.data) ELSE ChunkSize
           chunk == SubSeq(conn.data, 1, n)
       IN  IF n > 0
           THEN /\ at' = "serving"
                /\ parser' = feed(parser, chunk)
                /\ conns' = [conns EXCEPT ![1].data = SubSeq(@, n + 1, Len(@))]
                /\ fed' = fed \o chunk /\ own' = own \o chunk
           ELSE /\ at' = IF conn.gone THEN AfterEof ELSE "serving"
                /\ UNCHANGED <<parser, conns, history>>
    /\ UNCHANGED <<http_vars, prog_stop, connected, dialed, main, stop>>

CloseConnection ==
    /\ at = "closing"
    /\ at' = "top" /\ connected' = FALSE /\ conns' = Tail(conns)
    /\ UNCHANGED <<http_vars, prog_stop, parser, dialed, main, stop, history>>

ProgRun == ProgTop \/ Accept \/ Serve \/ Receive \/ CloseConnection

-----------------------------------------------------------------------------
(* The main thread. *)

\* handle_signal, for the first signal.  It runs on any of the threads, and
\* fails the poll or the recv that thread is in: the progress thread goes
\* round its outer loop or leaves its inner one, the HTTP thread goes round
\* its loop or gives up on its client.
Signal ==
    /\ ~stop /\ stop' = TRUE
    /\ \/ UNCHANGED <<http_vars, at>>
       \/ at = "listening" /\ at' = "top" /\ UNCHANGED http_vars
       \/ at = "reading" /\ at' = "closing" /\ UNCHANGED http_vars
       \/ /\ http_at \in {"polling", "reading"}
          /\ http_at' = "top" /\ peer' = "none"
          /\ UNCHANGED <<http_stop, backlog, at>>
    /\ UNCHANGED <<prog_stop, connected, parser, world, main, history>>

\* The sleep loop sees the flag; progress_server.stop().
StopProgress == /\ main = "running" /\ stop
                /\ main' = "stopping" /\ prog_stop' = TRUE
                /\ UNCHANGED <<http_vars, at, connected, parser, world, stop, history>>

StopHttp == /\ main = "stopping"
            /\ main' = "joining_progress" /\ HttpServerStop
            /\ UNCHANGED <<prog, world, stop, history>>

JoinProgress == /\ main = "joining_progress" /\ at = "done"
                /\ main' = "joining_http"
                /\ UNCHANGED <<http_vars, prog, world, stop, history>>

JoinHttp == /\ main = "joining_http" /\ http_at = "done"
            /\ main' = "exited"
            /\ UNCHANGED <<http_vars, prog, world, stop, history>>

MainRun == StopProgress \/ StopHttp \/ JoinProgress \/ JoinHttp

-----------------------------------------------------------------------------
(* The producers. *)

\* A new ffmpeg dials in once the old one has hung up.
ProducerDials ==
    /\ dialed < MaxConnections /\ main # "exited"
    /\ \A i \in DOMAIN conns : conns[i].gone
    /\ \E s \in Scripts :
         conns' = Append(conns, [data |-> <<>>, unsent |-> s, gone |-> FALSE])
    /\ dialed' = dialed + 1
    /\ UNCHANGED <<http_vars, prog, main, stop, history>>

\* It writes some of what it has to write ...
ProducerWrites(i) ==
    /\ ~conns[i].gone
    /\ \E n \in 1..Len(conns[i].unsent) :
         conns' = [conns EXCEPT ![i].data = @ \o SubSeq(conns[i].unsent, 1, n),
                                ![i].unsent = SubSeq(@, n + 1, Len(@))]
    /\ UNCHANGED <<http_vars, prog, dialed, main, stop, history>>

\* ... and hangs up, at the end of its text or, if it dies, anywhere.
ProducerHangsUp(i) ==
    /\ ~conns[i].gone
    /\ conns[i].unsent = <<>> \/ CutMidLine
    /\ conns' = [conns EXCEPT ![i].gone = TRUE, ![i].unsent = <<>>]
    /\ UNCHANGED <<http_vars, prog, dialed, main, stop, history>>

HttpSteps == /\ HttpRun \/ ClientConnects \/ ClientActs
             /\ UNCHANGED <<prog, world, main, stop, history>>

ExporterNext ==
    \/ ProgRun \/ MainRun \/ Signal \/ HttpSteps \/ ProducerDials
    \/ \E i \in DOMAIN conns : ProducerWrites(i) \/ ProducerHangsUp(i)

\* The three threads are scheduled; nothing is assumed of the scrapers, the
\* producers or the operator.
ExporterFairness ==
    /\ WF_exporter_vars(ProgRun)
    /\ WF_exporter_vars(MainRun)
    /\ WF_exporter_vars(HttpRun /\ UNCHANGED <<prog, world, main, stop, history>>)

ExporterSpec == ExporterInit /\ [][ExporterNext]_exporter_vars /\ ExporterFairness

-----------------------------------------------------------------------------
(* Properties *)

\* Every variable keeps its type: in particular the parser never keeps more
\* than the cap of an unfinished line, and no finished one.
ExporterTypeOK ==
    /\ at \in {"top", "listening", "serving", "reading", "closing", "done"}
    /\ main \in {"running", "stopping", "joining_progress", "joining_http", "exited"}
    /\ http_at \in {"top", "polling", "reading", "writing", "done"}
    /\ peer \in {"none", "silent", "asked", "garbage", "gone"}
    /\ backlog \in 0..MaxBacklog
    /\ dialed \in 0..MaxConnections /\ Len(conns) <= MaxConnections
    /\ http_stop \in BOOLEAN /\ prog_stop \in BOOLEAN /\ stop \in BOOLEAN
    /\ connected \in BOOLEAN
    /\ Len(parser.buffer) <= MaxBufferedLine
    /\ \A i \in DOMAIN parser.buffer : parser.buffer[i] # "LF"
    /\ \A k \in CounterKey : parser.stats[k] \in 0..(Word - 1)

\* A text parsed one symbol at a time: the reference for feed.
Scan(stats, text) ==
    LET after[i \in 0..Len(text)] ==
          IF i = 0 THEN [line |-> <<>>, stats |-> stats]
          ELSE IF text[i] = "LF"
          THEN [line |-> <<>>, stats |-> parse_line(after[i - 1].stats, after[i - 1].line)]
          ELSE [after[i - 1] EXCEPT !.line = Append(@, text[i])]
    IN  after[Len(text)]

\* The line that position n of the text belongs to is, as far as n, short
\* enough to be kept whatever chunk arrives next.
Short(text, n) == n - LineStart(text, n) + ChunkSize <= MaxBufferedLine

ShortLines(text) == \A n \in 1..(Len(text) + 1) : Short(text, n)

\* How recv cuts the text is invisible as long as no line comes within a
\* chunk of the cap: statistics and unfinished line are those of the whole
\* text received so far, over all connections.
ChunkingInvisible ==
    LET whole == Scan(ZeroStats, fed)
    IN  ShortLines(fed) => /\ parser.buffer = whole.line
                           /\ \A k \in StatKey : parser.stats[k] = whole.stats[k]

\* Line ends a chunk or more behind the last line that was too long.
Resynced(text) ==
    {q \in DOMAIN text :
       /\ text[q] = "LF"
       /\ \A n \in 1..(Len(text) + 1) : n > q - ChunkSize => Short(text, n)}

\* A line that is too long costs no more than what arrived in one chunk with
\* its end: whatever feed dropped with it, the lines from the next line end
\* on are parsed, and count, as if they were all there had been.
LongLineForgotten ==
    \A q \in Resynced(fed) :
      LET tail == SubSeq(fed, q + 1, Len(fed))
          low  == Scan([k \in StatKey |-> 0], tail)
          high == Scan([k \in StatKey |-> Word], tail)
      IN  /\ parser.buffer = low.line
          /\ \A k \in StatKey :
               low.stats[k] = high.stats[k] => parser.stats[k] = low.stats[k]

\* What the connected producer has reported in finished, well-formed lines is
\* what the metrics show until shutdown, whatever else reached the parser
\* before it.
ReportedApplied ==
    LET low  == Scan([k \in StatKey |-> 0], own).stats
        high == Scan([k \in StatKey |-> Word], own).stats
    IN  ~stop => \A k \in StatKey :
                   low[k] = high[k] => parser.stats[k] = low[k]

\* A producer's writes are taken in however slow a scraper is: nothing the
\* HTTP thread waits for holds up the progress socket.
IngestKeepsUp ==
    \A i \in 1..MaxConnections :
      (i \in DOMAIN conns /\ conns[i].data # <<>>)
        ~> ((i \notin DOMAIN conns) \/ conns[i].data = <<>> \/ stop)

\* A producer that has hung up does not keep the connected gauge at 1: it goes
\* down before the next producer is served.
DisconnectSeen ==
    (connected /\ conns # <<>> /\ Head(conns).gone) ~> (~connected)

Exits == stop ~> (main = "exited")

\* A signal ends the process and both of its threads, whatever the producer
\* does, provided every scraper finishes its request or hangs up.
ExporterStops == []<>(peer # "silent") => Exits

\* run() of the HTTP server returns once stop() has been called, whatever the
\* client at hand does.
HttpStops == http_stop ~> (http_at = "done")
=============================================================================
