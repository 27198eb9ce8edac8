----------------------------- MODULE HttpServer -----------------------------
(***************************************************************************)
(* The single-threaded accept loop that serves metrics                     *)
(* (src/src/http_server.cpp), and the clients that connect to it.          *)
(*                                                                         *)
(*   http_at    "top" (testing stop_requested_), "polling", "reading" (in   *)
(*              recv), "writing" or "done" (run() has returned)            *)
(*   http_stop  stop_requested_                                            *)
(*   backlog    connections accepted by the kernel and not yet by run()    *)
(*   peer       what the client being served has done: nothing that ends a *)
(*              request line ("silent"), sent one ("asked"), sent one that  *)
(*              is no request ("garbage") or hung up ("gone")              *)
(*                                                                         *)
(* A response is a few kilobytes and fits the socket's send buffer, so     *)
(* writing it does not wait for the client.                                *)
(***************************************************************************)
EXTENDS Naturals

CONSTANT MaxBacklog  \* bound on the connections waiting or served at any time

ASSUME BacklogAssumption == MaxBacklog \in Nat

VARIABLES http_at, http_stop, backlog, peer

http_vars == <<http_at, http_stop, backlog, peer>>

HttpInit == http_at = "top" /\ http_stop = FALSE /\ backlog = 0 /\ peer = "none"

\* The loop test of run().
HttpTop == /\ http_at = "top"
           /\ http_at' = IF http_stop THEN "done" ELSE "polling"
           /\ UNCHANGED <<http_stop, backlog, peer>>

\* poll and accept, or the timeout of poll.
HttpPoll == /\ http_at = "polling"
            /\ IF backlog > 0
               THEN http_at' = "reading" /\ backlog' = backlog - 1 /\ peer' = "silent"
               ELSE http_at' = "top" /\ UNCHANGED <<backlog, peer>>
            /\ UNCHANGED http_stop

\* read_request_line: recv has no timeout, so a silent client holds it.
HttpRead == /\ http_at = "reading" /\ peer # "silent"
            /\ IF peer = "asked" THEN http_at' = "writing" /\ UNCHANGED peer
                                 ELSE http_at' = "top" /\ peer' = "none"
            /\ UNCHANGED <<http_stop, backlog>>

\* write_response and close.
HttpWrite == /\ http_at = "writing"
             /\ http_at' = "top" /\ peer' = "none"
             /\ UNCHANGED <<http_stop, backlog>>

HttpRun == HttpTop \/ HttpPoll \/ HttpRead \/ HttpWrite

\* The clients.
ClientConnects == /\ http_at # "done"
                  /\ backlog + (IF peer = "none" THEN 0 ELSE 1) < MaxBacklog
                  /\ backlog' = backlog + 1
                  /\ UNCHANGED <<http_at, http_stop, peer>>

ClientActs == /\ peer = "silent"
              /\ peer' \in {"asked", "garbage", "gone"}
              /\ UNCHANGED <<http_at, http_stop, backlog>>

\* A stop() that leaves the flag alone.
StopForgotten == UNCHANGED http_vars

\* HttpServer::stop, called by main.
HttpServerStop == http_stop' = TRUE /\ UNCHANGED <<http_at, backlog, peer>>
=============================================================================
