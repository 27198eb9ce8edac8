----------------------------- MODULE Lifecycle -----------------------------
(***************************************************************************)
(* Processes of both programs from their command line to their exit: the   *)
(* startup of src/src/main.cpp and src/src/exporter_main.cpp, the start()  *)
(* and the destructor of ProgressSocketServer and of HttpServer, crashes   *)
(* at any point, and a supervisor that restarts what failed.  What the     *)
(* threads do in between is in ProgressExporter and MetricsScrape.         *)
(*                                                                         *)
(*   pc      "down"; starting up: "unlink", "bind", "http", "ready" (its   *)
(*           signal handlers are not installed yet); "running"; going      *)
(*           down: "stopping", "closing", "unlinking"                      *)
(*   path, addr   the socket path and the metrics address it resolved      *)
(*   code    how the process last ended: "ok", "refused", "failed" or      *)
(*           "killed"; "none" before that                                  *)
(*   fs      whose socket a path names: a process, "stale" if nobody       *)
(*           listens on it any more, or "none"                             *)
(*   port    the process listening on an address                           *)
(*   linger  addresses with closed connections in TIME_WAIT                *)
(*   launches, kills   counters, for the bounds                            *)
(* History: asked, the path the operator asked for; met, the processes     *)
(* that have been up with the same path or address since the launch.       *)
(***************************************************************************)
EXTENDS Naturals, CommandLine

CONSTANTS
    Proc, Program,           \* the processes, and the program each runs
    CommandLines,            \* sequences of options [flag, value, joined]
    Strays,                  \* words that may follow the options
    Environments,
    Path,
    LongPath, BadPath,       \* over the kernel's cap; nothing may be bound there
    Address,
    MaxLaunches, MaxKills    \* bounds

\* The texts operators write, and the one Text stands for.
Written ==
    {"", "flag=value"} \cup Strays
      \cup UNION {{o[i].flag : i \in DOMAIN o} \cup {o[i].value : i \in DOMAIN o} :
                   o \in CommandLines}

ASSUME LifecycleAssumption ==
    /\ Program \in [Proc -> {"hamstercamd", "exporter"}]
    /\ LongPath \cup BadPath \subseteq Path /\ Path \cap Address = {}
    /\ MaxLaunches \in Nat /\ MaxKills \in Nat
    /\ Proc \cap {"none", "stale"} = {}
    /\ CommandLines \subseteq Seq([flag : Written, value : Written, joined : BOOLEAN])

VARIABLES pc, path, addr, code, fs, port, linger, launches, kills, asked, met

settings == <<path, addr, asked>>
kernel == <<fs, port, linger>>
lifecycle_vars == <<pc, settings, code, kernel, launches, kills, met>>

LifecycleInit ==
    /\ pc = [p \in Proc |-> "down"] /\ code = [p \in Proc |-> "none"]
    /\ path = [p \in Proc |-> ""] /\ addr = [p \in Proc |-> ""]
    /\ asked = [p \in Proc |-> ""] /\ met = [p \in Proc |-> {}]
    /\ fs = [f \in Path |-> "none"] /\ port = [a \in Address |-> "none"]
    /\ linger = {} /\ launches = 0 /\ kills = 0

IsExporter(p) == Program[p] = "exporter"

Goto(p, at) == pc' = [pc EXCEPT ![p] = at]

\* p goes down; its exit code is known by then.
Ends(p, c) == Goto(p, "down") /\ code' = [code EXCEPT ![p] = c]

-----------------------------------------------------------------------------
(* Launch. *)

\* A word without "=".
Word(name) == [name |-> name, value |-> "", joined |-> FALSE]

\* argv for a list of options and a stray word or none.
Words(options, stray) ==
    LET argv[i \in 0..Len(options)] ==
          IF i = 0 THEN <<>>
          ELSE argv[i - 1] \o
            IF options[i].joined
            THEN <<[name |-> options[i].flag, value |-> options[i].value, joined |-> TRUE]>>
            ELSE <<Word(options[i].flag), Word(options[i].value)>>
    IN  argv[Len(options)] \o IF stray = "" THEN <<>> ELSE <<Word(stray)>>

\* What an operator who writes these options means: the last value given for
\* the flag, else the environment's, else the default.
Meant(program, options, env, flag) ==
    LET given == {i \in DOMAIN options : options[i].flag = flag}
    IN  IF given # {} THEN options[CHOOSE i \in given : \A j \in given : j <= i].value
        ELSE IF flag \in DOMAIN env THEN env[flag] ELSE DefaultOf(program, flag)

\* The value main resolves a flag to.
Resolved(p, options, stray, env, flag) ==
    resolve(Program[p], parse_flags(Program[p], Words(options, stray)).out, env, flag)

\* Path holds every path that an accepted command line can lead to.
ASSUME PathAssumption ==
    \A p \in Proc, options \in CommandLines, stray \in Strays, env \in Environments :
      IsExporter(p) /\ Accepted(Program[p], Words(options, stray), env)
        => Resolved(p, options, stray, env, "--progress-socket") \in Path

\* p comes up with these settings.
ComesUp(p) ==
    LET Claims(q) == {addr'[q]} \cup (IF IsExporter(q) THEN {path'[q]} ELSE {})
        shares == {q \in Proc \ {p} : Claims(q) \cap Claims(p) # {}}
    IN  /\ Goto(p, IF IsExporter(p) THEN "unlink" ELSE "http")
        /\ code' = [code EXCEPT ![p] = "none"]
        /\ met' = [q \in Proc |->
                     CASE q = p          -> {r \in shares : pc[r] # "down"}
                       [] q \in shares   -> met[q] \cup {p}
                       [] OTHER          -> met[q]]

\* An operator starts p.  A line that is not accepted ends it at once.
Launch(p) ==
    /\ pc[p] = "down" /\ code[p] # "killed" /\ launches < MaxLaunches
    /\ launches' = launches + 1
    /\ \E options \in CommandLines, stray \in Strays, env \in Environments :
         LET argv == Words(options, stray)
         IN  IF Accepted(Program[p], argv, env)
             THEN /\ path' = [path EXCEPT ![p] = IF IsExporter(p)
                       THEN Resolved(p, options, stray, env, "--progress-socket") ELSE ""]
                  /\ addr' = [addr EXCEPT ![p] =
                       Resolved(p, options, stray, env, "--metrics-addr")]
                  /\ asked' = [asked EXCEPT ![p] = IF IsExporter(p)
                       THEN Meant(Program[p], options, env, "--progress-socket") ELSE ""]
                  /\ ComesUp(p)
             ELSE /\ Ends(p, IF AsksHelp(Program[p], argv) THEN "ok" ELSE "refused")
                  /\ UNCHANGED <<settings, met>>
    /\ UNCHANGED <<kernel, kills>>

\* The supervisor restarts what was killed or failed, as it was started.  (A
\* refused start returns 1 too, and would only be refused again.  One that an
\* early SIGTERM ended is started again by hand.)
Relaunch(p) ==
    /\ pc[p] = "down" /\ code[p] \in {"killed", "failed"}
    /\ UNCHANGED <<settings, kernel, launches, kills>>
    /\ ComesUp(p)

-----------------------------------------------------------------------------
(* ProgressSocketServer::start. *)

\* A start() that leaves what is at the path alone.
KeepsStale(p) == fs

\* The unlink before bind().
Cleared(p) == [fs EXCEPT ![path[p]] = "none"]

\* A path over the cap fails before anything is touched; main then returns
\* 1, and the destructor runs.
Unlink(p) ==
    /\ pc[p] = "unlink"
    /\ IF path[p] \in LongPath
       THEN Goto(p, "unlinking") /\ code' = [code EXCEPT ![p] = "failed"] /\ UNCHANGED fs
       ELSE Goto(p, "bind") /\ fs' = Cleared(p) /\ UNCHANGED code
    /\ UNCHANGED <<settings, port, linger, launches, kills, met>>

\* bind() and listen(): bind() refuses a path that exists, and one in a
\* directory that is missing or may not be written to.
Bind(p) ==
    /\ pc[p] = "bind"
    /\ IF fs[path[p]] = "none" /\ path[p] \notin BadPath
       THEN Goto(p, "http") /\ fs' = [fs EXCEPT ![path[p]] = p] /\ UNCHANGED code
       ELSE Goto(p, "unlinking") /\ code' = [code EXCEPT ![p] = "failed"] /\ UNCHANGED fs
    /\ UNCHANGED <<settings, port, linger, launches, kills, met>>

-----------------------------------------------------------------------------
(* HttpServer::start. *)

\* Without SO_REUSEADDR.
BindsFresh(a) == a \in Address /\ port[a] = "none" /\ a \notin linger

\* A start() that is content with an address it could not resolve.
BindsNothing(a) == a \in Address => port[a] = "none"

\* The address parses and resolves; with SO_REUSEADDR only another listener is
\* then in the way.
CanBind(a) == a \in Address /\ port[a] = "none"

\* An address that does not parse or resolve, or is taken, ends the process:
\* the exporter's progress server is destroyed on the way out.
StartHttp(p) ==
    /\ pc[p] = "http"
    /\ IF CanBind(addr[p])
       THEN port' = [port EXCEPT ![addr[p]] = p] /\ Goto(p, "ready") /\ UNCHANGED code
       ELSE /\ Goto(p, IF IsExporter(p) THEN "closing" ELSE "down")
            /\ code' = [code EXCEPT ![p] = "failed"] /\ UNCHANGED port
    /\ UNCHANGED <<settings, fs, linger, launches, kills, met>>

\* install_signal_handlers and the threads.
Run(p) == /\ pc[p] = "ready" /\ Goto(p, "running")
          /\ UNCHANGED <<settings, code, kernel, launches, kills, met>>

-----------------------------------------------------------------------------
(* The end. *)

\* A signal once there is a handler.
Stop(p) == /\ pc[p] = "running" /\ Goto(p, "stopping")
           /\ code' = [code EXCEPT ![p] = "ok"]
           /\ UNCHANGED <<settings, kernel, launches, kills, met>>

\* What the kernel makes of p's descriptors once they are closed: the address
\* is free again ...
NoListener(p) == [a \in Address |-> IF port[a] = p THEN "none" ELSE port[a]]

\* ... and nobody listens any more on the socket that p bound.
Orphaned(p) == [f \in Path |-> IF fs[f] = p THEN "stale" ELSE fs[f]]

\* The threads are joined; ~HttpServer closes its descriptor.
CloseHttp(p) ==
    /\ pc[p] = "stopping"
    /\ port' = NoListener(p)
    /\ Goto(p, IF IsExporter(p) THEN "closing" ELSE "down")
    /\ UNCHANGED <<settings, code, fs, linger, launches, kills, met>>

\* ~ProgressSocketServer: the descriptor is closed ...
CloseSocket(p) == /\ pc[p] = "closing" /\ Goto(p, "unlinking")
                  /\ fs' = Orphaned(p)
                  /\ UNCHANGED <<settings, code, port, linger, launches, kills, met>>

\* A destructor that leaves the path.
LeavesPath(p) == fs

\* ... and the path unlinked, whatever it names by now.
Unlinked(p) == [fs EXCEPT ![path[p]] = "none"]

UnlinkPath(p) == /\ pc[p] = "unlinking" /\ Goto(p, "down")
                 /\ fs' = Unlinked(p)
                 /\ UNCHANGED <<settings, code, port, linger, launches, kills, met>>

\* A crash, or a signal before the handlers are installed: the kernel closes
\* the descriptors and no destructor runs.
Kill(p) ==
    /\ pc[p] # "down" /\ kills < MaxKills /\ kills' = kills + 1
    /\ Ends(p, "killed")
    /\ fs' = Orphaned(p) /\ port' = NoListener(p)
    /\ UNCHANGED <<settings, linger, launches, met>>

\* A scrape is answered; the server closes first, so its end lingers.
Scrape(p) == /\ pc[p] = "running" /\ addr[p] \notin linger
             /\ linger' = linger \cup {addr[p]}
             /\ UNCHANGED <<pc, settings, code, fs, port, launches, kills, met>>

LingerEnds == /\ linger # {} /\ linger' = {}
              /\ UNCHANGED <<pc, settings, code, fs, port, launches, kills, met>>

Proceeds(p) == \/ Unlink(p) \/ Bind(p) \/ StartHttp(p) \/ Run(p)
               \/ CloseHttp(p) \/ CloseSocket(p) \/ UnlinkPath(p)

LifecycleNext ==
    \/ \E p \in Proc : \/ Launch(p) \/ Relaunch(p) \/ Proceeds(p)
                       \/ Stop(p) \/ Kill(p) \/ Scrape(p)
    \/ LingerEnds

\* A process that is up goes on, and the supervisor does its work; nothing
\* is assumed of operators, scrapers or the time connections linger.
LifecycleFairness ==
    \A p \in Proc : WF_lifecycle_vars(Proceeds(p)) /\ WF_lifecycle_vars(Relaunch(p))

LifecycleSpec == LifecycleInit /\ [][LifecycleNext]_lifecycle_vars /\ LifecycleFairness

-----------------------------------------------------------------------------
(* Properties *)

\* Every variable keeps its type, and a process past its start() listens on
\* the address it was given until it closes it: start() never succeeds
\* without a listener, and nobody takes the address over.
LifecycleTypeOK ==
    /\ pc \in [Proc -> {"down", "unlink", "bind", "http", "ready", "running",
                        "stopping", "closing", "unlinking"}]
    /\ code \in [Proc -> {"none", "ok", "refused", "failed", "killed"}]
    /\ fs \in [Path -> Proc \cup {"none", "stale"}]
    /\ port \in [Address -> Proc \cup {"none"}] /\ linger \subseteq Address
    /\ \A p \in Proc : pc[p] \in {"ready", "running", "stopping"}
                        => addr[p] \in Address /\ port[addr[p]] = p

\* An exporter that runs, and that has met no other process on its path or
\* address, is the one ffmpeg reaches at the path its operator asked for,
\* whatever a crash before it left there.
ReachableWhereAsked ==
    \A p \in Proc : pc[p] = "running" /\ IsExporter(p) /\ met[p] = {}
                      => asked[p] \in Path /\ fs[asked[p]] = p

\* A start that was not refused fails for the path it was given, for its
\* address, or because it met another process; never for what a process that
\* is gone left behind.
FailsForCause ==
    \A p \in Proc : code[p] = "failed"
      => met[p] # {} \/ addr[p] \notin Address \/ path[p] \in LongPath \cup BadPath

\* An exporter that ended by itself leaves no socket file behind, unless
\* another process came to its path.
CleanExit ==
    \A p \in Proc : pc[p] = "down" /\ code[p] \in {"ok", "failed"} /\ IsExporter(p)
                      /\ path[p] # "" /\ met[p] = {}
                      => fs[path[p]] = "none"

\* A process that was killed is running again after some restarts, unless it
\* meets another process or was never able to run.
KilledRecovers ==
    \A p \in Proc : (pc[p] = "down" /\ code[p] = "killed")
      ~> (pc[p] = "running" \/ met[p] # {} \/ addr[p] \notin Address
                            \/ path[p] \in LongPath \cup BadPath)
=============================================================================
