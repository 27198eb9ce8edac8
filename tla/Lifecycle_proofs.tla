-------------------------- MODULE Lifecycle_proofs --------------------------
(***************************************************************************)
(* Proofs about Lifecycle: starting, stopping and crashing processes that  *)
(* share socket paths and addresses, for every number of processes, every  *)
(* command line and every number of launches and crashes.                  *)
(***************************************************************************)
EXTENDS CommandLine_proofs

-----------------------------------------------------------------------------
(* The inductive invariant. *)

PcValue == {"down", "unlink", "bind", "http", "ready", "running", "stopping",
            "closing", "unlinking"}
Code == {"none", "ok", "refused", "failed", "killed"}

\* The types of the processes' own variables and of the kernel's.
StateTypes ==
    /\ pc \in [Proc -> PcValue] /\ code \in [Proc -> Code]
    /\ fs \in [Path -> Proc \cup {"none", "stale"}]
    /\ port \in [Address -> Proc \cup {"none"}] /\ linger \subseteq Address
    /\ DOMAIN path = Proc /\ DOMAIN addr = Proc /\ DOMAIN asked = Proc
    /\ met \in [Proc -> SUBSET Proc]

\* Two processes that may get in each other's way: by their address, or, of
\* two exporters, by their path.
Claimed(p) == {addr[p]} \cup (IF IsExporter(p) THEN {path[p]} ELSE {})
Shares(p, q) == Claimed(p) \cap Claimed(q) # {}

\* Whoever is up and in the way of p has been met by p.
MeetInv ==
    \A p, q \in Proc : p # q /\ pc[q] # "down" /\ Shares(p, q) => q \in met[p]

\* While a process holds its socket, and while it listens on its address.
Bound == {"http", "ready", "running", "stopping", "closing"}
Listening == {"ready", "running", "stopping"}

\* Only exporters have a socket, and whoever was started with one named a path.
SettingsInv ==
    \A p \in Proc :
      /\ ~IsExporter(p) => pc[p] \notin {"unlink", "bind", "closing", "unlinking"}
      /\ IsExporter(p) => path[p] \in Path \cup {""}
      /\ IsExporter(p) /\ (pc[p] # "down" \/ code[p] \in {"killed", "failed"})
           => path[p] \in Path
      /\ pc[p] \in Listening => addr[p] \in Address

\* A socket file or an address that names a process was bound by it, and it
\* has not closed it yet; while it listens, its address names it.
OwnInv ==
    /\ \A f \in Path, q \in Proc : fs[f] = q =>
         IsExporter(q) /\ path[q] = f /\ pc[q] \in Bound
    /\ \A a \in Address, q \in Proc : port[a] = q =>
         addr[q] = a /\ pc[q] \in Listening
    /\ \A q \in Proc : pc[q] \in Listening => port[addr[q]] = q

\* What the path of an exporter that has met nobody names at each point.
AloneAt(p) ==
    /\ pc[p] = "bind" => fs[path[p]] = "none"
    /\ pc[p] \in Bound => fs[path[p]] = p
    /\ pc[p] = "down" /\ code[p] # "killed" /\ path[p] # "" => fs[path[p]] = "none"

AloneInv == \A p \in Proc : IsExporter(p) /\ met[p] = {} => AloneAt(p)

LifecycleInv ==
    StateTypes /\ MeetInv /\ SettingsInv /\ OwnInv /\ AloneInv /\ FailsForCause

-----------------------------------------------------------------------------
(* Coming up. *)

\* How the settings of p alone change.
OnlySettingsOf(p) ==
    /\ DOMAIN path' = Proc /\ DOMAIN addr' = Proc /\ DOMAIN asked' = Proc
    /\ \A q \in Proc \ {p} : path'[q] = path[q] /\ addr'[q] = addr[q]

\* A process that comes up, with new settings or with those it had, has met
\* those that are up on its path or address, and they have met it.
LEMMA ComesUpKeeps ==
    ASSUME LifecycleInv, NEW p \in Proc, pc[p] = "down", ComesUp(p),
           OnlySettingsOf(p), IsExporter(p) => path'[p] \in Path,
           UNCHANGED kernel
    PROVE  LifecycleInv'
  <1> USE DEF LifecycleInv, StateTypes
  <1> DEFINE up == IF IsExporter(p) THEN "unlink" ELSE "http"
             shares == {q \in Proc \ {p} : Shares(p, q)'}
  <1>1. pc' = [pc EXCEPT ![p] = up] /\ code' = [code EXCEPT ![p] = "none"]
    BY DEF ComesUp, Goto
  <1>2. /\ shares = {q \in Proc \ {p} : Shares(q, p)'}
        /\ met' = [q \in Proc |-> CASE q = p        -> {r \in shares : pc[r] # "down"}
                                   [] q \in shares -> met[q] \cup {p}
                                   [] OTHER        -> met[q]]
    BY ZenonT(60) DEF ComesUp, Shares, Claimed, IsExporter
  <1>3. StateTypes'
    BY <1>1, <1>2 DEF OnlySettingsOf, kernel, PcValue, Code
  <1>4. /\ met'[p] = {r \in shares : pc[r] # "down"}
        /\ \A q \in shares : q # p /\ met'[q] = met[q] \cup {p}
        /\ \A q \in Proc : q # p /\ q \notin shares => met'[q] = met[q]
    BY <1>2
  <1>5. \A q \in Proc \ {p} : pc'[q] = pc[q] /\ code'[q] = code[q]
    BY <1>1
  <1>6. pc'[p] = up /\ code'[p] = "none"
    BY <1>1
  <1>7. \A q, r \in Proc \ {p} : Shares(q, r)' => Shares(q, r)
    BY DEF OnlySettingsOf, Shares, Claimed, IsExporter
  <1>8. shares \subseteq Proc \ {p} /\ \A q \in Proc \ {p} :
          (q \in shares <=> Shares(p, q)') /\ (q \in shares <=> Shares(q, p)')
    BY <1>2
  <1> HIDE DEF shares
  <1>9. MeetInv'
    <2> SUFFICES ASSUME NEW q \in Proc, NEW r \in Proc, q # r, pc'[r] # "down",
                        Shares(q, r)'
                 PROVE  r \in met'[q]
      BY DEF MeetInv
    <2>1. CASE q = p
      BY <2>1, <1>4, <1>5, <1>8
    <2>2. CASE r = p
      BY <2>2, <1>4, <1>8
    <2>3. CASE q # p /\ r # p
      BY <2>3, <1>4, <1>5, <1>7, <1>8 DEF MeetInv
    <2> QED
      BY <2>1, <2>2, <2>3
  <1>10. SettingsInv'
    BY <1>5, <1>6 DEF SettingsInv, OnlySettingsOf, IsExporter, Listening
  <1>11. OwnInv'
    <2>1. /\ fs' = fs /\ port' = port /\ pc[p] \notin Bound /\ pc[p] \notin Listening
          /\ pc'[p] \notin Listening
      BY <1>6 DEF kernel, Bound, Listening
    <2>2. \A q \in Proc \ {p} : /\ pc'[q] = pc[q] /\ path'[q] = path[q]
                                /\ addr'[q] = addr[q]
      BY <1>5 DEF OnlySettingsOf
    <2>3. UNCHANGED <<Bound, Listening>>
      BY DEF Bound, Listening
    <2>4. \A q \in Proc : IsExporter(q)' <=> IsExporter(q)
      BY DEF IsExporter
    <2>5. OwnInv
      OBVIOUS
    <2> HIDE DEF LifecycleInv, StateTypes
    <2> QED
      BY <2>1, <2>2, <2>3, <2>4, <2>5 DEF OwnInv
  <1>12. AloneInv'
    <2> SUFFICES ASSUME NEW q \in Proc, IsExporter(q), met'[q] = {} PROVE AloneAt(q)'
      BY DEF AloneInv, IsExporter
    <2>1. CASE q = p
      BY <2>1, <1>6 DEF AloneAt, Bound
    <2>2. CASE q # p
      <3>1. met[q] = {}
        BY <2>2, <1>4
      <3>2. AloneAt(q)
        BY <3>1 DEF AloneInv
      <3>3. /\ pc'[q] = pc[q] /\ code'[q] = code[q] /\ path'[q] = path[q]
            /\ fs' = fs
        BY <2>2, <1>5 DEF OnlySettingsOf, kernel
      <3> HIDE DEF LifecycleInv, StateTypes
      <3> QED
        BY <3>2, <3>3 DEF AloneAt
    <2> QED
      BY <2>1, <2>2
  <1>13. FailsForCause'
    <2> SUFFICES ASSUME NEW q \in Proc, code'[q] = "failed"
                 PROVE  met'[q] # {} \/ addr'[q] \notin Address \/ path'[q] \in LongPath \cup BadPath
      BY DEF FailsForCause
    <2>1. q # p
      BY <1>6
    <2>2. met[q] \subseteq met'[q]
      BY <2>1, <1>4
    <2> QED
      BY <2>1, <2>2, <1>5 DEF FailsForCause, OnlySettingsOf
  <1> QED
    BY <1>3, <1>9, <1>10, <1>11, <1>12, <1>13

-----------------------------------------------------------------------------
(* The steps of a process that is up. *)

\* A step of p, which is up, to the point at, with c as its exit code: it
\* touches no socket file but the one at its own path and no address but its
\* own, and holds them only where it should.
Steps(p, at, c) ==
    /\ pc[p] # "down" /\ UNCHANGED <<settings, met>>
    /\ pc' = [pc EXCEPT ![p] = at] /\ code' = [code EXCEPT ![p] = c]
    /\ fs' \in [Path -> Proc \cup {"none", "stale"}]
    /\ port' \in [Address -> Proc \cup {"none"}] /\ linger' \subseteq Address
    /\ ~IsExporter(p) => at \notin {"unlink", "bind", "closing", "unlinking"}
    /\ at \in Listening => addr[p] \in Address
    /\ c = "failed" => code[p] = "failed" \/ met[p] # {} \/ addr[p] \notin Address
                         \/ path[p] \in LongPath \cup BadPath
    /\ \A f \in Path : fs'[f] = fs[f] \/ (IsExporter(p) /\ f = path[p])
    /\ \A f \in Path : fs'[f] \in {fs[f], p, "none", "stale"}
    /\ \A f \in Path : fs'[f] = p => IsExporter(p) /\ f = path[p] /\ at \in Bound
    /\ \A a \in Address : port'[a] \in {port[a], p, "none"}
    /\ \A a \in Address : port'[a] = p => a = addr[p] /\ at \in Listening
    /\ \A a \in Address : port'[a] = port[a] \/ port[a] \in {p, "none"}
    /\ at \in Listening => port'[addr[p]] = p
    /\ IsExporter(p) /\ met[p] = {} => AloneAt(p)'

\* Such a step keeps the invariant: whoever has met nobody is not on the path
\* of p, so what p does to its socket file is not what others rely on.
LEMMA StepsKeep ==
    ASSUME LifecycleInv, NEW p \in Proc, NEW at \in PcValue, NEW c \in Code,
           Steps(p, at, c)
    PROVE  LifecycleInv'
  <1> USE DEF LifecycleInv
  <1>1. /\ UNCHANGED <<path, addr, met>>
        /\ pc'[p] = at /\ code'[p] = c
        /\ \A q \in Proc \ {p} : pc'[q] = pc[q] /\ code'[q] = code[q]
    BY DEF Steps, StateTypes, settings
  <1>2. StateTypes'
    BY DEF Steps, StateTypes, settings
  <1>3. MeetInv'
    BY <1>1 DEF Steps, MeetInv, Shares, Claimed, IsExporter
  <1>4. SettingsInv'
    BY <1>1, ZenonT(60) DEF Steps, SettingsInv, Listening, IsExporter
  <1>5. OwnInv'
    <2>1. ASSUME NEW f \in Path, NEW q \in Proc, fs'[f] = q
          PROVE  IsExporter(q) /\ path[q] = f /\ pc'[q] \in Bound
      <3>1. CASE q = p
        BY <1>1, <2>1, <3>1 DEF Steps
      <3>2. CASE q # p
        BY <1>1, <2>1, <3>2, LifecycleAssumption DEF Steps, OwnInv, Bound
      <3> QED
        BY <3>1, <3>2
    <2>2. ASSUME NEW a \in Address, NEW q \in Proc, port'[a] = q
          PROVE  addr[q] = a /\ pc'[q] \in Listening
      <3>1. CASE q = p
        BY <1>1, <2>2, <3>1 DEF Steps
      <3>2. CASE q # p
        BY <1>1, <2>2, <3>2, LifecycleAssumption DEF Steps, OwnInv, Listening
      <3> QED
        BY <3>1, <3>2
    <2>3. ASSUME NEW q \in Proc, pc'[q] \in Listening PROVE port'[addr[q]] = q
      <3>1. CASE q = p
        BY <1>1, <2>3, <3>1 DEF Steps
      <3>2. CASE q # p
        <4>1. pc[q] \in Listening /\ addr[q] \in Address /\ port[addr[q]] = q
          BY <1>1, <2>3, <3>2 DEF OwnInv, SettingsInv, Listening
        <4> QED
          BY <3>2, <4>1, LifecycleAssumption DEF Steps
      <3> QED
        BY <3>1, <3>2
    <2> QED
      BY <1>1, <2>1, <2>2, <2>3 DEF OwnInv, Bound, Listening, IsExporter
  <1>6. AloneInv'
    <2> SUFFICES ASSUME NEW q \in Proc, q # p, IsExporter(q), met[q] = {}
                 PROVE  AloneAt(q)'
      BY <1>1 DEF Steps, AloneInv, IsExporter
    <2>1. IsExporter(p) => path[q] # path[p]
      BY DEF Steps, MeetInv, Shares, Claimed
    <2>2. AloneAt(q)
      BY DEF AloneInv
    <2>3. pc[q] # "down" \/ path[q] # "" => path[q] \in Path
      BY DEF SettingsInv
    <2>4. path[q] \in Path => fs'[path[q]] = fs[path[q]]
      BY <2>1 DEF Steps
    <2> QED
      BY <1>1, <2>2, <2>3, <2>4 DEF AloneAt, Bound
  <1>7. FailsForCause'
    BY <1>1 DEF Steps, FailsForCause
  <1> QED
    BY <1>2, <1>3, <1>4, <1>5, <1>6, <1>7

\* ProgressSocketServer::start.
LEMMA UnlinkKeeps ==
    ASSUME LifecycleInv, NEW p \in Proc, Unlink(p) PROVE LifecycleInv'
  <1> USE DEF LifecycleInv
  <1>0. /\ pc[p] = "unlink" /\ IsExporter(p) /\ path[p] \in Path
        /\ UNCHANGED <<settings, port, linger, met>>
    BY DEF Unlink, SettingsInv
  <1>1. CASE path[p] \in LongPath
    <2>1. Steps(p, "unlinking", "failed")
      BY <1>0, <1>1
         DEF Unlink, Goto, Steps, StateTypes, OwnInv, Listening, Bound, AloneAt
    <2> QED
      BY <2>1, StepsKeep DEF PcValue, Code
  <1>2. CASE path[p] \notin LongPath
    <2>1. /\ pc' = [pc EXCEPT ![p] = "bind"] /\ UNCHANGED code
          /\ fs' = [fs EXCEPT ![path[p]] = "none"]
      BY <1>2 DEF Unlink, Goto, Cleared
    <2>2. Steps(p, "bind", code[p])
      BY <1>0, <2>1, LifecycleAssumption
         DEF Steps, StateTypes, OwnInv, Listening, Bound, AloneAt, settings
    <2> QED
      BY <2>2, StepsKeep DEF PcValue, StateTypes
  <1> QED
    BY <1>1, <1>2

\* bind() only finds a usable path taken by a process it met on it.
LEMMA BindKeeps ==
    ASSUME LifecycleInv, NEW p \in Proc, Bind(p) PROVE LifecycleInv'
  <1> USE DEF LifecycleInv
  <1>0. /\ pc[p] = "bind" /\ IsExporter(p) /\ path[p] \in Path
        /\ UNCHANGED <<settings, port, linger, met>>
    BY DEF Bind, SettingsInv
  <1>1. CASE ~(fs[path[p]] = "none" /\ path[p] \notin BadPath)
    <2>1. met[p] # {} \/ path[p] \in LongPath \cup BadPath
      BY <1>0, <1>1 DEF AloneInv, AloneAt
    <2>3. /\ pc' = [pc EXCEPT ![p] = "unlinking"] /\ UNCHANGED fs
          /\ code' = [code EXCEPT ![p] = "failed"]
      BY <1>1 DEF Bind, Goto
    <2>4. AloneAt(p)'
      BY <1>0, <2>3 DEF AloneAt, Bound, StateTypes
    <2>2. Steps(p, "unlinking", "failed")
      BY <1>0, <2>1, <2>3, <2>4
         DEF Steps, StateTypes, OwnInv, Listening, Bound
    <2> QED
      BY <2>2, StepsKeep DEF PcValue, Code
  <1>2. CASE fs[path[p]] = "none" /\ path[p] \notin BadPath
    <2>1. /\ pc' = [pc EXCEPT ![p] = "http"] /\ UNCHANGED code
          /\ fs' = [fs EXCEPT ![path[p]] = p]
      BY <1>2 DEF Bind, Goto
    <2>2. Steps(p, "http", code[p])
      BY <1>0, <2>1, LifecycleAssumption
         DEF Steps, StateTypes, OwnInv, Listening, Bound, AloneAt, settings
    <2> QED
      BY <2>2, StepsKeep DEF PcValue, StateTypes
  <1> QED
    BY <1>1, <1>2

\* HttpServer::start only finds the address taken by a process it met on it.
LEMMA StartHttpKeeps ==
    ASSUME LifecycleInv, NEW p \in Proc, StartHttp(p) PROVE LifecycleInv'
  <1> USE DEF LifecycleInv
  <1>0. pc[p] = "http" /\ UNCHANGED <<settings, fs, linger, met>>
    BY DEF StartHttp
  <1>1. CASE CanBind(addr[p])
    <2>1. /\ pc' = [pc EXCEPT ![p] = "ready"] /\ UNCHANGED code
          /\ port' = [port EXCEPT ![addr[p]] = p]
      BY <1>1 DEF StartHttp, Goto
    <2>0. addr[p] \in Address /\ port[addr[p]] = "none"
      BY <1>1 DEF CanBind
    <2>2. IsExporter(p) /\ met[p] = {} => AloneAt(p)'
      BY <1>0, <2>1 DEF AloneInv, AloneAt, StateTypes, settings, Bound
    <2>3. Steps(p, "ready", code[p])
      BY <1>0, <2>0, <2>1, <2>2, LifecycleAssumption
         DEF Steps, StateTypes, OwnInv, Listening, Bound, settings
    <2> QED
      BY <2>3, StepsKeep DEF PcValue, StateTypes
  <1>2. CASE ~CanBind(addr[p])
    <2> DEFINE at == IF IsExporter(p) THEN "closing" ELSE "down"
    <2>1. /\ pc' = [pc EXCEPT ![p] = at] /\ UNCHANGED port
          /\ code' = [code EXCEPT ![p] = "failed"]
      BY <1>2 DEF StartHttp, Goto
    <2>2. addr[p] \notin Address \/ met[p] # {}
      <3> SUFFICES ASSUME addr[p] \in Address PROVE met[p] # {}
        OBVIOUS
      <3>1. PICK q \in Proc : port[addr[p]] = q
        BY <1>2 DEF CanBind, StateTypes
      <3>2. addr[q] = addr[p] /\ pc[q] \in Listening
        BY <3>1 DEF OwnInv
      <3> QED
        BY <1>0, <3>2 DEF MeetInv, Shares, Claimed, Listening
    <2>3. IsExporter(p) /\ met[p] = {} => AloneAt(p)'
      BY <1>0, <2>1 DEF AloneInv, AloneAt, StateTypes, settings, Bound
    <2>4. Steps(p, at, "failed")
      BY <1>0, <2>1, <2>2, <2>3, LifecycleAssumption
         DEF Steps, StateTypes, OwnInv, Listening, Bound, settings
    <2> QED
      BY <2>4, StepsKeep DEF PcValue, Code
  <1> QED
    BY <1>1, <1>2

\* From the handlers to the signal.
LEMMA RunStopKeeps ==
    ASSUME LifecycleInv, NEW p \in Proc, Run(p) \/ Stop(p) PROVE LifecycleInv'
  <1> USE DEF LifecycleInv
  <1>1. CASE Run(p)
    <2>1. IsExporter(p) /\ met[p] = {} => AloneAt(p)'
      BY <1>1 DEF Run, Goto, AloneInv, AloneAt, StateTypes, settings, kernel, Bound
    <2>2. /\ pc[p] = "ready" /\ pc' = [pc EXCEPT ![p] = "running"]
          /\ UNCHANGED <<settings, met>> /\ fs' = fs /\ port' = port /\ linger' = linger
          /\ code' = [code EXCEPT ![p] = code[p]]
      BY <1>1 DEF Run, Goto, StateTypes, kernel
    <2>3. addr[p] \in Address /\ pc[p] \in Listening /\ pc[p] \in Bound
      BY <2>2 DEF SettingsInv, Listening, Bound
    <2>4. /\ \A f \in Path : fs[f] = p => IsExporter(p) /\ f = path[p]
          /\ \A a \in Address : port[a] = p => a = addr[p]
          /\ port[addr[p]] = p
      BY <2>3 DEF OwnInv
    <2>5. Steps(p, "running", code[p])
      BY <2>1, <2>2, <2>3, <2>4 DEF Steps, StateTypes, Listening, Bound
    <2> QED
      BY <2>5, StepsKeep DEF PcValue, StateTypes
  <1>2. CASE Stop(p)
    <2>1. IsExporter(p) /\ met[p] = {} => AloneAt(p)'
      BY <1>2 DEF Stop, Goto, AloneInv, AloneAt, StateTypes, settings, kernel, Bound
    <2>2. /\ pc[p] = "running" /\ pc' = [pc EXCEPT ![p] = "stopping"]
          /\ UNCHANGED <<settings, met>> /\ fs' = fs /\ port' = port /\ linger' = linger
          /\ code' = [code EXCEPT ![p] = "ok"]
      BY <1>2 DEF Stop, Goto, StateTypes, kernel
    <2>3. addr[p] \in Address /\ pc[p] \in Listening /\ pc[p] \in Bound
      BY <2>2 DEF SettingsInv, Listening, Bound
    <2>4. /\ \A f \in Path : fs[f] = p => IsExporter(p) /\ f = path[p]
          /\ \A a \in Address : port[a] = p => a = addr[p]
          /\ port[addr[p]] = p
      BY <2>3 DEF OwnInv
    <2>5. Steps(p, "stopping", "ok")
      BY <2>1, <2>2, <2>3, <2>4 DEF Steps, StateTypes, Listening, Bound
    <2> QED
      BY <2>5, StepsKeep DEF PcValue, Code
  <1> QED
    BY <1>1, <1>2

\* What the kernel's objects are once p's descriptors are closed.
LEMMA ClosedOK ==
    ASSUME LifecycleInv, NEW p \in Proc
    PROVE  /\ NoListener(p) \in [Address -> Proc \cup {"none"}]
           /\ \A a \in Address : /\ NoListener(p)[a] # p
                                 /\ NoListener(p)[a] \in {port[a], "none"}
                                 /\ port[a] # p => NoListener(p)[a] = port[a]
           /\ Orphaned(p) \in [Path -> Proc \cup {"none", "stale"}]
           /\ \A f \in Path : /\ Orphaned(p)[f] # p
                              /\ Orphaned(p)[f] \in {fs[f], "stale"}
                              /\ \/ Orphaned(p)[f] = fs[f]
                                 \/ IsExporter(p) /\ f = path[p]
  BY LifecycleAssumption DEF LifecycleInv, StateTypes, NoListener, Orphaned, OwnInv

\* The destructors, and a crash.
LEMMA CloseHttpKeeps ==
    ASSUME LifecycleInv, NEW p \in Proc, CloseHttp(p) PROVE LifecycleInv'
  <1>5. /\ NoListener(p) \in [Address -> Proc \cup {"none"}]
        /\ \A a \in Address : /\ NoListener(p)[a] # p
                              /\ NoListener(p)[a] \in {port[a], "none"}
                              /\ port[a] # p => NoListener(p)[a] = port[a]
    BY ClosedOK
  <1> USE DEF LifecycleInv
  <1> DEFINE at == IF IsExporter(p) THEN "closing" ELSE "down"
  <1>1. /\ pc[p] = "stopping" /\ pc' = [pc EXCEPT ![p] = at]
        /\ port' = NoListener(p) /\ UNCHANGED <<settings, code, fs, linger, met>>
    BY DEF CloseHttp, Goto
  <1>2. IsExporter(p) /\ met[p] = {} => AloneAt(p)'
    BY <1>1 DEF AloneInv, AloneAt, StateTypes, settings, Bound
  <1>4. /\ \A a \in Address : port'[a] = port[a] \/ port[a] \in {p, "none"}
        /\ at \notin Listening
    BY <1>1, <1>5 DEF Listening
  <1>3. Steps(p, at, code[p])
    BY <1>1, <1>2, <1>4, <1>5
       DEF Steps, StateTypes, OwnInv, Bound, settings
  <1> QED
    BY <1>3, StepsKeep DEF PcValue, StateTypes

LEMMA CloseSocketKeeps ==
    ASSUME LifecycleInv, NEW p \in Proc, CloseSocket(p) PROVE LifecycleInv'
  <1> USE DEF LifecycleInv
  <1>1. /\ pc[p] = "closing" /\ pc' = [pc EXCEPT ![p] = "unlinking"] /\ IsExporter(p)
        /\ fs' = Orphaned(p) /\ UNCHANGED <<settings, code, port, linger, met>>
    BY DEF CloseSocket, Goto, SettingsInv
  <1>2. AloneAt(p)'
    BY <1>1 DEF AloneAt, StateTypes, Bound
  <1>3. Steps(p, "unlinking", code[p])
    BY <1>1, <1>2, ClosedOK
       DEF Steps, StateTypes, OwnInv, Listening, Bound, settings
  <1> QED
    BY <1>3, StepsKeep DEF PcValue, StateTypes

LEMMA UnlinkPathKeeps ==
    ASSUME LifecycleInv, NEW p \in Proc, UnlinkPath(p) PROVE LifecycleInv'
  <1> USE DEF LifecycleInv
  <1>1. /\ pc[p] = "unlinking" /\ pc' = [pc EXCEPT ![p] = "down"]
        /\ IsExporter(p) /\ path[p] \in Path
        /\ fs' = [fs EXCEPT ![path[p]] = "none"]
        /\ UNCHANGED <<settings, code, port, linger, met>>
    BY DEF UnlinkPath, Goto, Unlinked, SettingsInv
  <1>2. AloneAt(p)'
    BY <1>1 DEF AloneAt, StateTypes, Bound, settings
  <1>3. Steps(p, "down", code[p])
    BY <1>1, <1>2, LifecycleAssumption
       DEF Steps, StateTypes, OwnInv, Listening, Bound, settings
  <1> QED
    BY <1>3, StepsKeep DEF PcValue, StateTypes

LEMMA KillKeeps ==
    ASSUME LifecycleInv, NEW p \in Proc, Kill(p) PROVE LifecycleInv'
  <1>5. /\ NoListener(p) \in [Address -> Proc \cup {"none"}]
        /\ \A a \in Address : /\ NoListener(p)[a] # p
                              /\ NoListener(p)[a] \in {port[a], "none"}
                              /\ port[a] # p => NoListener(p)[a] = port[a]
    BY ClosedOK
  <1> USE DEF LifecycleInv
  <1>1. /\ pc[p] # "down" /\ pc' = [pc EXCEPT ![p] = "down"]
        /\ code' = [code EXCEPT ![p] = "killed"]
        /\ fs' = Orphaned(p) /\ port' = NoListener(p)
        /\ UNCHANGED <<settings, linger, met>>
    BY DEF Kill, Ends, Goto
  <1>2. AloneAt(p)'
    BY <1>1 DEF AloneAt, StateTypes, Bound
  <1>4. /\ \A a \in Address : port'[a] = port[a] \/ port[a] \in {p, "none"}
        /\ "down" \notin Listening
    BY <1>1, <1>5 DEF Listening
  <1>3. Steps(p, "down", "killed")
    BY <1>1, <1>2, <1>4, ClosedOK DEF Steps, StateTypes, Bound
  <1> QED
    BY <1>3, StepsKeep DEF PcValue, Code

\* What only connections and counters notice.
LEMMA LingerKeeps ==
    ASSUME LifecycleInv, UNCHANGED <<pc, settings, code, fs, port, met>>,
           linger' \subseteq Address
    PROVE  LifecycleInv'
  <1> USE DEF LifecycleInv, settings
  <1>1. StateTypes'
    BY DEF StateTypes
  <1>2. MeetInv' /\ FailsForCause'
    BY DEF MeetInv, Shares, Claimed, FailsForCause, IsExporter
  <1>3. SettingsInv'
    BY DEF SettingsInv, IsExporter, Listening
  <1>4. OwnInv'
    BY DEF OwnInv, IsExporter, Listening, Bound
  <1>5. AloneInv'
    BY DEF AloneInv, AloneAt, IsExporter, Bound
  <1> QED
    BY <1>1, <1>2, <1>3, <1>4, <1>5

\* A launch, accepted or not, and a restart.
LEMMA LaunchKeeps ==
    ASSUME LifecycleInv, NEW p \in Proc, Launch(p) PROVE LifecycleInv'
  <1>1. PICK options \in CommandLines, stray \in Strays, env \in Environments :
          IF Accepted(Program[p], Words(options, stray), env)
          THEN /\ path' = [path EXCEPT ![p] = IF IsExporter(p)
                    THEN Resolved(p, options, stray, env, "--progress-socket") ELSE ""]
               /\ addr' = [addr EXCEPT ![p] =
                    Resolved(p, options, stray, env, "--metrics-addr")]
               /\ asked' = [asked EXCEPT ![p] = IF IsExporter(p)
                    THEN Meant(Program[p], options, env, "--progress-socket") ELSE ""]
               /\ ComesUp(p)
          ELSE /\ Ends(p, IF AsksHelp(Program[p], Words(options, stray))
                          THEN "ok" ELSE "refused")
               /\ UNCHANGED <<settings, met>>
    BY DEF Launch
  <1>2. pc[p] = "down" /\ code[p] # "killed" /\ UNCHANGED kernel
    BY DEF Launch
  <1>3. CASE Accepted(Program[p], Words(options, stray), env)
    <2>1. IsExporter(p) => path'[p] \in Path
      BY <1>1, <1>3, PathAssumption DEF LifecycleInv, StateTypes
    <2>2. OnlySettingsOf(p)
      BY <1>1, <1>3 DEF OnlySettingsOf, LifecycleInv, StateTypes
    <2> QED
      BY <1>1, <1>2, <1>3, <2>1, <2>2, ComesUpKeeps
  <1>4. CASE ~Accepted(Program[p], Words(options, stray), env)
    <2>1. PICK c \in {"ok", "refused"} :
               pc' = [pc EXCEPT ![p] = "down"] /\ code' = [code EXCEPT ![p] = c]
      BY <1>1, <1>4 DEF Ends, Goto
    <2>2. UNCHANGED <<settings, met, kernel>>
      BY <1>1, <1>2, <1>4
    <2>3. UNCHANGED pc /\ UNCHANGED <<path, addr, asked, met, fs, port, linger>>
      BY <1>2, <2>1, <2>2 DEF settings, kernel, LifecycleInv, StateTypes
    <2>4. code'[p] = c /\ \A q \in Proc \ {p} : code'[q] = code[q]
      BY <2>1 DEF LifecycleInv, StateTypes
    <2> USE DEF LifecycleInv
    <2>5. StateTypes'
      BY <2>1, <2>3 DEF StateTypes, Code
    <2>6. MeetInv' /\ OwnInv'
      BY <2>3 DEF MeetInv, Shares, Claimed, OwnInv, IsExporter, Bound, Listening
    <2>7. SettingsInv'
      BY <1>2, <2>3, <2>4 DEF SettingsInv, IsExporter, Listening
    <2>8. AloneInv'
      BY <1>2, <2>3, <2>4 DEF AloneInv, AloneAt, IsExporter, Bound
    <2>9. FailsForCause'
      BY <2>3, <2>4 DEF FailsForCause
    <2> QED
      BY <2>5, <2>6, <2>7, <2>8, <2>9
  <1> QED
    BY <1>3, <1>4

LEMMA RelaunchKeeps ==
    ASSUME LifecycleInv, NEW p \in Proc, Relaunch(p) PROVE LifecycleInv'
  <1>1. pc[p] = "down" /\ UNCHANGED kernel /\ ComesUp(p)
    BY DEF Relaunch
  <1>2. IsExporter(p) => path'[p] \in Path
    BY DEF Relaunch, settings, LifecycleInv, SettingsInv
  <1>3. OnlySettingsOf(p)
    BY DEF Relaunch, OnlySettingsOf, settings, LifecycleInv, StateTypes
  <1> QED
    BY <1>1, <1>2, <1>3, ComesUpKeeps

-----------------------------------------------------------------------------
(* The invariant holds. *)

\* Before any process has been started.
LEMMA LifecycleInitial == LifecycleInit => LifecycleInv
  <1> SUFFICES ASSUME LifecycleInit PROVE LifecycleInv
    OBVIOUS
  <1> USE LifecycleAssumption DEF LifecycleInit
  <1>1. StateTypes
    BY DEF StateTypes, PcValue, Code
  <1>2. MeetInv /\ FailsForCause
    BY DEF MeetInv, FailsForCause
  <1>3. SettingsInv
    BY DEF SettingsInv, Listening
  <1>4. OwnInv
    BY DEF OwnInv, Listening
  <1>5. AloneInv
    BY DEF AloneInv, AloneAt, Bound
  <1> QED
    BY <1>1, <1>2, <1>3, <1>4, <1>5 DEF LifecycleInv

\* Every step of every process, of the supervisor and of the kernel keeps it.
THEOREM LifecycleInductive ==
    LifecycleInv /\ [LifecycleNext]_lifecycle_vars => LifecycleInv'
  <1> SUFFICES ASSUME LifecycleInv, [LifecycleNext]_lifecycle_vars PROVE LifecycleInv'
    OBVIOUS
  <1>1. ASSUME NEW p \in Proc, Proceeds(p) PROVE LifecycleInv'
    BY <1>1, UnlinkKeeps, BindKeeps, StartHttpKeeps, RunStopKeeps, CloseHttpKeeps,
       CloseSocketKeeps, UnlinkPathKeeps DEF Proceeds
  <1>2. ASSUME NEW p \in Proc, Scrape(p) PROVE LifecycleInv'
    <2>1. addr[p] \in Address
      BY <1>2 DEF Scrape, LifecycleInv, SettingsInv, Listening
    <2> QED
      BY <1>2, <2>1, LingerKeeps DEF Scrape, LifecycleInv, StateTypes
  <1>3. CASE LingerEnds
    BY <1>3, LingerKeeps DEF LingerEnds
  <1>4. CASE UNCHANGED lifecycle_vars
    BY <1>4, LingerKeeps DEF lifecycle_vars, kernel, LifecycleInv, StateTypes
  <1> QED
    BY <1>1, <1>2, <1>3, <1>4, LaunchKeeps, RelaunchKeeps, RunStopKeeps, KillKeeps
       DEF LifecycleNext

\* The invariant holds in every reachable state.
THEOREM LifecycleInvariance == LifecycleSpec => []LifecycleInv
  BY LifecycleInitial, LifecycleInductive, PTL DEF LifecycleSpec

\* Types, and whoever is past its start() listens on the address it was given.
THEOREM LifecycleTypeCorrect == LifecycleSpec => []LifecycleTypeOK
  <1>1. LifecycleInv => LifecycleTypeOK
    BY DEF LifecycleInv, StateTypes, SettingsInv, OwnInv, Listening, PcValue, Code,
           LifecycleTypeOK
  <1> QED
    BY <1>1, LifecycleInvariance, PTL

\* For any number of processes, launches and crashes, a start that was not
\* refused only fails for what it was given or whom it met, never for what a
\* process that is gone left behind.
THEOREM FailuresHaveCause == LifecycleSpec => []FailsForCause
  BY LifecycleInvariance, PTL DEF LifecycleInv

\* An exporter that ended by itself leaves no socket file behind, unless
\* another process came to its path.
THEOREM ExitsClean == LifecycleSpec => []CleanExit
  <1>1. LifecycleInv => CleanExit
    BY DEF LifecycleInv, AloneInv, AloneAt, CleanExit
  <1> QED
    BY <1>1, LifecycleInvariance, PTL

-----------------------------------------------------------------------------
(* Where ffmpeg finds the exporter. *)

\* An exporter that runs, and that has met no other process on its path or
\* address, is the one reached at the path it resolved.
ReachableAtPath ==
    \A p \in Proc : pc[p] = "running" /\ IsExporter(p) /\ met[p] = {}
                      => path[p] \in Path /\ fs[path[p]] = p

\* Whatever crashes left behind, and however starts and stops of others
\* interleave.
THEOREM SocketReachable == LifecycleSpec => []ReachableAtPath
  <1>1. LifecycleInv => ReachableAtPath
    BY DEF LifecycleInv, SettingsInv, AloneInv, AloneAt, Bound, ReachableAtPath
  <1> QED
    BY <1>1, LifecycleInvariance, PTL

\* The path resolved and the path asked for.
AskedInv == \A p \in Proc : IsExporter(p) => asked[p] = path[p]

\* The settings only change together.
LEMMA AskedKeeps ==
    ASSUME LifecycleInv, AskedInv, [LifecycleNext]_lifecycle_vars
    PROVE  AskedInv'
  <1>1. ASSUME NEW p \in Proc, Launch(p) PROVE AskedInv'
    <2>1. CASE UNCHANGED settings
      BY <2>1 DEF AskedInv, settings, IsExporter
    <2>2. CASE ~UNCHANGED settings
      <3>1. PICK options \in CommandLines, stray \in Strays, env \in Environments :
              /\ Accepted(Program[p], Words(options, stray), env)
              /\ path' = [path EXCEPT ![p] = IF IsExporter(p)
                   THEN Resolved(p, options, stray, env, "--progress-socket") ELSE ""]
              /\ asked' = [asked EXCEPT ![p] = IF IsExporter(p)
                   THEN Meant(Program[p], options, env, "--progress-socket") ELSE ""]
        BY <1>1, <2>2 DEF Launch
      <3>2. IsExporter(p) => asked'[p] = path'[p]
        BY <3>1, ParsedAsMeant DEF ParsesAsMeant, LifecycleInv, StateTypes
      <3>3. \A q \in Proc \ {p} : asked'[q] = asked[q] /\ path'[q] = path[q]
        BY <3>1 DEF LifecycleInv, StateTypes
      <3> QED
        BY <3>2, <3>3 DEF AskedInv, IsExporter
    <2> QED
      BY <2>1, <2>2
  <1>2. CASE UNCHANGED settings
    BY <1>2 DEF AskedInv, settings, IsExporter
  <1>3. ASSUME NEW p \in Proc, Proceeds(p) PROVE UNCHANGED settings
    BY <1>3 DEF Proceeds, Unlink, Bind, StartHttp, Run, CloseHttp, CloseSocket, UnlinkPath
  <1>4. ASSUME NEW p \in Proc, Relaunch(p) \/ Stop(p) \/ Kill(p) \/ Scrape(p)
        PROVE  UNCHANGED settings
    BY <1>4 DEF Relaunch, Stop, Kill, Scrape
  <1>5. LingerEnds \/ UNCHANGED lifecycle_vars => UNCHANGED settings
    BY DEF LingerEnds, lifecycle_vars
  <1> QED
    BY <1>1, <1>2, <1>3, <1>4, <1>5 DEF LifecycleNext

\* An exporter that runs and has met nobody is the one ffmpeg reaches at the
\* path its operator asked for, in whatever spelling, on the command line or
\* in the environment, and whatever a crash before it left there.
THEOREM ExporterReachable == LifecycleSpec => []ReachableWhereAsked
  <1>1. LifecycleInit => AskedInv
    BY DEF LifecycleInit, AskedInv
  <1>2. LifecycleInv /\ AskedInv /\ [LifecycleNext]_lifecycle_vars => AskedInv'
    BY AskedKeeps
  <1>3. AskedInv /\ ReachableAtPath => ReachableWhereAsked
    BY DEF AskedInv, ReachableAtPath, ReachableWhereAsked
  <1> QED
    BY <1>1, <1>2, <1>3, LifecycleInvariance, SocketReachable, PTL DEF LifecycleSpec
=============================================================================
