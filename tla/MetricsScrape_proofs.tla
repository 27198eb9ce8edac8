------------------------ MODULE MetricsScrape_proofs ------------------------
(***************************************************************************)
(* Proofs about MetricsScrape: what a scrape may rely on although every    *)
(* atomic is relaxed, for every reordering window, every number of stores  *)
(* in flight and every number of frames, streams and failures.             *)
(*                                                                         *)
(* The capture thread's operations take effect out of order, but it issued *)
(* them in order.  The argument follows the statistics as the thread sees  *)
(* them: the views it passes through if the operations in flight take      *)
(* effect one after the other, from what the memory holds now to what the  *)
(* steps did.  Such an execution survives every operation that jumps the   *)
(* queue, and what it says of the views outside a critical section is what *)
(* a scrape that holds the mutex finds.                                    *)
(***************************************************************************)
EXTENDS MetricsScrape, Iteration_proofs

-----------------------------------------------------------------------------
(* Views and executions. *)

Hist == Buckets \cup {"sum", "total"}
Numbers == Counters \cup Hist \cup {"last_frame", "info"}
Loc == Numbers \cup {"known", "gauge"}
GaugeValue == {"DeviceAbsent", "AwaitingProducer", "Configuring", "Streaming",
               "Stalled"}

\* What a mutex guards.
Guarded == [m \in Mutexes |->
              IF m = "histogram_mutex" THEN Hist ELSE {"info", "known"}]

Memory == {m \in [Loc -> Nat \cup BOOLEAN \cup GaugeValue] :
             /\ \A l \in Numbers : m[l] \in Nat
             /\ m["known"] \in BOOLEAN /\ m["gauge"] \in GaugeValue}

\* The operations the capture thread issues.
WriterOp ==
    [do : {"add"}, loc : Counters \cup Hist, val : Nat]
      \cup [do : {"store"}, loc : {"info", "last_frame"}, val : Nat]
      \cup [do : {"store"}, loc : {"known"}, val : {TRUE}]
      \cup [do : {"store"}, loc : {"gauge"}, val : GaugeValue]
      \cup [do : {"lock", "unlock"}, loc : Mutexes, val : {0}]

\* The statistics, the streams the gauge has said, and the mutexes the
\* capture thread holds.
View == [mem : Memory, published : Nat, holds : [Mutexes -> BOOLEAN]]

\* One operation of the capture thread.
Effect(v, op) ==
    [mem |-> Applied(v.mem, op),
     published |-> IF op = Store("gauge", "Streaming") THEN v.published + 1
                   ELSE v.published,
     holds |-> CASE op.do = "lock"   -> [v.holds EXCEPT ![op.loc] = TRUE]
                 [] op.do = "unlock" -> [v.holds EXCEPT ![op.loc] = FALSE]
                 [] OTHER            -> v.holds]

\* Guarded locations are only touched, and a mutex only unlocked, by its
\* holder; and the gauge says to stream behind the format, or inside the
\* critical section that stores it.
Proper(v, op) ==
    /\ \A m \in Mutexes : op = Unlock(m) \/ op.loc \in Guarded[m] => v.holds[m]
    /\ op = Store("gauge", "Streaming") =>
         \/ v.holds["stream_info_mutex"]
         \/ v.mem["known"] /\ v.mem["info"] > v.published

Whole(h) == /\ h["bucket"] + h["overflow"] = h["total"]
            /\ h["sum"] = Short * h["bucket"] + Long * h["overflow"]

\* What a view says wherever the mutex concerned is free.
Sound(v) ==
    /\ ~v.holds["histogram_mutex"] =>
         /\ Whole(v.mem)
         /\ v.mem["total"] > 0 => v.mem["frames"] > v.mem["total"]
    /\ ~v.holds["stream_info_mutex"] =>
         /\ v.mem["info"] >= v.published
         /\ v.published > 0 => v.mem["known"]

\* The views V[0], V[1], ... that the operations lead through.
Execution(V, ops) ==
    /\ ops \in Seq(WriterOp) /\ V \in [0..Len(ops) -> View]
    /\ \A k \in 1..Len(ops) : Proper(V[k - 1], ops[k])
    /\ \A k \in 1..Len(ops) : V[k] = Effect(V[k - 1], ops[k])
    /\ \A k \in 0..Len(ops) : Sound(V[k])

Leads(a, ops, b) == \E V : Execution(V, ops) /\ V[0] = a /\ V[Len(ops)] = b

-----------------------------------------------------------------------------
(* Sequences and induction. *)

\* What RemoveAt leaves.
LEMMA RemoveAtProperties ==
    ASSUME NEW S, NEW s \in Seq(S), NEW i \in DOMAIN s
    PROVE  /\ RemoveAt(s, i) \in Seq(S)
           /\ Len(RemoveAt(s, i)) = Len(s) - 1
           /\ \A k \in 1..(Len(s) - 1) :
                RemoveAt(s, i)[k] = IF k < i THEN s[k] ELSE s[k + 1]
<1> DEFINE a == SubSeq(s, 1, i - 1)
           b == SubSeq(s, i + 1, Len(s))
<1>1. a \in Seq(S) /\ Len(a) = i - 1 /\ \A k \in 1..(i - 1) : a[k] = s[k]
  OBVIOUS
<1>2. b \in Seq(S) /\ Len(b) = Len(s) - i /\ \A k \in 1..(Len(s) - i) : b[k] = s[i + k]
  OBVIOUS
<1>3. RemoveAt(s, i) = a \o b
  BY DEF RemoveAt
<1> HIDE DEF a, b
<1>4. a \o b \in Seq(S) /\ Len(a \o b) = Len(s) - 1
  BY <1>1, <1>2
<1>5. ASSUME NEW k \in 1..(Len(s) - 1)
      PROVE  (a \o b)[k] = IF k < i THEN s[k] ELSE s[k + 1]
  BY <1>1, <1>2
<1> QED
  BY <1>3, <1>4, <1>5

-----------------------------------------------------------------------------
(* What one operation does to a view. *)

\* Two views are the same if they agree everywhere.
LEMMA ViewsAgree ==
    ASSUME NEW v \in View, NEW w \in View,
           \A l \in Loc : v.mem[l] = w.mem[l], v.published = w.published,
           \A m \in Mutexes : v.holds[m] = w.holds[m]
    PROVE  v = w
<1>1. v.mem = w.mem
  BY DEF View, Memory
<1>2. v.holds = w.holds
  BY DEF View
<1> QED
  BY <1>1, <1>2 DEF View

\* A number stored keeps the memory what it is.
LEMMA NumberStored ==
    ASSUME NEW m \in Memory, NEW l \in Numbers, NEW x \in Nat
    PROVE  /\ [m EXCEPT ![l] = x] \in Memory
           /\ \A k \in Loc : [m EXCEPT ![l] = x][k] = IF k # l THEN m[k] ELSE x
<1>1. l \in Loc /\ l # "known" /\ l # "gauge"
  BY DEF Loc, Numbers, Counters, Hist, Buckets
<1>2. m \in [Loc -> Nat \cup BOOLEAN \cup GaugeValue]
  BY DEF Memory
<1> DEFINE e == [m EXCEPT ![l] = x]
<1>3. /\ e \in [Loc -> Nat \cup BOOLEAN \cup GaugeValue]
      /\ \A k \in Loc : e[k] = IF k # l THEN m[k] ELSE x
  BY <1>1, <1>2
<1> HIDE DEF e
<1>4. \A k \in Numbers : e[k] \in Nat
  BY <1>3 DEF Memory, Loc
<1>5. e["known"] = m["known"] /\ e["gauge"] = m["gauge"]
  BY <1>1, <1>3 DEF Loc
<1>6. e \in Memory
  BY <1>3, <1>4, <1>5 DEF Memory
<1> QED
  BY <1>3, <1>6 DEF e

\* An operation leaves a view with the memory, the published streams and the
\* mutexes that one expects.
LEMMA EffectOf ==
    ASSUME NEW v \in View, NEW op \in WriterOp
    PROVE  /\ Effect(v, op) \in View
           /\ \A l \in Loc : Effect(v, op).mem[l] =
                IF l # op.loc THEN v.mem[l]
                ELSE IF op.do = "store" THEN op.val ELSE v.mem[l] + op.val
           /\ Effect(v, op).published =
                IF op = Store("gauge", "Streaming") THEN v.published + 1
                ELSE v.published
           /\ \A m \in Mutexes : Effect(v, op).holds[m] =
                IF m # op.loc THEN v.holds[m] ELSE op.do = "lock"
<1>1. v.mem \in Memory /\ v.published \in Nat /\ v.holds \in [Mutexes -> BOOLEAN]
  BY DEF View
<1>2. \/ op.do = "add" /\ op.loc \in Counters \cup Hist /\ op.val \in Nat
      \/ op.do = "store" /\ op.loc \in {"info", "last_frame"} /\ op.val \in Nat
      \/ op.do = "store" /\ op.loc = "known" /\ op.val = TRUE
      \/ op.do = "store" /\ op.loc = "gauge" /\ op.val \in GaugeValue
      \/ op.do \in {"lock", "unlock"} /\ op.loc \in Mutexes
  BY DEF WriterOp
<1>3. /\ Applied(v.mem, op) \in Memory
      /\ \A l \in Loc : Applied(v.mem, op)[l] =
           IF l # op.loc THEN v.mem[l]
           ELSE IF op.do = "store" THEN op.val ELSE v.mem[l] + op.val
  <2>1. CASE op.do = "add" /\ op.loc \in Counters \cup Hist /\ op.val \in Nat
    <3>1. Applied(v.mem, op) = [v.mem EXCEPT ![op.loc] = @ + op.val]
      BY <2>1 DEF Applied
    <3> QED
      <4>1. op.loc \in Numbers /\ v.mem[op.loc] + op.val \in Nat
        BY <1>1, <2>1 DEF Memory, Numbers
      <4> QED
        BY <1>1, <2>1, <3>1, <4>1, NumberStored
  <2>2. CASE op.do = "store" /\ op.loc \in {"info", "last_frame"} /\ op.val \in Nat
    <3>1. Applied(v.mem, op) = [v.mem EXCEPT ![op.loc] = op.val]
      BY <2>2 DEF Applied
    <3> QED
      <4>1. op.loc \in Numbers
        BY <2>2 DEF Numbers
      <4> QED
        BY <1>1, <2>2, <3>1, <4>1, NumberStored
  <2>3. CASE op.do = "store" /\ op.loc = "known" /\ op.val = TRUE
    <3>1. Applied(v.mem, op) = [v.mem EXCEPT !["known"] = TRUE]
      BY <2>3 DEF Applied
    <3> QED
      <4> DEFINE e == [v.mem EXCEPT !["known"] = TRUE]
      <4>1. "known" \in Loc /\ "known" \notin Numbers /\ "gauge" \in Loc
        BY DEF Loc, Numbers, Counters, Hist, Buckets
      <4>2. v.mem \in [Loc -> Nat \cup BOOLEAN \cup GaugeValue]
        BY <1>1 DEF Memory
      <4>3. /\ e \in [Loc -> Nat \cup BOOLEAN \cup GaugeValue] /\ e["known"] = TRUE
            /\ \A l \in Loc : l # "known" => e[l] = v.mem[l]
        BY <4>1, <4>2
      <4> HIDE DEF e
      <4>4. \A l \in Numbers : e[l] \in Nat
        BY <1>1, <4>1, <4>3 DEF Memory, Loc
      <4>5. e["known"] \in BOOLEAN /\ e["gauge"] = v.mem["gauge"]
        BY <4>1, <4>3
      <4>6. e \in Memory
        BY <1>1, <4>3, <4>4, <4>5 DEF Memory
      <4> QED
        BY <2>3, <3>1, <4>3, <4>6 DEF e
  <2>4. CASE op.do = "store" /\ op.loc = "gauge" /\ op.val \in GaugeValue
    <3>1. Applied(v.mem, op) = [v.mem EXCEPT !["gauge"] = op.val]
      BY <2>4 DEF Applied
    <3> QED
      BY <1>1, <2>4, <3>1 DEF Memory, Loc, Numbers, Counters, Hist, Buckets
  <2>5. CASE op.do \in {"lock", "unlock"} /\ op.loc \in Mutexes
    <3>1. Applied(v.mem, op) = v.mem
      BY <2>5 DEF Applied
    <3> QED
      BY <1>1, <2>5, <3>1 DEF Loc, Numbers, Counters, Hist, Buckets, Mutexes
  <2> QED
    BY <1>2, <2>1, <2>2, <2>3, <2>4, <2>5
<1>4. /\ Effect(v, op).holds \in [Mutexes -> BOOLEAN]
      /\ \A m \in Mutexes : Effect(v, op).holds[m] =
           IF m # op.loc THEN v.holds[m] ELSE op.do = "lock"
  <2>1. CASE op.do = "lock" /\ op.loc \in Mutexes
    BY <1>1, <2>1 DEF Effect
  <2>2. CASE op.do = "unlock" /\ op.loc \in Mutexes
    BY <1>1, <2>2 DEF Effect
  <2>3. CASE op.do \notin {"lock", "unlock"} /\ op.loc \notin Mutexes
    BY <1>1, <2>3 DEF Effect
  <2> QED
    BY <1>2, <2>1, <2>2, <2>3 DEF Counters, Hist, Buckets, Mutexes
<1>5. /\ Effect(v, op).mem = Applied(v.mem, op)
      /\ Effect(v, op).published =
           IF op = Store("gauge", "Streaming") THEN v.published + 1 ELSE v.published
  BY DEF Effect
<1>6. Effect(v, op).published \in Nat
  BY <1>1, <1>5
<1>7. Effect(v, op) = [mem |-> Effect(v, op).mem, published |-> Effect(v, op).published,
                       holds |-> Effect(v, op).holds]
  BY DEF Effect
<1>8. Effect(v, op) \in View
  BY <1>3, <1>4, <1>5, <1>6, <1>7 DEF View
<1> QED
  BY <1>3, <1>4, <1>5, <1>8

\* Operations on different locations commute.
LEMMA EffectsCommute ==
    ASSUME NEW v \in View, NEW a \in WriterOp, NEW b \in WriterOp, a.loc # b.loc
    PROVE  Effect(Effect(v, a), b) = Effect(Effect(v, b), a)
<1> DEFINE va == Effect(v, a)
           vb == Effect(v, b)
           x == Effect(va, b)
           y == Effect(vb, a)
<1>1. va \in View /\ vb \in View
  BY EffectOf
<1> HIDE DEF va, vb
<1>2. x \in View /\ y \in View
  BY <1>1, EffectOf
<1> HIDE DEF x, y
<1>3. \A l \in Loc : x.mem[l] = y.mem[l]
  <2> TAKE l \in Loc
  <2>1. /\ va.mem[l] = IF l # a.loc THEN v.mem[l]
                       ELSE IF a.do = "store" THEN a.val ELSE v.mem[l] + a.val
        /\ vb.mem[l] = IF l # b.loc THEN v.mem[l]
                       ELSE IF b.do = "store" THEN b.val ELSE v.mem[l] + b.val
    BY EffectOf DEF va, vb
  <2>2. /\ x.mem[l] = IF l # b.loc THEN va.mem[l]
                      ELSE IF b.do = "store" THEN b.val ELSE va.mem[l] + b.val
        /\ y.mem[l] = IF l # a.loc THEN vb.mem[l]
                      ELSE IF a.do = "store" THEN a.val ELSE vb.mem[l] + a.val
    BY <1>1, EffectOf DEF x, y
  <2> QED
    BY <2>1, <2>2
<1>4. x.published = y.published
  <2>1. /\ va.published = IF a = Store("gauge", "Streaming") THEN v.published + 1 ELSE v.published
        /\ vb.published = IF b = Store("gauge", "Streaming") THEN v.published + 1 ELSE v.published
    BY EffectOf DEF va, vb
  <2>2. /\ x.published = IF b = Store("gauge", "Streaming") THEN va.published + 1 ELSE va.published
        /\ y.published = IF a = Store("gauge", "Streaming") THEN vb.published + 1 ELSE vb.published
    BY <1>1, EffectOf DEF x, y
  <2> QED
    BY <2>1, <2>2
<1>5. \A m \in Mutexes : x.holds[m] = y.holds[m]
  <2> TAKE m \in Mutexes
  <2>1. /\ va.holds[m] = IF m # a.loc THEN v.holds[m] ELSE a.do = "lock"
        /\ vb.holds[m] = IF m # b.loc THEN v.holds[m] ELSE b.do = "lock"
    BY EffectOf DEF va, vb
  <2>2. /\ x.holds[m] = IF m # b.loc THEN va.holds[m] ELSE b.do = "lock"
        /\ y.holds[m] = IF m # a.loc THEN vb.holds[m] ELSE a.do = "lock"
    BY <1>1, EffectOf DEF x, y
  <2> QED
    BY <2>1, <2>2
<1>6. x = y
  BY <1>2, <1>3, <1>4, <1>5, ViewsAgree
<1> QED
  BY <1>6 DEF x, y, va, vb

-----------------------------------------------------------------------------
(* An operation that overtakes others. *)

\* The steps of an execution.
LEMMA ExecutionSteps ==
    ASSUME NEW V, NEW ops, Execution(V, ops)
    PROVE  /\ Len(ops) \in Nat /\ DOMAIN ops = 1..Len(ops)
           /\ \A k \in 0..Len(ops) : V[k] \in View /\ Sound(V[k])
           /\ \A k \in 1..Len(ops) :
                /\ k - 1 \in 0..Len(ops) /\ ops[k] \in WriterOp
                /\ V[k - 1] \in View /\ V[k] \in View
                /\ V[k] = Effect(V[k - 1], ops[k]) /\ Proper(V[k - 1], ops[k])
<1>1. Len(ops) \in Nat /\ DOMAIN ops = 1..Len(ops)
  BY DEF Execution
<1>2. \A k \in 0..Len(ops) : V[k] \in View /\ Sound(V[k])
  BY DEF Execution
<1>3. ASSUME NEW k \in 1..Len(ops)
      PROVE  /\ k - 1 \in 0..Len(ops) /\ k \in 0..Len(ops) /\ ops[k] \in WriterOp
             /\ V[k] = Effect(V[k - 1], ops[k]) /\ Proper(V[k - 1], ops[k])
  <2>1. k - 1 \in 0..Len(ops) /\ k \in 0..Len(ops)
    BY <1>1
  <2>2. ops[k] \in WriterOp
    BY <1>1 DEF Execution
  <2> QED
    BY <2>1, <2>2 DEF Execution
<1> QED
  BY <1>1, <1>2, <1>3

\* As long as no lock comes, a mutex that is not held stays so, what it guards
\* does not change, and streams are published and never taken back.
LEMMA QuietWithoutLock ==
    ASSUME NEW V, NEW ops, Execution(V, ops), NEW i \in 1..Len(ops),
           \A k \in 1..(i - 1) : ops[k].do # "lock",
           NEW m \in Mutexes, NEW j \in 0..(i - 1), ~V[j].holds[m]
    PROVE  /\ ~V[i - 1].holds[m]
           /\ \A l \in Guarded[m] : V[i - 1].mem[l] = V[j].mem[l]
           /\ V[i - 1].published >= V[j].published
<1> DEFINE Quiet(k) == /\ ~V[k].holds[m]
                       /\ \A l \in Guarded[m] : V[k].mem[l] = V[j].mem[l]
                       /\ V[k].published >= V[j].published
           Bad == {k \in j..(i - 1) : ~Quiet(k)}
<1>0. Len(ops) \in Nat /\ \A k \in 0..Len(ops) : V[k] \in View
  BY ExecutionSteps
<1>1. V[j].published \in Nat /\ Quiet(j)
  BY <1>0 DEF View
<1>2. ASSUME NEW k \in j..(i - 1), k # j, Quiet(k - 1)
      PROVE  Quiet(k)
  <2>0. k \in 1..Len(ops)
    BY <1>0, <1>2
  <2>1. /\ ops[k] \in WriterOp /\ V[k - 1] \in View
        /\ V[k] = Effect(V[k - 1], ops[k]) /\ Proper(V[k - 1], ops[k])
    BY <2>0, ExecutionSteps
  <2>2. ops[k].do # "lock" /\ ops[k].loc \notin Guarded[m]
    BY <1>2, <2>0, <2>1 DEF Proper
  <2>3. ~V[k].holds[m]
    <3>1. V[k].holds[m] = IF m # ops[k].loc THEN V[k - 1].holds[m] ELSE ops[k].do = "lock"
      BY <2>1, EffectOf
    <3> QED
      BY <1>2, <2>2, <3>1
  <2>4. \A l \in Guarded[m] : V[k].mem[l] = V[k - 1].mem[l]
    <3>1. Guarded[m] \subseteq Loc
      BY DEF Guarded, Loc, Numbers, Mutexes
    <3> QED
      BY <2>1, <2>2, <3>1, EffectOf
  <2>5. V[k - 1].published \in Nat /\ V[k].published >= V[k - 1].published
    BY <2>1, EffectOf DEF View
  <2>6. V[k].published \in Nat
    BY <1>0, <2>0 DEF View
  <2> QED
    BY <1>1, <1>2, <2>3, <2>4, <2>5, <2>6
<1>3. Bad = {}
  <2> SUFFICES ASSUME Bad # {} PROVE FALSE
    OBVIOUS
  <2>1. Bad \in SUBSET Nat
    BY <1>0
  <2>2. PICK k \in Bad : \A n \in Bad : k <= n
    BY <2>1, LeastNatural
  <2>3. k # j /\ k - 1 \in j..(i - 1) /\ k - 1 \notin Bad
    BY <1>0, <1>1, <2>2
  <2> QED
    BY <1>2, <2>2, <2>3
<1>4. i - 1 \in j..(i - 1)
  BY <1>0
<1> QED
  BY <1>3, <1>4

\* An operation that may go first touches only what the thread's mutexes, as
\* they are held now, allow.
LEMMA FirstIsProper ==
    ASSUME NEW V, NEW ops, Execution(V, ops), NEW i \in DOMAIN ops,
           Eligible(ops, i), NEW j \in 0..(i - 1)
    PROVE  Proper(V[j], ops[i])
<1>0. /\ Len(ops) \in Nat /\ i \in 1..Len(ops) /\ Proper(V[i - 1], ops[i])
      /\ V[i - 1] \in View /\ V[j] \in View
  <2>1. Len(ops) \in Nat /\ i \in 1..Len(ops)
    BY ExecutionSteps
  <2>2. j \in 0..Len(ops)
    BY <2>1
  <2> QED
    BY <2>1, <2>2, ExecutionSteps
<1>1. \A k \in 1..(i - 1) : ops[k].do # "lock"
  BY <1>0 DEF Eligible
<1>2. \A m \in Mutexes : ~V[j].holds[m] => 
         /\ ~V[i - 1].holds[m]
         /\ \A l \in Guarded[m] : V[i - 1].mem[l] = V[j].mem[l]
         /\ V[i - 1].published >= V[j].published
  BY <1>0, <1>1, QuietWithoutLock
<1>3. \A m \in Mutexes :
        ops[i] = Unlock(m) \/ ops[i].loc \in Guarded[m] => V[j].holds[m]
  BY <1>0, <1>2 DEF Proper
<1>4. ASSUME ops[i] = Store("gauge", "Streaming"), ~V[j].holds["stream_info_mutex"]
      PROVE  V[j].mem["known"] /\ V[j].mem["info"] > V[j].published
  <2>1. /\ "stream_info_mutex" \in Mutexes
        /\ Guarded["stream_info_mutex"] = {"info", "known"}
    BY DEF Guarded, Mutexes
  <2>2. V[i - 1].mem["known"] /\ V[i - 1].mem["info"] > V[i - 1].published
    BY <1>0, <1>2, <1>4, <2>1 DEF Proper
  <2>3. /\ V[i - 1].mem["known"] = V[j].mem["known"]
        /\ V[i - 1].mem["info"] = V[j].mem["info"]
        /\ V[i - 1].published >= V[j].published
    BY <1>2, <1>4, <2>1
  <2>4. /\ V[j].mem["info"] \in Nat /\ V[j].published \in Nat
        /\ V[i - 1].published \in Nat
    BY <1>0 DEF View, Memory, Numbers
  <2> QED
    BY <2>2, <2>3, <2>4
<1> QED
  BY <1>3, <1>4 DEF Proper

\* What is proper for an operation is so after one from behind that overtakes it.
LEMMA ProperKept ==
    ASSUME NEW v \in View, NEW a \in WriterOp, NEW b \in WriterOp,
           Proper(v, a), Proper(v, b), a.loc # b.loc, a.do # "unlock"
    PROVE  Proper(Effect(v, a), b)
<1> DEFINE e == Effect(v, a)
<1>1. \A m \in Mutexes : v.holds[m] => e.holds[m]
  <2> TAKE m \in Mutexes
  <2>1. e.holds[m] = IF m # a.loc THEN v.holds[m] ELSE a.do = "lock"
    BY EffectOf
  <2>2. m = a.loc => a.do = "lock"
    BY DEF WriterOp, Mutexes, Counters, Hist, Buckets
  <2> QED
    BY <2>1, <2>2
<1>2. \A m \in Mutexes : b = Unlock(m) \/ b.loc \in Guarded[m] => e.holds[m]
  BY <1>1 DEF Proper
<1>3. ASSUME b = Store("gauge", "Streaming"), ~e.holds["stream_info_mutex"]
      PROVE  e.mem["known"] /\ e.mem["info"] > e.published
  <2>1. /\ "stream_info_mutex" \in Mutexes
        /\ Guarded["stream_info_mutex"] = {"info", "known"}
        /\ {"info", "known"} \subseteq Loc
    BY DEF Guarded, Mutexes, Loc, Numbers
  <2>2. ~v.holds["stream_info_mutex"]
    BY <1>1, <1>3, <2>1
  <2>3. a.loc \notin {"info", "known", "gauge"}
    BY <1>3, <2>1, <2>2 DEF Proper, Store, Op
  <2>4. e.mem["known"] = v.mem["known"] /\ e.mem["info"] = v.mem["info"]
    BY <2>1, <2>3, EffectOf
  <2>5. e.published = v.published
    BY <2>3, EffectOf DEF Store, Op
  <2> QED
    BY <1>3, <2>2, <2>4, <2>5 DEF Proper
<1> QED
  BY <1>2, <1>3 DEF Proper

\* A proper operation other than an unlock keeps a view sound.
LEMMA SoundKept ==
    ASSUME NEW v \in View, NEW a \in WriterOp, Sound(v), Proper(v, a),
           a.do # "unlock"
    PROVE  Sound(Effect(v, a))
<1> DEFINE e == Effect(v, a)
<1>0. /\ Mutexes = {"histogram_mutex", "stream_info_mutex"}
      /\ Guarded["histogram_mutex"] = Hist
      /\ Guarded["stream_info_mutex"] = {"info", "known"}
      /\ Hist = {"bucket", "overflow", "sum", "total"}
      /\ Hist \cup {"info", "known", "frames"} \subseteq Loc
  BY DEF Guarded, Mutexes, Loc, Numbers, Hist, Buckets, Counters
<1>1. \A m \in Mutexes : ~e.holds[m] => ~v.holds[m] /\ a.loc \notin Guarded[m]
  <2> TAKE m \in Mutexes
  <2>1. e.holds[m] = IF m # a.loc THEN v.holds[m] ELSE a.do = "lock"
    BY EffectOf
  <2>2. m = a.loc => a.do = "lock"
    BY DEF WriterOp, Mutexes, Counters, Hist, Buckets
  <2> QED
    BY <2>1, <2>2 DEF Proper
<1>2. ASSUME ~e.holds["histogram_mutex"]
      PROVE  Whole(e.mem) /\ (e.mem["total"] > 0 => e.mem["frames"] > e.mem["total"])
  <2>1. ~v.holds["histogram_mutex"] /\ a.loc \notin Hist
    BY <1>0, <1>1, <1>2
  <2>2. \A l \in Hist : e.mem[l] = v.mem[l]
    BY <1>0, <2>1, EffectOf
  <2>3. /\ v.mem["frames"] \in Nat /\ v.mem["total"] \in Nat
        /\ e.mem["frames"] \in Nat
    <3>1. e \in View
      BY EffectOf
    <3> HIDE DEF e
    <3> QED
      BY <3>1 DEF View, Memory, Numbers, Counters, Hist
  <2>4. e.mem["frames"] >= v.mem["frames"]
    <3>1. a.loc = "frames" => a.do = "add" /\ a.val \in Nat
      BY DEF WriterOp, Mutexes
    <3>2. e.mem["frames"] = IF "frames" # a.loc THEN v.mem["frames"]
             ELSE IF a.do = "store" THEN a.val ELSE v.mem["frames"] + a.val
      BY <1>0, EffectOf
    <3> HIDE DEF e
    <3> QED
      BY <2>3, <3>1, <3>2
  <2>5. Whole(v.mem) /\ (v.mem["total"] > 0 => v.mem["frames"] > v.mem["total"])
    BY <2>1 DEF Sound
  <2>6. Whole(e.mem)
    BY <1>0, <2>2, <2>5 DEF Whole
  <2>7. e.mem["total"] = v.mem["total"]
    BY <1>0, <2>2
  <2> HIDE DEF e
  <2> QED
    BY <2>3, <2>4, <2>5, <2>6, <2>7
<1>3. ASSUME ~e.holds["stream_info_mutex"]
      PROVE  e.mem["info"] >= e.published /\ (e.published > 0 => e.mem["known"])
  <2>1. ~v.holds["stream_info_mutex"] /\ a.loc \notin {"info", "known"}
    BY <1>0, <1>1, <1>3
  <2>2. e.mem["info"] = v.mem["info"] /\ e.mem["known"] = v.mem["known"]
    BY <1>0, <2>1, EffectOf
  <2>3. v.mem["info"] \in Nat /\ v.published \in Nat
    BY DEF View, Memory, Numbers
  <2>4. e.published = IF a = Store("gauge", "Streaming") THEN v.published + 1
                      ELSE v.published
    BY EffectOf
  <2>5. a = Store("gauge", "Streaming") => v.mem["known"] /\ v.mem["info"] > v.published
    BY <2>1 DEF Proper
  <2>6. v.mem["info"] >= v.published /\ (v.published > 0 => v.mem["known"])
    BY <2>1 DEF Sound
  <2> HIDE DEF e
  <2>7. CASE a = Store("gauge", "Streaming")
    BY <2>2, <2>3, <2>4, <2>5, <2>7
  <2>8. CASE a # Store("gauge", "Streaming")
    BY <2>2, <2>4, <2>6, <2>8
  <2> QED
    BY <2>7, <2>8
<1> QED
  BY <1>2, <1>3 DEF Sound

\* The heart of the argument: when an operation takes effect before those in
\* front of it, the others still lead through an execution, from the memory it
\* leaves to the same end.
LEMMA Overtaking ==
    ASSUME NEW a, NEW ops, NEW b, Leads(a, ops, b),
           NEW i \in DOMAIN ops, Eligible(ops, i)
    PROVE  /\ a \in View /\ ops[i] \in WriterOp /\ Proper(a, ops[i])
           /\ Leads(Effect(a, ops[i]), RemoveAt(ops, i), b)
<1>1. PICK V : Execution(V, ops) /\ V[0] = a /\ V[Len(ops)] = b
  BY DEF Leads
<1> DEFINE op == ops[i]
           n == Len(ops)
           rest == RemoveAt(ops, i)
           W == [k \in 0..(n - 1) |-> IF k < i THEN Effect(V[k], op) ELSE V[k + 1]]
<1>2. n \in Nat /\ i \in 1..n /\ op \in WriterOp /\ ops \in Seq(WriterOp)
  BY <1>1, ExecutionSteps DEF Execution
<1>3. a \in View /\ Proper(a, op)
  <2>1. 0 \in 0..(i - 1) /\ 0 \in 0..n
    BY <1>2
  <2> QED
    BY <1>1, <2>1, ExecutionSteps, FirstIsProper
<1>4. /\ rest \in Seq(WriterOp) /\ Len(rest) = n - 1
      /\ \A k \in 1..(n - 1) : rest[k] = IF k < i THEN ops[k] ELSE ops[k + 1]
  BY <1>2, RemoveAtProperties
<1> HIDE DEF op, n, rest
<1>5. \A k \in (i - 1)..(n - 1) : W[k] = V[k + 1]
  <2>1. V[i] = Effect(V[i - 1], op)
    BY <1>1, <1>2, ExecutionSteps DEF op, n
  <2> QED
    BY <1>2, <2>1
<1>6. \A k \in 0..(i - 1) : W[k] = Effect(V[k], op)
  BY <1>2
<1> HIDE DEF W
<1>7. W \in [0..(n - 1) -> View]
  <2>1. ASSUME NEW k \in 0..(n - 1)
        PROVE  (IF k < i THEN Effect(V[k], op) ELSE V[k + 1]) \in View
    <3>1. V[k] \in View /\ V[k + 1] \in View
      BY <1>1, <1>2, ExecutionSteps DEF n
    <3> QED
      BY <1>2, <3>1, EffectOf
  <2> QED
    BY <2>1 DEF W
<1>8. ASSUME NEW k \in 1..(n - 1)
      PROVE  Proper(W[k - 1], rest[k]) /\ W[k] = Effect(W[k - 1], rest[k])
  <2>1. CASE k >= i
    <3>1. /\ W[k - 1] = V[k] /\ W[k] = V[k + 1] /\ rest[k] = ops[k + 1]
          /\ k + 1 \in 1..n /\ (k + 1) - 1 = k
      <4>1. /\ k + 1 \in 1..n /\ (k + 1) - 1 = k /\ (k - 1) + 1 = k
            /\ k \in (i - 1)..(n - 1) /\ k - 1 \in (i - 1)..(n - 1)
        BY <1>2, <2>1
      <4>2. rest[k] = ops[k + 1]
        BY <1>4, <2>1
      <4>3. W[k - 1] = V[(k - 1) + 1] /\ W[k] = V[k + 1]
        BY <1>5, <4>1
      <4> QED
        BY <4>1, <4>2, <4>3
    <3>2. /\ V[k + 1] = Effect(V[(k + 1) - 1], ops[k + 1])
          /\ Proper(V[(k + 1) - 1], ops[k + 1])
      BY <1>1, <3>1, ExecutionSteps DEF n
    <3> QED
      BY <3>1, <3>2
  <2>2. CASE k < i
    <3>1. /\ W[k - 1] = Effect(V[k - 1], op) /\ W[k] = Effect(V[k], op)
          /\ rest[k] = ops[k] /\ k \in 1..n /\ k \in 1..(i - 1) /\ k - 1 \in 0..(i - 1)
      <4>1. /\ k \in 1..n /\ k \in 1..(i - 1) /\ k - 1 \in 0..(i - 1) /\ k \in 0..(i - 1)
        BY <1>2, <2>2
      <4>2. rest[k] = ops[k]
        BY <1>4, <2>2
      <4>3. W[k - 1] = Effect(V[k - 1], op) /\ W[k] = Effect(V[k], op)
        BY <1>6, <4>1
      <4> QED
        BY <4>1, <4>2, <4>3
    <3>2. /\ V[k - 1] \in View /\ ops[k] \in WriterOp
          /\ V[k] = Effect(V[k - 1], ops[k]) /\ Proper(V[k - 1], ops[k])
      BY <1>1, <3>1, ExecutionSteps DEF n
    <3>3. Proper(V[k - 1], op)
      BY <1>1, <3>1, FirstIsProper DEF op
    <3>4. op.loc # ops[k].loc /\ op.do # "unlock"
      BY <3>1 DEF Eligible, op
    <3>5. Proper(Effect(V[k - 1], op), ops[k])
      BY <1>2, <3>2, <3>3, <3>4, ProperKept
    <3>6. Effect(Effect(V[k - 1], op), ops[k]) = Effect(Effect(V[k - 1], ops[k]), op)
      BY <1>2, <3>2, <3>4, EffectsCommute
    <3> QED
      BY <3>1, <3>2, <3>5, <3>6
  <2> QED
    BY <1>2, <2>1, <2>2
<1>9. ASSUME NEW k \in 0..(n - 1) PROVE Sound(W[k])
  <2>1. CASE k >= i - 1
    <3>1. W[k] = V[k + 1] /\ k + 1 \in 0..n
      BY <1>2, <1>5, <2>1
    <3> QED
      BY <1>1, <3>1, ExecutionSteps DEF n
  <2>2. CASE k < i - 1
    <3>1. W[k] = Effect(V[k], op) /\ k \in 0..n /\ k \in 0..(i - 1) /\ 1 \in 1..(i - 1)
      BY <1>2, <1>6, <2>2
    <3>2. V[k] \in View /\ Sound(V[k])
      BY <1>1, <3>1, ExecutionSteps DEF n
    <3>3. Proper(V[k], op)
      BY <1>1, <3>1, FirstIsProper DEF op
    <3>4. op.do # "unlock"
      BY <3>1 DEF Eligible, op
    <3> QED
      BY <1>2, <3>1, <3>2, <3>3, <3>4, SoundKept
  <2> QED
    BY <1>2, <2>1, <2>2
<1>10. Execution(W, rest)
  BY <1>4, <1>7, <1>8, <1>9 DEF Execution
<1>11. W[0] = Effect(a, op) /\ W[Len(rest)] = b
  <2>1. W[0] = Effect(V[0], op)
    BY <1>2, <1>6
  <2>2. W[n - 1] = V[(n - 1) + 1] /\ (n - 1) + 1 = n
    BY <1>2, <1>5
  <2> QED
    BY <1>1, <1>4, <2>1, <2>2 DEF n
<1>12. Leads(Effect(a, op), rest, b)
  BY <1>10, <1>11 DEF Leads
<1> QED
  BY <1>2, <1>3, <1>12 DEF op, rest

-----------------------------------------------------------------------------
(* What the steps issue. *)

\* The end of an execution of nothing, of one operation, of two sequences.
LEMMA LeadsNowhere ==
    ASSUME NEW a, NEW b, Leads(a, <<>>, b)
    PROVE  a = b
  BY DEF Leads

LEMMA LeadsOne ==
    ASSUME NEW a \in View, Sound(a), NEW op \in WriterOp, Proper(a, op),
           Sound(Effect(a, op))
    PROVE  Leads(a, <<op>>, Effect(a, op))
<1> DEFINE V == [k \in 0..1 |-> IF k = 0 THEN a ELSE Effect(a, op)]
           ops == <<op>>
<1>1. ops \in Seq(WriterOp) /\ Len(ops) = 1 /\ ops[1] = op
  OBVIOUS
<1>2. Effect(a, op) \in View
  BY EffectOf
<1>3. V[0] = a /\ V[1] = Effect(a, op) /\ V \in [0..1 -> View]
  BY <1>2
<1> HIDE DEF V, ops
<1>4. \A k \in 1..1 : k = 1 /\ k - 1 = 0
  OBVIOUS
<1>5. \A k \in 0..1 : k = 0 \/ k = 1
  OBVIOUS
<1>6. Execution(V, ops)
  BY <1>1, <1>3, <1>4, <1>5 DEF Execution
<1> QED
  BY <1>1, <1>3, <1>6 DEF Leads, ops

LEMMA LeadsOn ==
    ASSUME NEW a, NEW s, NEW b, NEW t, NEW c, Leads(a, s, b), Leads(b, t, c)
    PROVE  Leads(a, s \o t, c)
<1>1. PICK V : Execution(V, s) /\ V[0] = a /\ V[Len(s)] = b
  BY DEF Leads
<1>2. PICK W : Execution(W, t) /\ W[0] = b /\ W[Len(t)] = c
  BY DEF Leads
<1> DEFINE n == Len(s)
           r == Len(t)
           ops == s \o t
           U == [k \in 0..(n + r) |-> IF k <= n THEN V[k] ELSE W[k - n]]
<1>3. n \in Nat /\ r \in Nat /\ s \in Seq(WriterOp) /\ t \in Seq(WriterOp)
  BY <1>1, <1>2 DEF Execution
<1>4. /\ ops \in Seq(WriterOp) /\ Len(ops) = n + r
      /\ \A k \in 1..(n + r) : ops[k] = IF k <= n THEN s[k] ELSE t[k - n]
  BY <1>3
<1>5. /\ \A k \in 0..n : U[k] = V[k]
      /\ \A k \in n..(n + r) : U[k] = W[k - n]
  BY <1>1, <1>2, <1>3
<1> HIDE DEF n, r, ops
<1>6. U \in [0..(n + r) -> View]
  <2>1. ASSUME NEW k \in 0..(n + r)
        PROVE  (IF k <= n THEN V[k] ELSE W[k - n]) \in View
    <3>1. CASE k <= n
      BY <1>1, <1>3, <3>1, ExecutionSteps DEF n
    <3>2. CASE k > n
      <4>1. k - n \in 0..r
        BY <1>3, <3>2
      <4> QED
        BY <1>2, <1>3, <3>2, <4>1, ExecutionSteps DEF r
    <3> QED
      BY <1>3, <3>1, <3>2
  <2> QED
    BY <2>1
<1> HIDE DEF U
<1>7. ASSUME NEW k \in 1..(n + r)
      PROVE  Proper(U[k - 1], ops[k]) /\ U[k] = Effect(U[k - 1], ops[k])
  <2>1. CASE k <= n
    <3>1. k \in 1..n /\ k \in 0..n /\ k - 1 \in 0..n
      BY <1>3, <2>1
    <3>2. U[k - 1] = V[k - 1] /\ U[k] = V[k] /\ ops[k] = s[k]
      BY <1>4, <1>5, <2>1, <3>1
    <3> QED
      BY <1>1, <3>1, <3>2, ExecutionSteps DEF n
  <2>2. CASE k > n
    <3>1. /\ U[k - 1] = W[(k - n) - 1] /\ U[k] = W[k - n] /\ ops[k] = t[k - n]
          /\ k - n \in 1..r
      <4>1. /\ k \in n..(n + r) /\ k - 1 \in n..(n + r) /\ ~(k <= n)
            /\ k - n \in 1..r /\ (k - 1) - n = (k - n) - 1
        BY <1>3, <2>2
      <4>2. U[k] = W[k - n]
        BY <1>5, <4>1
      <4>3. U[k - 1] = W[(k - n) - 1]
        BY <1>5, <4>1
      <4>4. ops[k] = t[k - n]
        BY <1>4, <4>1
      <4> QED
        BY <4>1, <4>2, <4>3, <4>4
    <3> QED
      BY <1>2, <3>1, ExecutionSteps DEF r
  <2> QED
    BY <1>3, <2>1, <2>2
<1>8. ASSUME NEW k \in 0..(n + r) PROVE Sound(U[k])
  <2>1. CASE k <= n
    BY <1>1, <1>3, <1>5, <2>1, ExecutionSteps DEF n
  <2>2. CASE k > n
    <3>1. U[k] = W[k - n] /\ k - n \in 0..r
      BY <1>3, <1>5, <2>2
    <3> QED
      BY <1>2, <3>1, ExecutionSteps DEF r
  <2> QED
    BY <1>3, <2>1, <2>2
<1>9. Execution(U, ops)
  BY <1>4, <1>6, <1>7, <1>8 DEF Execution
<1>10. U[0] = a /\ U[Len(ops)] = c
  <2>1. U[0] = V[0]
    BY <1>3, <1>5
  <2>2. U[n + r] = W[(n + r) - n] /\ (n + r) - n = r
    BY <1>3, <1>5
  <2> QED
    BY <1>1, <1>2, <1>4, <2>1, <2>2 DEF r
<1> QED
  BY <1>9, <1>10 DEF Leads, ops

\* A view between two steps.
Rests(v) == v \in View /\ Sound(v) /\ \A m \in Mutexes : ~v.holds[m]

\* An operation outside every critical section, the announcement of a stream
\* whose format is known among them.
LEMMA PlainOperation ==
    ASSUME NEW a, Rests(a), NEW op \in WriterOp,
           op.loc \notin Mutexes \cup Hist \cup {"info", "known"},
           op = Store("gauge", "Streaming") =>
             a.mem["known"] /\ a.mem["info"] > a.published
    PROVE  /\ Leads(a, <<op>>, Effect(a, op)) /\ Rests(Effect(a, op))
           /\ Effect(a, op).mem = Applied(a.mem, op)
           /\ Effect(a, op).published =
                IF op = Store("gauge", "Streaming") THEN a.published + 1
                ELSE a.published
<1>1. a \in View /\ Sound(a) /\ \A m \in Mutexes : ~a.holds[m]
  BY DEF Rests
<1>2. Proper(a, op)
  <2>1. \A m \in Mutexes : op.loc \notin Guarded[m] /\ op # Unlock(m)
    BY DEF Guarded, Mutexes, Unlock, Op
  <2> QED
    BY <2>1 DEF Proper
<1>3. op.do \notin {"lock", "unlock"}
  BY DEF WriterOp
<1>4. Effect(a, op) \in View /\ Sound(Effect(a, op))
  BY <1>1, <1>2, <1>3, EffectOf, SoundKept
<1>5. \A m \in Mutexes : ~Effect(a, op).holds[m]
  BY <1>1, EffectOf
<1>6. Leads(a, <<op>>, Effect(a, op))
  BY <1>1, <1>2, <1>4, LeadsOne
<1> QED
  BY <1>4, <1>5, <1>6 DEF Rests, Effect

\* The error counter.
LEMMA ErrorIssued ==
    ASSUME NEW a, Rests(a)
    PROVE  \E b : /\ Leads(a, record_error, b) /\ Rests(b)
                  /\ b.mem = [a.mem EXCEPT !["errors"] = @ + 1]
                  /\ b.published = a.published
<1> DEFINE op == FetchAdd("errors", 1)
<1>1. op \in WriterOp /\ op.loc = "errors" /\ op.do = "add" /\ op.val = 1
  BY DEF FetchAdd, Op, WriterOp, Counters
<1>2. op # Store("gauge", "Streaming")
  BY DEF FetchAdd, Store, Op
<1>3. Applied(a.mem, op) = [a.mem EXCEPT !["errors"] = @ + 1]
  BY <1>1 DEF Applied
<1> HIDE DEF op
<1>4. op.loc \notin Mutexes \cup Hist \cup {"info", "known"}
  BY <1>1 DEF Mutexes, Hist, Buckets
<1> QED
  BY <1>1, <1>2, <1>3, <1>4, PlainOperation DEF record_error, op

\* Any other counter, outside the histogram.
LEMMA CountIssued ==
    ASSUME NEW a, Rests(a), NEW l \in Counters
    PROVE  \E b : /\ Leads(a, <<FetchAdd(l, 1)>>, b) /\ Rests(b)
                  /\ b.mem = [a.mem EXCEPT ![l] = @ + 1]
                  /\ b.published = a.published
<1> DEFINE op == FetchAdd(l, 1)
<1>1. op \in WriterOp /\ op.loc = l /\ op.do = "add" /\ op.val = 1
  BY DEF FetchAdd, Op, WriterOp
<1>2. op # Store("gauge", "Streaming")
  BY DEF FetchAdd, Store, Op
<1>3. Applied(a.mem, op) = [a.mem EXCEPT ![l] = @ + 1]
  BY <1>1 DEF Applied
<1> HIDE DEF op
<1>4. op.loc \notin Mutexes \cup Hist \cup {"info", "known"}
  BY <1>1 DEF Counters, Mutexes, Hist, Buckets
<1> QED
  BY <1>1, <1>2, <1>3, <1>4, PlainOperation DEF op

\* The gauge: a state that is not Streaming, and Streaming once the format of
\* the stream is known.
LEMMA GaugeIssued ==
    ASSUME NEW a, Rests(a), NEW s \in GaugeValue,
           s = "Streaming" => a.mem["known"] /\ a.mem["info"] > a.published
    PROVE  \E b : /\ Leads(a, StoreState(s), b) /\ Rests(b)
                  /\ b.mem = [a.mem EXCEPT !["gauge"] = s]
                  /\ b.published = IF s = "Streaming" THEN a.published + 1
                                   ELSE a.published
<1> DEFINE op == Store("gauge", s)
<1>1. op \in WriterOp /\ op.loc = "gauge" /\ op.do = "store" /\ op.val = s
  BY DEF Store, Op, WriterOp
<1>2. (op = Store("gauge", "Streaming")) <=> (s = "Streaming")
  BY DEF Store, Op
<1>3. Applied(a.mem, op) = [a.mem EXCEPT !["gauge"] = s]
  BY <1>1 DEF Applied
<1> HIDE DEF op
<1>4. op.loc \notin Mutexes \cup Hist \cup {"info", "known"}
  BY <1>1 DEF Mutexes, Hist, Buckets
<1> QED
  BY <1>1, <1>2, <1>3, <1>4, PlainOperation DEF StoreState, op

\* The time of the last frame.
LEMMA StampIssued ==
    ASSUME NEW a, Rests(a), NEW n \in Nat
    PROVE  \E b : /\ Leads(a, <<Store("last_frame", n)>>, b) /\ Rests(b)
                  /\ b.mem = [a.mem EXCEPT !["last_frame"] = n]
                  /\ b.published = a.published
<1> DEFINE op == Store("last_frame", n)
<1>1. op \in WriterOp /\ op.loc = "last_frame" /\ op.do = "store" /\ op.val = n
  BY DEF Store, Op, WriterOp
<1>2. op # Store("gauge", "Streaming")
  BY DEF Store, Op
<1>3. Applied(a.mem, op) = [a.mem EXCEPT !["last_frame"] = n]
  BY <1>1 DEF Applied
<1> HIDE DEF op
<1>4. op.loc \notin Mutexes \cup Hist \cup {"info", "known"}
  BY <1>1 DEF Mutexes, Hist, Buckets
<1> QED
  BY <1>1, <1>2, <1>3, <1>4, PlainOperation DEF op

\* An operation inside a critical section, or the lock that opens it.
LEMMA HeldOperation ==
    ASSUME NEW a \in View, Sound(a), NEW op \in WriterOp, NEW m \in Mutexes,
           op = Lock(m) \/ (a.holds[m] /\ op.loc \in Guarded[m]),
           \A k \in Mutexes : k # m => ~a.holds[k]
    PROVE  /\ Leads(a, <<op>>, Effect(a, op))
           /\ Effect(a, op) \in View /\ Sound(Effect(a, op))
           /\ Effect(a, op).holds[m]
           /\ \A k \in Mutexes : k # m => ~Effect(a, op).holds[k]
           /\ Effect(a, op).mem = Applied(a.mem, op)
           /\ Effect(a, op).published = a.published
<1>1. \A k \in Mutexes : op.loc \in Guarded[k] => op # Lock(m) /\ k = m
  BY DEF Guarded, Mutexes, Lock, Op, Hist, Buckets
<1>2. \A k \in Mutexes : op # Unlock(k) /\ op # Store("gauge", "Streaming")
  BY DEF Guarded, Mutexes, Lock, Unlock, Store, Op, Hist, Buckets
<1>3. Proper(a, op)
  BY <1>1, <1>2 DEF Proper
<1>4. op.do # "unlock" /\ (op = Lock(m) => op.do = "lock" /\ op.loc = m)
  <2>1. op.loc \notin Mutexes => op.do # "unlock"
    BY DEF WriterOp
  <2>2. op.loc \in Guarded[m] => op.loc \notin Mutexes
    BY DEF Guarded, Mutexes, Hist, Buckets
  <2> QED
    BY <2>1, <2>2 DEF Lock, Op
<1>5. Effect(a, op) \in View /\ Sound(Effect(a, op))
  BY <1>3, <1>4, EffectOf, SoundKept
<1>6. /\ Effect(a, op).holds[m]
      /\ \A k \in Mutexes : k # m => ~Effect(a, op).holds[k]
  <2>1. \A k \in Mutexes : Effect(a, op).holds[k] =
          IF k # op.loc THEN a.holds[k] ELSE op.do = "lock"
    BY EffectOf
  <2>2. CASE op = Lock(m)
    BY <1>4, <2>1, <2>2
  <2>3. CASE a.holds[m] /\ op.loc \in Guarded[m]
    <3>1. op.loc \notin Mutexes
      BY <2>3 DEF Guarded, Mutexes, Hist, Buckets
    <3> QED
      BY <2>1, <2>3, <3>1
  <2> QED
    BY <2>2, <2>3
<1>7. Leads(a, <<op>>, Effect(a, op))
  BY <1>3, <1>5, LeadsOne
<1> QED
  BY <1>2, <1>5, <1>6, <1>7 DEF Effect

\* The unlock that closes it, once what it guards is in order.
LEMMA Released ==
    ASSUME NEW a \in View, Sound(a), NEW m \in Mutexes, a.holds[m],
           \A k \in Mutexes : k # m => ~a.holds[k],
           m = "histogram_mutex" =>
             Whole(a.mem) /\ (a.mem["total"] > 0 => a.mem["frames"] > a.mem["total"]),
           m = "stream_info_mutex" =>
             a.mem["known"] /\ a.mem["info"] >= a.published
    PROVE  \E b : /\ Leads(a, <<Unlock(m)>>, b) /\ Rests(b)
                  /\ b.mem = a.mem /\ b.published = a.published
<1> DEFINE op == Unlock(m)
           b == Effect(a, op)
<1>1. op \in WriterOp /\ op.do = "unlock" /\ op.loc = m
  BY DEF Unlock, Op, WriterOp
<1>2. Proper(a, op)
  <2>1. \A k \in Mutexes : op.loc \notin Guarded[k] /\ (op = Unlock(k) => k = m)
    BY <1>1 DEF Guarded, Mutexes, Hist, Buckets, Unlock, Op
  <2>2. op # Store("gauge", "Streaming")
    BY DEF Unlock, Store, Op
  <2> QED
    BY <2>1, <2>2 DEF Proper
<1> HIDE DEF op
<1>3. b \in View /\ b.mem = a.mem /\ b.published = a.published
  <2>1. op # Store("gauge", "Streaming")
    BY <1>1 DEF Store, Op
  <2>2. Applied(a.mem, op) = a.mem
    BY <1>1 DEF Applied
  <2> QED
    BY <1>1, <2>1, <2>2, EffectOf DEF Effect
<1>4. \A k \in Mutexes : ~b.holds[k]
  BY <1>1, EffectOf
<1> HIDE DEF b
<1>5. Sound(b)
  BY <1>3 DEF Sound, Mutexes
<1>6. Leads(a, <<op>>, b)
  BY <1>1, <1>2, <1>5, LeadsOne DEF b
<1> QED
  BY <1>3, <1>4, <1>5, <1>6 DEF Rests, op

\* A longer execution, one operation at a time.
LEMMA LeadsTo2 ==
    ASSUME NEW a, NEW b, NEW c, NEW x, NEW y, Leads(a, <<x>>, b), Leads(b, <<y>>, c)
    PROVE  Leads(a, <<x, y>>, c)
<1>1. <<x, y>> = Append(<<x>>, y)
  OBVIOUS
<1>2. \A s \in Seq({x, y}) : Append(s, y) = s \o <<y>>
  OBVIOUS
<1>3. <<x>> \in Seq({x, y})
  OBVIOUS
<1>4. <<x, y>> = <<x>> \o <<y>>
  BY <1>1, <1>2, <1>3
<1> QED
  BY <1>4, LeadsOn

LEMMA LeadsTo3 ==
    ASSUME NEW a, NEW b, NEW c, NEW x, NEW y, NEW z,
           Leads(a, <<x, y>>, b), Leads(b, <<z>>, c)
    PROVE  Leads(a, <<x, y, z>>, c)
<1>1. <<x, y, z>> = <<x, y>> \o <<z>>
  OBVIOUS
<1> QED
  BY <1>1, LeadsOn

LEMMA LeadsTo4 ==
    ASSUME NEW a, NEW b, NEW c, NEW w, NEW x, NEW y, NEW z,
           Leads(a, <<w, x, y>>, b), Leads(b, <<z>>, c)
    PROVE  Leads(a, <<w, x, y, z>>, c)
<1>1. <<w, x, y, z>> = <<w, x, y>> \o <<z>>
  OBVIOUS
<1> QED
  BY <1>1, LeadsOn

LEMMA LeadsTo5 ==
    ASSUME NEW a, NEW b, NEW c, NEW v, NEW w, NEW x, NEW y, NEW z,
           Leads(a, <<v, w, x, y>>, b), Leads(b, <<z>>, c)
    PROVE  Leads(a, <<v, w, x, y, z>>, c)
<1>1. <<v, w, x, y, z>> = <<v, w, x, y>> \o <<z>>
  OBVIOUS
<1> QED
  BY <1>1, LeadsOn

\* observe: its critical section leaves the histogram whole, provided that
\* the frame has been counted.
LEMMA ObserveIssued ==
    ASSUME NEW a, Rests(a), NEW v \in {Short, Long},
           a.mem["frames"] > a.mem["total"] + 1
    PROVE  \E b : /\ Leads(a, observe(v), b) /\ Rests(b)
                  /\ b.published = a.published
                  /\ b.mem["total"] = a.mem["total"] + 1
                  /\ \A l \in Loc \ Hist : b.mem[l] = a.mem[l]
<1> DEFINE h == "histogram_mutex"
           bin == IF v <= Short THEN "bucket" ELSE "overflow"
           b1 == Effect(a, Lock(h))
           b2 == Effect(b1, FetchAdd(bin, 1))
           b3 == Effect(b2, FetchAdd("sum", v))
           b4 == Effect(b3, FetchAdd("total", 1))
<1>0. /\ a \in View /\ Sound(a) /\ \A k \in Mutexes : ~a.holds[k]
      /\ h \in Mutexes /\ Guarded[h] = Hist
      /\ Hist = {"bucket", "overflow", "sum", "total"}
      /\ bin = (IF v = 1 THEN "bucket" ELSE "overflow") /\ v \in {1, 2}
  BY DEF Rests, Mutexes, Guarded, Hist, Buckets, Short, Long
<1>1. /\ Lock(h) \in WriterOp /\ FetchAdd(bin, 1) \in WriterOp
      /\ FetchAdd("sum", v) \in WriterOp /\ FetchAdd("total", 1) \in WriterOp
      /\ FetchAdd(bin, 1).loc \in Hist /\ FetchAdd("sum", v).loc \in Hist
      /\ FetchAdd("total", 1).loc \in Hist
  BY <1>0 DEF WriterOp, Lock, FetchAdd, Op
<1> HIDE DEF bin
<1>2. /\ Leads(a, <<Lock(h)>>, b1) /\ b1 \in View /\ Sound(b1) /\ b1.holds[h]
      /\ \A k \in Mutexes : k # h => ~b1.holds[k]
      /\ b1.mem = Applied(a.mem, Lock(h)) /\ b1.published = a.published
  BY <1>0, <1>1, HeldOperation
<1> HIDE DEF b1
<1>3. /\ Leads(b1, <<FetchAdd(bin, 1)>>, b2) /\ b2 \in View /\ Sound(b2) /\ b2.holds[h]
      /\ \A k \in Mutexes : k # h => ~b2.holds[k]
      /\ b2.mem = Applied(b1.mem, FetchAdd(bin, 1)) /\ b2.published = b1.published
  BY <1>0, <1>1, <1>2, HeldOperation
<1> HIDE DEF b2
<1>4. /\ Leads(b2, <<FetchAdd("sum", v)>>, b3) /\ b3 \in View /\ Sound(b3) /\ b3.holds[h]
      /\ \A k \in Mutexes : k # h => ~b3.holds[k]
      /\ b3.mem = Applied(b2.mem, FetchAdd("sum", v)) /\ b3.published = b2.published
  BY <1>0, <1>1, <1>3, HeldOperation
<1> HIDE DEF b3
<1>5. /\ Leads(b3, <<FetchAdd("total", 1)>>, b4) /\ b4 \in View /\ Sound(b4) /\ b4.holds[h]
      /\ \A k \in Mutexes : k # h => ~b4.holds[k]
      /\ b4.mem = Applied(b3.mem, FetchAdd("total", 1)) /\ b4.published = b3.published
  BY <1>0, <1>1, <1>4, HeldOperation
<1> HIDE DEF b4
<1>6. b4.mem = [[[a.mem EXCEPT ![bin] = @ + 1] EXCEPT !["sum"] = @ + v]
                  EXCEPT !["total"] = @ + 1]
  <2>1. b1.mem = a.mem
    BY <1>2 DEF Applied, Lock, Op
  <2>2. b2.mem = [a.mem EXCEPT ![bin] = @ + 1]
    BY <1>3, <2>1 DEF Applied, FetchAdd, Op
  <2>3. b3.mem = [b2.mem EXCEPT !["sum"] = @ + v]
    BY <1>4 DEF Applied, FetchAdd, Op
  <2>4. b4.mem = [b3.mem EXCEPT !["total"] = @ + 1]
    BY <1>5 DEF Applied, FetchAdd, Op
  <2> QED
    BY <2>2, <2>3, <2>4
<1>7. /\ DOMAIN a.mem = Loc /\ {"bucket", "overflow", "sum", "total", "frames"} \subseteq Loc
      /\ \A l \in {"bucket", "overflow", "sum", "total", "frames"} : a.mem[l] \in Nat
      /\ Whole(a.mem)
  BY <1>0 DEF View, Memory, Loc, Numbers, Counters, Hist, Buckets, Sound
<1>8. /\ b4.mem["total"] = a.mem["total"] + 1 /\ b4.mem["sum"] = a.mem["sum"] + v
      /\ b4.mem["bucket"] = a.mem["bucket"] + (IF v = 1 THEN 1 ELSE 0)
      /\ b4.mem["overflow"] = a.mem["overflow"] + (IF v = 1 THEN 0 ELSE 1)
      /\ \A l \in Loc \ Hist : b4.mem[l] = a.mem[l]
  <2>1. CASE v = 1
    BY <1>0, <1>6, <1>7, <2>1
  <2>2. CASE v = 2
    BY <1>0, <1>6, <1>7, <2>2
  <2> QED
    BY <1>0, <2>1, <2>2
<1>9. Whole(b4.mem)
  BY <1>0, <1>7, <1>8 DEF Whole, Short, Long
<1>10. b4.mem["frames"] = a.mem["frames"]
  BY <1>0, <1>7, <1>8
<1>11. PICK b : /\ Leads(b4, <<Unlock(h)>>, b) /\ Rests(b)
                /\ b.mem = b4.mem /\ b.published = b4.published
  <2>1. h # "stream_info_mutex" /\ b4.mem["frames"] > b4.mem["total"]
    BY <1>8, <1>10
  <2> QED
    BY <1>0, <1>5, <1>9, <2>1, Released
<1>12. Leads(a, <<Lock(h), FetchAdd(bin, 1), FetchAdd("sum", v),
                  FetchAdd("total", 1), Unlock(h)>>, b)
  <2>1. Leads(a, <<Lock(h), FetchAdd(bin, 1)>>, b2)
    BY <1>2, <1>3, LeadsTo2
  <2>2. Leads(a, <<Lock(h), FetchAdd(bin, 1), FetchAdd("sum", v)>>, b3)
    BY <1>4, <2>1, LeadsTo3
  <2>3. Leads(a, <<Lock(h), FetchAdd(bin, 1), FetchAdd("sum", v),
                   FetchAdd("total", 1)>>, b4)
    BY <1>5, <2>2, LeadsTo4
  <2> QED
    BY <1>11, <2>3, LeadsTo5
<1>13. Leads(a, observe(v), b)
  BY <1>12 DEF observe, bin
<1> QED
  BY <1>2, <1>3, <1>4, <1>5, <1>8, <1>11, <1>13

\* set_stream_info: its critical section publishes the format.
LEMMA InfoIssued ==
    ASSUME NEW a, Rests(a), NEW f \in Nat, f >= a.published
    PROVE  \E b : /\ Leads(a, set_stream_info(f), b) /\ Rests(b)
                  /\ b.published = a.published
                  /\ b.mem["info"] = f /\ b.mem["known"] = TRUE
                  /\ \A l \in Loc \ {"info", "known"} : b.mem[l] = a.mem[l]
<1> DEFINE h == "stream_info_mutex"
           b1 == Effect(a, Lock(h))
           b2 == Effect(b1, Store("info", f))
           know == Store("known", TRUE)
           b3 == Effect(b2, know)
<1>0. /\ a \in View /\ Sound(a) /\ \A k \in Mutexes : ~a.holds[k]
      /\ h \in Mutexes /\ Guarded[h] = {"info", "known"}
  BY DEF Rests, Mutexes, Guarded
<1>1. /\ Lock(h) \in WriterOp /\ Store("info", f) \in WriterOp
      /\ know \in WriterOp
      /\ Store("info", f).loc = "info" /\ know.loc = "known"
  BY <1>0 DEF WriterOp, Lock, Store, Op
<1> HIDE DEF know
<1>2. /\ Leads(a, <<Lock(h)>>, b1) /\ b1 \in View /\ Sound(b1) /\ b1.holds[h]
      /\ \A k \in Mutexes : k # h => ~b1.holds[k]
      /\ b1.mem = Applied(a.mem, Lock(h)) /\ b1.published = a.published
  BY <1>0, <1>1, HeldOperation
<1> HIDE DEF b1
<1>3. /\ Leads(b1, <<Store("info", f)>>, b2) /\ b2 \in View /\ Sound(b2) /\ b2.holds[h]
      /\ \A k \in Mutexes : k # h => ~b2.holds[k]
      /\ b2.mem = Applied(b1.mem, Store("info", f)) /\ b2.published = b1.published
  BY <1>0, <1>1, <1>2, HeldOperation
<1> HIDE DEF b2
<1>4. /\ Leads(b2, <<know>>, b3) /\ b3 \in View /\ Sound(b3) /\ b3.holds[h]
      /\ \A k \in Mutexes : k # h => ~b3.holds[k]
      /\ b3.mem = Applied(b2.mem, know) /\ b3.published = b2.published
  BY <1>0, <1>1, <1>3, HeldOperation
<1> HIDE DEF b3
<1>5. b3.mem = [[a.mem EXCEPT !["info"] = f] EXCEPT !["known"] = TRUE]
  <2>1. b1.mem = a.mem
    BY <1>2 DEF Applied, Lock, Op
  <2>2. b2.mem = [a.mem EXCEPT !["info"] = f]
    BY <1>3, <2>1 DEF Applied, Store, Op
  <2>3. b3.mem = [b2.mem EXCEPT !["known"] = TRUE]
    BY <1>4 DEF Applied, Store, Op, know
  <2> QED
    BY <2>2, <2>3
<1>6. /\ b3.mem["info"] = f /\ b3.mem["known"] = TRUE
      /\ \A l \in Loc \ {"info", "known"} : b3.mem[l] = a.mem[l]
  BY <1>0, <1>5 DEF View, Memory, Loc, Numbers
<1>7. PICK b : /\ Leads(b3, <<Unlock(h)>>, b) /\ Rests(b)
               /\ b.mem = b3.mem /\ b.published = b3.published
  BY <1>0, <1>2, <1>3, <1>4, <1>6, Released
<1>8. Leads(a, <<Lock(h), Store("info", f), know, Unlock(h)>>, b)
  <2>1. Leads(a, <<Lock(h), Store("info", f)>>, b2)
    BY <1>2, <1>3, LeadsTo2
  <2>2. Leads(a, <<Lock(h), Store("info", f), know>>, b3)
    BY <1>4, <2>1, LeadsTo3
  <2> QED
    BY <1>7, <2>2, LeadsTo4
<1>9. Leads(a, set_stream_info(f), b)
  BY <1>8 DEF set_stream_info, know
<1>10. b.published = a.published
  BY <1>2, <1>3, <1>4, <1>7
<1>11. /\ b.mem["info"] = f /\ b.mem["known"] = TRUE
       /\ \A l \in Loc \ {"info", "known"} : b.mem[l] = a.mem[l]
  BY <1>6, <1>7
<1> QED
  BY <1>7, <1>9, <1>10, <1>11

\* Nothing at all.
LEMMA NothingIssued ==
    ASSUME NEW a, Rests(a)
    PROVE  Leads(a, <<>>, a)
<1> DEFINE V == [k \in 0..0 |-> a]
           none == <<>>
<1>1. none \in Seq(WriterOp) /\ Len(none) = 0
  OBVIOUS
<1>2. V[0] = a /\ V \in [0..0 -> View] /\ \A k \in 0..0 : V[k] = a
  BY DEF Rests
<1> HIDE DEF V, none
<1>3. 1..0 = {}
  OBVIOUS
<1>4. Execution(V, none)
  BY <1>1, <1>2, <1>3 DEF Execution, Rests
<1> QED
  BY <1>1, <1>2, <1>4 DEF Leads, none

\* The locations of a view between two steps.
LEMMA RestingMemory ==
    ASSUME NEW a, Rests(a)
    PROVE  /\ a.published \in Nat
           /\ DOMAIN a.mem = {"frames", "bytes", "errors", "reconnects", "stalls",
                              "bucket", "overflow", "sum", "total", "last_frame",
                              "info", "known", "gauge"}
           /\ \A l \in Numbers : a.mem[l] \in Nat
           /\ a.mem["known"] \in BOOLEAN
  BY DEF Rests, View, Memory, Loc, Numbers, Counters, Hist, Buckets

\* begin_release_cycle.
LEMMA ReleaseIssued ==
    ASSUME NEW a, Rests(a)
    PROVE  \E b : /\ Leads(a, begin_release_cycle, b) /\ Rests(b)
                  /\ b.published = a.published
                  /\ b.mem["stalls"] = a.mem["stalls"] + 1
                  /\ b.mem["errors"] = a.mem["errors"] + 1
                  /\ b.mem["gauge"] = "AwaitingProducer"
                  /\ \A l \in Loc \ {"stalls", "errors", "gauge"} : b.mem[l] = a.mem[l]
<1>1. PICK b1 : /\ Leads(a, <<FetchAdd("stalls", 1)>>, b1) /\ Rests(b1)
                /\ b1.mem = [a.mem EXCEPT !["stalls"] = @ + 1]
                /\ b1.published = a.published
  BY CountIssued DEF Counters
<1>2. PICK b2 : /\ Leads(b1, record_error, b2) /\ Rests(b2)
                /\ b2.mem = [b1.mem EXCEPT !["errors"] = @ + 1]
                /\ b2.published = b1.published
  BY <1>1, ErrorIssued
<1>3. PICK b3 : /\ Leads(b2, StoreState("Stalled"), b3) /\ Rests(b3)
                /\ b3.mem = [b2.mem EXCEPT !["gauge"] = "Stalled"]
                /\ b3.published = b2.published
  BY <1>2, GaugeIssued DEF GaugeValue
<1>4. PICK b4 : /\ Leads(b3, StoreState("AwaitingProducer"), b4) /\ Rests(b4)
                /\ b4.mem = [b3.mem EXCEPT !["gauge"] = "AwaitingProducer"]
                /\ b4.published = b3.published
  BY <1>3, GaugeIssued DEF GaugeValue
<1>5. Leads(a, begin_release_cycle, b4)
  BY <1>1, <1>2, <1>3, <1>4, LeadsOn DEF begin_release_cycle
<1>6. DOMAIN a.mem = Loc /\ {"stalls", "errors", "gauge"} \subseteq Loc
  BY DEF Rests, View, Memory, Loc, Numbers, Counters
<1>7. /\ b4.mem["stalls"] = a.mem["stalls"] + 1
      /\ b4.mem["errors"] = a.mem["errors"] + 1
      /\ b4.mem["gauge"] = "AwaitingProducer"
      /\ \A l \in Loc \ {"stalls", "errors", "gauge"} : b4.mem[l] = a.mem[l]
  BY <1>1, <1>2, <1>3, <1>4, <1>6
<1> QED
  BY <1>1, <1>2, <1>3, <1>4, <1>5, <1>7

\* A frame, with what may come with it.
FrameStores(n, observed, v, excursion, mismatch) ==
    handle_frame(n, IF observed THEN observe(v) ELSE <<>>)
      \o (IF excursion = 1 THEN record_error ELSE <<>>)
      \o (IF mismatch = 1 THEN begin_release_cycle ELSE <<>>)

\* What it leaves.
FrameCounted(a, b, n, observed, excursion, mismatch) ==
    /\ b.published = a.published
    /\ b.mem["frames"] = a.mem["frames"] + 1 /\ b.mem["bytes"] = a.mem["bytes"] + 1
    /\ b.mem["last_frame"] = n
    /\ b.mem["total"] = a.mem["total"] + (IF observed THEN 1 ELSE 0)
    /\ b.mem["stalls"] = a.mem["stalls"] + mismatch
    /\ b.mem["errors"] = a.mem["errors"] + excursion + mismatch
    /\ b.mem["gauge"] = IF mismatch = 1 THEN "AwaitingProducer" ELSE a.mem["gauge"]
    /\ \A l \in {"reconnects", "info", "known"} : b.mem[l] = a.mem[l]

LEMMA FrameIssued ==
    ASSUME NEW a, Rests(a), NEW n \in Nat, NEW observed \in BOOLEAN,
           NEW v \in {Short, Long}, NEW excursion \in 0..1, NEW mismatch \in 0..1,
           observed => a.mem["frames"] > a.mem["total"]
    PROVE  \E b : /\ Leads(a, FrameStores(n, observed, v, excursion, mismatch), b)
                  /\ Rests(b) /\ FrameCounted(a, b, n, observed, excursion, mismatch)
<1> DEFINE head == <<FetchAdd("frames", 1), FetchAdd("bytes", 1), Store("last_frame", n)>>
           interval == IF observed THEN observe(v) ELSE <<>>
           error == IF excursion = 1 THEN record_error ELSE <<>>
           release == IF mismatch = 1 THEN begin_release_cycle ELSE <<>>
<1>0. /\ {"frames", "bytes", "errors", "stalls", "reconnects", "last_frame", "info",
          "known", "gauge"} \subseteq Loc \ Hist
      /\ {"frames", "bytes", "errors", "stalls", "total"} \subseteq Numbers
  BY DEF Loc, Numbers, Counters, Hist, Buckets
<1>1. PICK b1 : /\ Leads(a, <<FetchAdd("frames", 1)>>, b1) /\ Rests(b1)
                /\ b1.mem = [a.mem EXCEPT !["frames"] = @ + 1]
                /\ b1.published = a.published
  BY CountIssued DEF Counters
<1>2. PICK b2 : /\ Leads(b1, <<FetchAdd("bytes", 1)>>, b2) /\ Rests(b2)
                /\ b2.mem = [b1.mem EXCEPT !["bytes"] = @ + 1]
                /\ b2.published = b1.published
  BY <1>1, CountIssued DEF Counters
<1>3. PICK b3 : /\ Leads(b2, <<Store("last_frame", n)>>, b3) /\ Rests(b3)
                /\ b3.mem = [b2.mem EXCEPT !["last_frame"] = n]
                /\ b3.published = b2.published
  BY <1>2, StampIssued
<1>4. Leads(a, head, b3)
  BY <1>1, <1>2, <1>3, LeadsTo2, LeadsTo3
<1>5. /\ b3.mem["frames"] = a.mem["frames"] + 1 /\ b3.mem["bytes"] = a.mem["bytes"] + 1
      /\ b3.mem["last_frame"] = n
      /\ \A l \in {"total", "stalls", "errors", "gauge", "reconnects", "info", "known"} :
           b3.mem[l] = a.mem[l]
  BY <1>1, <1>2, <1>3, RestingMemory
<1>6. PICK b4 : /\ Leads(b3, interval, b4) /\ Rests(b4) /\ b4.published = b3.published
                /\ b4.mem["total"] = b3.mem["total"] + (IF observed THEN 1 ELSE 0)
                /\ \A l \in Loc \ Hist : b4.mem[l] = b3.mem[l]
  <2>0. a.mem["frames"] \in Nat /\ a.mem["total"] \in Nat /\ b3.mem["total"] \in Nat
    BY <1>0, <1>3, RestingMemory
  <2>1. CASE observed
    <3>1. b3.mem["frames"] > b3.mem["total"] + 1
      BY <1>5, <2>0, <2>1
    <3>2. interval = observe(v) /\ (IF observed THEN 1 ELSE 0) = 1
      BY <2>1
    <3>3. PICK b : /\ Leads(b3, observe(v), b) /\ Rests(b)
                   /\ b.published = b3.published
                   /\ b.mem["total"] = b3.mem["total"] + 1
                   /\ \A l \in Loc \ Hist : b.mem[l] = b3.mem[l]
      BY <1>3, <3>1, ObserveIssued
    <3> HIDE DEF interval
    <3> QED
      BY <3>2, <3>3
  <2>2. CASE ~observed
    <3>1. interval = <<>> /\ b3.mem["total"] + (IF observed THEN 1 ELSE 0) = b3.mem["total"]
      BY <2>0, <2>2
    <3>2. Leads(b3, <<>>, b3)
      BY <1>3, NothingIssued
    <3> HIDE DEF interval
    <3> QED
      BY <1>3, <3>1, <3>2
  <2> QED
    BY <2>1, <2>2
<1>7. PICK b5 : /\ Leads(b4, error, b5) /\ Rests(b5) /\ b5.published = b4.published
                /\ b5.mem["errors"] = b4.mem["errors"] + excursion
                /\ \A l \in Loc \ {"errors"} : b5.mem[l] = b4.mem[l]
  <2>0. /\ b4.mem["errors"] \in Nat /\ DOMAIN b4.mem = Loc /\ "errors" \in Loc
    BY <1>0, <1>6, RestingMemory DEF Loc, Numbers, Counters, Hist, Buckets
  <2>1. CASE excursion = 1
    <3>1. PICK b : /\ Leads(b4, record_error, b) /\ Rests(b)
                   /\ b.mem = [b4.mem EXCEPT !["errors"] = @ + 1]
                   /\ b.published = b4.published
      BY <1>6, ErrorIssued
    <3> QED
      BY <2>0, <2>1, <3>1
  <2>2. CASE excursion = 0
    <3>1. Leads(b4, <<>>, b4)
      BY <1>6, NothingIssued
    <3> QED
      BY <1>6, <2>0, <2>2, <3>1
  <2> QED
    BY <2>1, <2>2
<1>8. PICK b6 : /\ Leads(b5, release, b6) /\ Rests(b6) /\ b6.published = b5.published
                /\ b6.mem["stalls"] = b5.mem["stalls"] + mismatch
                /\ b6.mem["errors"] = b5.mem["errors"] + mismatch
                /\ b6.mem["gauge"] = IF mismatch = 1 THEN "AwaitingProducer"
                                     ELSE b5.mem["gauge"]
                /\ \A l \in Loc \ {"stalls", "errors", "gauge"} : b6.mem[l] = b5.mem[l]
  <2>0. b5.mem["errors"] \in Nat /\ b5.mem["stalls"] \in Nat
    BY <1>0, <1>7, RestingMemory
  <2>1. CASE mismatch = 1
    BY <1>7, <2>1, ReleaseIssued
  <2>2. CASE mismatch = 0
    BY <1>7, <2>0, <2>2, NothingIssued
  <2> QED
    BY <2>1, <2>2
<1>9. FrameStores(n, observed, v, excursion, mismatch)
        = ((head \o interval) \o error) \o release
  BY DEF FrameStores, handle_frame
<1> HIDE DEF head, interval, error, release
<1>10. Leads(a, FrameStores(n, observed, v, excursion, mismatch), b6)
  <2>1. Leads(a, head \o interval, b4)
    BY <1>4, <1>6, LeadsOn
  <2>2. Leads(a, (head \o interval) \o error, b5)
    BY <1>7, <2>1, LeadsOn
  <2> QED
    BY <1>8, <1>9, <2>2, LeadsOn
<1>11. \A l \in {"frames", "bytes", "last_frame", "reconnects", "info", "known"} :
         b6.mem[l] = b3.mem[l]
  BY <1>0, <1>6, <1>7, <1>8
<1>12. "total" \in Loc /\ b6.mem["total"] = b4.mem["total"]
  BY <1>0, <1>7, <1>8 DEF Loc, Numbers
<1>13. /\ b6.mem["stalls"] = a.mem["stalls"] + mismatch
       /\ b6.mem["errors"] = a.mem["errors"] + excursion + mismatch
       /\ b6.mem["gauge"] = IF mismatch = 1 THEN "AwaitingProducer" ELSE a.mem["gauge"]
  BY <1>0, <1>5, <1>6, <1>7, <1>8
<1>14. FrameCounted(a, b6, n, observed, excursion, mismatch)
  BY <1>1, <1>2, <1>3, <1>5, <1>6, <1>7, <1>8, <1>11, <1>12, <1>13 DEF FrameCounted
<1> QED
  BY <1>8, <1>10, <1>14

-----------------------------------------------------------------------------
(* The invariant of the capture thread. *)

Done == {"frames", "streams", "delivering", "stalls", "reconnects", "failures",
         "errors"}

\* The history is counted in naturals, and every stream that has delivered has
\* delivered a first frame.
TallyInv ==
    /\ phase \in DOMAIN GaugeOf /\ delivered \in BOOLEAN
    /\ tally \in [Done -> Nat]
    /\ tally.delivering <= tally.frames
    /\ tally.frames > 0 => tally.delivering > 0
    /\ delivered => tally.frames > 0

\* The view in which nothing is left to take effect: what the steps did.
Exact(v) ==
    /\ Rests(v) /\ v.published = tally.streams
    /\ v.mem["gauge"] = GaugeOf[phase]
    /\ v.mem["frames"] = tally.frames /\ v.mem["bytes"] = tally.frames
    /\ v.mem["last_frame"] = tally.frames
    /\ v.mem["total"] = tally.frames - tally.delivering
    /\ v.mem["stalls"] = tally.stalls /\ v.mem["reconnects"] = tally.reconnects
    /\ v.mem["errors"] = tally.errors
    /\ v.mem["info"] = tally.streams /\ v.mem["known"] = (tally.streams > 0)

\* The view of the memory as it is.
Present == [mem |-> mem, published |-> published,
            holds |-> [m \in Mutexes |-> held[m] = "capture"]]

\* The operations in flight lead from the one to the other.
WriterInv == TallyInv /\ \E v : Leads(Present, writer, v) /\ Exact(v)

\* The history with what a step did.
Counted(did) ==
    [k \in Done |-> IF k \in DOMAIN did THEN tally[k] + did[k] ELSE tally[k]]

\* What a step adds to the history and to the operations in flight.
LEMMA StepIssues ==
    ASSUME NEW stores, NEW p \in DOMAIN GaugeOf, NEW did, Step(stores, p, did),
           TallyInv, NEW v, Leads(Present, writer, v), NEW b, Leads(v, stores, b)
    PROVE  /\ Leads(Present', writer', b)
           /\ phase' = p /\ delivered' \in BOOLEAN
           /\ delivered' => delivered \/ "frames" \in DOMAIN did
           /\ tally' = Counted(did)
<1>1. writer' = writer \o stores /\ phase' = p
  BY DEF Step
<1>2. Present' = Present
  BY DEF Step, Present
<1>3. DOMAIN tally = Done
  BY DEF TallyInv
<1>4. delivered' \in BOOLEAN /\ (delivered' => delivered \/ "frames" \in DOMAIN did)
  BY DEF Step
<1>5. Leads(Present, writer \o stores, b)
  BY LeadsOn
<1>6. tally' = Counted(did)
  BY <1>3 DEF Step, Counted
<1> QED
  BY <1>1, <1>2, <1>4, <1>5, <1>6

LEMMA DeviceFoundKeeps ==
    ASSUME DeviceFound, WriterInv
    PROVE  WriterInv'
<1>1. PICK v : Leads(Present, writer, v) /\ Exact(v)
  BY DEF WriterInv
<1>2. PICK b : /\ Leads(v, StoreState("AwaitingProducer"), b) /\ Rests(b)
               /\ b.mem = [v.mem EXCEPT !["gauge"] = "AwaitingProducer"]
               /\ b.published = v.published
  <2>1. Rests(v) /\ "AwaitingProducer" \in GaugeValue
    BY <1>1 DEF GaugeValue, Exact
  <2> QED
    BY <2>1, GaugeIssued
<1>3. /\ Leads(Present', writer', b) /\ phase' = "Waiting" /\ delivered' \in BOOLEAN
      /\ delivered' => delivered
      /\ tally' = [k \in Done |-> tally[k]]
  <2> DEFINE p == "Waiting"
             did == <<>>
  <2>1. p \in DOMAIN GaugeOf /\ DOMAIN did = {}
    BY DEF GaugeOf
  <2>2. Step(StoreState("AwaitingProducer"), p, did) /\ TallyInv
    BY DEF DeviceFound, WriterInv
  <2> HIDE DEF p, did
  <2>3. /\ Leads(Present', writer', b) /\ phase' = p /\ delivered' \in BOOLEAN
        /\ delivered' => delivered \/ "frames" \in DOMAIN did
        /\ tally' = Counted(did)
    BY <1>1, <1>2, <2>1, <2>2, StepIssues
  <2> QED
    BY <2>1, <2>3 DEF p, Counted
<1>4. tally' = tally
  BY <1>3 DEF WriterInv, TallyInv
<1>5. TallyInv'
  BY <1>3, <1>4 DEF WriterInv, TallyInv, GaugeOf
<1>6. Exact(b)'
  BY <1>1, <1>2, <1>3, <1>4, RestingMemory DEF Exact, GaugeOf
<1> QED
  BY <1>3, <1>5, <1>6 DEF WriterInv

\* A step that records failures leaves the streams and the frames alone.
LEMMA FailureKeeps ==
    ASSUME NEW stores, WriterInv,
           Step(stores, phase, [failures |-> 1, errors |-> 1]),
           NEW v, Leads(Present, writer, v), Exact(v), NEW b, Leads(v, stores, b),
           Rests(b), b.published = v.published,
           b.mem["errors"] = v.mem["errors"] + 1,
           \A l \in Loc \ {"errors"} : b.mem[l] = v.mem[l]
    PROVE  WriterInv'
<1> DEFINE did == [failures |-> 1, errors |-> 1]
<1>1. DOMAIN did = {"failures", "errors"} /\ did["failures"] = 1 /\ did["errors"] = 1
  OBVIOUS
<1>2. phase \in DOMAIN GaugeOf /\ TallyInv /\ Step(stores, phase, did)
  BY DEF WriterInv, TallyInv
<1> HIDE DEF did
<1>3. /\ Leads(Present', writer', b) /\ phase' = phase /\ delivered' \in BOOLEAN
      /\ delivered' => delivered \/ "frames" \in DOMAIN did
      /\ tally' = Counted(did)
  BY <1>2, StepIssues
<1>4. /\ tally' \in [Done -> Nat] /\ tally'["errors"] = tally["errors"] + 1
      /\ \A k \in Done \ {"errors", "failures"} : tally'[k] = tally[k]
  BY <1>1, <1>2, <1>3 DEF TallyInv, Done, Counted
<1>5. TallyInv'
  BY <1>1, <1>2, <1>3, <1>4 DEF TallyInv, Done
<1>6. Exact(b)'
  BY <1>3, <1>4 DEF Exact, Done, Loc, Numbers, Counters, Hist
<1> QED
  BY <1>3, <1>5, <1>6 DEF WriterInv

LEMMA AttemptFailsKeeps ==
    ASSUME AttemptFails, WriterInv
    PROVE  WriterInv'
<1>1. PICK v : Leads(Present, writer, v) /\ Exact(v)
  BY DEF WriterInv
<1>2. Rests(v) /\ DOMAIN v.mem = Loc /\ "errors" \in Loc /\ "gauge" \in Loc
  BY <1>1 DEF Exact, Rests, View, Memory, Loc, Numbers, Counters
<1>3. CASE Step(record_error, phase, [failures |-> 1, errors |-> 1])
  <2>1. PICK b : /\ Leads(v, record_error, b) /\ Rests(b)
                 /\ b.mem = [v.mem EXCEPT !["errors"] = @ + 1]
                 /\ b.published = v.published
    BY <1>2, ErrorIssued
  <2>2. /\ b.mem["errors"] = v.mem["errors"] + 1
        /\ \A l \in Loc \ {"errors"} : b.mem[l] = v.mem[l]
    BY <1>2, <2>1
  <2> QED
    BY <1>1, <1>3, <2>1, <2>2, FailureKeeps
<1>4. CASE /\ phase \in {"Waiting", "Released"}
           /\ Step(ConfigureFailed, phase, [failures |-> 1, errors |-> 1])
  <2>1. PICK b1 : /\ Leads(v, StoreState("Configuring"), b1) /\ Rests(b1)
                  /\ b1.mem = [v.mem EXCEPT !["gauge"] = "Configuring"]
                  /\ b1.published = v.published
    BY <1>2, GaugeIssued DEF GaugeValue
  <2>2. PICK b2 : /\ Leads(b1, record_error, b2) /\ Rests(b2)
                  /\ b2.mem = [b1.mem EXCEPT !["errors"] = @ + 1]
                  /\ b2.published = b1.published
    BY <2>1, ErrorIssued
  <2>3. PICK b : /\ Leads(b2, StoreState("AwaitingProducer"), b) /\ Rests(b)
                 /\ b.mem = [b2.mem EXCEPT !["gauge"] = "AwaitingProducer"]
                 /\ b.published = b2.published
    BY <2>2, GaugeIssued DEF GaugeValue
  <2>4. Leads(v, ConfigureFailed, b)
    BY <2>1, <2>2, <2>3, LeadsOn DEF ConfigureFailed
  <2>5. v.mem["gauge"] = "AwaitingProducer"
    BY <1>1, <1>4 DEF Exact, GaugeOf
  <2>6. /\ b.mem["errors"] = v.mem["errors"] + 1
        /\ \A l \in Loc \ {"errors"} : b.mem[l] = v.mem[l]
    BY <1>2, <2>1, <2>2, <2>3, <2>5
  <2>7. b.published = v.published
    BY <2>1, <2>2, <2>3
  <2> QED
    BY <1>1, <1>4, <2>3, <2>4, <2>6, <2>7, FailureKeeps
<1> QED
  BY <1>3, <1>4 DEF AttemptFails

LEMMA StreamStallsKeeps ==
    ASSUME StreamStalls, WriterInv
    PROVE  WriterInv'
<1> DEFINE stores == begin_release_cycle
           p == "Released"
           did == [stalls |-> 1, errors |-> 1]
<1>1. DOMAIN did = {"stalls", "errors"} /\ did["stalls"] = 1 /\ did["errors"] = 1
  OBVIOUS
<1>2. /\ p \in DOMAIN GaugeOf /\ TallyInv
      /\ Step(stores, p, did)
  BY DEF WriterInv, StreamStalls, GaugeOf
<1> HIDE DEF stores, p, did
<1>3. PICK v : Leads(Present, writer, v) /\ Exact(v)
  BY DEF WriterInv
<1>4. PICK b : /\ Leads(v, stores, b) /\ Rests(b)
               /\ b.published = v.published
               /\ b.mem["stalls"] = v.mem["stalls"] + 1
               /\ b.mem["errors"] = v.mem["errors"] + 1
               /\ b.mem["gauge"] = "AwaitingProducer"
               /\ \A l \in Loc \ {"stalls", "errors", "gauge"} : b.mem[l] = v.mem[l]
  BY <1>3, ReleaseIssued DEF Exact, stores
<1>5. /\ Leads(Present', writer', b) /\ phase' = p /\ delivered' \in BOOLEAN
      /\ delivered' => delivered \/ "frames" \in DOMAIN did
      /\ tally' = Counted(did)
  <2>1. Leads(Present, writer, v) /\ Leads(v, stores, b)
    BY <1>3, <1>4
  <2>2. p \in DOMAIN GaugeOf /\ TallyInv /\ Step(stores, p, did)
    BY <1>2
  <2> QED
    BY <2>1, <2>2, StepIssues
<1>6. /\ tally' \in [Done -> Nat] /\ tally'["errors"] = tally["errors"] + 1
      /\ tally'["stalls"] = tally["stalls"] + 1
      /\ \A k \in Done \ {"errors", "stalls"} : tally'[k] = tally[k]
  BY <1>1, <1>2, <1>5 DEF TallyInv, Done, Counted
<1>7. TallyInv'
  BY <1>1, <1>2, <1>5, <1>6 DEF TallyInv, Done
<1>8. Exact(b)'
  BY <1>3, <1>4, <1>5, <1>6 DEF Exact, Done, Loc, Numbers, Counters, Hist, GaugeOf, p
<1> QED
  BY <1>5, <1>7, <1>8 DEF WriterInv

LEMMA DeviceLostKeeps ==
    ASSUME DeviceLost, WriterInv
    PROVE  WriterInv'
<1> DEFINE p == "Absent"
           did == [errors |-> 1]
<1>1. DOMAIN did = {"errors"} /\ did["errors"] = 1
  OBVIOUS
<1>2. /\ p \in DOMAIN GaugeOf /\ TallyInv /\ Step(lose_device, p, did)
  BY DEF WriterInv, DeviceLost, GaugeOf
<1> HIDE DEF p, did
<1>3. PICK v : Leads(Present, writer, v) /\ Exact(v)
  BY DEF WriterInv
<1>4. Rests(v) /\ DOMAIN v.mem = Loc /\ "errors" \in Loc /\ "gauge" \in Loc
  BY <1>3 DEF Exact, Rests, View, Memory, Loc, Numbers, Counters
<1>5. PICK b1 : /\ Leads(v, record_error, b1) /\ Rests(b1)
                /\ b1.mem = [v.mem EXCEPT !["errors"] = @ + 1]
                /\ b1.published = v.published
  BY <1>4, ErrorIssued
<1>6. PICK b : /\ Leads(b1, StoreState("DeviceAbsent"), b) /\ Rests(b)
               /\ b.mem = [b1.mem EXCEPT !["gauge"] = "DeviceAbsent"]
               /\ b.published = b1.published
  BY <1>5, GaugeIssued DEF GaugeValue
<1>7. Leads(v, lose_device, b)
  BY <1>5, <1>6, LeadsOn DEF lose_device
<1>8. /\ b.mem["errors"] = v.mem["errors"] + 1 /\ b.mem["gauge"] = "DeviceAbsent"
      /\ \A l \in Loc \ {"errors", "gauge"} : b.mem[l] = v.mem[l]
      /\ b.published = v.published
  BY <1>4, <1>5, <1>6
<1>9. /\ Leads(Present', writer', b) /\ phase' = p /\ delivered' \in BOOLEAN
      /\ delivered' => delivered \/ "frames" \in DOMAIN did
      /\ tally' = Counted(did)
  BY <1>2, <1>3, <1>7, StepIssues
<1>10. /\ tally' \in [Done -> Nat] /\ tally'["errors"] = tally["errors"] + 1
       /\ \A k \in Done \ {"errors"} : tally'[k] = tally[k]
  BY <1>1, <1>2, <1>9 DEF TallyInv, Done, Counted
<1>11. TallyInv'
  BY <1>1, <1>2, <1>9, <1>10 DEF TallyInv, Done
<1>12. Exact(b)'
  BY <1>3, <1>6, <1>8, <1>9, <1>10 DEF Exact, Done, Loc, Numbers, Counters, Hist, GaugeOf, p
<1> QED
  BY <1>9, <1>11, <1>12 DEF WriterInv

LEMMA StreamStartsKeeps ==
    ASSUME StreamStarts, WriterInv
    PROVE  WriterInv'
<1> DEFINE again == IF phase = "Waiting" /\ tally.streams > 0 THEN 1 ELSE 0
           more == [i \in 1..again |-> FetchAdd("reconnects", 1)]
           f == tally.streams + 1
           stores == Configured(f) \o more
           p == "Live"
           did == [streams |-> 1, reconnects |-> again]
<1>1. /\ DOMAIN did = {"streams", "reconnects"} /\ did["streams"] = 1
      /\ did["reconnects"] = again /\ again \in 0..1
  OBVIOUS
<1>2. /\ p \in DOMAIN GaugeOf /\ TallyInv /\ Step(stores, p, did)
      /\ f \in Nat /\ tally.streams \in Nat /\ f = tally.streams + 1
  BY DEF WriterInv, StreamStarts, GaugeOf, TallyInv, Done
<1>3. (again = 0 => more = <<>>) /\ (again = 1 => more = <<FetchAdd("reconnects", 1)>>)
  OBVIOUS
<1> HIDE DEF again, more, f, p, did
<1>4. PICK v : Leads(Present, writer, v) /\ Exact(v)
  BY DEF WriterInv
<1>5. /\ Rests(v) /\ DOMAIN v.mem = Loc /\ v.published = tally.streams
      /\ {"gauge", "info", "known", "reconnects"} \subseteq Loc
  BY <1>4 DEF Exact, Rests, View, Memory, Loc, Numbers, Counters
<1>6. PICK b1 : /\ Leads(v, StoreState("Configuring"), b1) /\ Rests(b1)
                /\ b1.mem = [v.mem EXCEPT !["gauge"] = "Configuring"]
                /\ b1.published = v.published
  BY <1>5, GaugeIssued DEF GaugeValue
<1>7. PICK b2 : /\ Leads(b1, set_stream_info(f), b2) /\ Rests(b2)
                /\ b2.published = b1.published
                /\ b2.mem["info"] = f /\ b2.mem["known"] = TRUE
                /\ \A l \in Loc \ {"info", "known"} : b2.mem[l] = b1.mem[l]
  <2>1. f >= b1.published
    BY <1>2, <1>5, <1>6
  <2>2. Rests(b1) /\ f \in Nat
    BY <1>2, <1>6
  <2> QED
    BY <2>1, <2>2, InfoIssued
<1>8. b2.mem["info"] = f /\ b2.mem["known"] /\ DOMAIN b2.mem = Loc
  BY <1>7 DEF Rests, View, Memory
<1>9. PICK b3 : /\ Leads(b2, StoreState("Streaming"), b3) /\ Rests(b3)
                /\ b3.mem = [b2.mem EXCEPT !["gauge"] = "Streaming"]
                /\ b3.published = b2.published + 1
  <2>1. b2.mem["info"] > b2.published
    BY <1>2, <1>5, <1>6, <1>7, <1>8
  <2> DEFINE g == "Streaming"
  <2>2. g \in GaugeValue
    BY DEF GaugeValue
  <2> HIDE DEF g
  <2>3. PICK b3 : /\ Leads(b2, StoreState(g), b3) /\ Rests(b3)
                  /\ b3.mem = [b2.mem EXCEPT !["gauge"] = g]
                  /\ b3.published = IF g = "Streaming" THEN b2.published + 1
                                    ELSE b2.published
    BY <1>7, <1>8, <2>1, <2>2, GaugeIssued
  <2> QED
    BY <2>3 DEF g
<1>10. Leads(v, Configured(f), b3)
  <2>1. Leads(v, StoreState("Configuring") \o set_stream_info(f), b2)
    BY <1>6, <1>7, LeadsOn
  <2> QED
    BY <1>9, <2>1, LeadsOn DEF Configured
<1>11. /\ b3.mem["gauge"] = "Streaming" /\ b3.mem["info"] = f /\ b3.mem["known"] = TRUE
       /\ \A l \in Loc \ {"gauge", "info", "known"} : b3.mem[l] = v.mem[l]
       /\ b3.published = v.published + 1 /\ DOMAIN b3.mem = Loc
  BY <1>5, <1>6, <1>7, <1>8, <1>9
<1>12. PICK b : /\ Leads(b3, more, b) /\ Rests(b) /\ b.published = b3.published
                /\ b.mem["reconnects"] = b3.mem["reconnects"] + again
                /\ \A l \in Loc \ {"reconnects"} : b.mem[l] = b3.mem[l]
  <2>0. b3.mem["reconnects"] \in Nat
    BY <1>9, RestingMemory DEF Numbers, Counters
  <2>1. CASE again = 1
    <3>1. PICK b : /\ Leads(b3, <<FetchAdd("reconnects", 1)>>, b) /\ Rests(b)
                   /\ b.mem = [b3.mem EXCEPT !["reconnects"] = @ + 1]
                   /\ b.published = b3.published
      BY <1>9, CountIssued DEF Counters
    <3> QED
      BY <1>3, <1>5, <1>11, <2>1, <3>1
  <2>2. CASE again = 0
    <3>1. Leads(b3, <<>>, b3)
      BY <1>9, NothingIssued
    <3>2. more = <<>> /\ b3.mem["reconnects"] + again = b3.mem["reconnects"]
      BY <1>3, <2>0, <2>2
    <3> QED
      BY <1>9, <3>1, <3>2
  <2> QED
    BY <1>1, <2>1, <2>2
<1>13. Leads(v, stores, b)
  BY <1>10, <1>12, LeadsOn
<1> HIDE DEF stores
<1>14. /\ Leads(Present', writer', b) /\ phase' = p /\ delivered' \in BOOLEAN
       /\ delivered' => delivered \/ "frames" \in DOMAIN did
       /\ tally' = Counted(did)
  BY <1>2, <1>4, <1>13, StepIssues
<1>15. /\ tally' \in [Done -> Nat] /\ tally'["streams"] = tally["streams"] + 1
       /\ tally'["reconnects"] = tally["reconnects"] + again
       /\ \A k \in Done \ {"streams", "reconnects"} : tally'[k] = tally[k]
  BY <1>1, <1>2, <1>14 DEF TallyInv, Done, Counted
<1>16. TallyInv'
  BY <1>1, <1>2, <1>14, <1>15 DEF TallyInv, Done
<1>17. /\ b.mem["gauge"] = "Streaming" /\ b.mem["info"] = tally'.streams
       /\ b.mem["known"] = TRUE /\ tally'.streams > 0
       /\ b.published = tally'.streams
       /\ b.mem["reconnects"] = v.mem["reconnects"] + again
       /\ \A l \in Loc \ {"gauge", "info", "known", "reconnects"} : b.mem[l] = v.mem[l]
  BY <1>2, <1>5, <1>11, <1>12, <1>15
<1>18. b.mem["known"] = (tally'.streams > 0)
  BY <1>17
<1>19. Exact(b)'
  BY <1>4, <1>12, <1>14, <1>15, <1>17, <1>18
     DEF Exact, Done, Loc, Numbers, Counters, Hist, GaugeOf, p
<1> QED
  BY <1>14, <1>16, <1>19 DEF WriterInv

LEMMA FrameArrivesKeeps ==
    ASSUME FrameArrives, WriterInv
    PROVE  WriterInv'
<1>1. PICK w \in {Short, Long}, excursion \in 0..1, mismatch \in 0..1 :
        Step(FrameStores(tally.frames + 1, delivered, w, excursion, mismatch),
             IF mismatch = 1 THEN "Released" ELSE "Live",
             [frames |-> 1, delivering |-> IF delivered THEN 0 ELSE 1,
              failures |-> excursion, stalls |-> mismatch,
              errors |-> excursion + mismatch])
  BY DEF FrameArrives, FrameStores
<1> DEFINE n == tally.frames + 1
           stores == FrameStores(n, delivered, w, excursion, mismatch)
           p == IF mismatch = 1 THEN "Released" ELSE "Live"
           first == IF delivered THEN 0 ELSE 1
           did == [frames |-> 1, delivering |-> first, failures |-> excursion,
                   stalls |-> mismatch, errors |-> excursion + mismatch]
<1>2. /\ DOMAIN did = {"frames", "delivering", "failures", "stalls", "errors"}
      /\ did["frames"] = 1 /\ did["delivering"] = first
      /\ did["failures"] = excursion /\ did["stalls"] = mismatch
      /\ did["errors"] = excursion + mismatch
      /\ first \in Nat /\ (first = 0 => delivered) /\ first <= 1
  OBVIOUS
<1>3. /\ p \in DOMAIN GaugeOf /\ TallyInv /\ Step(stores, p, did)
      /\ tally.frames \in Nat /\ n \in Nat /\ delivered \in BOOLEAN
      /\ tally.delivering \in Nat /\ phase = "Live"
  BY <1>1 DEF WriterInv, FrameArrives, GaugeOf, TallyInv, Done
<1>4. PICK v : Leads(Present, writer, v) /\ Exact(v)
  BY DEF WriterInv
<1>5. delivered => v.mem["frames"] > v.mem["total"]
  BY <1>3, <1>4 DEF Exact, TallyInv
<1> HIDE DEF p, did
<1>6. PICK b : /\ Leads(v, stores, b) /\ Rests(b)
               /\ FrameCounted(v, b, n, delivered, excursion, mismatch)
  <2>1. Rests(v)
    BY <1>4 DEF Exact
  <2> HIDE DEF n
  <2> QED
    BY <1>3, <1>5, <2>1, FrameIssued
<1> HIDE DEF stores
<1>7. /\ Leads(Present', writer', b) /\ phase' = p /\ delivered' \in BOOLEAN
      /\ delivered' => delivered \/ "frames" \in DOMAIN did
      /\ tally' = Counted(did)
  BY <1>3, <1>4, <1>6, StepIssues
<1> HIDE DEF first, n
<1>8. /\ tally' \in [Done -> Nat] /\ tally'["frames"] = tally["frames"] + 1
      /\ tally'["delivering"] = tally["delivering"] + first
      /\ tally'["stalls"] = tally["stalls"] + mismatch
      /\ tally'["errors"] = tally["errors"] + excursion + mismatch
      /\ tally'["streams"] = tally["streams"] /\ tally'["reconnects"] = tally["reconnects"]
  BY <1>2, <1>3, <1>7 DEF TallyInv, Done, Counted
<1>9. TallyInv'
  <2>1. /\ tally["delivering"] + first <= tally["frames"] + 1
        /\ tally["delivering"] + first > 0
    BY <1>2, <1>3 DEF TallyInv
  <2> QED
    BY <1>3, <1>7, <1>8, <2>1 DEF TallyInv, Done
<1>10. b.mem["total"] = tally'["frames"] - tally'["delivering"]
  <2>1. v.mem["total"] = tally["frames"] - tally["delivering"]
    BY <1>4 DEF Exact
  <2> QED
    BY <1>3, <1>6, <1>8, <2>1 DEF first, FrameCounted
<1>11. b.mem["gauge"] = GaugeOf[p] /\ n = tally'["frames"]
  BY <1>3, <1>4, <1>6, <1>8 DEF Exact, GaugeOf, p, n, FrameCounted
<1>12. Exact(b)'
  BY <1>4, <1>6, <1>7, <1>8, <1>10, <1>11 DEF Exact, FrameCounted
<1> QED
  BY <1>7, <1>9, <1>12 DEF WriterInv

\* An operation of the capture thread takes effect.
LEMMA StoreLandsKeeps ==
    ASSUME StoreLands, WriterInv, DOMAIN held = Mutexes
    PROVE  WriterInv'
<1>1. PICK i \in DOMAIN writer :
        /\ Eligible(writer, i)
        /\ writer' = RemoveAt(writer, i)
        /\ mem' = Applied(mem, writer[i])
        /\ held' = Holding(held, "capture", writer[i])
        /\ published' = IF writer[i] = Store("gauge", "Streaming") THEN published + 1
                        ELSE published
        /\ UNCHANGED <<phase, delivered, tally>>
  BY DEF StoreLands
<1>2. PICK v : Leads(Present, writer, v) /\ Exact(v)
  BY DEF WriterInv
<1>3. /\ Present \in View /\ writer[i] \in WriterOp
      /\ Leads(Effect(Present, writer[i]), RemoveAt(writer, i), v)
  BY <1>1, <1>2, Overtaking
<1>4. Present' = Effect(Present, writer[i])
  <2> DEFINE op == writer[i]
             holds == [m \in Mutexes |-> held[m] = "capture"]
  <2>1. op.do \in {"lock", "unlock"} => op.loc \in Mutexes
    BY <1>3 DEF WriterOp
  <2>2. [m \in Mutexes |-> held'[m] = "capture"] =
          CASE op.do = "lock"   -> [holds EXCEPT ![op.loc] = TRUE]
            [] op.do = "unlock" -> [holds EXCEPT ![op.loc] = FALSE]
            [] OTHER            -> holds
    <3>1. CASE op.do = "lock"
      <4>1. held' = [held EXCEPT ![op.loc] = "capture"]
        BY <1>1, <3>1 DEF Holding
      <4> QED
        BY <2>1, <3>1, <4>1
    <3>2. CASE op.do = "unlock"
      <4>1. held' = [held EXCEPT ![op.loc] = "none"]
        BY <1>1, <3>2 DEF Holding
      <4> QED
        BY <2>1, <3>2, <4>1
    <3>3. CASE op.do \notin {"lock", "unlock"}
      <4>1. held' = held
        BY <1>1, <3>3 DEF Holding
      <4> QED
        BY <3>3, <4>1
    <3> QED
      BY <3>1, <3>2, <3>3
  <2>3. Present.mem = mem /\ Present.published = published /\ Present.holds = holds
    BY DEF Present
  <2>4. Present' = [mem |-> mem', published |-> published',
                    holds |-> [m \in Mutexes |-> held'[m] = "capture"]]
    BY DEF Present
  <2> HIDE DEF holds
  <2> QED
    BY <1>1, <2>2, <2>3, <2>4 DEF Effect
<1>5. TallyInv' /\ Exact(v)'
  BY <1>1, <1>2 DEF WriterInv, TallyInv, Exact
<1> QED
  BY <1>1, <1>3, <1>4, <1>5 DEF WriterInv

-----------------------------------------------------------------------------
(* The invariant of the HTTP thread. *)

Loads == {"frames", "gauge"} \cup Hist \cup {"info", "known"}
ReaderOp == {Load(l) : l \in Loads} \cup {Lock(m) : m \in Mutexes}
              \cup {Unlock(m) : m \in Mutexes}

Pending(op) == \E k \in DOMAIN reader : reader[k] = op

\* The order in which a scrape issues its operations, as far as it matters: a
\* critical section holds the loads it guards, the second one comes after the
\* load of the gauge, and nothing is issued twice.
Comes(a, b) ==
    /\ a # b
    /\ \A m \in Mutexes : a = Unlock(m) => b.loc \notin Guarded[m] \cup {m}
    /\ \A m \in Mutexes : b = Lock(m) => a.loc \notin Guarded[m] \cup {m}
    /\ a = Unlock("stream_info_mutex") => b # Load("gauge")

InOrder(ops) ==
    /\ ops \in Seq(ReaderOp)
    /\ \A i, j \in DOMAIN ops : i < j => Comes(ops[i], ops[j])

\* A mutex is held by the HTTP thread from its lock to its unlock, and what it
\* guards is loaded in between; a load is either pending or shown.
SectionInv ==
    /\ \A m \in Mutexes :
         /\ (held[m] = "http") <=> (~Pending(Lock(m)) /\ Pending(Unlock(m)))
         /\ Pending(Lock(m)) => /\ Pending(Unlock(m))
                                /\ Guarded[m] \cap DOMAIN shown = {}
         /\ \A l \in Guarded[m] : Pending(Load(l)) => Pending(Unlock(m))
    /\ Pending(Load("gauge")) => Pending(Unlock("stream_info_mutex")) /\ claimed = 0
    /\ DOMAIN shown \subseteq Loads
    /\ \A l \in Loads : Pending(Load(l)) => l \notin DOMAIN shown
    /\ (reader # <<>> \/ DOMAIN shown # {}) =>
         \A l \in Loads : Pending(Load(l)) \/ l \in DOMAIN shown

\* What the HTTP thread has issued and loaded.
ReaderInv ==
    /\ InOrder(reader) /\ SectionInv
    /\ held \in [Mutexes -> {"none", "capture", "http"}]
    /\ http_at # "writing" => reader = <<>> /\ shown = <<>> /\ claimed = 0
    /\ DOMAIN shown = {} => shown = <<>>

\* What a scrape shows, against the memory: what it has loaded under a mutex
\* it still holds is what is there, and the rest is no newer than that.
ShownInv ==
    /\ \A m \in Mutexes : held[m] = "http" =>
         \A l \in Guarded[m] \cap DOMAIN shown : shown[l] = mem[l]
    /\ \A l \in Numbers \cap DOMAIN shown : shown[l] \in Nat
    /\ Hist \subseteq DOMAIN shown => Whole(shown)
    /\ "total" \in DOMAIN shown /\ shown["total"] > 0 => mem["frames"] > shown["total"]
    /\ before \in Nat /\ (before > 0 => mem["frames"] > before)
    /\ "frames" \in DOMAIN shown /\ before > 0 => shown["frames"] > before
    /\ claimed \in 0..published
    /\ "info" \in DOMAIN shown => shown["info"] >= claimed
    /\ "known" \in DOMAIN shown /\ claimed > 0 => shown["known"]

MainInv == main \in {"running", "joining", "exited"} /\ stop \in BOOLEAN

ScrapeInv == WriterInv /\ ReaderInv /\ ShownInv /\ MainInv

\* The memory as the writer's execution says it is.
LEMMA PresentSound ==
    ASSUME WriterInv, ReaderInv
    PROVE  /\ Present \in View /\ mem \in Memory /\ published \in Nat
           /\ held["histogram_mutex"] # "capture" =>
                /\ Whole(mem)
                /\ mem["total"] > 0 => mem["frames"] > mem["total"]
           /\ held["stream_info_mutex"] # "capture" =>
                /\ mem["info"] >= published
                /\ published > 0 => mem["known"]
<1>1. PICK v : Leads(Present, writer, v)
  BY DEF WriterInv
<1>2. PICK V : Execution(V, writer) /\ V[0] = Present
  BY <1>1 DEF Leads
<1>3. Present \in View /\ Sound(Present)
  <2>1. 0 \in 0..Len(writer)
    BY <1>2, ExecutionSteps
  <2> QED
    BY <1>2, <2>1, ExecutionSteps
<1>4. Present.mem = mem /\ Present.published = published
  BY DEF Present
<1>5. \A m \in Mutexes : held[m] # "capture" => ~Present.holds[m]
  BY DEF Present
<1>6. mem \in Memory /\ published \in Nat
  BY <1>3, <1>4 DEF View
<1>7. "histogram_mutex" \in Mutexes /\ "stream_info_mutex" \in Mutexes
  BY DEF Mutexes
<1> QED
  BY <1>3, <1>4, <1>5, <1>6, <1>7 DEF Sound

\* What a step of the HTTP thread does to the operations pending.
LEMMA ReaderLands ==
    ASSUME InOrder(reader), NEW i \in DOMAIN reader, Eligible(reader, i),
           reader' = RemoveAt(reader, i)
    PROVE  /\ reader[i] \in ReaderOp /\ InOrder(reader')
           /\ Pending(reader[i])
           /\ \A op : Pending(op)' <=> Pending(op) /\ op # reader[i]
           /\ \A m \in Mutexes : reader[i].loc \in Guarded[m] => ~Pending(Lock(m))
           /\ \A m \in Mutexes : reader[i] = Unlock(m) =>
                /\ ~Pending(Lock(m))
                /\ \A l \in Guarded[m] : ~Pending(Load(l))
                /\ m = "stream_info_mutex" => ~Pending(Load("gauge"))
<1> DEFINE n == Len(reader)
<1>1. /\ reader \in Seq(ReaderOp) /\ n \in Nat /\ DOMAIN reader = 1..n /\ i \in 1..n
      /\ reader[i] \in ReaderOp
  BY DEF InOrder
<1>2. /\ reader' \in Seq(ReaderOp) /\ Len(reader') = n - 1
      /\ \A k \in 1..(n - 1) : reader'[k] = IF k < i THEN reader[k] ELSE reader[k + 1]
  BY <1>1, RemoveAtProperties
<1>3. DOMAIN reader' = 1..(n - 1)
  BY <1>2
<1>4. \A j, k \in 1..n : j < k => Comes(reader[j], reader[k])
  BY <1>1 DEF InOrder
<1> HIDE DEF n
<1>5. InOrder(reader')
  <2>1. ASSUME NEW j \in 1..(n - 1), NEW k \in 1..(n - 1), j < k
        PROVE  Comes(reader'[j], reader'[k])
    <3> DEFINE old(x) == IF x < i THEN x ELSE x + 1
    <3>1. /\ old(j) \in 1..n /\ old(k) \in 1..n /\ old(j) < old(k)
          /\ reader'[j] = reader[old(j)] /\ reader'[k] = reader[old(k)]
      BY <1>1, <1>2, <2>1
    <3> HIDE DEF old
    <3> QED
      BY <1>4, <3>1
  <2> QED
    BY <1>2, <1>3, <2>1 DEF InOrder
<1>6. ASSUME NEW op PROVE Pending(op)' <=> Pending(op) /\ op # reader[i]
  <2>1. ASSUME Pending(op)' PROVE Pending(op) /\ op # reader[i]
    <3>1. PICK k \in 1..(n - 1) : reader'[k] = op
      BY <1>3, <2>1 DEF Pending
    <3>2. CASE k < i
      <4>1. reader[k] = op /\ k \in 1..n
        BY <1>1, <1>2, <3>1, <3>2
      <4>2. Comes(reader[k], reader[i])
        BY <1>1, <1>4, <3>2, <4>1
      <4> QED
        BY <1>1, <4>1, <4>2 DEF Pending, Comes
    <3>3. CASE k >= i
      <4>1. reader[k + 1] = op /\ k + 1 \in 1..n /\ i < k + 1
        BY <1>1, <1>2, <3>1, <3>3
      <4>2. Comes(reader[i], reader[k + 1])
        BY <1>1, <1>4, <4>1
      <4> QED
        BY <1>1, <4>1, <4>2 DEF Pending, Comes
    <3> QED
      BY <1>1, <3>2, <3>3
  <2>2. ASSUME Pending(op), op # reader[i] PROVE Pending(op)'
    <3>1. PICK k \in 1..n : reader[k] = op
      BY <1>1, <2>2 DEF Pending
    <3>2. CASE k < i
      <4>1. k \in 1..(n - 1) /\ reader'[k] = op
        BY <1>1, <1>2, <3>1, <3>2
      <4> QED
        BY <1>3, <4>1 DEF Pending
    <3>3. CASE k > i
      <4>1. k - 1 \in 1..(n - 1) /\ ~(k - 1 < i) /\ (k - 1) + 1 = k
        BY <1>1, <3>1, <3>3
      <4>2. reader'[k - 1] = op
        BY <1>2, <3>1, <4>1
      <4> QED
        BY <1>3, <4>1, <4>2 DEF Pending
    <3> QED
      BY <1>1, <2>2, <3>1, <3>2, <3>3
  <2> QED
    BY <2>1, <2>2
<1>7. ASSUME NEW m \in Mutexes, reader[i].loc \in Guarded[m], Pending(Lock(m))
      PROVE  FALSE
  <2>1. PICK k \in 1..n : reader[k] = Lock(m)
    BY <1>1, <1>7 DEF Pending
  <2>2. k # i
    <3>1. Lock(m).loc = m /\ m \notin Guarded[m]
      BY DEF Lock, Op, Guarded, Mutexes, Hist, Buckets
    <3> QED
      BY <1>7, <2>1, <3>1
  <2>3. CASE k < i
    <3>1. reader[k].do # "lock"
      BY <1>1, <2>3 DEF Eligible
    <3> QED
      BY <2>1, <3>1 DEF Lock, Op
  <2>4. CASE k > i
    BY <1>1, <1>4, <1>7, <2>1, <2>4 DEF Comes
  <2> QED
    BY <1>1, <2>2, <2>3, <2>4
<1>8. ASSUME NEW m \in Mutexes, reader[i] = Unlock(m), NEW op, Pending(op), op # Unlock(m)
      PROVE  Comes(Unlock(m), op)
  <2>1. PICK k \in 1..n : reader[k] = op
    BY <1>1, <1>8 DEF Pending
  <2>2. k # i /\ ~(k < i)
    <3>1. Unlock(m).do = "unlock"
      BY DEF Unlock, Op
    <3> QED
      BY <1>1, <1>8, <2>1, <3>1 DEF Eligible
  <2> QED
    BY <1>1, <1>4, <1>8, <2>1, <2>2
<1>9. ASSUME NEW m \in Mutexes, reader[i] = Unlock(m)
      PROVE  /\ ~Pending(Lock(m))
             /\ \A l \in Guarded[m] : ~Pending(Load(l))
             /\ m = "stream_info_mutex" => ~Pending(Load("gauge"))
  <2>1. /\ Lock(m) # Unlock(m) /\ Lock(m).loc = m
        /\ \A l : Load(l) # Unlock(m) /\ Load(l).loc = l
    BY DEF Lock, Unlock, Load, Op
  <2> QED
    BY <1>8, <1>9, <2>1 DEF Comes
<1>10. Pending(reader[i])
  BY <1>1 DEF Pending
<1> QED
  BY <1>1, <1>5, <1>6, <1>7, <1>9, <1>10

\* The operations of a scrape are told apart by kind and location.
LEMMA ReaderOps ==
    /\ \A l : Load(l).do = "load" /\ Load(l).loc = l
    /\ \A m : Lock(m).do = "lock" /\ Lock(m).loc = m
    /\ \A m : Unlock(m).do = "unlock" /\ Unlock(m).loc = m
  BY DEF Load, Lock, Unlock, Op

\* The names of the locations and of what guards them.
LEMMA Names ==
    /\ Mutexes = {"histogram_mutex", "stream_info_mutex"}
    /\ Guarded["histogram_mutex"] = Hist
    /\ Guarded["stream_info_mutex"] = {"info", "known"}
    /\ Hist = {"bucket", "overflow", "sum", "total"}
    /\ Loads = {"frames", "gauge", "bucket", "overflow", "sum", "total", "info", "known"}
    /\ Loads \subseteq Loc /\ Loads \cap Numbers = Loads \ {"gauge", "known"}
    /\ \A m \in Mutexes : Guarded[m] \subseteq Loads
  BY DEF Mutexes, Guarded, Hist, Buckets, Loads, Loc, Numbers, Counters

\* The HTTP thread takes a mutex, or gives one back.
LEMMA MutexLandsKeeps ==
    ASSUME WriterInv, ReaderInv, ShownInv, http_at = "writing",
           NEW i \in DOMAIN reader, Eligible(reader, i),
           reader' = RemoveAt(reader, i), CanAcquire(held, reader[i]),
           NEW m \in Mutexes, reader[i] = Lock(m) \/ reader[i] = Unlock(m),
           held' = Holding(held, "http", reader[i]),
           UNCHANGED <<http_vars, capture, mem, shown, claimed, before, published>>
    PROVE  WriterInv' /\ ReaderInv' /\ ShownInv'
<1>1. /\ InOrder(reader') /\ Pending(reader[i])
      /\ \A op : Pending(op)' <=> Pending(op) /\ op # reader[i]
      /\ reader[i] = Unlock(m) =>
           /\ ~Pending(Lock(m))
           /\ \A l \in Guarded[m] : ~Pending(Load(l))
           /\ m = "stream_info_mutex" => ~Pending(Load("gauge"))
  BY ReaderLands DEF ReaderInv
<1>2. /\ held \in [Mutexes -> {"none", "capture", "http"}] /\ SectionInv
  BY DEF ReaderInv
<1>3. \/ /\ reader[i] = Lock(m) /\ held[m] = "none"
         /\ held' = [held EXCEPT ![m] = "http"]
      \/ /\ reader[i] = Unlock(m) /\ held[m] = "http"
         /\ held' = [held EXCEPT ![m] = "none"]
  <2>1. CASE reader[i] = Lock(m)
    <3>1. held[m] = "none"
      BY <2>1, ReaderOps DEF CanAcquire
    <3>2. held' = [held EXCEPT ![m] = "http"]
      BY <2>1, ReaderOps DEF Holding
    <3> QED
      BY <2>1, <3>1, <3>2
  <2>2. CASE reader[i] = Unlock(m)
    <3>1. held[m] = "http"
      BY <1>1, <1>2, <2>2 DEF SectionInv
    <3>2. held' = [held EXCEPT ![m] = "none"]
      BY <2>2, ReaderOps DEF Holding
    <3> QED
      BY <2>2, <3>1, <3>2
  <2> QED
    BY <2>1, <2>2
<1>4. /\ held' \in [Mutexes -> {"none", "capture", "http"}]
      /\ \A k \in Mutexes : k # m => held'[k] = held[k]
      /\ held'[m] # "capture" /\ held[m] # "capture"
  BY <1>2, <1>3
<1>5. WriterInv'
  <2>1. [k \in Mutexes |-> held'[k] = "capture"] = [k \in Mutexes |-> held[k] = "capture"]
    <3>1. \A k \in Mutexes : (held'[k] = "capture") = (held[k] = "capture")
      BY <1>4
    <3> QED
      BY <3>1
  <2>2. Present' = Present
    BY <2>1 DEF Present
  <2> QED
    BY <2>2 DEF WriterInv, TallyInv, Exact, capture
<1>6. \A l : Pending(Load(l))' <=> Pending(Load(l))
  BY <1>1, ReaderOps
<1>7. \A k \in Mutexes : k # m =>
         (Pending(Lock(k))' <=> Pending(Lock(k))) /\ (Pending(Unlock(k))' <=> Pending(Unlock(k)))
  BY <1>1, ReaderOps
<1>8. SectionInv'
  <2>1. ASSUME NEW k \in Mutexes
        PROVE  /\ (held'[k] = "http") <=> (~Pending(Lock(k))' /\ Pending(Unlock(k))')
               /\ Pending(Lock(k))' => /\ Pending(Unlock(k))'
                                       /\ Guarded[k] \cap DOMAIN shown' = {}
               /\ \A l \in Guarded[k] : Pending(Load(l))' => Pending(Unlock(k))'
    <3>1. CASE k # m
      BY <1>2, <1>4, <1>6, <1>7, <3>1 DEF SectionInv
    <3>2. CASE k = m /\ reader[i] = Lock(m)
      <4>1. ~Pending(Lock(m))' /\ (Pending(Unlock(m))' <=> Pending(Unlock(m)))
        BY <1>1, <3>2, ReaderOps
      <4>2. Pending(Unlock(m)) /\ held'[m] = "http"
        <5>1. held'[m] = "http"
          BY <1>2, <1>3, <3>2, ReaderOps
        <5> QED
          BY <1>1, <1>2, <3>2, <5>1 DEF SectionInv
      <4> QED
        BY <3>2, <4>1, <4>2
    <3>3. CASE k = m /\ reader[i] = Unlock(m)
      <4>1. ~Pending(Lock(m))' /\ ~Pending(Unlock(m))'
        BY <1>1, <3>3
      <4>2. held'[m] # "http"
        BY <1>2, <1>3, <3>3, ReaderOps
      <4> QED
        BY <1>1, <1>6, <3>3, <4>1, <4>2
    <3> QED
      BY <3>1, <3>2, <3>3
  <2>2. Pending(Load("gauge"))' =>
          Pending(Unlock("stream_info_mutex"))' /\ claimed' = 0
    BY <1>1, <1>2, <1>6, ReaderOps DEF SectionInv
  <2>3. /\ DOMAIN shown' \subseteq Loads
        /\ \A l \in Loads : Pending(Load(l))' => l \notin DOMAIN shown'
        /\ \A l \in Loads : Pending(Load(l))' \/ l \in DOMAIN shown'
    BY <1>2, <1>6 DEF SectionInv
  <2> QED
    BY <2>1, <2>2, <2>3 DEF SectionInv
<1>9. ReaderInv'
  BY <1>1, <1>4, <1>8 DEF ReaderInv, http_vars
<1>10. ShownInv'
  <2>1. ASSUME NEW k \in Mutexes, held'[k] = "http", NEW l \in Guarded[k] \cap DOMAIN shown
        PROVE  shown[l] = mem[l]
    <3>1. CASE k # m
      BY <1>4, <2>1, <3>1 DEF ShownInv
    <3>2. CASE k = m
      <4>1. reader[i] = Lock(m)
        BY <1>2, <1>3, <2>1, <3>2
      <4> QED
        BY <1>1, <1>2, <2>1, <3>2, <4>1 DEF SectionInv
    <3> QED
      BY <3>1, <3>2
  <2> QED
    BY <2>1 DEF ShownInv
<1> QED
  BY <1>5, <1>9, <1>10

\* The HTTP thread loads a location.
LEMMA ValueLandsKeeps ==
    ASSUME WriterInv, ReaderInv, ShownInv, http_at = "writing",
           NEW i \in DOMAIN reader, Eligible(reader, i),
           reader' = RemoveAt(reader, i),
           NEW x \in Loads, reader[i] = Load(x), held' = held,
           DOMAIN shown' = DOMAIN shown \cup {x}, shown'[x] = mem[x],
           \A l \in DOMAIN shown : l # x => shown'[l] = shown[l],
           claimed' = IF x = "gauge" /\ mem["gauge"] = "Streaming" THEN published
                      ELSE claimed,
           UNCHANGED <<http_vars, capture, mem, before, published>>
    PROVE  WriterInv' /\ ReaderInv' /\ ShownInv'
<1>1. /\ InOrder(reader') /\ Pending(Load(x))
      /\ \A op : Pending(op)' <=> Pending(op) /\ op # Load(x)
      /\ \A m \in Mutexes : Load(x).loc \in Guarded[m] => ~Pending(Lock(m))
  BY ReaderLands DEF ReaderInv
<1>2. /\ held \in [Mutexes -> {"none", "capture", "http"}] /\ SectionInv
  BY DEF ReaderInv
<1>3. \A m \in Mutexes : x \in Guarded[m] => held[m] = "http" /\ ~Pending(Lock(m))
  BY <1>1, <1>2, ReaderOps DEF SectionInv
<1>4. WriterInv'
  <2>1. Present' = Present
    BY DEF Present
  <2> QED
    BY <2>1 DEF WriterInv, TallyInv, Exact, capture
<1>5. /\ \A m : (Pending(Lock(m))' <=> Pending(Lock(m)))
      /\ \A m : (Pending(Unlock(m))' <=> Pending(Unlock(m)))
      /\ \A l : (Pending(Load(l))' <=> Pending(Load(l)) /\ l # x)
  BY <1>1, ReaderOps
<1>6. x \notin DOMAIN shown
  BY <1>1, <1>2 DEF SectionInv
<1>7. \A l \in DOMAIN shown : shown'[l] = shown[l]
  BY <1>6
<1>8. SectionInv'
  <2>1. \A m \in Mutexes :
          /\ (held'[m] = "http") <=> (~Pending(Lock(m))' /\ Pending(Unlock(m))')
          /\ Pending(Lock(m))' => /\ Pending(Unlock(m))'
                                  /\ Guarded[m] \cap DOMAIN shown' = {}
          /\ \A l \in Guarded[m] : Pending(Load(l))' => Pending(Unlock(m))'
    BY <1>2, <1>3, <1>5 DEF SectionInv
  <2>2. Pending(Load("gauge"))' =>
          Pending(Unlock("stream_info_mutex"))' /\ claimed' = 0
    BY <1>2, <1>5 DEF SectionInv
  <2>3. /\ DOMAIN shown' \subseteq Loads
        /\ \A l \in Loads : Pending(Load(l))' => l \notin DOMAIN shown'
        /\ \A l \in Loads : Pending(Load(l))' \/ l \in DOMAIN shown'
    BY <1>2, <1>5 DEF SectionInv
  <2> QED
    BY <2>1, <2>2, <2>3 DEF SectionInv
<1>9. ReaderInv'
  BY <1>1, <1>2, <1>8 DEF ReaderInv, http_vars
<1>10. /\ mem \in Memory /\ published \in Nat
       /\ held["histogram_mutex"] # "capture" =>
            Whole(mem) /\ (mem["total"] > 0 => mem["frames"] > mem["total"])
       /\ held["stream_info_mutex"] # "capture" =>
            mem["info"] >= published /\ (published > 0 => mem["known"])
  BY PresentSound
<1>11. /\ \A l \in Numbers : mem[l] \in Nat
       /\ before \in Nat /\ claimed \in 0..published
  BY <1>10 DEF Memory, ShownInv
<1>12. \A m \in Mutexes : held[m] = "http" =>
          \A l \in Guarded[m] \cap DOMAIN shown' : shown'[l] = mem[l]
  BY <1>7 DEF ShownInv
<1>13. \A l \in Numbers \cap DOMAIN shown' : shown'[l] \in Nat
  BY <1>7, <1>11 DEF ShownInv
<1>14. Hist \subseteq DOMAIN shown' => Whole(shown')
  <2>1. CASE x \in Hist
    <3>1. held["histogram_mutex"] = "http" /\ Whole(mem)
      BY <1>3, <1>10, <2>1, Names
    <3>2. Hist \subseteq DOMAIN shown' => \A l \in Hist : shown'[l] = mem[l]
      BY <1>12, <3>1, Names
    <3> QED
      BY <3>1, <3>2, Names DEF Whole
  <2>2. CASE x \notin Hist
    <3>1. Hist \subseteq DOMAIN shown' => Whole(shown) /\ Hist \subseteq DOMAIN shown
      BY <2>2 DEF ShownInv
    <3> QED
      BY <1>7, <3>1, Names DEF Whole
  <2> QED
    BY <2>1, <2>2
<1>15. "total" \in DOMAIN shown' /\ shown'["total"] > 0 => mem["frames"] > shown'["total"]
  <2>1. CASE x = "total"
    <3>1. held["histogram_mutex"] = "http"
      BY <1>3, <2>1, Names
    <3> QED
      BY <1>10, <2>1, <3>1
  <2>2. CASE x # "total"
    BY <1>7, <2>2 DEF ShownInv
  <2> QED
    BY <2>1, <2>2
<1>16. "frames" \in DOMAIN shown' /\ before > 0 => shown'["frames"] > before
  <2>1. CASE x = "frames"
    BY <2>1 DEF ShownInv
  <2>2. CASE x # "frames"
    BY <1>7, <2>2 DEF ShownInv
  <2> QED
    BY <2>1, <2>2
<1>17. claimed' \in 0..published
  BY <1>10, <1>11
<1>18. ASSUME "info" \in DOMAIN shown' \/ "known" \in DOMAIN shown',
              x \in {"info", "known", "gauge"}
       PROVE  /\ held["stream_info_mutex"] = "http"
              /\ mem["info"] >= claimed' /\ (claimed' > 0 => mem["known"])
  <2>1. held["stream_info_mutex"] = "http"
    <3>1. CASE x \in {"info", "known"}
      BY <1>3, <3>1, Names
    <3>2. CASE x = "gauge"
      <4>1. Pending(Unlock("stream_info_mutex"))
        BY <1>1, <1>2, <3>2 DEF SectionInv
      <4>2. "info" \in DOMAIN shown \/ "known" \in DOMAIN shown
        BY <1>18, <3>2
      <4>3. ~Pending(Lock("stream_info_mutex"))
        BY <1>2, <4>2, Names DEF SectionInv
      <4> QED
        BY <1>2, <4>1, <4>3, Names DEF SectionInv
    <3> QED
      BY <1>18, <3>1, <3>2
  <2>2. mem["info"] \in Nat
    BY <1>11 DEF Numbers
  <2> QED
    BY <1>10, <1>17, <2>1, <2>2
<1>19. "info" \in DOMAIN shown' => shown'["info"] >= claimed'
  <2>1. CASE x \in {"info", "gauge"}
    BY <1>12, <1>18, <2>1, Names
  <2>2. CASE x \notin {"info", "gauge"}
    BY <1>7, <2>2 DEF ShownInv
  <2> QED
    BY <2>1, <2>2
<1>20. "known" \in DOMAIN shown' /\ claimed' > 0 => shown'["known"]
  <2>1. CASE x \in {"known", "gauge"}
    BY <1>12, <1>18, <2>1, Names
  <2>2. CASE x \notin {"known", "gauge"}
    BY <1>7, <2>2 DEF ShownInv
  <2> QED
    BY <2>1, <2>2
<1>21. before > 0 => mem["frames"] > before
  BY DEF ShownInv
<1>22. ShownInv'
  BY <1>11, <1>12, <1>13, <1>14, <1>15, <1>16, <1>17, <1>19, <1>20, <1>21 DEF ShownInv
<1> QED
  BY <1>4, <1>9, <1>22

LEMMA LoadLandsKeeps ==
    ASSUME LoadLands, WriterInv, ReaderInv, ShownInv
    PROVE  WriterInv' /\ ReaderInv' /\ ShownInv'
<1>1. PICK i \in DOMAIN reader :
        /\ Eligible(reader, i) /\ CanAcquire(held, reader[i])
        /\ reader' = RemoveAt(reader, i)
        /\ held' = Holding(held, "http", reader[i])
        /\ shown' = IF reader[i].do = "load"
                    THEN [l \in DOMAIN shown \cup {reader[i].loc} |->
                            IF l = reader[i].loc THEN mem[l] ELSE shown[l]]
                    ELSE shown
        /\ claimed' = IF reader[i] = Load("gauge") /\ mem["gauge"] = "Streaming"
                      THEN published ELSE claimed
        /\ UNCHANGED <<http_vars, capture, mem, before, published>>
  BY DEF LoadLands
<1>2. http_at = "writing"
  BY <1>1 DEF ReaderInv
<1>3. \/ \E x \in Loads : reader[i] = Load(x)
      \/ \E m \in Mutexes : reader[i] = Lock(m) \/ reader[i] = Unlock(m)
  <2>1. reader[i] \in ReaderOp
    BY <1>1 DEF ReaderInv, InOrder
  <2> QED
    BY <2>1 DEF ReaderOp
<1>4. ASSUME NEW x \in Loads, reader[i] = Load(x)
      PROVE  WriterInv' /\ ReaderInv' /\ ShownInv'
  <2>1. held' = held
    BY <1>1, <1>4, ReaderOps DEF Holding
  <2>2. shown' = [l \in DOMAIN shown \cup {x} |-> IF l = x THEN mem[l] ELSE shown[l]]
    BY <1>1, <1>4, ReaderOps
  <2>3. /\ DOMAIN shown' = DOMAIN shown \cup {x} /\ shown'[x] = mem[x]
        /\ \A l \in DOMAIN shown : l # x => shown'[l] = shown[l]
    BY <2>2
  <2>4. (reader[i] = Load("gauge")) <=> (x = "gauge")
    BY <1>4, ReaderOps
  <2>5. claimed' = IF x = "gauge" /\ mem["gauge"] = "Streaming" THEN published ELSE claimed
    BY <1>1, <2>4
  <2> QED
    BY <1>1, <1>2, <1>4, <2>1, <2>3, <2>5, ValueLandsKeeps
<1>5. ASSUME NEW m \in Mutexes, reader[i] = Lock(m) \/ reader[i] = Unlock(m)
      PROVE  WriterInv' /\ ReaderInv' /\ ShownInv'
  <2>1. shown' = shown /\ claimed' = claimed
    BY <1>1, <1>5, ReaderOps
  <2> QED
    BY <1>1, <1>2, <1>5, <2>1, MutexLandsKeeps
<1> QED
  BY <1>3, <1>4, <1>5

\* An operation of the capture thread leaves a scrape alone: what is guarded
\* by a mutex the HTTP thread holds does not change, and neither the frames
\* nor the streams published are ever taken back.
LEMMA StoreLandsShows ==
    ASSUME StoreLands, WriterInv, ReaderInv, ShownInv
    PROVE  ReaderInv' /\ ShownInv'
<1>1. PICK i \in DOMAIN writer :
        /\ Eligible(writer, i) /\ CanAcquire(held, writer[i])
        /\ mem' = Applied(mem, writer[i])
        /\ held' = Holding(held, "capture", writer[i])
        /\ published' = IF writer[i] = Store("gauge", "Streaming") THEN published + 1
                        ELSE published
        /\ UNCHANGED <<http_vars, reader, shown, claimed, before>>
  BY DEF StoreLands, scrape
<1> DEFINE op == writer[i]
<1>2. Present \in View /\ op \in WriterOp /\ Proper(Present, op)
  <2>1. PICK V : Execution(V, writer) /\ V[0] = Present
    BY DEF WriterInv, Leads
  <2>2. /\ Len(writer) \in Nat /\ i \in 1..Len(writer) /\ 0 \in 0..Len(writer)
        /\ 0 \in 0..(i - 1)
    BY <1>1, <2>1, ExecutionSteps
  <2>3. V[0] \in View /\ op \in WriterOp
    BY <2>1, <2>2, ExecutionSteps
  <2>4. Proper(V[0], op)
    BY <1>1, <2>1, <2>2, FirstIsProper
  <2> QED
    BY <2>1, <2>3, <2>4
<1>3. /\ Present.mem = mem /\ Present.published = published
      /\ \A m \in Mutexes : Present.holds[m] => held[m] = "capture"
  BY DEF Present
<1>4. /\ op.do = "lock" => op.loc \in Mutexes /\ held[op.loc] = "none"
      /\ op.do = "unlock" => op.loc \in Mutexes /\ held[op.loc] = "capture"
  <2>1. op.do = "lock" => op.loc \in Mutexes /\ held[op.loc] = "none"
    BY <1>1, <1>2 DEF WriterOp, CanAcquire
  <2>2. op.do = "unlock" => op.loc \in Mutexes /\ op = Unlock(op.loc)
    BY <1>2 DEF WriterOp, Unlock, Op
  <2>3. op.do = "unlock" => held[op.loc] = "capture"
    BY <1>2, <1>3, <2>2 DEF Proper
  <2> QED
    BY <2>1, <2>2, <2>3
<1>5. /\ held' \in [Mutexes -> {"none", "capture", "http"}]
      /\ \A m \in Mutexes : (held'[m] = "http") <=> (held[m] = "http")
  <2>0. held \in [Mutexes -> {"none", "capture", "http"}]
    BY DEF ReaderInv
  <2>1. CASE op.do = "lock"
    <3>1. held' = [held EXCEPT ![op.loc] = "capture"]
      BY <1>1, <2>1 DEF Holding
    <3> QED
      BY <1>4, <2>0, <2>1, <3>1
  <2>2. CASE op.do = "unlock"
    <3>1. held' = [held EXCEPT ![op.loc] = "none"]
      BY <1>1, <2>2 DEF Holding
    <3> QED
      BY <1>4, <2>0, <2>2, <3>1
  <2>3. CASE op.do \notin {"lock", "unlock"}
    <3>1. held' = held
      BY <1>1, <2>3 DEF Holding
    <3> QED
      BY <2>0, <3>1
  <2> QED
    BY <2>1, <2>2, <2>3
<1>6. \A o : Pending(o)' <=> Pending(o)
  BY <1>1 DEF Pending
<1>7. ReaderInv'
  <2>1. SectionInv'
    <3>1. SectionInv /\ shown' = shown /\ claimed' = claimed /\ reader' = reader
      BY <1>1 DEF ReaderInv
    <3> QED
      BY <1>5, <1>6, <3>1 DEF SectionInv
  <2>2. InOrder(reader')
    BY <1>1 DEF ReaderInv
  <2> QED
    BY <1>1, <1>5, <2>1, <2>2 DEF ReaderInv, http_vars
<1>8. \A l \in Loc : mem'[l] = IF l # op.loc THEN mem[l]
                               ELSE IF op.do = "store" THEN op.val ELSE mem[l] + op.val
  <2>1. Effect(Present, op).mem = mem'
    BY <1>1, <1>3 DEF Effect
  <2> QED
    BY <1>2, <1>3, <2>1, EffectOf
<1>9. \A m \in Mutexes : held[m] = "http" => \A l \in Guarded[m] : mem'[l] = mem[l]
  <2>1. \A m \in Mutexes : held[m] = "http" => op.loc \notin Guarded[m]
    BY <1>2, <1>3 DEF Proper
  <2>2. \A m \in Mutexes : Guarded[m] \subseteq Loc
    BY Names
  <2> QED
    BY <1>8, <2>1, <2>2
<1>10. mem["frames"] \in Nat /\ mem'["frames"] \in Nat /\ mem'["frames"] >= mem["frames"]
  <2>1. mem["frames"] \in Nat /\ "frames" \in Loc
    BY <1>2, <1>3 DEF View, Memory, Numbers, Counters, Loc
  <2>2. op.loc = "frames" => op.do = "add" /\ op.val \in Nat
    BY <1>2 DEF WriterOp, Mutexes
  <2> QED
    BY <1>8, <2>1, <2>2
<1>11. published \in Nat /\ published' \in Nat /\ published' >= published
  <2>1. published \in Nat
    BY <1>2, <1>3 DEF View
  <2> QED
    BY <1>1, <2>1
<1>12. shown' = shown /\ claimed' = claimed /\ before' = before
  BY <1>1
<1>13. \A m \in Mutexes : held'[m] = "http" =>
          \A l \in Guarded[m] \cap DOMAIN shown : shown[l] = mem'[l]
  BY <1>5, <1>9 DEF ShownInv
<1>14. "total" \in DOMAIN shown /\ shown["total"] > 0 => mem'["frames"] > shown["total"]
  <2>1. "total" \in DOMAIN shown => shown["total"] \in Nat
    BY DEF ShownInv, Numbers, Hist
  <2> QED
    BY <1>10, <2>1 DEF ShownInv
<1>15. before > 0 => mem'["frames"] > before
  BY <1>10 DEF ShownInv
<1>16. claimed \in 0..published'
  BY <1>11 DEF ShownInv
<1>17. ShownInv'
  BY <1>12, <1>13, <1>14, <1>15, <1>16 DEF ShownInv
<1> QED
  BY <1>7, <1>17

\* What a concatenation holds.
LEMMA Concatenated ==
    ASSUME NEW S, NEW s \in Seq(S), NEW t \in Seq(S)
    PROVE  /\ s \o t \in Seq(S) /\ Len(s \o t) = Len(s) + Len(t)
           /\ \A k \in 1..Len(s) : (s \o t)[k] = s[k]
           /\ \A k \in 1..Len(t) : (s \o t)[k + Len(s)] = t[k]
           /\ Len(s) \in Nat /\ Len(t) \in Nat /\ DOMAIN (s \o t) = 1..(Len(s) + Len(t))
  OBVIOUS

\* The operations of a scrape, one by one.
LEMMA RenderOps ==
    /\ Len(render_metrics) = 12
    /\ render_metrics[1] = Load("frames")
    /\ render_metrics[2] = Lock("histogram_mutex")
    /\ render_metrics[3] = Load("bucket") /\ render_metrics[4] = Load("overflow")
    /\ render_metrics[5] = Load("sum") /\ render_metrics[6] = Load("total")
    /\ render_metrics[7] = Unlock("histogram_mutex")
    /\ render_metrics[8] = Load("gauge")
    /\ render_metrics[9] = Lock("stream_info_mutex")
    /\ render_metrics[10] = Load("known") /\ render_metrics[11] = Load("info")
    /\ render_metrics[12] = Unlock("stream_info_mutex")
    /\ render_metrics \in Seq(ReaderOp) /\ DOMAIN render_metrics = 1..12
<1> DEFINE a == <<Load("frames")>>
           c == <<Load("gauge")>>
<1>1. /\ a \in Seq(ReaderOp) /\ c \in Seq(ReaderOp)
      /\ snapshot \in Seq(ReaderOp) /\ GetStreamInfo \in Seq(ReaderOp)
  BY Names DEF snapshot, GetStreamInfo, ReaderOp
<1>2. /\ Len(a) = 1 /\ a[1] = Load("frames") /\ Len(c) = 1 /\ c[1] = Load("gauge")
  OBVIOUS
<1>3. /\ Len(snapshot) = 6 /\ snapshot[1] = Lock("histogram_mutex")
      /\ snapshot[2] = Load("bucket") /\ snapshot[3] = Load("overflow")
      /\ snapshot[4] = Load("sum") /\ snapshot[5] = Load("total")
      /\ snapshot[6] = Unlock("histogram_mutex")
  BY DEF snapshot
<1>4. /\ Len(GetStreamInfo) = 4 /\ GetStreamInfo[1] = Lock("stream_info_mutex")
      /\ GetStreamInfo[2] = Load("known") /\ GetStreamInfo[3] = Load("info")
      /\ GetStreamInfo[4] = Unlock("stream_info_mutex")
  BY DEF GetStreamInfo
<1>5. render_metrics = ((a \o snapshot) \o c) \o GetStreamInfo
  BY DEF render_metrics
<1> HIDE DEF a, c
<1> DEFINE x == a \o snapshot
<1>6. /\ x \in Seq(ReaderOp) /\ Len(x) = 7 /\ x[1] = a[1] 
      /\ \A k \in 1..6 : x[k + 1] = snapshot[k]
  <2>1. /\ x \in Seq(ReaderOp) /\ Len(x) = Len(a) + Len(snapshot)
        /\ \A k \in 1..Len(a) : x[k] = a[k]
        /\ \A k \in 1..Len(snapshot) : x[k + Len(a)] = snapshot[k]
    BY <1>1, Concatenated
  <2> HIDE DEF x
  <2> QED
    BY <1>2, <1>3, <2>1
<1> HIDE DEF x
<1> DEFINE y == x \o c
<1>7. /\ y \in Seq(ReaderOp) /\ Len(y) = 8 /\ y[8] = c[1] 
      /\ \A k \in 1..7 : y[k] = x[k]
  <2>0. x \in Seq(ReaderOp) /\ c \in Seq(ReaderOp)
    BY <1>1, <1>6
  <2>1. /\ y \in Seq(ReaderOp) /\ Len(y) = Len(x) + Len(c)
        /\ \A k \in 1..Len(x) : y[k] = x[k]
        /\ \A k \in 1..Len(c) : y[k + Len(x)] = c[k]
    BY <2>0, Concatenated
  <2> HIDE DEF y
  <2>2. y[1 + 7] = c[1]
    BY <1>2, <1>6, <2>1
  <2> QED
    BY <1>2, <1>6, <2>1, <2>2
<1> HIDE DEF y
<1> DEFINE z == y \o GetStreamInfo
<1>8. /\ z \in Seq(ReaderOp) /\ Len(z) = 12 /\ \A k \in 1..8 : z[k] = y[k]
      /\ \A k \in 1..4 : z[k + 8] = GetStreamInfo[k]
      /\ DOMAIN z = 1..12
  <2>0. y \in Seq(ReaderOp) /\ GetStreamInfo \in Seq(ReaderOp)
    BY <1>1, <1>7
  <2>1. /\ z \in Seq(ReaderOp) /\ Len(z) = Len(y) + Len(GetStreamInfo)
        /\ \A k \in 1..Len(y) : z[k] = y[k]
        /\ \A k \in 1..Len(GetStreamInfo) : z[k + Len(y)] = GetStreamInfo[k]
        /\ DOMAIN z = 1..(Len(y) + Len(GetStreamInfo))
    BY <2>0, Concatenated
  <2> HIDE DEF z
  <2> QED
    BY <1>4, <1>7, <2>1
<1> HIDE DEF z
<1>9. /\ z[1] = Load("frames") /\ z[2] = Lock("histogram_mutex")
       /\ z[3] = Load("bucket") /\ z[4] = Load("overflow")
       /\ z[5] = Load("sum") /\ z[6] = Load("total")
       /\ z[7] = Unlock("histogram_mutex") /\ z[8] = Load("gauge")
  <2>1. /\ x[1 + 1] = snapshot[1] /\ x[2 + 1] = snapshot[2] /\ x[3 + 1] = snapshot[3]
        /\ x[4 + 1] = snapshot[4] /\ x[5 + 1] = snapshot[5] /\ x[6 + 1] = snapshot[6]
    BY <1>6
  <2> QED
    BY <1>2, <1>3, <1>6, <1>7, <1>8, <2>1
<1>10. /\ z[9] = Lock("stream_info_mutex") /\ z[10] = Load("known")
       /\ z[11] = Load("info") /\ z[12] = Unlock("stream_info_mutex")
  <2>1. /\ z[1 + 8] = GetStreamInfo[1] /\ z[2 + 8] = GetStreamInfo[2]
        /\ z[3 + 8] = GetStreamInfo[3] /\ z[4 + 8] = GetStreamInfo[4]
    BY <1>8
  <2> QED
    BY <1>4, <2>1
<1> QED
  BY <1>5, <1>8, <1>9, <1>10 DEF z, y, x

\* A scrape issues its operations in order.
LEMMA RenderInOrder == InOrder(render_metrics)
<1> DEFINE r == render_metrics
<1>0. /\ DOMAIN r = 1..12 /\ r \in Seq(ReaderOp)
      /\ r[1] = Load("frames") /\ r[2] = Lock("histogram_mutex")
      /\ r[3] = Load("bucket") /\ r[4] = Load("overflow")
      /\ r[5] = Load("sum") /\ r[6] = Load("total")
      /\ r[7] = Unlock("histogram_mutex") /\ r[8] = Load("gauge")
      /\ r[9] = Lock("stream_info_mutex") /\ r[10] = Load("known")
      /\ r[11] = Load("info") /\ r[12] = Unlock("stream_info_mutex")
  BY RenderOps
<1> HIDE DEF r
<1>1. /\ \A i \in 1..12 : r[i].loc \in Hist \cup {"histogram_mutex"} => i \in 2..7
      /\ \A i \in 1..12 : r[i].loc \in {"info", "known", "stream_info_mutex"} => i \in 9..12
  BY <1>0, ReaderOps, Names
<1>2. /\ \A i \in 1..12 : r[i] = Lock("histogram_mutex") => i = 2
      /\ \A i \in 1..12 : r[i] = Unlock("histogram_mutex") => i = 7
      /\ \A i \in 1..12 : r[i] = Lock("stream_info_mutex") => i = 9
      /\ \A i \in 1..12 : r[i] = Unlock("stream_info_mutex") => i = 12
      /\ \A i \in 1..12 : r[i] = Load("gauge") => i = 8
  BY <1>0, ReaderOps
<1>3. ASSUME NEW i \in 1..12, NEW j \in 1..12, i < j PROVE r[i] # r[j]
  <2>1. r[i].loc = r[j].loc => r[i].do # r[j].do
    BY <1>0, <1>3, ReaderOps, SMTT(60)
  <2> QED
    BY <2>1
<1>4. ASSUME NEW i \in 1..12, NEW j \in 1..12, i < j PROVE Comes(r[i], r[j])
  <2>1. ASSUME NEW m \in Mutexes, r[i] = Unlock(m)
        PROVE  r[j].loc \notin Guarded[m] \cup {m}
    BY <1>1, <1>2, <1>4, <2>1, Names
  <2>2. ASSUME NEW m \in Mutexes, r[j] = Lock(m)
        PROVE  r[i].loc \notin Guarded[m] \cup {m}
    BY <1>1, <1>2, <1>4, <2>2, Names
  <2>3. r[i] = Unlock("stream_info_mutex") => r[j] # Load("gauge")
    BY <1>2, <1>4
  <2> QED
    BY <1>3, <1>4, <2>1, <2>2, <2>3 DEF Comes
<1>5. InOrder(r)
  BY <1>0, <1>4 DEF InOrder
<1> QED
  BY <1>5 DEF r

-----------------------------------------------------------------------------
(* The remaining steps. *)

\* A step that touches neither thread's part of the state keeps its invariant.
LEMMA WriterUntouched ==
    ASSUME WriterInv, UNCHANGED <<capture, mem, held, published>>
    PROVE  WriterInv'
<1>1. Present' = Present
  BY DEF Present
<1> QED
  BY <1>1 DEF WriterInv, TallyInv, Exact, capture

LEMMA ReaderUntouched ==
    ASSUME ReaderInv, ShownInv, UNCHANGED <<scrape, mem, held, published>>,
           http_at = "writing" => http_at' = "writing"
    PROVE  ReaderInv' /\ ShownInv'
<1>1. /\ reader' = reader /\ shown' = shown /\ claimed' = claimed /\ before' = before
      /\ mem' = mem /\ held' = held /\ published' = published
  BY DEF scrape
<1>2. \A op : Pending(op)' <=> Pending(op)
  BY <1>1 DEF Pending
<1>3. SectionInv'
  BY <1>1, <1>2 DEF ReaderInv, SectionInv
<1>4. ReaderInv'
  BY <1>1, <1>3 DEF ReaderInv
<1>5. ShownInv'
  BY <1>1 DEF ShownInv
<1> QED
  BY <1>4, <1>5

\* A request has been read.
LEMMA HandleKeeps ==
    ASSUME Handle, WriterInv, ReaderInv, ShownInv
    PROVE  WriterInv' /\ ReaderInv' /\ ShownInv'
<1>1. /\ http_at = "reading"
      /\ \/ http_at' = "writing" /\ reader' \in {render_metrics, <<>>}
         \/ http_at' # "writing" /\ reader' = <<>>
      /\ UNCHANGED <<capture, mem, held, shown, claimed, before, published>>
  BY DEF Handle, HttpRead
<1>2. reader = <<>> /\ shown = <<>> /\ claimed = 0 /\ SectionInv
  BY <1>1 DEF ReaderInv
<1>3. WriterInv'
  BY <1>1, WriterUntouched
<1>4. ShownInv'
  BY <1>1 DEF ShownInv
<1>5. DOMAIN shown = {} /\ \A op : ~Pending(op)
  BY <1>2 DEF Pending
<1>6. \A m \in Mutexes : held[m] # "http"
  BY <1>2, <1>5 DEF SectionInv
<1>7. CASE reader' = <<>>
  <2>1. \A op : ~Pending(op)'
    BY <1>7 DEF Pending
  <2>2. SectionInv'
    BY <1>1, <1>2, <1>5, <1>6, <1>7, <2>1 DEF SectionInv
  <2>3. InOrder(reader')
    BY <1>7 DEF InOrder
  <2> QED
    BY <1>1, <1>2, <1>3, <1>4, <2>2, <2>3 DEF ReaderInv
<1>8. CASE reader' = render_metrics /\ http_at' = "writing"
  <2>1. /\ \A m \in Mutexes : Pending(Lock(m))' /\ Pending(Unlock(m))'
        /\ \A l \in Loads : Pending(Load(l))'
    <3>1. \A k \in 1..12 : Pending(render_metrics[k])'
      BY <1>8, RenderOps DEF Pending
    <3>2. /\ Pending(Lock("histogram_mutex"))' /\ Pending(Unlock("histogram_mutex"))'
          /\ Pending(Lock("stream_info_mutex"))' /\ Pending(Unlock("stream_info_mutex"))'
      BY <3>1, RenderOps
    <3>3. /\ Pending(Load("frames"))' /\ Pending(Load("gauge"))' /\ Pending(Load("bucket"))'
          /\ Pending(Load("overflow"))' /\ Pending(Load("sum"))' /\ Pending(Load("total"))'
          /\ Pending(Load("known"))' /\ Pending(Load("info"))'
      BY <3>1, RenderOps
    <3> QED
      BY <3>2, <3>3, Names
  <2>2. SectionInv'
    BY <1>1, <1>2, <1>5, <1>6, <2>1, Names DEF SectionInv
  <2>3. InOrder(reader')
    BY <1>8, RenderInOrder
  <2> QED
    BY <1>1, <1>2, <1>3, <1>4, <1>8, <2>2, <2>3 DEF ReaderInv
<1> QED
  BY <1>1, <1>7, <1>8

\* A scrape that has made all its loads shows every location it loads.
LEMMA ScrapedShows ==
    ASSUME ReaderInv, Scraped
    PROVE  Loads \subseteq DOMAIN shown
<1>1. reader = <<>> /\ DOMAIN shown # {}
  BY DEF ReaderInv, Scraped
<1>2. \A op : ~Pending(op)
  BY <1>1 DEF Pending
<1> QED
  BY <1>1, <1>2 DEF ReaderInv, SectionInv

\* The response goes out.
LEMMA RespondKeeps ==
    ASSUME Respond, WriterInv, ReaderInv, ShownInv
    PROVE  WriterInv' /\ ReaderInv' /\ ShownInv'
<1>1. /\ reader = <<>> /\ reader' = <<>> /\ shown' = <<>> /\ claimed' = 0
      /\ before' = IF Scraped THEN shown["total"] ELSE before
      /\ UNCHANGED <<capture, mem, held, published>>
  BY DEF Respond
<1>2. WriterInv'
  BY <1>1, WriterUntouched
<1>3. DOMAIN shown' = {} /\ (\A op : ~Pending(op)) /\ (\A op : ~Pending(op)')
  BY <1>1 DEF Pending
<1>4. SectionInv'
  BY <1>1, <1>3 DEF ReaderInv, SectionInv
<1>5. ReaderInv'
  BY <1>1, <1>4 DEF ReaderInv, InOrder
<1>6. before' \in Nat /\ (before' > 0 => mem'["frames"] > before')
  <2>1. CASE Scraped
    <3>1. "total" \in DOMAIN shown
      BY <2>1, ScrapedShows, Names
    <3>2. shown["total"] \in Nat
      BY <3>1 DEF ShownInv, Numbers, Hist
    <3> QED
      BY <1>1, <2>1, <3>1, <3>2 DEF ShownInv
  <2>2. CASE ~Scraped
    BY <1>1, <2>2 DEF ShownInv
  <2> QED
    BY <2>1, <2>2
<1>7. 0 \in 0..published'
  BY <1>1, PresentSound
<1>8. Hist # {}
  BY Names
<1>9. ShownInv'
  BY <1>1, <1>3, <1>6, <1>7, <1>8 DEF ShownInv
<1> QED
  BY <1>2, <1>5, <1>9

\* The initial state.
LEMMA ScrapeInitial ==
    ASSUME ScrapeInit PROVE ScrapeInv
<1>1. /\ http_at = "top" /\ phase = "Absent" /\ mem = ZeroStats
      /\ held = [m \in Mutexes |-> "none"] /\ writer = <<>> /\ reader = <<>>
      /\ shown = <<>> /\ delivered = FALSE /\ main = "running" /\ stop = FALSE
      /\ tally = [frames |-> 0, streams |-> 0, delivering |-> 0, stalls |-> 0,
                  reconnects |-> 0, failures |-> 0, errors |-> 0]
      /\ published = 0 /\ claimed = 0 /\ before = 0
  BY DEF ScrapeInit, HttpInit
<1>2. TallyInv
  <2>1. /\ tally.frames = 0 /\ tally.streams = 0 /\ tally.delivering = 0
        /\ tally.stalls = 0 /\ tally.reconnects = 0 /\ tally.failures = 0
        /\ tally.errors = 0
    BY <1>1
  <2>2. tally \in [Done -> Nat]
    BY <1>1 DEF Done
  <2>3. phase \in DOMAIN GaugeOf
    BY <1>1 DEF GaugeOf
  <2>4. delivered \in BOOLEAN /\ ~delivered
    BY <1>1, Zenon
  <2> QED
    BY <2>1, <2>2, <2>3, <2>4 DEF TallyInv
<1>3. /\ \A l \in Numbers : mem[l] = 0
      /\ mem["known"] = FALSE /\ mem["gauge"] = "DeviceAbsent" /\ mem \in Memory
  <2>1. DOMAIN ZeroStats = Loc
    BY DEF ZeroStats, Loc, Numbers, Hist
  <2>2. \A l \in Numbers : ZeroStats[l] = 0
    BY DEF ZeroStats, Numbers, Hist, Counters, Buckets
  <2>3. ZeroStats["known"] = FALSE
    BY DEF ZeroStats
  <2>4. ZeroStats["gauge"] = "DeviceAbsent"
    BY DEF ZeroStats
  <2>5. ZeroStats = [l \in Loc |-> ZeroStats[l]]
    BY <2>1 DEF ZeroStats
  <2>6. \A l \in Loc : ZeroStats[l] \in Nat \cup BOOLEAN \cup GaugeValue
    <3> TAKE l \in Loc
    <3>1. CASE l \in Numbers
      BY <2>2, <3>1
    <3>2. CASE l = "known"
      BY <2>3, <3>2
    <3>3. CASE l = "gauge"
      BY <2>4, <3>3 DEF GaugeValue
    <3> QED
      BY <3>1, <3>2, <3>3 DEF Loc
  <2>7. ZeroStats \in [Loc -> Nat \cup BOOLEAN \cup GaugeValue]
    BY <2>5, <2>6
  <2>8. ZeroStats["known"] \in BOOLEAN
    BY <2>3, Zenon
  <2>9. ZeroStats["gauge"] \in GaugeValue /\ \A l \in Numbers : ZeroStats[l] \in Nat
    BY <2>2, <2>4 DEF GaugeValue
  <2>10. ZeroStats \in Memory
    BY <2>7, <2>8, <2>9 DEF Memory
  <2> QED
    BY <1>1, <2>2, <2>3, <2>4, <2>10
<1>4. /\ Present.mem = mem /\ Present.published = 0 /\ Present \in View
      /\ \A m \in Mutexes : ~Present.holds[m]
  <2> DEFINE holds == [m \in Mutexes |-> held[m] = "capture"]
  <2>1. \A m \in Mutexes : ~holds[m]
    BY <1>1
  <2>2. holds \in [Mutexes -> BOOLEAN]
    OBVIOUS
  <2> HIDE DEF holds
  <2>3. Present = [mem |-> mem, published |-> published, holds |-> holds]
    BY DEF Present, holds
  <2> QED
    BY <1>1, <1>3, <2>1, <2>2, <2>3 DEF View
<1>5. /\ mem["bucket"] = 0 /\ mem["overflow"] = 0 /\ mem["sum"] = 0 /\ mem["total"] = 0
      /\ mem["info"] = 0 /\ mem["frames"] = 0 /\ mem["bytes"] = 0 /\ mem["errors"] = 0
      /\ mem["stalls"] = 0 /\ mem["reconnects"] = 0 /\ mem["last_frame"] = 0
  BY <1>3 DEF Numbers, Counters, Hist, Buckets
<1>6. Rests(Present)
  BY <1>4, <1>5 DEF Rests, Sound, Whole, Short, Long
<1>7. Exact(Present)
  <2>1. mem["known"] = (tally.streams > 0)
    <3>1. tally.streams = 0
      BY <1>1
    <3>2. (tally.streams > 0) = FALSE
      BY <3>1
    <3> QED
      BY <1>3, <3>2, Zenon
  <2> QED
    BY <1>1, <1>3, <1>4, <1>5, <1>6, <2>1 DEF Exact, GaugeOf
<1>8. WriterInv
  BY <1>1, <1>2, <1>6, <1>7, NothingIssued DEF WriterInv
<1>9. DOMAIN shown = {} /\ \A op : ~Pending(op)
  BY <1>1 DEF Pending
<1>10. SectionInv
  BY <1>1, <1>9 DEF SectionInv
<1>11. ReaderInv
  BY <1>1, <1>10 DEF ReaderInv, InOrder
<1>12. ShownInv
  BY <1>1, <1>9, Names DEF ShownInv
<1>13. MainInv
  BY <1>1 DEF MainInv
<1> QED
  BY <1>8, <1>11, <1>12, <1>13 DEF ScrapeInv

-----------------------------------------------------------------------------
(* The invariant. *)

\* Every step keeps ScrapeInv: the capture thread's operations in flight lead
\* from the statistics as they are to what the steps did, and a scrape holds
\* and shows what its pending operations say.
LEMMA ScrapeInductive ==
    ASSUME ScrapeInv, [ScrapeNext]_scrape_vars PROVE ScrapeInv'
<1>0. WriterInv /\ ReaderInv /\ ShownInv /\ MainInv
  BY DEF ScrapeInv
<1>1. CASE CaptureSteps
  <2>1. WriterInv'
    BY <1>0, <1>1, DeviceFoundKeeps, StreamStartsKeeps, AttemptFailsKeeps,
       FrameArrivesKeeps, StreamStallsKeeps, DeviceLostKeeps DEF CaptureSteps
  <2>2. \E stores, p, did : Step(stores, p, did)
    <3>1. CASE DeviceFound
      BY <3>1 DEF DeviceFound
    <3>2. CASE StreamStarts
      BY <3>2 DEF StreamStarts
    <3>3. CASE AttemptFails
      BY <3>3 DEF AttemptFails
    <3>4. CASE FrameArrives
      BY <3>4 DEF FrameArrives
    <3>5. CASE StreamStalls
      BY <3>5 DEF StreamStalls
    <3>6. CASE DeviceLost
      BY <3>6 DEF DeviceLost
    <3> QED
      BY <1>1, <3>1, <3>2, <3>3, <3>4, <3>5, <3>6 DEF CaptureSteps
  <2>3. /\ UNCHANGED <<scrape, mem, held, published, main, stop>>
        /\ http_at' = http_at
    BY <2>2 DEF Step, scrape, http_vars
  <2>4. ReaderInv' /\ ShownInv'
    BY <1>0, <2>3, ReaderUntouched
  <2> QED
    BY <1>0, <2>1, <2>3, <2>4 DEF ScrapeInv, MainInv
<1>2. CASE StoreLands
  <2>1. DOMAIN held = Mutexes
    BY <1>0 DEF ReaderInv
  <2>2. WriterInv'
    BY <1>0, <1>2, <2>1, StoreLandsKeeps
  <2>3. ReaderInv' /\ ShownInv'
    BY <1>0, <1>2, StoreLandsShows
  <2>4. MainInv'
    BY <1>0, <1>2 DEF StoreLands, MainInv
  <2> QED
    BY <2>2, <2>3, <2>4 DEF ScrapeInv
<1>3. CASE HttpThread
  <2>1. CASE (HttpTop \/ HttpPoll)
               /\ UNCHANGED <<capture, mem, held, scrape, main, stop, published>>
    <3>1. http_at # "writing"
      BY <2>1 DEF HttpTop, HttpPoll
    <3> QED
      BY <1>0, <2>1, <3>1, WriterUntouched, ReaderUntouched DEF ScrapeInv, MainInv
  <2>2. CASE Handle
    BY <1>0, <2>2, HandleKeeps DEF ScrapeInv, MainInv, Handle
  <2>3. CASE LoadLands
    BY <1>0, <2>3, LoadLandsKeeps DEF ScrapeInv, MainInv, LoadLands
  <2>4. CASE Respond
    BY <1>0, <2>4, RespondKeeps DEF ScrapeInv, MainInv, Respond
  <2> QED
    BY <1>3, <2>1, <2>2, <2>3, <2>4 DEF HttpThread
<1>4. CASE Clients
  <2>1. http_at' = http_at /\ UNCHANGED <<capture, mem, held, scrape, main, stop, published>>
    BY <1>4 DEF Clients, ClientConnects, ClientActs
  <2> QED
    BY <1>0, <2>1, WriterUntouched, ReaderUntouched DEF ScrapeInv, MainInv
<1>5. CASE Signal
  <2>1. /\ http_at = "writing" => http_at' = "writing"
        /\ UNCHANGED <<capture, mem, held, scrape, main, published>> /\ stop' = TRUE
    BY <1>5 DEF Signal, http_vars
  <2> QED
    BY <1>0, <2>1, WriterUntouched, ReaderUntouched DEF ScrapeInv, MainInv
<1>6. CASE StopServer
  <2>1. /\ http_at' = http_at /\ main' = "joining"
        /\ UNCHANGED <<capture, mem, held, scrape, stop, published>>
    BY <1>6 DEF StopServer, HttpServerStop
  <2> QED
    BY <1>0, <2>1, WriterUntouched, ReaderUntouched DEF ScrapeInv, MainInv
<1>7. CASE Join
  <2>1. /\ http_at' = http_at /\ main' = "exited"
        /\ UNCHANGED <<capture, mem, held, scrape, stop, published>>
    BY <1>7 DEF Join, http_vars
  <2> QED
    BY <1>0, <2>1, WriterUntouched, ReaderUntouched DEF ScrapeInv, MainInv
<1>8. CASE UNCHANGED scrape_vars
  <2>1. /\ http_at' = http_at
        /\ UNCHANGED <<capture, mem, held, scrape, main, stop, published>>
    BY <1>8 DEF scrape_vars, http_vars, capture
  <2> QED
    BY <1>0, <2>1, WriterUntouched, ReaderUntouched DEF ScrapeInv, MainInv
<1> QED
  BY <1>1, <1>2, <1>3, <1>4, <1>5, <1>6, <1>7, <1>8 DEF ScrapeNext

\* Every state of hamstercamd's two threads satisfies ScrapeInv, for every
\* reordering window and every number of stores in flight.
THEOREM ScrapeInvariance == ScrapeSpec => []ScrapeInv
<1>1. ScrapeInit => ScrapeInv
  BY ScrapeInitial
<1>2. ScrapeInv /\ [ScrapeNext]_scrape_vars => ScrapeInv'
  BY ScrapeInductive
<1> QED
  BY <1>1, <1>2, PTL DEF ScrapeSpec

-----------------------------------------------------------------------------
(* What follows. *)

\* The capture thread gives a mutex back with an unlock.
LEMMA HeldUntilUnlock ==
    ASSUME NEW V, NEW ops, Execution(V, ops), NEW m \in Mutexes,
           V[0].holds[m], ~V[Len(ops)].holds[m]
    PROVE  \E k \in 1..Len(ops) : ops[k] = Unlock(m)
<1> DEFINE Free == {k \in 0..Len(ops) : ~V[k].holds[m]}
<1>1. Len(ops) \in Nat
  BY ExecutionSteps
<1>2. Free \in SUBSET Nat /\ Len(ops) \in Free
  BY <1>1
<1>3. PICK k \in Free : \A n \in Free : k <= n
  BY <1>2, LeastNatural
<1>4. k \in 1..Len(ops) /\ k - 1 \in 0..Len(ops) /\ k - 1 \notin Free
  BY <1>1, <1>3
<1>5. V[k - 1].holds[m] /\ ~V[k].holds[m]
  BY <1>3, <1>4
<1>6. ops[k] \in WriterOp /\ V[k - 1] \in View /\ V[k] = Effect(V[k - 1], ops[k])
  BY <1>4, ExecutionSteps
<1>7. V[k].holds[m] = IF m # ops[k].loc THEN V[k - 1].holds[m] ELSE ops[k].do = "lock"
  BY <1>6, EffectOf
<1>8. m = ops[k].loc /\ ops[k].do # "lock"
  BY <1>5, <1>7
<1>9. ops[k] = Unlock(m)
  BY <1>6, <1>8 DEF WriterOp, Unlock, Op, Mutexes, Counters, Hist, Buckets
<1> QED
  BY <1>4, <1>9

\* The threads' variables keep their types, and whichever thread holds a mutex
\* still has its unlock to make: neither the capture thread nor a scrape leaves
\* histogram_mutex or stream_info_mutex locked behind it.
THEOREM ScrapeTypeCorrect == ScrapeSpec => []ScrapeTypeOK
<1>1. ScrapeInv => ScrapeTypeOK
  <2> SUFFICES ASSUME ScrapeInv PROVE ScrapeTypeOK
    OBVIOUS
  <2>0. WriterInv /\ ReaderInv /\ MainInv
    BY DEF ScrapeInv
  <2>1. mem \in Memory
    BY <2>0, PresentSound
  <2>2. DOMAIN mem = Loc /\ mem["gauge"] \in GaugeValue
    BY <2>1 DEF Memory
  <2>3. DOMAIN ZeroStats = Loc
    BY DEF ZeroStats, Loc, Numbers, Hist
  <2>4. DOMAIN shown \subseteq Loc
    BY <2>0, Names DEF ReaderInv, SectionInv
  <2>5. ASSUME NEW m \in Mutexes, held[m] = "capture" PROVE Contains(writer, Unlock(m))
    <3>1. PICK v : Leads(Present, writer, v) /\ Exact(v)
      BY <2>0 DEF WriterInv
    <3>2. PICK V : Execution(V, writer) /\ V[0] = Present /\ V[Len(writer)] = v
      BY <3>1 DEF Leads
    <3>3. Present.holds[m]
      BY <2>5 DEF Present
    <3>4. ~v.holds[m]
      BY <3>1 DEF Exact, Rests
    <3> QED
      BY <3>2, <3>3, <3>4, HeldUntilUnlock DEF Contains
  <2>6. ASSUME NEW m \in Mutexes, held[m] = "http" PROVE Contains(reader, Unlock(m))
    <3>1. Pending(Unlock(m))
      BY <2>0, <2>6 DEF ReaderInv, SectionInv
    <3>2. DOMAIN reader = 1..Len(reader)
      BY <2>0 DEF ReaderInv, InOrder
    <3> QED
      BY <3>1, <3>2 DEF Pending, Contains
  <2>7. \A m \in Mutexes : held[m] \in {"none", "capture", "http"}
    BY <2>0 DEF ReaderInv
  <2> QED
    BY <2>0, <2>2, <2>3, <2>4, <2>5, <2>6, <2>7 DEF ScrapeTypeOK, MainInv, GaugeValue
<1> QED
  BY <1>1, ScrapeInvariance, PTL

\* Every scrape shows a whole histogram, whatever the capture thread observes
\* meanwhile: snapshot reads under the mutex observe stores under.
THEOREM HistogramIsWhole == ScrapeSpec => []HistogramWhole
<1>1. ScrapeInv => HistogramWhole
  BY ScrapedShows, Names DEF ScrapeInv, ShownInv, HistogramWhole, Whole
<1> QED
  BY <1>1, ScrapeInvariance, PTL

\* Every scrape that says Streaming shows a format at least as new as that
\* stream, although the gauge is relaxed and loaded outside the mutex: a scrape
\* takes the mutex of stream_info behind its load of the gauge.
THEOREM StreamingShowsFormat == ScrapeSpec => []StreamingHasFormat
<1>1. ScrapeInv => StreamingHasFormat
  BY ScrapedShows, Names DEF ScrapeInv, ShownInv, StreamingHasFormat
<1> QED
  BY <1>1, ScrapeInvariance, PTL

\* A scrape counts more frames than an earlier one counted intervals, although
\* frames is a relaxed counter that no mutex guards: a frame is counted before
\* its interval is observed under the mutex.
THEOREM FramesCover == ScrapeSpec => []FramesCoverIntervals
<1>1. ScrapeInv => FramesCoverIntervals
  BY ScrapedShows, Names DEF ScrapeInv, ShownInv, FramesCoverIntervals
<1> QED
  BY <1>1, ScrapeInvariance, PTL

\* Once the stores of the steps have taken effect, in whatever order they did,
\* the statistics say exactly what the steps did.
THEOREM StatsAreExact == ScrapeSpec => []StatsExact
<1>1. ScrapeInv => StatsExact
  <2> SUFFICES ASSUME ScrapeInv, writer = <<>> PROVE StatsExact
    BY DEF StatsExact
  <2>1. PICK v : Leads(Present, writer, v) /\ Exact(v)
    BY DEF ScrapeInv, WriterInv
  <2>2. Present = v
    BY <2>1, LeadsNowhere
  <2>3. v.mem = mem
    BY <2>2 DEF Present
  <2> QED
    BY <2>1, <2>3 DEF Exact, StatsExact
<1> QED
  BY <1>1, ScrapeInvariance, PTL

=============================================================================
