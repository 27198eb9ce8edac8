--------------------------- MODULE RelaxedMemory ---------------------------
(***************************************************************************)
(* What C++ promises of the order in which one thread's operations on      *)
(* shared data take effect, when all its atomics are relaxed.  A thread is  *)
(* the sequence of operations it has issued and that have not taken effect *)
(* yet:                                                                    *)
(*   - two operations on one location keep their order (coherence);        *)
(*   - nothing moves above a lock and nothing below an unlock, but what is *)
(*     outside a critical section may move into it;                        *)
(*   - the locks and unlocks themselves keep their order.                  *)
(* A mutex has one holder.                                                 *)
(***************************************************************************)
EXTENDS Naturals, SequencesExt

CONSTANT Window  \* bound: how many operations of a thread compete at a time

ASSUME WindowAssumption == Window \in Nat \ {0}

Op(do, loc, val) == [do |-> do, loc |-> loc, val |-> val]

Store(loc, val) == Op("store", loc, val)
FetchAdd(loc, n) == Op("add", loc, n)
Load(loc) == Op("load", loc, 0)
Lock(m) == Op("lock", m, 0)
Unlock(m) == Op("unlock", m, 0)

IsMutexOp(op) == op.do \in {"lock", "unlock"}

\* Operation i of the sequence may take effect before those in front of it.
Eligible(ops, i) ==
    /\ i <= Window
    /\ \A j \in 1..(i - 1) :
         /\ ops[j].loc # ops[i].loc
         /\ ops[j].do # "lock"
         /\ ops[i].do # "unlock"
         /\ ~(IsMutexOp(ops[j]) /\ IsMutexOp(ops[i]))

\* What a store or a fetch_add does to the memory.
Applied(mem, op) ==
    CASE op.do = "store" -> [mem EXCEPT ![op.loc] = op.val]
      [] op.do = "add"   -> [mem EXCEPT ![op.loc] = @ + op.val]
      [] OTHER           -> mem

\* Who holds the mutexes after thread t has taken effect with op, and whether
\* it can.
CanAcquire(held, op) == op.do = "lock" => held[op.loc] = "none"

Holding(held, t, op) ==
    CASE op.do = "lock"   -> [held EXCEPT ![op.loc] = t]
      [] op.do = "unlock" -> [held EXCEPT ![op.loc] = "none"]
      [] OTHER            -> held
=============================================================================
