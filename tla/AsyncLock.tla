------------------------------ MODULE AsyncLock ------------------------------
(***************************************************************************)
(* The promise-chain locks of the stores.  withOrderLock of                *)
(* lib/server/transfer-store.ts (and withProductLock, the same code) keeps *)
(* the tail of each lock's chain in a map and deletes the entry when the   *)
(* last call leaves; withBindingsLock, withDiversifierLock and             *)
(* withPoolLock keep one tail in a module variable and never reset it.     *)
(*                                                                         *)
(* Node runs one callback at a time, so what a call does between two       *)
(* awaits is one action.  A promise that settles wakes its waiters later:  *)
(* settling and waking are actions of their own, and anything may run in   *)
(* between.  A callback may fail at any point: the finally block makes     *)
(* that the same as its end.                                               *)
(*                                                                         *)
(* A callback reads the record that its lock guards (an order, a product,  *)
(* the bindings, the marks, the pool), changes the copy in memory and      *)
(* replaces the file, with awaits in between.  A record stands here for    *)
(* the calls whose changes it has.                                         *)
(*                                                                         *)
(* createPaymentIntentForOrder holds the order lock while it takes the     *)
(* bindings, diversifier or pool lock: a running call of an order lock may *)
(* make calls of file locks and ends after they have.                      *)
(***************************************************************************)
EXTENDS Naturals

CONSTANTS
    OrderLocks,  \* keys of a map of tails
    FileLocks,   \* module variables that hold a tail
    MaxCalls     \* bound: calls made

ASSUME LockAssumption == OrderLocks \cap FileLocks = {} /\ MaxCalls \in Nat

Locks == OrderLocks \cup FileLocks

\* A call is known by its number; 0 stands for a promise that is resolved from the
\* start, and for no call.
Calls == 1 .. MaxCalls

VARIABLES
    made,      \* calls made so far
    lock,      \* the lock of each call
    previous,  \* the call whose queue promise it awaits
    parent,    \* the call whose callback made it, 0 for a request handler
    step,      \* "unmade", "waiting" at await previous, "running" or "finished"
    settled,   \* calls whose queue promise has settled
    tail,      \* locks.get(key): the call whose queue promise is there, or 0
    record,    \* the file under each lock: the calls whose changes it has
    copy       \* the record that a running call has read, in a set of its own

files == <<record, copy>>
vars == <<made, lock, previous, parent, step, settled, tail, files>>

TypeOK ==
    /\ made \in 0 .. MaxCalls
    /\ lock \in [Calls -> Locks]
    /\ previous \in [Calls -> 0 .. MaxCalls]
    /\ parent \in [Calls -> 0 .. MaxCalls]
    /\ step \in [Calls -> {"unmade", "waiting", "running", "finished"}]
    /\ settled \subseteq Calls
    /\ tail \in [Locks -> 0 .. MaxCalls]
    /\ record \in [Locks -> SUBSET Calls]
    /\ copy \in [Calls -> SUBSET SUBSET Calls]

Init ==
    /\ made = 0
    /\ \E k \in Locks : lock = [t \in Calls |-> k]  \* immaterial before the call
    /\ previous = [t \in Calls |-> 0]
    /\ parent = [t \in Calls |-> 0]
    /\ step = [t \in Calls |-> "unmade"]
    /\ settled = {}
    /\ tail = [k \in Locks |-> 0]
    /\ record = [k \in Locks |-> {}]
    /\ copy = [t \in Calls |-> {}]

-----------------------------------------------------------------------------
\* Mutant of Nestable: a handler takes the order's lock again.
MutNestable(k) == k \in Locks

\* The locks a callback may take: those of the files, never an order's.
Nestable(k) == k \in FileLocks

\* Call k from a handler (p = 0) or from the callback of call p, which has read its
\* order, up to the await: the call chains its queue promise to the tail and becomes
\* the tail.
Call(k, p) ==
    /\ made < MaxCalls
    /\ p # 0 => Nestable(k) /\ copy[p] # {} /\ lock[p] \in OrderLocks
    /\ p # 0 => \A t \in Calls : parent[t] = p => step[t] = "finished"
    /\ made' = made + 1
    /\ lock' = [lock EXCEPT ![made + 1] = k]
    /\ previous' = [previous EXCEPT ![made + 1] = tail[k]]
    /\ parent' = [parent EXCEPT ![made + 1] = p]
    /\ step' = [step EXCEPT ![made + 1] = "waiting"]
    /\ tail' = [tail EXCEPT ![k] = made + 1]
    /\ UNCHANGED <<settled, files>>

\* Mutant of Start: the call looks whether the lock is free, not at its promise.
MutStart(t) ==
    /\ step[t] = "waiting"
    /\ \A u \in Calls : lock[u] = lock[t] => step[u] # "running"
    /\ step' = [step EXCEPT ![t] = "running"]
    /\ UNCHANGED <<made, lock, previous, parent, settled, tail, files>>

\* The await of the previous queue promise is over and the callback runs.
Start(t) ==
    /\ step[t] = "waiting"
    /\ previous[t] = 0 \/ previous[t] \in settled
    /\ step' = [step EXCEPT ![t] = "running"]
    /\ UNCHANGED <<made, lock, previous, parent, settled, tail, files>>

\* Mutant of ReadRecord: the record is read before it is the call's turn.
MutReadRecord(t) ==
    /\ step[t] \in {"waiting", "running"}
    /\ copy[t] = {}
    /\ copy' = [copy EXCEPT ![t] = {record[lock[t]]}]
    /\ UNCHANGED <<made, lock, previous, parent, step, settled, tail, record>>

\* The callback reads the record that the lock guards, first and once.
ReadRecord(t) ==
    /\ step[t] = "running"
    /\ copy[t] = {}
    /\ copy' = [copy EXCEPT ![t] = {record[lock[t]]}]
    /\ UNCHANGED <<made, lock, previous, parent, step, settled, tail, record>>

\* It writes what it has read and changed, some time later and perhaps again: the
\* file is replaced by a rename.  It may also return or fail without a write.
WriteRecord(t) ==
    /\ step[t] = "running"
    /\ \A u \in Calls : parent[u] = t => step[u] = "finished"
    /\ \E r \in copy[t] : record' = [record EXCEPT ![lock[t]] = r \cup {t}]
    /\ UNCHANGED <<made, lock, previous, parent, step, settled, tail, copy>>

\* Mutant of Finish: the map entry is never deleted.
MutFinishKeeps(t) ==
    /\ step[t] = "running"
    /\ \A u \in Calls : parent[u] = t => step[u] = "finished"
    /\ step' = [step EXCEPT ![t] = "finished"]
    /\ copy' = [copy EXCEPT ![t] = {}]
    /\ UNCHANGED <<made, lock, previous, parent, settled, tail, record>>

\* The finally block: the call resolves its own promise and, for a lock in a map,
\* deletes the entry if it is still its own.
Finish(t) ==
    /\ step[t] = "running"
    /\ \A u \in Calls : parent[u] = t => step[u] = "finished"
    /\ step' = [step EXCEPT ![t] = "finished"]
    /\ tail' = IF lock[t] \in OrderLocks /\ tail[lock[t]] = t
               THEN [tail EXCEPT ![lock[t]] = 0]
               ELSE tail
    /\ copy' = [copy EXCEPT ![t] = {}]
    /\ UNCHANGED <<made, lock, previous, parent, settled, record>>

\* Mutant of Settle: the call after this one has its promise resolved.
MutSettle(t) ==
    /\ step[t] = "finished"
    /\ previous[t] = 0 \/ previous[t] \in settled
    /\ t + 1 \notin settled
    /\ settled' = settled \cup {t + 1}
    /\ UNCHANGED <<made, lock, previous, parent, step, tail, files>>

\* previous.then(() => current) settles, some time after both have.
Settle(t) ==
    /\ step[t] = "finished"
    /\ previous[t] = 0 \/ previous[t] \in settled
    /\ t \notin settled
    /\ settled' = settled \cup {t}
    /\ UNCHANGED <<made, lock, previous, parent, step, tail, files>>

Next ==
    \/ \E k \in Locks, p \in 0 .. made : Call(k, p)
    \/ \E t \in Calls : \/ Start(t) \/ ReadRecord(t) \/ WriteRecord(t)
                        \/ Finish(t) \/ Settle(t)

Spec == Init /\ [][Next]_vars

\* Callbacks end (file operations do, and the scanner and Nym calls have timers)
\* and the event loop runs what is ready.
FairSpec ==
    /\ Spec
    /\ \A t \in Calls : /\ WF_vars(Start(t))
                        /\ WF_vars(Finish(t))
                        /\ WF_vars(Settle(t))

-----------------------------------------------------------------------------
(* Properties. *)

\* At most one callback of a lock runs at a time, although the tail of a chain
\* may be deleted between the end of one call and the arrival of the next.
MutualExclusion ==
    \A t, u \in Calls :
      lock[t] = lock[u] /\ step[t] = "running" /\ step[u] = "running" => t = u

\* The map has an entry for an order exactly as long as some call of its lock is
\* waiting or running: the map does not grow with the number of orders, and no
\* call loses its place.
EntryWhileInUse ==
    \A k \in OrderLocks :
      tail[k] # 0 <=> \E t \in Calls : lock[t] = k /\ step[t] \in {"waiting", "running"}

Waiting(k) == {t \in Calls : lock[t] = k /\ step[t] = "waiting"}
Running(k) == {t \in Calls : lock[t] = k /\ step[t] = "running"}

\* The member of a set that has at most one, 0 when it has none.
OnlyOf(S) == IF S = {} THEN 0 ELSE CHOOSE t \in S : TRUE

Fifo == INSTANCE FifoLock WITH
          waiting <- [k \in Locks |-> Waiting(k)],
          holder <- [k \in Locks |-> OnlyOf(Running(k))]

\* The chains serve the calls of a lock one at a time and in the order in which
\* they were made, and no call's change to the record of the lock is lost, although
\* every call writes a copy that it has read some steps earlier.
ImplementsFifoLock == Fifo!Spec

\* Every call gets its turn, the ones made under another lock included.
NoCallStarves ==
    \A t \in Calls : step[t] = "waiting" ~> step[t] = "running"
=============================================================================
