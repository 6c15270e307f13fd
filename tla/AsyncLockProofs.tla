--------------------------- MODULE AsyncLockProofs ---------------------------
(***************************************************************************)
(* The locks of AsyncLock exclude, forget nothing and keep order, for any  *)
(* number of locks and calls.  The argument is about the chain: the call   *)
(* that a call awaits is the latest one before it of the same lock, unless *)
(* all those have finished, and a queue promise settles only after every   *)
(* call up to its own has finished.  Hence what a running call has read is *)
(* what the file says, but for its own change, until the call ends.        *)
(***************************************************************************)
EXTENDS AsyncLock, TLAPS

Made == {t \in Calls : t <= made}

\* Exactly the calls up to "made" have been made.
MadeInv == \A t \in Calls : step[t] = "unmade" <=> t > made

\* What a call awaits, when it was made.
ChainInv ==
    \A t \in Made :
      /\ previous[t] = 0 =>
           \A u \in Made : u < t /\ lock[u] = lock[t] => step[u] = "finished"
      /\ previous[t] # 0 =>
           /\ previous[t] < t
           /\ previous[t] \in Made
           /\ lock[previous[t]] = lock[t]
           /\ \A u \in Made : previous[t] < u /\ u < t => lock[u] # lock[t]

\* The tail is the latest call of its lock; no tail means that all have finished.
TailInv ==
    \A k \in Locks :
      /\ tail[k] = 0 => \A t \in Made : lock[t] = k => step[t] = "finished"
      /\ tail[k] # 0 =>
           /\ tail[k] \in Made
           /\ lock[tail[k]] = k
           /\ \A u \in Made : tail[k] < u => lock[u] # k
           /\ k \in OrderLocks => step[tail[k]] # "finished"

\* A settled promise means that its call and all before it have finished.
SettledInv ==
    \A t \in settled :
      /\ t \in Made
      /\ \A u \in Made : u <= t /\ lock[u] = lock[t] => step[u] = "finished"

\* A call that no longer waits is the last of its lock to have been served.
OrderInv ==
    \A t, u \in Made :
      t < u /\ lock[t] = lock[u] /\ step[u] # "waiting" => step[t] = "finished"

\* Only a running call has a copy, and the file differs from it in that call's own
\* change at most.
CopyInv ==
    \A t \in Calls :
      /\ step[t] # "running" => copy[t] = {}
      /\ \A r \in copy[t] : r \cup {t} = record[lock[t]] \cup {t}

Inv == TypeOK /\ MadeInv /\ ChainInv /\ TailInv /\ SettledInv /\ OrderInv /\ CopyInv

-----------------------------------------------------------------------------
\* The invariant holds before any call.
LEMMA InitInv == Init => Inv
  <1> SUFFICES ASSUME Init PROVE Inv
    OBVIOUS
  <1> USE LockAssumption DEF Init, Calls, Made
  <1>1. TypeOK
    BY DEF TypeOK, Locks
  <1>2. Made = {}
    OBVIOUS
  <1>3. MadeInv
    BY DEF MadeInv
  <1>4. ChainInv /\ TailInv /\ SettledInv /\ OrderInv /\ CopyInv
    BY <1>2 DEF ChainInv, TailInv, SettledInv, OrderInv, CopyInv
  <1> QED BY <1>1, <1>3, <1>4 DEF Inv

\* A new call goes to the end of its chain.
LEMMA CallInv ==
    ASSUME Inv, NEW k \in Locks, NEW p \in 0 .. made, Call(k, p)
    PROVE  Inv'
  <1> DEFINE n == made + 1
  <1> USE LockAssumption DEF Calls
  <1>1. /\ made \in Nat /\ n \in Calls /\ made' = n /\ n \notin Made
        /\ Made' = Made \cup {n}
    BY DEF Call, Inv, TypeOK, Made
  <1>2. TypeOK'
    <2>1. /\ made \in 0 .. MaxCalls /\ p \in 0 .. MaxCalls /\ n \in 0 .. MaxCalls
          /\ previous \in [Calls -> 0 .. MaxCalls] /\ parent \in [Calls -> 0 .. MaxCalls]
          /\ tail \in [Locks -> 0 .. MaxCalls] /\ tail[k] \in 0 .. MaxCalls
      BY <1>1 DEF Inv, TypeOK
    <2>2. /\ lock' = [lock EXCEPT ![n] = k] /\ step' = [step EXCEPT ![n] = "waiting"]
          /\ previous' = [previous EXCEPT ![n] = tail[k]]
          /\ parent' = [parent EXCEPT ![n] = p]
          /\ tail' = [tail EXCEPT ![k] = n]
          /\ UNCHANGED <<settled, record, copy>>
      BY DEF Call, files
    <2> HIDE DEF Calls, n
    <2> QED BY <1>1, <2>1, <2>2 DEF Inv, TypeOK
  <1>3. /\ \A t \in Made : /\ t < n /\ t \in Calls /\ lock'[t] = lock[t]
                           /\ previous'[t] = previous[t] /\ step'[t] = step[t]
        /\ lock'[n] = k /\ previous'[n] = tail[k] /\ step'[n] = "waiting"
        /\ settled' = settled
        /\ tail'[k] = n
        /\ \A j \in Locks : j # k => tail'[j] = tail[j]
    BY <1>1 DEF Call, Inv, TypeOK, Made
  <1>4. MadeInv'
    BY <1>1 DEF Call, Inv, TypeOK, MadeInv
  <1>5. ChainInv'
    <2>1. ASSUME NEW t \in Made
          PROVE  /\ previous[t] = 0 =>
                      \A u \in Made' : u < t /\ lock'[u] = lock'[t] => step'[u] = "finished"
                 /\ previous[t] # 0 =>
                      /\ previous[t] < t
                      /\ previous[t] \in Made'
                      /\ lock'[previous[t]] = lock'[t]
                      /\ \A u \in Made' : previous[t] < u /\ u < t => lock'[u] # lock'[t]
      <3>1. t < n /\ ~(n < t) /\ t \in Nat
        BY <1>1, <1>3
      <3>2. \A u \in Made' : u < t => u \in Made
        BY <1>1, <3>1
      <3>3. CASE previous[t] = 0
        BY <1>1, <1>3, <3>2, <3>3 DEF Inv, ChainInv
      <3>4. CASE previous[t] # 0
        <4>1. /\ previous[t] < t
              /\ previous[t] \in Made
              /\ lock[previous[t]] = lock[t]
              /\ \A u \in Made : previous[t] < u /\ u < t => lock[u] # lock[t]
          BY <3>4 DEF Inv, ChainInv
        <4> QED BY <1>1, <1>3, <3>2, <3>4, <4>1
      <3> QED BY <3>3, <3>4
    <2>2. /\ tail[k] = 0 =>
               \A u \in Made' : u < n /\ lock'[u] = k => step'[u] = "finished"
          /\ tail[k] # 0 =>
               /\ tail[k] < n
               /\ tail[k] \in Made'
               /\ lock'[tail[k]] = k
               /\ \A u \in Made' : tail[k] < u /\ u < n => lock'[u] # k
      <3>1. ~(n < n)
        BY <1>1
      <3> QED BY <1>1, <1>3, <3>1 DEF Inv, TailInv
    <2> QED BY <1>1, <1>3, <2>1, <2>2 DEF ChainInv
  <1>6. TailInv'
    <2>1. ASSUME NEW u \in Made'
          PROVE  ~(n < u)
      BY <1>1, <1>3
    <2>2. ASSUME NEW j \in Locks, j # k
          PROVE  /\ tail'[j] = 0 => \A t \in Made' : lock'[t] = j => step'[t] = "finished"
                 /\ tail'[j] # 0 =>
                      /\ tail'[j] \in Made'
                      /\ lock'[tail'[j]] = j
                      /\ \A u \in Made' : tail'[j] < u => lock'[u] # j
                      /\ j \in OrderLocks => step'[tail'[j]] # "finished"
      BY <1>1, <1>3, <2>2 DEF Inv, TailInv
    <2>3. tail'[k] # 0
      BY <1>1, <1>3
    <2> QED BY <1>1, <1>3, <2>1, <2>2, <2>3 DEF TailInv
  <1>7. SettledInv'
    <2>1. ASSUME NEW t \in settled
          PROVE  t \in Made /\ ~(n <= t)
      <3>1. t \in Made
        BY DEF Inv, SettledInv
      <3> QED BY <1>1, <1>3, <3>1
    <2> QED BY <1>1, <1>3, <2>1 DEF Inv, SettledInv
  <1>8. OrderInv'
    <2>1. ASSUME NEW t \in Made'
          PROVE  ~(n < t)
      BY <1>1, <1>3
    <2> QED BY <1>1, <1>3, <2>1 DEF Inv, OrderInv
  <1>9. CopyInv'
    <2>1. /\ step[n] = "unmade"
          /\ \A t \in Calls : t # n => step'[t] = step[t] /\ lock'[t] = lock[t]
          /\ UNCHANGED <<record, copy>>
      BY <1>1 DEF Call, Inv, TypeOK, MadeInv, files
    <2> QED BY <1>1, <2>1 DEF Inv, CopyInv
  <1> QED BY <1>2, <1>4, <1>5, <1>6, <1>7, <1>8, <1>9 DEF Inv

\* A call starts when all before it have finished.
LEMMA StartInv ==
    ASSUME Inv, NEW t \in Calls, Start(t)
    PROVE  Inv'
  <1> USE LockAssumption DEF Calls
  <1>1. /\ t \in Made /\ Made' = Made /\ made \in Nat
        /\ step \in [Calls -> {"unmade", "waiting", "running", "finished"}]
        /\ step' = [step EXCEPT ![t] = "running"] /\ step[t] = "waiting"
        /\ UNCHANGED <<made, lock, previous, settled, tail>>
    BY DEF Start, Inv, TypeOK, Made, MadeInv
  <1>2. TypeOK'
    BY DEF Start, Inv, TypeOK, files
  <1>3. MadeInv'
    BY <1>1 DEF Inv, MadeInv, Made
  <1>4. \A u \in Made : step[u] = "finished" <=> step'[u] = "finished"
    BY <1>1 DEF Made
  <1>5. ChainInv' /\ SettledInv'
    BY <1>1, <1>4 DEF Inv, ChainInv, SettledInv
  <1>6. TailInv'
    BY <1>1, <1>4 DEF Inv, TailInv
  <1>7. \A u \in Made : u < t /\ lock[u] = lock[t] => step[u] = "finished"
    <2>1. CASE previous[t] = 0
      BY <1>1, <2>1 DEF Inv, ChainInv
    <2>2. CASE previous[t] # 0
      <3>1. /\ previous[t] \in settled /\ previous[t] \in Made
            /\ lock[previous[t]] = lock[t]
            /\ \A u \in Made : previous[t] < u /\ u < t => lock[u] # lock[t]
        BY <1>1, <2>2 DEF Start, Inv, ChainInv
      <3>2. \A u \in Made : u <= previous[t] /\ lock[u] = lock[t] => step[u] = "finished"
        BY <3>1 DEF Inv, SettledInv
      <3>3. \A u \in Made : u <= previous[t] \/ previous[t] < u
        BY <3>1 DEF Made
      <3> QED BY <3>1, <3>2, <3>3
    <2> QED BY <2>1, <2>2
  <1>8. OrderInv'
    BY <1>1, <1>4, <1>7 DEF Inv, OrderInv, Made
  <1>9. CopyInv'
    BY <1>1 DEF Start, files, Inv, CopyInv
  <1> QED BY <1>2, <1>3, <1>5, <1>6, <1>8, <1>9 DEF Inv

\* No two calls run under one lock.
LEMMA OneRuns ==
    ASSUME Inv, NEW k \in Locks
    PROVE  \A t \in Running(k) : Running(k) = {t}
  <1>1. ASSUME NEW t \in Running(k), NEW u \in Running(k)
        PROVE  t = u
    <2>1. t \in Made /\ u \in Made
      BY LockAssumption DEF Inv, TypeOK, MadeInv, Made, Calls, Running
    <2>2. ~(t < u) /\ ~(u < t)
      BY <2>1 DEF Inv, OrderInv, Running
    <2> QED BY <2>1, <2>2, LockAssumption DEF Made, Calls
  <1> QED BY <1>1

\* A call reads what the file says.
LEMMA ReadInv ==
    ASSUME Inv, NEW t \in Calls, ReadRecord(t)
    PROVE  Inv'
  <1>1. /\ copy' = [copy EXCEPT ![t] = {record[lock[t]]}] /\ step[t] = "running"
        /\ UNCHANGED <<made, lock, previous, parent, step, settled, tail, record>>
    BY DEF ReadRecord
  <1>2. TypeOK'
    BY <1>1 DEF Inv, TypeOK
  <1>3. MadeInv' /\ ChainInv' /\ TailInv' /\ SettledInv' /\ OrderInv'
    BY <1>1 DEF Inv, MadeInv, ChainInv, TailInv, SettledInv, OrderInv, Made
  <1>4. CopyInv'
    BY <1>1 DEF Inv, TypeOK, CopyInv
  <1> QED BY <1>2, <1>3, <1>4 DEF Inv

\* What it writes is what the file says, with its own change; no other call of the
\* lock has a copy.
LEMMA WriteInv ==
    ASSUME Inv, NEW t \in Calls, WriteRecord(t)
    PROVE  /\ Inv'
           /\ lock[t] \in Locks /\ t \in Running(lock[t])
           /\ record' = [record EXCEPT ![lock[t]] = @ \cup {t}]
  <1>1. PICK r \in copy[t] : record' = [record EXCEPT ![lock[t]] = r \cup {t}]
    BY DEF WriteRecord
  <1>2. /\ step[t] = "running" /\ lock[t] \in Locks /\ t \in Running(lock[t])
        /\ UNCHANGED <<made, lock, previous, parent, step, settled, tail, copy>>
    BY DEF WriteRecord, Inv, TypeOK, Running
  <1>3. record' = [record EXCEPT ![lock[t]] = @ \cup {t}]
    <2>1. r \cup {t} = record[lock[t]] \cup {t}
      BY DEF Inv, CopyInv
    <2> QED BY <1>1, <2>1
  <1>4. TypeOK'
    BY <1>2, <1>3 DEF Inv, TypeOK
  <1>5. MadeInv' /\ ChainInv' /\ TailInv' /\ SettledInv' /\ OrderInv'
    BY <1>2 DEF Inv, MadeInv, ChainInv, TailInv, SettledInv, OrderInv, Made
  <1>6. CopyInv'
    <2>1. ASSUME NEW u \in Calls, u # t, lock[u] = lock[t] PROVE copy[u] = {}
      <3>1. u \notin Running(lock[t])
        BY <1>2, <2>1, OneRuns
      <3> QED BY <2>1, <3>1 DEF Running, Inv, CopyInv
    <2>2. \A u \in Calls : lock[u] # lock[t] => record'[lock[u]] = record[lock[u]]
      BY <1>3 DEF Inv, TypeOK
    <2>3. record'[lock[t]] = record[lock[t]] \cup {t}
      BY <1>2, <1>3 DEF Inv, TypeOK
    <2>4. \A s \in copy[t] : s \cup {t} = record'[lock[t]] \cup {t}
      BY <2>3 DEF Inv, CopyInv
    <2> QED BY <1>2, <2>1, <2>2, <2>4 DEF Inv, CopyInv
  <1> QED BY <1>2, <1>3, <1>4, <1>5, <1>6 DEF Inv

\* A call finishes and takes its own entry away, if it is still there.
LEMMA FinishInv ==
    ASSUME Inv, NEW t \in Calls, Finish(t)
    PROVE  Inv'
  <1> USE LockAssumption DEF Calls
  <1>1. /\ t \in Made /\ Made' = Made /\ made \in Nat
        /\ step \in [Calls -> {"unmade", "waiting", "running", "finished"}]
        /\ step' = [step EXCEPT ![t] = "finished"] /\ step[t] = "running"
        /\ UNCHANGED <<made, lock, previous, settled>>
        /\ lock[t] \in Locks
    BY DEF Finish, Inv, TypeOK, Made, MadeInv
  <1>2. TypeOK'
    <2>1. tail' \in [Locks -> 0 .. MaxCalls]
      BY DEF Finish, Inv, TypeOK
    <2> HIDE DEF Calls
    <2> QED BY <2>1 DEF Finish, Inv, TypeOK
  <1>3. MadeInv'
    BY <1>1 DEF Inv, MadeInv, Made
  <1>4. \A u \in Made : step[u] = "finished" => step'[u] = "finished"
    BY <1>1 DEF Made
  <1>5. ChainInv' /\ SettledInv'
    BY <1>1, <1>4 DEF Inv, ChainInv, SettledInv
  <1>6. \A u \in Made : u < t /\ lock[u] = lock[t] => step[u] = "finished"
    BY <1>1 DEF Inv, OrderInv
  <1>7. TailInv'
    <2>1. CASE lock[t] \in OrderLocks /\ tail[lock[t]] = t
      <3>1. /\ tail'[lock[t]] = 0
            /\ \A k \in Locks : k # lock[t] => tail'[k] = tail[k]
        BY <1>1, <2>1 DEF Finish, Inv, TypeOK
      <3>2. \A u \in Made : lock[u] = lock[t] => step'[u] = "finished"
        <4>1. \A u \in Made : t < u => lock[u] # lock[t]
          BY <1>1, <2>1 DEF Inv, TailInv, Made
        <4>2. \A u \in Made : u < t \/ u = t \/ t < u
          BY DEF Made
        <4> QED BY <1>1, <1>4, <1>6, <4>1, <4>2 DEF Made
      <3>3. \A k \in Locks : k # lock[t] /\ tail[k] # 0 => tail[k] # t /\ tail[k] \in Made
        BY <1>1 DEF Inv, TailInv
      <3>4. \A u \in Made : u # t => step'[u] = step[u]
        BY <1>1 DEF Made
      <3> QED BY <1>1, <1>4, <3>1, <3>2, <3>3, <3>4 DEF Inv, TailInv
    <2>2. CASE ~(lock[t] \in OrderLocks /\ tail[lock[t]] = t)
      <3>1. tail' = tail
        BY <2>2 DEF Finish
      <3>2. \A k \in OrderLocks : tail[k] # 0 => tail[k] # t /\ tail[k] \in Made
        BY <1>1, <2>2 DEF Inv, TailInv, Locks
      <3>3. \A u \in Made : u # t => step'[u] = step[u]
        BY <1>1 DEF Made
      <3> QED BY <1>1, <1>4, <3>1, <3>2, <3>3 DEF Inv, TailInv
    <2> QED BY <2>1, <2>2
  <1>8. OrderInv'
    BY <1>1, <1>4, <1>6 DEF Inv, OrderInv, Made
  <1>9. CopyInv'
    BY <1>1 DEF Finish, Inv, TypeOK, CopyInv
  <1> QED BY <1>2, <1>3, <1>5, <1>7, <1>8, <1>9 DEF Inv

\* A promise settles after its call and the promise before it.
LEMMA SettleInv ==
    ASSUME Inv, NEW t \in Calls, Settle(t)
    PROVE  Inv'
  <1> USE LockAssumption DEF Calls
  <1>1. /\ t \in Made /\ Made' = Made /\ made \in Nat /\ step[t] = "finished"
        /\ settled' = settled \cup {t}
        /\ UNCHANGED <<made, lock, previous, step, tail>>
    BY DEF Settle, Inv, TypeOK, Made, MadeInv
  <1>2. TypeOK'
    BY DEF Settle, Inv, TypeOK, files
  <1>3. MadeInv' /\ ChainInv' /\ TailInv' /\ OrderInv' /\ CopyInv'
    BY <1>1 DEF Settle, files, Inv, MadeInv, ChainInv, TailInv, OrderInv, CopyInv
  <1>4. \A u \in Made : u <= t /\ lock[u] = lock[t] => step[u] = "finished"
    BY <1>1 DEF Inv, OrderInv, Made
  <1>5. SettledInv'
    BY <1>1, <1>4 DEF Inv, SettledInv
  <1> QED BY <1>2, <1>3, <1>5 DEF Inv

\* Every step preserves the invariant.
LEMMA NextInv == Inv /\ [Next]_vars => Inv'
  <1> SUFFICES ASSUME Inv, [Next]_vars PROVE Inv'
    OBVIOUS
  <1>1. CASE \E k \in Locks, p \in 0 .. made : Call(k, p)
    BY <1>1, CallInv
  <1>2. CASE \E t \in Calls : Start(t)
    BY <1>2, StartInv
  <1>3. CASE \E t \in Calls : Finish(t)
    BY <1>3, FinishInv
  <1>4. CASE \E t \in Calls : Settle(t)
    BY <1>4, SettleInv
  <1>5. CASE UNCHANGED vars
    BY <1>5 DEF vars, files, Inv, TypeOK, MadeInv, ChainInv, TailInv, SettledInv,
                OrderInv, CopyInv, Made
  <1>6. CASE \E t \in Calls : ReadRecord(t)
    BY <1>6, ReadInv
  <1>7. CASE \E t \in Calls : WriteRecord(t)
    BY <1>7, WriteInv
  <1> QED BY <1>1, <1>2, <1>3, <1>4, <1>5, <1>6, <1>7 DEF Next

\* The chain invariant holds always.
THEOREM InvAlways == Spec => []Inv
  <1> QED BY InitInv, NextInv, PTL DEF Spec

-----------------------------------------------------------------------------
\* The variables of withOrderLock and its likes keep their types.
THEOREM TypeCorrect == Spec => []TypeOK
  <1>1. Inv => TypeOK
    BY DEF Inv
  <1> QED BY <1>1, InvAlways, PTL

\* At most one callback of a lock runs at a time.
THEOREM Exclusion == Spec => []MutualExclusion
  <1>1. Inv => MutualExclusion
    <2> SUFFICES ASSUME Inv, NEW t \in Calls, NEW u \in Calls,
                        lock[t] = lock[u], step[t] = "running", step[u] = "running"
                 PROVE  t = u
      BY DEF MutualExclusion
    <2>1. t \in Made /\ u \in Made
      BY LockAssumption DEF Inv, TypeOK, MadeInv, Made, Calls
    <2>2. ~(t < u) /\ ~(u < t)
      BY <2>1 DEF Inv, OrderInv
    <2> QED BY <2>2, LockAssumption DEF Calls
  <1> QED BY <1>1, InvAlways, PTL

\* The map of tails has an entry for exactly the orders whose lock is in use.
THEOREM EntriesAreInUse == Spec => []EntryWhileInUse
  <1>1. Inv => EntryWhileInUse
    <2> SUFFICES ASSUME Inv, NEW k \in OrderLocks
                 PROVE  tail[k] # 0 <=> \E t \in Calls :
                          lock[t] = k /\ step[t] \in {"waiting", "running"}
      BY DEF EntryWhileInUse
    <2>1. k \in Locks
      BY DEF Locks
    <2>2. \A t \in Calls : t \in Made <=> step[t] # "unmade"
      BY LockAssumption DEF Inv, TypeOK, MadeInv, Made, Calls
    <2>3. \A t \in Calls : step[t] \in {"unmade", "waiting", "running", "finished"}
      BY DEF Inv, TypeOK
    <2>4. Made \subseteq Calls
      BY DEF Made
    <2> QED BY <2>1, <2>2, <2>3, <2>4 DEF Inv, TailInv
  <1> QED BY <1>1, InvAlways, PTL

-----------------------------------------------------------------------------
(* The refinement of FifoLock. *)

WaitingFor == [k \in Locks |-> Waiting(k)]
HolderOf == [k \in Locks |-> OnlyOf(Running(k))]

\* A lock under which nothing runs has no holder.
LEMMA OnlyOfEmpty == OnlyOf({}) = 0
  <1> QED BY DEF OnlyOf

\* A lock under which one call runs is held by it.
LEMMA OnlyOfOne == ASSUME NEW t PROVE OnlyOf({t}) = t
  <1>1. (CHOOSE u \in {t} : TRUE) = t
    OBVIOUS
  <1> QED BY <1>1 DEF OnlyOf

\* Making a call is joining the queue.
LEMMA CallJoins ==
    ASSUME Inv, NEW k \in Locks, NEW p \in 0 .. made, Call(k, p)
    PROVE  Fifo!Join(k)
  <1>1. /\ made \in Nat /\ made + 1 \in Calls /\ step[made + 1] = "unmade"
        /\ lock \in [Calls -> Locks]
        /\ step \in [Calls -> {"unmade", "waiting", "running", "finished"}]
        /\ made' = made + 1
        /\ lock' = [lock EXCEPT ![made + 1] = k]
        /\ step' = [step EXCEPT ![made + 1] = "waiting"]
        /\ record' = record
    BY LockAssumption DEF Call, Inv, TypeOK, MadeInv, Calls, files
  <1>2. Waiting(k)' = Waiting(k) \cup {made + 1}
    BY <1>1 DEF Waiting
  <1>3. \A j \in Locks : j # k => Waiting(j)' = Waiting(j)
    BY <1>1 DEF Waiting
  <1>4. \A j \in Locks : Running(j)' = Running(j)
    BY <1>1 DEF Running
  <1>5. WaitingFor' = [WaitingFor EXCEPT ![k] = @ \cup {made + 1}]
    BY <1>2, <1>3 DEF WaitingFor
  <1>6. HolderOf' = HolderOf
    BY <1>4 DEF HolderOf
  <1> QED BY <1>1, <1>5, <1>6 DEF Fifo!Join, WaitingFor, HolderOf

\* Starting a call is serving the one that has waited longest for a free lock.
LEMMA StartEnters ==
    ASSUME Inv, NEW t \in Calls, Start(t)
    PROVE  lock[t] \in Locks /\ t \in Waiting(lock[t]) /\ Fifo!Enter(lock[t], t)
  <1> DEFINE k == lock[t]
  <1>1. /\ t \in Waiting(k) /\ k \in Locks /\ t \in Made /\ t \in Nat
        /\ lock \in [Calls -> Locks]
        /\ step \in [Calls -> {"unmade", "waiting", "running", "finished"}]
        /\ step' = [step EXCEPT ![t] = "running"] /\ step[t] = "waiting"
        /\ made' = made /\ lock' = lock /\ record' = record
    BY LockAssumption DEF Start, Inv, TypeOK, MadeInv, Made, Calls, Waiting, files
  <1>2. Inv'
    BY StartInv
  <1>3. \A u \in Calls : lock[u] = k /\ step[u] \in {"waiting", "running"} =>
          u \in Made' /\ u \in Nat
    BY LockAssumption DEF Inv, TypeOK, MadeInv, Made, Calls, Start
  <1>4. t \in Made' /\ step'[t] = "running" /\ lock'[t] = k
    BY <1>1 DEF Made
  <1>5. ASSUME NEW u \in Made', lock[u] = k, u < t
        PROVE  step[u] = "finished"
    <2>1. step'[u] = "finished"
      BY <1>1, <1>2, <1>4, <1>5 DEF Inv, OrderInv
    <2> QED BY <2>1, <1>1, <1>5 DEF Made
  <1>6. Running(k) = {}
    <2> SUFFICES ASSUME NEW u \in Running(k) PROVE FALSE
      OBVIOUS
    <2>1. u \in Made' /\ u \in Nat /\ lock[u] = k /\ step[u] = "running" /\ u \in Made
      BY <1>1, <1>3 DEF Running, Made
    <2>2. t < u \/ u < t
      BY <2>1, <1>1
    <2>3. ~(t < u)
      BY <2>1, <1>1 DEF Inv, OrderInv
    <2> QED BY <2>1, <2>2, <2>3, <1>5
  <1>7. \A u \in Waiting(k) : t <= u
    BY <1>1, <1>3, <1>5 DEF Waiting
  <1>8. Waiting(k)' = Waiting(k) \ {t} /\ Running(k)' = {t}
    <2>1. Waiting(k)' = {u \in Calls : lock[u] = k /\ step'[u] = "waiting"}
      BY <1>1 DEF Waiting
    <2>2. {u \in Calls : lock[u] = k /\ step'[u] = "waiting"} = Waiting(k) \ {t}
      BY <1>1 DEF Waiting
    <2>3. Running(k)' = {u \in Calls : lock[u] = k /\ step'[u] = "running"}
      BY <1>1 DEF Running
    <2>4. {u \in Calls : lock[u] = k /\ step'[u] = "running"} = {t}
      BY <1>1, <1>6 DEF Running
    <2> QED BY <2>1, <2>2, <2>3, <2>4
  <1>9. \A j \in Locks : j # k => Waiting(j)' = Waiting(j) /\ Running(j)' = Running(j)
    BY <1>1 DEF Waiting, Running
  <1>10. WaitingFor' = [WaitingFor EXCEPT ![k] = @ \ {t}]
    BY <1>1, <1>8, <1>9 DEF WaitingFor
  <1>11. OnlyOf(Running(k)) = 0 /\ OnlyOf(Running(k)') = t
    BY <1>6, <1>8, OnlyOfEmpty, OnlyOfOne
  <1>12. HolderOf' = [HolderOf EXCEPT ![k] = t] /\ HolderOf[k] = 0
    BY <1>1, <1>9, <1>11 DEF HolderOf
  <1>13. WaitingFor[k] = Waiting(k)
    BY <1>1 DEF WaitingFor
  <1> QED BY <1>1, <1>7, <1>10, <1>12, <1>13 DEF Fifo!Enter, WaitingFor, HolderOf

\* Finishing a call is giving the lock back.
LEMMA FinishLeaves ==
    ASSUME Inv, NEW t \in Calls, Finish(t)
    PROVE  lock[t] \in Locks /\ Fifo!Leave(lock[t])
  <1> DEFINE k == lock[t]
  <1>1. /\ t \in Running(k) /\ k \in Locks /\ t # 0
        /\ lock \in [Calls -> Locks]
        /\ step \in [Calls -> {"unmade", "waiting", "running", "finished"}]
        /\ step' = [step EXCEPT ![t] = "finished"] /\ step[t] = "running"
        /\ made' = made /\ lock' = lock /\ record' = record
    BY LockAssumption DEF Finish, Inv, TypeOK, Calls, Running
  <1>2. Running(k) = {t} /\ OnlyOf(Running(k)) = t
    BY <1>1, OneRuns, OnlyOfOne
  <1>3. Running(k)' = {} /\ Waiting(k)' = Waiting(k)
    BY <1>1, <1>2 DEF Running, Waiting
  <1>4. \A j \in Locks : j # k => Waiting(j)' = Waiting(j) /\ Running(j)' = Running(j)
    BY <1>1 DEF Waiting, Running
  <1>5. OnlyOf(Running(k)') = 0
    BY <1>3, OnlyOfEmpty
  <1>6. HolderOf' = [HolderOf EXCEPT ![k] = 0] /\ HolderOf[k] # 0
    BY <1>1, <1>2, <1>4, <1>5 DEF HolderOf
  <1>7. WaitingFor' = WaitingFor
    BY <1>1, <1>3, <1>4 DEF WaitingFor
  <1> QED BY <1>1, <1>6, <1>7 DEF Fifo!Leave, WaitingFor, HolderOf

\* Writing a copy is changing the record as it is.
LEMMA WriteUpdates ==
    ASSUME Inv, NEW t \in Calls, WriteRecord(t)
    PROVE  lock[t] \in Locks /\ Fifo!Update(lock[t])
  <1> DEFINE k == lock[t]
  <1>1. /\ k \in Locks /\ t \in Running(k) /\ t # 0
        /\ record' = [record EXCEPT ![k] = @ \cup {t}]
    BY WriteInv, LockAssumption DEF Calls
  <1>2. HolderOf[k] = t
    BY <1>1, OneRuns, OnlyOfOne DEF HolderOf
  <1>3. made' = made /\ WaitingFor' = WaitingFor /\ HolderOf' = HolderOf
    BY DEF WriteRecord, WaitingFor, HolderOf, Waiting, Running
  <1> QED BY <1>1, <1>2, <1>3 DEF Fifo!Update, WaitingFor, HolderOf

\* The promise chains are first-come, first-served locks, and under them the changes
\* of a record that calls read and write in several steps are made one after another.
THEOREM LocksAreFifo == Spec => ImplementsFifoLock
  <1>1. Init => Fifo!Init
    <2> SUFFICES ASSUME Init PROVE Fifo!Init
      OBVIOUS
    <2>1. \A k \in Locks : Waiting(k) = {} /\ Running(k) = {}
      BY DEF Init, Waiting, Running
    <2> QED BY <2>1, OnlyOfEmpty DEF Init, Fifo!Init
  <1>2. Inv /\ [Next]_vars => [Fifo!Next]_(Fifo!vars)
    <2> SUFFICES ASSUME Inv, [Next]_vars PROVE [Fifo!Next]_(Fifo!vars)
      OBVIOUS
    <2>1. CASE \E k \in Locks, p \in 0 .. made : Call(k, p)
      BY <2>1, CallJoins DEF Fifo!Next
    <2>2. CASE \E t \in Calls : Start(t)
      <3>1. PICK t \in Calls : Start(t)
        BY <2>2
      <3>2. lock[t] \in Locks /\ t \in WaitingFor[lock[t]] /\ Fifo!Enter(lock[t], t)
        BY <3>1, StartEnters DEF WaitingFor
      <3> QED BY <3>2 DEF Fifo!Next, WaitingFor
    <2>3. CASE \E t \in Calls : Finish(t)
      BY <2>3, FinishLeaves DEF Fifo!Next
    <2>4. CASE \E t \in Calls : Settle(t)
      BY <2>4 DEF Settle, files, Fifo!vars, Waiting, Running
    <2>5. CASE UNCHANGED vars
      BY <2>5 DEF vars, files, Fifo!vars, Waiting, Running
    <2>6. CASE \E t \in Calls : ReadRecord(t)
      BY <2>6 DEF ReadRecord, Fifo!vars, Waiting, Running
    <2>7. CASE \E t \in Calls : WriteRecord(t)
      BY <2>7, WriteUpdates DEF Fifo!Next
    <2> QED BY <2>1, <2>2, <2>3, <2>4, <2>5, <2>6, <2>7 DEF Next
  <1> QED BY <1>1, <1>2, InvAlways, PTL DEF Spec, ImplementsFifoLock, Fifo!Spec
=============================================================================
