------------------------------ MODULE FifoLock ------------------------------
(***************************************************************************)
(* What the stores' locks promise: each lock has at most one holder and    *)
(* serves the calls in the order in which they were made, and what a       *)
(* holder changes, it changes in the record as it is at that moment: no    *)
(* other call's change is lost.  This is what lets the specifications of   *)
(* the stores make a handler that writes once a single step.               *)
(*                                                                         *)
(* AsyncLock implements this specification: see AsyncLock!Fifo.            *)
(***************************************************************************)
EXTENDS Naturals

CONSTANT Locks

VARIABLES
    made,     \* calls made so far: a call is known by its number
    waiting,  \* the calls that wait for each lock
    holder,   \* the call that holds each lock, 0 when it is free
    record    \* the record under each lock: the calls whose changes it has

vars == <<made, waiting, holder, record>>

Init ==
    /\ made = 0
    /\ waiting = [k \in Locks |-> {}]
    /\ holder = [k \in Locks |-> 0]
    /\ record = [k \in Locks |-> {}]

Join(k) ==
    /\ made' = made + 1
    /\ waiting' = [waiting EXCEPT ![k] = @ \cup {made + 1}]
    /\ UNCHANGED <<holder, record>>

Enter(k, t) ==
    /\ holder[k] = 0
    /\ t \in waiting[k]
    /\ \A u \in waiting[k] : t <= u
    /\ waiting' = [waiting EXCEPT ![k] = @ \ {t}]
    /\ holder' = [holder EXCEPT ![k] = t]
    /\ UNCHANGED <<made, record>>

Update(k) ==
    /\ holder[k] # 0
    /\ record' = [record EXCEPT ![k] = @ \cup {holder[k]}]
    /\ UNCHANGED <<made, waiting, holder>>

Leave(k) ==
    /\ holder[k] # 0
    /\ holder' = [holder EXCEPT ![k] = 0]
    /\ UNCHANGED <<made, waiting, record>>

Next == \E k \in Locks : \/ Join(k)
                         \/ \E t \in waiting[k] : Enter(k, t)
                         \/ Update(k) \/ Leave(k)

Spec == Init /\ [][Next]_vars
=============================================================================
