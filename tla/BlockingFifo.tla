---------------------------- MODULE BlockingFifo ----------------------------
(***************************************************************************)
(* What bm::Queue promises the threads that share it: a bounded FIFO whose *)
(* calls take effect in one step each, at some time between the call and   *)
(* its return.  There is no lock, no wait and no notification here.        *)
(*                                                                         *)
(*   - a push adds its item once, at the end and while there is room; it   *)
(*     returns without only if the queue is one that refuses, and is full; *)
(*   - a pop takes the oldest item, once, and never returns without one.   *)
(***************************************************************************)
EXTENDS Integers, Sequences

CONSTANTS
    Threads,
    WriteBlock   \* whether a push waits for room

VARIABLES
    queue,     \* the oldest item first
    capacity,
    call       \* for each thread the call it is in, "done" once it had its effect

vars == <<queue, capacity, call>>

Init ==
    /\ queue = <<>>
    /\ capacity \in Nat
    /\ call = [t \in Threads |-> "none"]

Turns(t, from, to) == call[t] = from /\ call' = [call EXCEPT ![t] = to]

Invoke(t) ==
    /\ Turns(t, "none", "push") \/ Turns(t, "none", "pop")
    /\ UNCHANGED <<queue, capacity>>

Put(t) ==
    /\ Turns(t, "push", "done")
    /\ Len(queue) < capacity
    /\ Len(queue') = Len(queue) + 1
    /\ queue = SubSeq(queue', 1, Len(queue))
    /\ UNCHANGED capacity

Refuse(t) ==
    /\ ~WriteBlock
    /\ Turns(t, "push", "none")
    /\ Len(queue) >= capacity
    /\ UNCHANGED <<queue, capacity>>

Take(t) ==
    /\ Turns(t, "pop", "done")
    /\ queue # <<>>
    /\ queue' = Tail(queue)
    /\ UNCHANGED capacity

Return(t) ==
    /\ Turns(t, "done", "none")
    /\ UNCHANGED <<queue, capacity>>

SetCapacity == capacity' \in Nat /\ UNCHANGED <<queue, call>>

Next ==
    \/ \E t \in Threads : Invoke(t) \/ Put(t) \/ Refuse(t) \/ Take(t) \/ Return(t)
    \/ SetCapacity

Spec == Init /\ [][Next]_vars
=============================================================================
