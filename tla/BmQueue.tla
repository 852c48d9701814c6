------------------------------ MODULE BmQueue ------------------------------
(***************************************************************************)
(* bm::Queue (include/bm/bm_sim/queue.h), the blocking queue between the   *)
(* threads of the switch: a deque, a capacity, one mutex and the condition *)
(* variables q_not_full and q_not_empty.  notify_one() is called after the *)
(* unlock, so it is a step of its own that other threads may precede.  A   *)
(* wait may also end without any notification.                             *)
(*                                                                         *)
(* An item is the number of items accepted before it, plus one.            *)
(***************************************************************************)
EXTENDS Integers, Sequences, FiniteSets

CONSTANTS
    Threads,       \* any of them may push and pop
    Capacity,      \* the capacity given to the constructor
    NewCapacities, \* those given to set_capacity()
    WriteBlock,    \* TRUE for WriteBlock, FALSE for WriteReturn
    MaxItems       \* bound on the items pushed

ASSUME ThreadsAssumption == IsFiniteSet(Threads)
ASSUME CapacityAssumption == Capacity \in Nat /\ NewCapacities \subseteq Nat
ASSUME BehaviorAssumption == WriteBlock \in BOOLEAN

VARIABLES
    queue,         \* the oldest item first
    capacity,
    pc,            \* where each thread is
    accepted,      \* items pushed so far
    taken,         \* items popped so far
    raised         \* set_capacity() has raised the capacity

vars == <<queue, capacity, pc, accepted, taken, raised>>

(* "push" and "pop": about to take the lock and test the condition, for the  *)
(* first time or woken from a wait.                                          *)
PCs == {"idle", "push", "wait_full", "notify_empty",
        "pop", "wait_empty", "notify_full"}

At(place) == {t \in Threads : pc[t] = place}

TypeOK ==
    /\ queue \in Seq(Nat)
    /\ capacity \in Nat
    /\ pc \in [Threads -> PCs]
    /\ accepted \in Nat /\ taken \in Nat
    /\ raised \in BOOLEAN

Init ==
    /\ queue = <<>>
    /\ capacity = Capacity
    /\ pc = [t \in Threads |-> "idle"]
    /\ accepted = 0 /\ taken = 0
    /\ raised = FALSE

is_not_empty == Len(queue) > 0

is_not_full == Len(queue) < capacity

Goto(t, place) == pc' = [pc EXCEPT ![t] = place]

Call(t) ==
    /\ pc[t] = "idle"
    /\ \/ accepted < MaxItems /\ Goto(t, "push")
       \/ Goto(t, "pop")
    /\ UNCHANGED <<queue, capacity, accepted, taken, raised>>

(* push_front() between lock and unlock, or lock and wait.                   *)
PushFront(t) ==
    /\ pc[t] = "push"
    /\ \/ /\ is_not_full
          /\ queue' = Append(queue, accepted + 1)
          /\ accepted' = accepted + 1
          /\ Goto(t, "notify_empty")
       \/ /\ ~is_not_full
          /\ Goto(t, IF WriteBlock THEN "wait_full" ELSE "idle")
          /\ UNCHANGED <<queue, accepted>>
    /\ UNCHANGED <<capacity, taken, raised>>

(* An "if" in place of the while: a woken thread no longer tests.            *)
PopBackUntested(t) ==
    /\ pc[t] = "pop"
    /\ queue' = IF queue = <<>> THEN <<>> ELSE Tail(queue)
    /\ taken' = taken + 1
    /\ Goto(t, "notify_full")
    /\ UNCHANGED <<capacity, accepted, raised>>

(* pop_back()                                                                *)
PopBack(t) ==
    /\ pc[t] = "pop"
    /\ \/ /\ is_not_empty
          /\ queue' = Tail(queue)
          /\ taken' = taken + 1
          /\ Goto(t, "notify_full")
       \/ /\ ~is_not_empty
          /\ Goto(t, "wait_empty")
          /\ UNCHANGED <<queue, taken>>
    /\ UNCHANGED <<capacity, accepted, raised>>

(* notify_one() of a thread: one that waits at a place goes on at another,   *)
(* if any does.  The first form never wakes anyone.                          *)
NoNotify(t, place, next) == Goto(t, "idle")

NotifyOne(t, place, next) ==
    \/ \E w \in At(place) : pc' = [pc EXCEPT ![t] = "idle", ![w] = next]
    \/ At(place) = {} /\ Goto(t, "idle")

NotifyNotEmpty(t) ==
    /\ pc[t] = "notify_empty"
    /\ NotifyOne(t, "wait_empty", "pop")
    /\ UNCHANGED <<queue, capacity, accepted, taken, raised>>

(* pop_back() without its notify_one().                                      *)
SilentPop(t) ==
    /\ pc[t] = "notify_full"
    /\ Goto(t, "idle")
    /\ UNCHANGED <<queue, capacity, accepted, taken, raised>>

NotifyNotFull(t) ==
    /\ pc[t] = "notify_full"
    /\ NotifyOne(t, "wait_full", "push")
    /\ UNCHANGED <<queue, capacity, accepted, taken, raised>>

SpuriousWakeup(t) ==
    /\ \/ pc[t] = "wait_full" /\ Goto(t, "push")
       \/ pc[t] = "wait_empty" /\ Goto(t, "pop")
    /\ UNCHANGED <<queue, capacity, accepted, taken, raised>>

(* set_capacity(): nothing is discarded, nobody is notified.  The first form *)
(* keeps one place free, and is below zero for a capacity of 0.              *)
SetCapacityMinusOne(c) ==
    /\ capacity' = c - 1
    /\ raised' = (raised \/ c > capacity)
    /\ UNCHANGED <<queue, pc, accepted, taken>>

SetCapacity(c) ==
    /\ capacity' = c
    /\ raised' = (raised \/ c > capacity)
    /\ UNCHANGED <<queue, pc, accepted, taken>>

Step(t) == PushFront(t) \/ PopBack(t) \/ NotifyNotEmpty(t) \/ NotifyNotFull(t)

Next ==
    \/ \E t \in Threads : Call(t) \/ Step(t) \/ SpuriousWakeup(t)
    \/ \E c \in NewCapacities : SetCapacity(c)

Spec == Init /\ [][Next]_vars

(* A thread inside a call runs until it waits; nobody has to call, and no    *)
(* wait has to end by itself.                                                *)
FairSpec == Spec /\ \A t \in Threads : WF_vars(Step(t))

-----------------------------------------------------------------------------
(* What was accepted and not yet taken is in the queue, oldest first: no     *)
(* interleaving of blocked, woken and new callers loses, repeats or reorders *)
(* an item.                                                                  *)
FifoOrder ==
    /\ accepted = taken + Len(queue)
    /\ \A i \in 1 .. Len(queue) : queue[i] = taken + i

(* No consumer is forgotten: while one sleeps in pop_back(), every item has  *)
(* a thread that will look at it, awake in pop_back() or about to notify.    *)
ConsumersWoken ==
    At("wait_empty") # {} =>
        Len(queue) <= Cardinality(At("pop")) + Cardinality(At("notify_empty"))

(* The same for producers asleep in push_front() and the free places, as     *)
(* long as set_capacity() has not raised the capacity: it notifies nobody.   *)
ProducersWoken ==
    At("wait_full") # {} /\ ~raised =>
        capacity - Len(queue)
            <= Cardinality(At("push")) + Cardinality(At("notify_full"))

(* A push never leaves more in the queue than the capacity of that moment,   *)
(* also when it was lowered under a fuller queue.                            *)
PushWithinCapacity ==
    [][Len(queue') > Len(queue) => Len(queue') <= capacity]_vars

(* The call a thread is in, for whoever does not see it wait.                *)
CallOf(place) ==
    CASE place \in {"push", "wait_full"} -> "push"
      [] place \in {"pop", "wait_empty"} -> "pop"
      [] place \in {"notify_empty", "notify_full"} -> "done"
      [] OTHER -> "none"

Fifo == INSTANCE BlockingFifo WITH call <- [t \in Threads |-> CallOf(pc[t])]

(* Waits, wakeups that come late, twice or for no reason, and new callers    *)
(* that overtake woken ones do not show: a call takes effect in one step, on *)
(* the end of the queue that is its own, and never returns without.          *)
CallsTakeEffectOnce == Fifo!Spec

(* A queue does not stay non-empty beside a consumer that sleeps, nor, if    *)
(* the capacity is never raised, with room beside a producer that sleeps.    *)
SleepersServed ==
    /\ is_not_empty /\ At("wait_empty") # {}
           ~> ~is_not_empty \/ At("wait_empty") = {}
    /\ is_not_full /\ At("wait_full") # {} /\ ~raised
           ~> ~is_not_full \/ At("wait_full") = {} \/ raised
=============================================================================
