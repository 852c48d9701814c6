--------------------------- MODULE BmQueueProofs ---------------------------
(***************************************************************************)
(* Proofs about BmQueue, for any finite set of threads, any capacities and *)
(* either write behavior.                                                  *)
(***************************************************************************)
EXTENDS BmQueue, FiniteSetTheorems, SequenceTheorems, TLAPS

(* The threads at a place are finitely many.                                 *)
LEMMA AtFinite ==
    ASSUME NEW place
    PROVE  IsFiniteSet(At(place)) /\ Cardinality(At(place)) \in Nat
<1>1. At(place) \subseteq Threads
    BY DEF At
<1> QED
    BY <1>1, ThreadsAssumption, FS_Subset, FS_CardinalityType

(* A thread that moves leaves one set and joins another.                     *)
LEMMA MoveOne ==
    ASSUME TypeOK, NEW t \in Threads, NEW to \in PCs, Goto(t, to),
           NEW place \in PCs
    PROVE  At(place)' = IF place = to THEN At(place) \cup {t}
                        ELSE At(place) \ {t}
BY DEF TypeOK, Goto, At

(* The counts of a place before and after a move.                            *)
LEMMA MoveCounts ==
    ASSUME TypeOK, NEW t \in Threads, NEW to \in PCs, Goto(t, to),
           NEW place \in PCs
    PROVE  /\ Cardinality(At(place))' \in Nat
           /\ Cardinality(At(place)) \in Nat
           /\ place = to /\ pc[t] # to =>
                Cardinality(At(place))' = Cardinality(At(place)) + 1
           /\ place # to /\ pc[t] = place =>
                Cardinality(At(place))' = Cardinality(At(place)) - 1
           /\ place # to /\ pc[t] # place => At(place)' = At(place)
<1>1. At(place)' = IF place = to THEN At(place) \cup {t} ELSE At(place) \ {t}
    BY MoveOne
<1>2. t \in At(place) <=> pc[t] = place
    BY DEF At
<1>3. IsFiniteSet(At(place)) /\ Cardinality(At(place)) \in Nat
    BY AtFinite
<1>4. Cardinality(At(place) \cup {t}) =
         IF t \in At(place) THEN Cardinality(At(place))
         ELSE Cardinality(At(place)) + 1
    BY <1>3, FS_AddElement
<1>5. Cardinality(At(place) \ {t}) =
         IF t \in At(place) THEN Cardinality(At(place)) - 1
         ELSE Cardinality(At(place))
    BY <1>3, FS_RemoveElement
<1>6. CASE place = to
  <2>1. Cardinality(At(place))' = Cardinality(At(place) \cup {t})
    BY <1>1, <1>6
  <2> QED
    BY <2>1, <1>2, <1>3, <1>4, <1>6
<1>7. CASE place # to
  <2>1. Cardinality(At(place))' = Cardinality(At(place) \ {t})
    BY <1>1, <1>7
  <2>2. t \in At(place) => Cardinality(At(place)) # 0
    BY <1>3, FS_EmptySet
  <2>3. pc[t] # place => At(place)' = At(place)
    BY <1>1, <1>2, <1>7
  <2> QED
    BY <2>1, <2>2, <2>3, <1>2, <1>3, <1>5, <1>7
<1> QED
    BY <1>6, <1>7

-----------------------------------------------------------------------------
(* Every variable keeps its type in every behaviour of the queue.            *)
THEOREM TypeCorrect == Spec => []TypeOK
<1>1. Init => TypeOK
  <2> SUFFICES ASSUME Init PROVE TypeOK
    OBVIOUS
  <2>1. queue \in Seq(Nat) /\ capacity \in Nat /\ accepted \in Nat
        /\ taken \in Nat /\ pc \in [Threads -> PCs]
    BY CapacityAssumption DEF Init, PCs
  <2>2. raised \in BOOLEAN
    BY DEF Init
  <2> QED
    BY <2>1, <2>2 DEF TypeOK
<1>2. TypeOK /\ [Next]_vars => TypeOK'
  <2> SUFFICES ASSUME TypeOK, [Next]_vars PROVE TypeOK'
    OBVIOUS
  <2> USE DEF TypeOK, PCs, Goto
  <2>1. ASSUME NEW t \in Threads, Call(t) PROVE TypeOK'
    BY <2>1 DEF Call
  <2>2. ASSUME NEW t \in Threads, PushFront(t) PROVE TypeOK'
    <3>1. accepted' \in Nat /\ queue' \in Seq(Nat)
      <4>1. \/ queue' = queue /\ accepted' = accepted
            \/ queue' = Append(queue, accepted + 1) /\ accepted' = accepted + 1
        BY <2>2 DEF PushFront
      <4>2. queue \in Seq(Nat) /\ accepted \in Nat /\ accepted + 1 \in Nat
        OBVIOUS
      <4>3. Append(queue, accepted + 1) \in Seq(Nat)
        BY <4>2, AppendProperties
      <4> QED
        BY <4>1, <4>2, <4>3
    <3>2. pc' \in [Threads -> PCs] /\ capacity' \in Nat /\ taken' \in Nat
        BY <2>2 DEF PushFront
    <3>3. raised' \in BOOLEAN
        BY <2>2 DEF PushFront
    <3> QED
        BY <3>1, <3>2, <3>3
  <2>3. ASSUME NEW t \in Threads, PopBack(t) PROVE TypeOK'
    <3>1. taken' \in Nat /\ queue' \in Seq(Nat)
      <4>1. \/ queue' = queue /\ taken' = taken
            \/ Len(queue) > 0 /\ queue' = Tail(queue) /\ taken' = taken + 1
        BY <2>3 DEF PopBack, is_not_empty
      <4>2. queue \in Seq(Nat) /\ taken \in Nat /\ taken + 1 \in Nat
        OBVIOUS
      <4>3. Len(queue) > 0 => Tail(queue) \in Seq(Nat)
        BY <4>2, HeadTailProperties
      <4> QED
        BY <4>1, <4>2, <4>3
    <3>2. pc' \in [Threads -> PCs] /\ capacity' \in Nat /\ accepted' \in Nat
        BY <2>3 DEF PopBack
    <3>3. raised' \in BOOLEAN
        BY <2>3 DEF PopBack
    <3> QED
        BY <3>1, <3>2, <3>3
  <2>4. ASSUME NEW t \in Threads, NotifyNotEmpty(t) PROVE TypeOK'
    BY <2>4 DEF NotifyNotEmpty, NotifyOne, At
  <2>5. ASSUME NEW t \in Threads, NotifyNotFull(t) PROVE TypeOK'
    BY <2>5 DEF NotifyNotFull, NotifyOne, At
  <2>6. ASSUME NEW t \in Threads, SpuriousWakeup(t) PROVE TypeOK'
    BY <2>6 DEF SpuriousWakeup
  <2>7. ASSUME NEW c \in NewCapacities, SetCapacity(c) PROVE TypeOK'
    BY <2>7, CapacityAssumption DEF SetCapacity
  <2>8. CASE UNCHANGED vars
    BY <2>8 DEF vars
  <2> QED
    BY <2>1, <2>2, <2>3, <2>4, <2>5, <2>6, <2>7, <2>8 DEF Next, Step
<1> QED
    BY <1>1, <1>2, PTL DEF Spec

(* The queue holds, in order, what was accepted and not taken.               *)
THEOREM FifoCorrect == Spec => []FifoOrder
<1>1. Init => FifoOrder
    BY DEF Init, FifoOrder
<1>2. TypeOK /\ FifoOrder /\ [Next]_vars => FifoOrder'
  <2> SUFFICES ASSUME TypeOK, FifoOrder, [Next]_vars PROVE FifoOrder'
    OBVIOUS
  <2>1. ASSUME NEW t \in Threads, PushFront(t) PROVE FifoOrder'
    <3>1. CASE is_not_full
      <4>1. /\ queue \in Seq(Nat) /\ accepted \in Nat /\ taken \in Nat
            /\ queue' = Append(queue, accepted + 1)
            /\ accepted' = accepted + 1 /\ taken' = taken
        BY <2>1, <3>1 DEF PushFront, TypeOK
      <4>2. /\ Len(queue') = Len(queue) + 1
            /\ \A i \in 1 .. Len(queue') :
                 queue'[i] = IF i <= Len(queue) THEN queue[i] ELSE accepted + 1
        BY <4>1
      <4> QED
        BY <4>1, <4>2 DEF FifoOrder
    <3>2. CASE ~is_not_full
      <4>1. UNCHANGED <<queue, accepted, taken>>
        BY <2>1, <3>2 DEF PushFront
      <4> QED
        BY <4>1 DEF FifoOrder
    <3> QED
        BY <3>1, <3>2
  <2>2. ASSUME NEW t \in Threads, PopBack(t), is_not_empty PROVE FifoOrder'
    <3>1. /\ queue \in Seq(Nat) /\ Len(queue) > 0 /\ taken \in Nat
          /\ queue' = Tail(queue) /\ taken' = taken + 1
          /\ accepted' = accepted
        BY <2>2 DEF PopBack, TypeOK, is_not_empty
    <3>2. /\ Len(queue') = Len(queue) - 1
          /\ \A i \in 1 .. Len(queue') : queue'[i] = queue[i + 1]
        BY <3>1
    <3>3. \A i \in 1 .. Len(queue') : i + 1 \in 1 .. Len(queue)
        BY <3>1, <3>2
    <3> QED
      <4>1. accepted' = taken' + Len(queue')
        <5>1. accepted = taken + Len(queue) /\ Len(queue) \in Nat
            BY <3>1 DEF FifoOrder
        <5>2. Len(queue') = Len(queue) - 1 /\ taken' = taken + 1
              /\ accepted' = accepted /\ taken \in Nat
            BY <3>1, <3>2
        <5> QED
            BY ONLY <5>1, <5>2
      <4>2. ASSUME NEW i \in 1 .. Len(queue') PROVE queue'[i] = taken' + i
        <5>1. queue[i + 1] = taken + (i + 1)
            BY <3>3 DEF FifoOrder
        <5> QED
            BY <5>1, <3>1, <3>2
      <4> QED
        BY <4>1, <4>2 DEF FifoOrder
  <2>3. ASSUME UNCHANGED <<queue, accepted, taken>> PROVE FifoOrder'
    BY <2>3 DEF FifoOrder
  <2> QED
    BY <2>1, <2>2, <2>3 DEF Next, Step, Call, PopBack, NotifyNotEmpty,
       NotifyNotFull, SpuriousWakeup, SetCapacity, vars
<1> QED
    BY <1>1, <1>2, TypeCorrect, PTL DEF Spec

-----------------------------------------------------------------------------
(* notify_one() is a move of the caller, and of one sleeper if there is one. *)
LEMMA NotifyCounts ==
    ASSUME TypeOK, NEW t \in Threads, NEW from \in PCs, NEW place \in PCs,
           NEW next \in PCs, pc[t] = from, NotifyOne(t, place, next),
           from # place, from # next, place # next,
           from # "idle", place # "idle", next # "idle"
    PROVE  /\ At(place) # {} =>
                /\ Cardinality(At(from))' = Cardinality(At(from)) - 1
                /\ Cardinality(At(next))' = Cardinality(At(next)) + 1
           /\ At(place) = {} => At(place)' = {}
           /\ \A other \in PCs \ {from, place, next, "idle"} :
                At(other)' = At(other)
<1>1. CASE At(place) = {}
  <2>1. Goto(t, "idle")
    BY <1>1 DEF NotifyOne
  <2> QED
    BY <1>1, <2>1 DEF Goto, At, TypeOK
<1>2. CASE At(place) # {}
  <2>1. PICK w \in At(place) : pc' = [pc EXCEPT ![t] = "idle", ![w] = next]
    BY <1>2 DEF NotifyOne
  <2>2. w \in Threads /\ w # t /\ pc[w] = place
    BY <2>1 DEF At
  <2>3. At(from)' = At(from) \ {t} /\ At(next)' = At(next) \cup {w}
    BY <2>1, <2>2 DEF At, TypeOK
  <2>4. t \in At(from) /\ w \notin At(next)
    BY <2>2 DEF At
  <2>5. /\ IsFiniteSet(At(from)) /\ Cardinality(At(from)) \in Nat
        /\ IsFiniteSet(At(next)) /\ Cardinality(At(next)) \in Nat
    BY AtFinite
  <2>6. Cardinality(At(from) \ {t}) = Cardinality(At(from)) - 1
    BY <2>4, <2>5, FS_RemoveElement
  <2>7. Cardinality(At(next) \cup {w}) = Cardinality(At(next)) + 1
    BY <2>4, <2>5, FS_AddElement
  <2>8. \A other \in PCs \ {from, place, next, "idle"} : At(other)' = At(other)
    BY <2>1, <2>2 DEF At, TypeOK
  <2> QED
    BY <1>2, <2>3, <2>6, <2>7, <2>8
<1> QED
    BY <1>1, <1>2

(* The counts are the same when the threads of two places are.               *)
LEMMA SameCounts ==
    ASSUME TypeOK, UNCHANGED pc
    PROVE  \A place \in PCs : At(place)' = At(place)
BY DEF At

LEMMA LenNat ==
    ASSUME TypeOK PROVE Len(queue) \in Nat
BY DEF TypeOK

(* What each operation does to the length of the queue.                      *)
LEMMA PushLen ==
    ASSUME TypeOK, NEW t \in Threads, PushFront(t)
    PROVE  /\ pc[t] = "push" /\ capacity' = capacity /\ raised' = raised
           /\ \/ /\ Len(queue) < capacity /\ Len(queue') = Len(queue) + 1
                 /\ Goto(t, "notify_empty")
              \/ /\ ~(Len(queue) < capacity) /\ queue' = queue
                 /\ Goto(t, "wait_full") \/ Goto(t, "idle")
<1>1. queue \in Seq(Nat) /\ accepted + 1 \in Nat
    BY DEF TypeOK
<1>2. Len(Append(queue, accepted + 1)) = Len(queue) + 1
    BY <1>1, AppendProperties
<1>3. CASE is_not_full
    BY <1>2, <1>3 DEF PushFront, is_not_full
<1>4. CASE ~is_not_full
    BY <1>4 DEF PushFront, is_not_full
<1> QED
    BY <1>3, <1>4

LEMMA PopLen ==
    ASSUME TypeOK, NEW t \in Threads, PopBack(t)
    PROVE  /\ pc[t] = "pop" /\ capacity' = capacity /\ raised' = raised
           /\ \/ /\ Len(queue) > 0 /\ Len(queue') = Len(queue) - 1
                 /\ Goto(t, "notify_full")
              \/ /\ ~(Len(queue) > 0) /\ queue' = queue
                 /\ Goto(t, "wait_empty")
<1>1. queue \in Seq(Nat)
    BY DEF TypeOK
<1>2. Len(queue) > 0 => Len(Tail(queue)) = Len(queue) - 1
    BY <1>1, HeadTailProperties
<1>3. CASE is_not_empty
    BY <1>2, <1>3 DEF PopBack, is_not_empty
<1>4. CASE ~is_not_empty
    BY <1>4 DEF PopBack, is_not_empty
<1> QED
    BY <1>3, <1>4

(* While a consumer sleeps in pop_back(), every item has a thread that will  *)
(* look at it: a notify_one() after the unlock comes too late for nobody.    *)
THEOREM ConsumersWokenCorrect == Spec => []ConsumersWoken
<1>1. Init => ConsumersWoken
    BY DEF Init, ConsumersWoken, At
<1>2. TypeOK /\ ConsumersWoken /\ [Next]_vars => ConsumersWoken'
  <2> SUFFICES ASSUME TypeOK, ConsumersWoken, [Next]_vars PROVE ConsumersWoken'
    OBVIOUS
  <2> DEFINE sleep == At("wait_empty")
             pop == Cardinality(At("pop"))
             notify == Cardinality(At("notify_empty"))
  <2>0. /\ Len(queue) \in Nat /\ pop \in Nat /\ notify \in Nat
        /\ sleep # {} => Len(queue) <= pop + notify
        /\ {"wait_empty", "pop", "notify_empty", "push", "notify_full", "idle",
            "wait_full"} \subseteq PCs
    BY LenNat, AtFinite DEF ConsumersWoken, PCs
  <2>g. ConsumersWoken' <=> (sleep' # {} => Len(queue') <= pop' + notify')
    BY DEF ConsumersWoken
  <2>1. ASSUME NEW t \in Threads, Call(t) PROVE ConsumersWoken'
    <3>1. queue' = queue /\ pc[t] = "idle" /\ (Goto(t, "push") \/ Goto(t, "pop"))
        BY <2>1 DEF Call
    <3>2. sleep' = sleep /\ notify' = notify
        BY <3>1, <2>0, MoveCounts
    <3>3. pop' = pop \/ pop' = pop + 1
        BY <3>1, <2>0, MoveCounts
    <3> QED
        BY <3>1, <3>2, <3>3, <2>0, <2>g
  <2>2. ASSUME NEW t \in Threads, PushFront(t) PROVE ConsumersWoken'
    <3>1. CASE Len(queue') = Len(queue) + 1 /\ Goto(t, "notify_empty")
                /\ pc[t] = "push"
      <4>1. sleep' = sleep /\ notify' = notify + 1 /\ pop' = pop
        BY <3>1, <2>0, MoveCounts
      <4> QED
        BY <3>1, <4>1, <2>0, <2>g
    <3>2. CASE queue' = queue /\ (Goto(t, "wait_full") \/ Goto(t, "idle"))
                /\ pc[t] = "push"
      <4>1. sleep' = sleep /\ notify' = notify /\ pop' = pop
        BY <3>2, <2>0, MoveCounts
      <4> QED
        BY <3>2, <4>1, <2>0, <2>g
    <3> QED
        BY <2>2, <3>1, <3>2, PushLen
  <2>3. ASSUME NEW t \in Threads, PopBack(t) PROVE ConsumersWoken'
    <3>1. CASE Len(queue') = Len(queue) - 1 /\ Goto(t, "notify_full")
                /\ pc[t] = "pop"
      <4>1. sleep' = sleep /\ notify' = notify /\ pop' = pop - 1
        BY <3>1, <2>0, MoveCounts
      <4> QED
        BY <3>1, <4>1, <2>0, <2>g
    <3>2. CASE queue' = queue /\ ~(Len(queue) > 0) /\ Goto(t, "wait_empty")
      <4>1. notify' \in Nat /\ pop' \in Nat
        BY <3>2, <2>0, MoveCounts
      <4> QED
        BY <3>2, <4>1, <2>0, <2>g
    <3> QED
        BY <2>3, <3>1, <3>2, PopLen
  <2>4. ASSUME NEW t \in Threads, NotifyNotEmpty(t) PROVE ConsumersWoken'
    <3>1. queue' = queue /\ pc[t] = "notify_empty"
          /\ NotifyOne(t, "wait_empty", "pop")
        BY <2>4 DEF NotifyNotEmpty
    <3>2. /\ sleep # {} => notify' = notify - 1 /\ pop' = pop + 1
          /\ sleep = {} => sleep' = {}
        BY <3>1, <2>0, NotifyCounts
    <3> QED
        BY <3>1, <3>2, <2>0, <2>g
  <2>5. ASSUME NEW t \in Threads, NotifyNotFull(t) PROVE ConsumersWoken'
    <3>1. queue' = queue /\ pc[t] = "notify_full"
          /\ NotifyOne(t, "wait_full", "push")
        BY <2>5 DEF NotifyNotFull
    <3>2. \A other \in {"wait_empty", "pop", "notify_empty"} :
             At(other)' = At(other)
        BY <3>1, <2>0, NotifyCounts
    <3>3. sleep' = sleep /\ notify' = notify /\ pop' = pop
        BY <3>2
    <3> QED
        BY <3>1, <3>3, <2>0, <2>g
  <2>6. ASSUME NEW t \in Threads, SpuriousWakeup(t) PROVE ConsumersWoken'
    <3>1. CASE queue' = queue /\ pc[t] = "wait_full" /\ Goto(t, "push")
      <4>1. sleep' = sleep /\ notify' = notify /\ pop' = pop
        BY <3>1, <2>0, MoveCounts
      <4> QED
        BY <3>1, <4>1, <2>0, <2>g
    <3>2. CASE queue' = queue /\ pc[t] = "wait_empty" /\ Goto(t, "pop")
      <4>1. notify' = notify /\ pop' = pop + 1
        BY <3>2, <2>0, MoveCounts
      <4>2. sleep # {}
        BY <3>2 DEF At
      <4> QED
        BY <3>2, <4>1, <4>2, <2>0, <2>g
    <3> QED
        BY <2>6, <3>1, <3>2 DEF SpuriousWakeup
  <2>7. ASSUME UNCHANGED <<queue, pc>> PROVE ConsumersWoken'
    <3>1. sleep' = sleep /\ notify' = notify /\ pop' = pop
        BY <2>7, <2>0, SameCounts
    <3> QED
        BY <2>7, <3>1, <2>0, <2>g
  <2> QED
    BY <2>1, <2>2, <2>3, <2>4, <2>5, <2>6, <2>7 DEF Next, Step, SetCapacity, vars
<1> QED
    BY <1>1, <1>2, TypeCorrect, PTL DEF Spec

(* While a producer sleeps in push_front(), every free place has a thread    *)
(* that will fill it or notify, unless set_capacity() has raised the         *)
(* capacity.  A lowered capacity only takes places away.                     *)
THEOREM ProducersWokenCorrect == Spec => []ProducersWoken
<1>1. Init => ProducersWoken
    BY DEF Init, ProducersWoken, At
<1>2. TypeOK /\ ProducersWoken /\ [Next]_vars => ProducersWoken'
  <2> SUFFICES ASSUME TypeOK, ProducersWoken, [Next]_vars PROVE ProducersWoken'
    OBVIOUS
  <2> DEFINE sleep == At("wait_full")
             push == Cardinality(At("push"))
             notify == Cardinality(At("notify_full"))
  <2>0. /\ Len(queue) \in Nat /\ capacity \in Nat
        /\ push \in Nat /\ notify \in Nat
        /\ sleep # {} /\ ~raised => capacity - Len(queue) <= push + notify
        /\ {"wait_empty", "pop", "notify_empty", "push", "notify_full", "idle",
            "wait_full"} \subseteq PCs
    BY LenNat, AtFinite DEF ProducersWoken, PCs, TypeOK
  <2>g. ProducersWoken' <=>
            (sleep' # {} /\ ~raised' => capacity' - Len(queue') <= push' + notify')
    BY DEF ProducersWoken
  <2>1. ASSUME NEW t \in Threads, Call(t) PROVE ProducersWoken'
    <3>1. /\ queue' = queue /\ capacity' = capacity /\ raised' = raised
          /\ pc[t] = "idle" /\ (Goto(t, "push") \/ Goto(t, "pop"))
        BY <2>1 DEF Call
    <3>2. sleep' = sleep /\ notify' = notify
        BY <3>1, <2>0, MoveCounts
    <3>3. push' = push \/ push' = push + 1
        BY <3>1, <2>0, MoveCounts
    <3> QED
        BY <3>1, <3>2, <3>3, <2>0, <2>g
  <2>2. ASSUME NEW t \in Threads, PushFront(t) PROVE ProducersWoken'
    <3>0. pc[t] = "push" /\ capacity' = capacity /\ raised' = raised
        BY <2>2, PushLen
    <3>1. CASE Len(queue') = Len(queue) + 1 /\ Goto(t, "notify_empty")
      <4>1. sleep' = sleep /\ notify' = notify /\ push' = push - 1
        BY <3>0, <3>1, <2>0, MoveCounts
      <4> QED
        BY <3>0, <3>1, <4>1, <2>0, <2>g
    <3>2. CASE /\ queue' = queue /\ ~(Len(queue) < capacity)
               /\ Goto(t, "wait_full") \/ Goto(t, "idle")
      <4>1. notify' \in Nat /\ push' \in Nat
        BY <3>2, <2>0, MoveCounts
      <4> QED
        BY <3>0, <3>2, <4>1, <2>0, <2>g
    <3> QED
        BY <2>2, <3>1, <3>2, PushLen
  <2>3. ASSUME NEW t \in Threads, PopBack(t) PROVE ProducersWoken'
    <3>0. pc[t] = "pop" /\ capacity' = capacity /\ raised' = raised
        BY <2>3, PopLen
    <3>1. CASE Len(queue') = Len(queue) - 1 /\ Goto(t, "notify_full")
      <4>1. sleep' = sleep /\ notify' = notify + 1 /\ push' = push
        BY <3>0, <3>1, <2>0, MoveCounts
      <4> QED
        BY <3>0, <3>1, <4>1, <2>0, <2>g
    <3>2. CASE queue' = queue /\ Goto(t, "wait_empty")
      <4>1. sleep' = sleep /\ notify' = notify /\ push' = push
        BY <3>0, <3>2, <2>0, MoveCounts
      <4> QED
        BY <3>0, <3>2, <4>1, <2>0, <2>g
    <3> QED
        BY <2>3, <3>1, <3>2, PopLen
  <2>4. ASSUME NEW t \in Threads, NotifyNotFull(t) PROVE ProducersWoken'
    <3>1. /\ queue' = queue /\ capacity' = capacity /\ raised' = raised
          /\ pc[t] = "notify_full" /\ NotifyOne(t, "wait_full", "push")
        BY <2>4 DEF NotifyNotFull
    <3>2. /\ sleep # {} => notify' = notify - 1 /\ push' = push + 1
          /\ sleep = {} => sleep' = {}
        BY <3>1, <2>0, NotifyCounts
    <3> QED
        BY <3>1, <3>2, <2>0, <2>g
  <2>5. ASSUME NEW t \in Threads, NotifyNotEmpty(t) PROVE ProducersWoken'
    <3>1. /\ queue' = queue /\ capacity' = capacity /\ raised' = raised
          /\ pc[t] = "notify_empty" /\ NotifyOne(t, "wait_empty", "pop")
        BY <2>5 DEF NotifyNotEmpty
    <3>2. \A other \in {"wait_full", "push", "notify_full"} :
             At(other)' = At(other)
        BY <3>1, <2>0, NotifyCounts
    <3>3. sleep' = sleep /\ notify' = notify /\ push' = push
        BY <3>2
    <3> QED
        BY <3>1, <3>3, <2>0, <2>g
  <2>6. ASSUME NEW t \in Threads, SpuriousWakeup(t) PROVE ProducersWoken'
    <3>0. queue' = queue /\ capacity' = capacity /\ raised' = raised
        BY <2>6 DEF SpuriousWakeup
    <3>1. CASE pc[t] = "wait_empty" /\ Goto(t, "pop")
      <4>1. sleep' = sleep /\ notify' = notify /\ push' = push
        BY <3>1, <2>0, MoveCounts
      <4> QED
        BY <3>0, <4>1, <2>0, <2>g
    <3>2. CASE pc[t] = "wait_full" /\ Goto(t, "push")
      <4>1. notify' = notify /\ push' = push + 1
        BY <3>2, <2>0, MoveCounts
      <4>2. sleep # {}
        BY <3>2 DEF At
      <4> QED
        BY <3>0, <4>1, <4>2, <2>0, <2>g
    <3> QED
        BY <2>6, <3>1, <3>2 DEF SpuriousWakeup
  <2>7. ASSUME NEW c \in NewCapacities, SetCapacity(c) PROVE ProducersWoken'
    <3>1. queue' = queue /\ pc' = pc /\ capacity' = c /\ c \in Nat
        BY <2>7, CapacityAssumption DEF SetCapacity
    <3>2. ~raised' => ~raised /\ ~(c > capacity)
        BY <2>7 DEF SetCapacity
    <3>3. sleep' = sleep /\ notify' = notify /\ push' = push
        BY <3>1, <2>0, SameCounts
    <3> QED
        BY <3>1, <3>2, <3>3, <2>0, <2>g
  <2>8. CASE UNCHANGED vars
    <3>1. queue' = queue /\ capacity' = capacity /\ raised' = raised /\ pc' = pc
        BY <2>8 DEF vars
    <3>2. sleep' = sleep /\ notify' = notify /\ push' = push
        BY <3>1, <2>0, SameCounts
    <3> QED
        BY <3>1, <3>2, <2>0, <2>g
  <2> QED
    BY <2>1, <2>2, <2>3, <2>4, <2>5, <2>6, <2>7, <2>8 DEF Next, Step
<1> QED
    BY <1>1, <1>2, TypeCorrect, PTL DEF Spec

(* No push goes over the capacity of its moment.                             *)
THEOREM CapacityCorrect == Spec => PushWithinCapacity
<1>1. TypeOK /\ [Next]_vars
        => [Len(queue') > Len(queue) => Len(queue') <= capacity]_vars
  <2> SUFFICES ASSUME TypeOK, [Next]_vars, Len(queue') > Len(queue)
               PROVE  Len(queue') <= capacity
    OBVIOUS
  <2>0. Len(queue) \in Nat /\ capacity \in Nat
    BY LenNat DEF TypeOK
  <2>1. ASSUME NEW t \in Threads, PushFront(t) PROVE Len(queue') <= capacity
    BY <2>0, <2>1, PushLen
  <2>2. ASSUME NEW t \in Threads, PopBack(t) PROVE FALSE
    BY <2>0, <2>2, PopLen
  <2>3. ASSUME queue' = queue PROVE FALSE
    BY <2>0, <2>3
  <2> QED
    BY <2>1, <2>2, <2>3 DEF Next, Step, Call, NotifyNotEmpty, NotifyNotFull,
       SpuriousWakeup, SetCapacity, vars
<1> QED
    BY <1>1, TypeCorrect, PTL DEF Spec, PushWithinCapacity
-----------------------------------------------------------------------------
(* BlockingFifo: what the threads that share the queue see of a step.        *)
Seen == [t \in Threads |-> CallOf(pc[t])]

(* A move is seen as a step of one call, or not at all.                      *)
LEMMA SeenMove ==
    ASSUME TypeOK, NEW t \in Threads, NEW to \in PCs, Goto(t, to)
    PROVE  /\ Seen[t] = CallOf(pc[t])
           /\ Seen' = [Seen EXCEPT ![t] = CallOf(to)]
           /\ CallOf(pc[t]) = CallOf(to) => Seen' = Seen
BY DEF TypeOK, Goto, Seen

(* Nobody sees whom notify_one() wakes.                                      *)
LEMMA SeenNotify ==
    ASSUME TypeOK, NEW t \in Threads, NEW place \in PCs, NEW next \in PCs,
           pc[t] # place, CallOf(place) = CallOf(next), NotifyOne(t, place, next)
    PROVE  Seen' = [Seen EXCEPT ![t] = "none"]
<1>0. CallOf("idle") = "none"
    BY DEF CallOf
<1>1. CASE Goto(t, "idle")
    BY <1>0, <1>1, SeenMove DEF PCs
<1>2. ASSUME NEW w \in At(place), pc' = [pc EXCEPT ![t] = "idle", ![w] = next]
      PROVE  Seen' = [Seen EXCEPT ![t] = "none"]
  <2>1. w \in Threads /\ w # t /\ pc[w] = place
    BY <1>2 DEF At
  <2>2. ASSUME NEW u \in Threads
        PROVE  Seen'[u] = IF u = t THEN "none" ELSE Seen[u]
    BY <1>0, <1>2, <2>1, <2>2 DEF Seen, TypeOK
  <2> QED
    BY <2>2 DEF Seen
<1> QED
    BY <1>1, <1>2 DEF NotifyOne

(* Every step of the queue is one of BlockingFifo, or is not seen.           *)
LEMMA StepSeen ==
    ASSUME TypeOK, [Next]_vars
    PROVE  [Fifo!Next]_(Fifo!vars)
<1> USE DEF Seen
<1>0. /\ CallOf("idle") = "none"
      /\ CallOf("push") = "push" /\ CallOf("wait_full") = "push"
      /\ CallOf("pop") = "pop" /\ CallOf("wait_empty") = "pop"
      /\ CallOf("notify_empty") = "done" /\ CallOf("notify_full") = "done"
    BY DEF CallOf
<1>1. ASSUME NEW t \in Threads, Call(t) PROVE Fifo!Invoke(t)
  <2>1. CASE Goto(t, "push")
    BY <1>0, <1>1, <2>1, SeenMove DEF Call, PCs, Fifo!Invoke, Fifo!Turns
  <2>2. CASE Goto(t, "pop")
    BY <1>0, <1>1, <2>2, SeenMove DEF Call, PCs, Fifo!Invoke, Fifo!Turns
  <2> QED
    BY <1>1, <2>1, <2>2 DEF Call
<1>2. ASSUME NEW t \in Threads, PushFront(t)
      PROVE  Fifo!Put(t) \/ Fifo!Refuse(t) \/ UNCHANGED Fifo!vars
  <2>0. pc[t] = "push" /\ UNCHANGED capacity
    BY <1>2 DEF PushFront
  <2>1. CASE is_not_full /\ queue' = Append(queue, accepted + 1) /\ Goto(t, "notify_empty")
    <3>1. Fifo!Turns(t, "push", "done")
      BY <1>0, <2>0, <2>1, SeenMove DEF PCs, Fifo!Turns
    <3>2. queue \in Seq(Nat) /\ accepted + 1 \in Nat
      BY DEF TypeOK
    <3>3. /\ Len(queue') = Len(queue) + 1
          /\ queue = SubSeq(queue', 1, Len(queue))
      BY <2>1, <3>2
    <3> QED
      BY <2>0, <2>1, <3>1, <3>3 DEF is_not_full, Fifo!Put
  <2>2. CASE ~is_not_full /\ Goto(t, "wait_full") /\ UNCHANGED queue
    <3>1. Seen' = Seen
      BY <1>0, <2>0, <2>2, SeenMove DEF PCs
    <3> QED
      BY <2>0, <2>2, <3>1 DEF Fifo!vars
  <2>3. CASE ~WriteBlock /\ ~is_not_full /\ Goto(t, "idle") /\ UNCHANGED queue
    <3>1. Fifo!Turns(t, "push", "none")
      BY <1>0, <2>0, <2>3, SeenMove DEF PCs, Fifo!Turns
    <3>2. Len(queue) >= capacity
      BY <2>3, LenNat DEF is_not_full, TypeOK
    <3> QED
      BY <2>0, <2>3, <3>1, <3>2 DEF Fifo!Refuse
  <2> QED
    BY <1>2, <2>1, <2>2, <2>3 DEF PushFront
<1>3. ASSUME NEW t \in Threads, PopBack(t)
      PROVE  Fifo!Take(t) \/ UNCHANGED Fifo!vars
  <2>0. pc[t] = "pop" /\ UNCHANGED capacity
    BY <1>3 DEF PopBack
  <2>1. CASE is_not_empty /\ queue' = Tail(queue) /\ Goto(t, "notify_full")
    <3>1. Fifo!Turns(t, "pop", "done")
      BY <1>0, <2>0, <2>1, SeenMove DEF PCs, Fifo!Turns
    <3>2. queue # <<>>
      BY <2>1 DEF is_not_empty
    <3> QED
      BY <2>0, <2>1, <3>1, <3>2 DEF Fifo!Take
  <2>2. CASE Goto(t, "wait_empty") /\ UNCHANGED queue
    <3>1. Seen' = Seen
      BY <1>0, <2>0, <2>2, SeenMove DEF PCs
    <3> QED
      BY <2>0, <2>2, <3>1 DEF Fifo!vars
  <2> QED
    BY <1>3, <2>1, <2>2 DEF PopBack
<1>4. ASSUME NEW t \in Threads, NotifyNotEmpty(t) \/ NotifyNotFull(t)
      PROVE  Fifo!Return(t)
  <2>1. /\ pc[t] \in {"notify_empty", "notify_full"}
        /\ NotifyOne(t, "wait_empty", "pop") \/ NotifyOne(t, "wait_full", "push")
        /\ UNCHANGED <<queue, capacity>>
    BY <1>4 DEF NotifyNotEmpty, NotifyNotFull
  <2>2. Seen' = [Seen EXCEPT ![t] = "none"]
    BY <1>0, <2>1, SeenNotify DEF PCs
  <2>3. Seen[t] = "done"
    BY <1>0, <2>1
  <2> QED
    BY <2>1, <2>2, <2>3 DEF Fifo!Return, Fifo!Turns
<1>5. ASSUME NEW t \in Threads, SpuriousWakeup(t) PROVE UNCHANGED Fifo!vars
  <2>1. Seen' = Seen
    BY <1>0, <1>5, SeenMove DEF SpuriousWakeup, PCs
  <2> QED
    BY <1>5, <2>1 DEF SpuriousWakeup, Fifo!vars
<1>6. ASSUME NEW c \in NewCapacities, SetCapacity(c) PROVE Fifo!SetCapacity
  <2>1. Seen' = Seen /\ capacity' \in Nat /\ UNCHANGED queue
    BY <1>6, CapacityAssumption DEF SetCapacity
  <2> QED
    BY <2>1 DEF Fifo!SetCapacity
<1>7. CASE UNCHANGED vars
    BY <1>7 DEF vars, Fifo!vars
<1> QED
    BY <1>1, <1>2, <1>3, <1>4, <1>5, <1>6, <1>7 DEF Next, Step, Fifo!Next

(* bm::Queue implements BlockingFifo, for any threads and capacities: between*)
(* the lock and the return of push_front() and pop_back(), through waits,    *)
(* spurious wakeups and notifications after the unlock, a call takes effect  *)
(* exactly once.                                                             *)
THEOREM FifoImplemented == Spec => CallsTakeEffectOnce
<1>1. Init => Fifo!Init
    BY CapacityAssumption DEF Init, Fifo!Init, CallOf
<1>2. TypeOK /\ [Next]_vars => [Fifo!Next]_(Fifo!vars)
    BY StepSeen
<1> QED
    BY <1>1, <1>2, TypeCorrect, PTL DEF Spec, CallsTakeEffectOnce, Fifo!Spec
=============================================================================
