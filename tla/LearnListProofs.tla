--------------------------- MODULE LearnListProofs ---------------------------
(***************************************************************************)
(* Proofs about LearnList, for any samples, threads, bounds and resets.    *)
(* FilterInv is about the filter and holds through resets; Tracked says    *)
(* where the samples of every buffer id are, and everything about          *)
(* notifications follows from it, and with it that the list implements     *)
(* LearnFilter until the first reset.                                      *)
(***************************************************************************)
EXTENDS LearnList, FiniteSetTheorems, SequenceTheorems, TLAPS

USE DEF Modes, bufs, clock, acks, calls, sends, env

(* A map keeps its type when an entry is written or erased.                  *)
LEMMA PutOldBuffers ==
    ASSUME TypeOK, NEW k \in Nat, NEW v \in FilterPtrs
    PROVE  /\ DOMAIN Put(old_buffers, k, v) \subseteq Nat
           /\ \A i \in DOMAIN Put(old_buffers, k, v) :
                 Put(old_buffers, k, v)[i] \in FilterPtrs
BY DEF Put, TypeOK

LEMMA EraseOldBuffers ==
    ASSUME TypeOK, NEW k
    PROVE  /\ DOMAIN Erase(old_buffers, k) \subseteq Nat
           /\ \A i \in DOMAIN Erase(old_buffers, k) :
                 Erase(old_buffers, k)[i] \in FilterPtrs
BY DEF Erase, TypeOK

LEMMA PutNotified ==
    ASSUME TypeOK, NEW k \in Ids, NEW v \in Notification
    PROVE  /\ DOMAIN Put(notified, k, v) \subseteq Ids
           /\ \A i \in DOMAIN Put(notified, k, v) :
                 Put(notified, k, v)[i] \in Notification
BY DEF Put, TypeOK

LEMMA LeftType ==
    ASSUME TypeOK, NEW id \in DOMAIN notified, NEW l \in SUBSET notified[id].left
    PROVE  Left(notified[id], l) \in Notification
BY DEF TypeOK, Left, Notification

LEMMA WithSampleType ==
    ASSUME TypeOK, NEW s \in Samples
    PROVE  /\ DOMAIN WithSample(s) \subseteq Nat
           /\ \A i \in DOMAIN WithSample(s) : WithSample(s)[i] \in FilterPtrs
<1> DEFINE p == IF buffer_id \in DOMAIN old_buffers THEN old_buffers[buffer_id]
                ELSE NoPtrs
           q == [unacked_count |-> p.unacked_count + 1,
                 buffer |-> Append(p.buffer, s), erased |-> p.erased]
<1>1. p \in FilterPtrs
    BY DEF TypeOK, NoPtrs, FilterPtrs
<1> HIDE DEF p
<1>2. q \in FilterPtrs
    BY <1>1 DEF FilterPtrs
<1> HIDE DEF q
<1>3. WithSample(s) = Put(old_buffers, buffer_id, q)
    BY DEF WithSample, p, q
<1> QED
    BY <1>2, <1>3, PutOldBuffers DEF TypeOK

(* process_full_buffer() keeps the types of what it writes.                  *)
LEMMA ProcessType ==
    ASSUME TypeOK, NEW t \in Threads, NEW buf \in Seq(Samples), NEW n \in Nat,
           process_full_buffer(t, buf, n)
    PROVE  /\ buffer' \in Seq(Samples) /\ buffer_tmp' \in Seq(Samples)
           /\ buffer_id' \in Nat /\ num_samples' \in Nat
           /\ num_samples_tmp' \in Nat
           /\ pc' \in [Threads -> {"idle", "swap_wait", "swap_woken",
                                   "writer_wait", "writer_woken"}]
           /\ tx' \in {"test", "wait", "timed_wait", "header", "send", "sent",
                       "stopped"}
<1>1. CASE /\ buffer_tmp # <<>>
           /\ pc' = [pc EXCEPT ![t] = "swap_wait"]
           /\ buffer' = buf /\ num_samples' = n
           /\ UNCHANGED <<buffer_id, buffer_tmp, num_samples_tmp, tx>>
    BY <1>1 DEF TypeOK
<1>2. CASE /\ swap_buffers(buf, n)
           /\ pc' = [pc EXCEPT ![t] = "idle"]
           /\ NotifySend
    BY <1>2 DEF TypeOK, swap_buffers, NotifySend
<1> QED
    BY <1>1, <1>2 DEF process_full_buffer

(* Every state of the list is of its type.                                   *)
THEOREM TypeCorrect == Spec => []TypeOK
<1>1. Init => TypeOK
  <2>1. DOMAIN <<>> = {} /\ <<>> \in Seq(Samples)
      OBVIOUS
  <2> SUFFICES ASSUME Init PROVE TypeOK
      OBVIOUS
  <2>2. /\ DOMAIN old_buffers \subseteq Nat
        /\ \A i \in DOMAIN old_buffers : old_buffers[i] \in FilterPtrs
        /\ DOMAIN notified \subseteq Ids
        /\ \A i \in DOMAIN notified : notified[i] \in Notification
      BY <2>1 DEF Init
  <2>3. msg \in [buffer_id : Ids, num_samples : Nat]
      BY DEF Init, Ids
  <2> QED
      BY <2>1, <2>2, <2>3 DEF Init, TypeOK
<1>2. TypeOK /\ [Next]_vars => TypeOK'
  <2> SUFFICES ASSUME TypeOK, [Next]_vars PROVE TypeOK'
      OBVIOUS
  <2>1. ASSUME NEW t \in Threads, NEW s \in Samples, AddSample(t, s)
        PROVE  TypeOK'
    <3>1. Append(buffer, s) \in Seq(Samples) /\ num_samples + 1 \in Nat
        BY DEF TypeOK
    <3>2. (filter \cup {s}) \subseteq Samples
        BY DEF TypeOK
    <3>3. /\ DOMAIN old_buffers' \subseteq Nat
          /\ \A i \in DOMAIN old_buffers' : old_buffers'[i] \in FilterPtrs
        BY <2>1, WithSampleType DEF AddSample
    <3>4. CASE process_full_buffer(t, Append(buffer, s), num_samples + 1)
               /\ UNCHANGED expired
      <4> QED BY <2>1, <3>1, <3>2, <3>3, <3>4, ProcessType DEF AddSample, TypeOK
    <3>5. CASE FirstSample(Append(buffer, s))
      <4> QED BY <2>1, <3>1, <3>2, <3>3, <3>5
              DEF AddSample, TypeOK, FirstSample, NotifySend
    <3>6. CASE /\ buffer' = Append(buffer, s) /\ num_samples' = num_samples + 1
               /\ UNCHANGED <<buffer_id, buffer_tmp, num_samples_tmp, pc, tx,
                              expired>>
      <4> QED BY <2>1, <3>1, <3>2, <3>3, <3>6 DEF AddSample, TypeOK
    <3> QED
        BY <2>1, <3>4, <3>5, <3>6 DEF AddSample
  <2>2. ASSUME NEW t \in Threads, NEW n \in MaxSamples, SetMaxSamples(t, n)
        PROVE  TypeOK'
    <3>1. CASE process_full_buffer(t, buffer, num_samples)
      <4>1. buffer \in Seq(Samples) /\ num_samples \in Nat
          BY DEF TypeOK
      <4> QED
          BY <2>2, <3>1, <4>1, ProcessType DEF SetMaxSamples, TypeOK
    <3>2. CASE UNCHANGED <<buffer, buffer_id, num_samples, buffer_tmp,
                           num_samples_tmp, pc, tx>>
        BY <2>2, <3>2 DEF SetMaxSamples, TypeOK
    <3> QED
        BY <2>2, <3>1, <3>2 DEF SetMaxSamples
  <2>3. ASSUME NEW t \in Threads, SwapWoken(t)
        PROVE  TypeOK'
    <3>1. buffer \in Seq(Samples) /\ num_samples \in Nat
        BY DEF TypeOK
    <3> QED
        BY <2>3, <3>1, ProcessType DEF SwapWoken, TypeOK
  <2>4. ASSUME NEW t \in Threads, NEW mode \in Modes, SetLearnWriter(t, mode)
        PROVE  TypeOK'
    <3> QED BY <2>4 DEF SetLearnWriter, ChangeWriter, TypeOK
  <2>5. ASSUME NEW on \in Timeouts, NEW passed \in BOOLEAN,
               SetTimeout(on, passed)
        PROVE  TypeOK'
    <3> QED BY <2>5, TimeoutsAssumption DEF SetTimeout, TypeOK
  <2>6. ASSUME DeadlinePasses PROVE TypeOK'
    <3> QED BY <2>6 DEF DeadlinePasses, TypeOK
  <2>7. ASSUME TxTest PROVE TypeOK'
    <3>1. /\ buffer' \in Seq(Samples) /\ buffer_tmp' \in Seq(Samples)
          /\ buffer_id' \in Nat /\ num_samples' \in Nat
          /\ num_samples_tmp' \in Nat
        BY <2>7 DEF TxTest, swap_buffers, TypeOK
    <3>2. msg' \in [buffer_id : Ids, num_samples : Nat]
        BY <2>7 DEF TxTest, TypeOK
    <3>3. /\ tx' \in {"test", "wait", "timed_wait", "header", "send", "sent",
                      "stopped"}
          /\ writer_busy' \in BOOLEAN
        BY <2>7 DEF TxTest, TypeOK
    <3> QED BY <2>7, <3>1, <3>2, <3>3 DEF TxTest, TypeOK
  <2>8. ASSUME TxTimeout PROVE TypeOK'
    <3> QED BY <2>8 DEF TxTimeout, TypeOK
  <2>9. ASSUME TxHeader PROVE TypeOK'
    <3> QED BY <2>9 DEF TxHeader, SwappedBufferId, TypeOK, Ids
  <2>10. ASSUME TxSend PROVE TypeOK'
    <3>1. [samples |-> buffer_tmp, num_samples |-> msg.num_samples,
           left |-> 1 .. msg.num_samples] \in Notification
        BY DEF TypeOK, Notification
    <3>2. msg.buffer_id \in Ids
        BY DEF TypeOK
    <3>3. /\ DOMAIN notified' \subseteq Ids
          /\ \A i \in DOMAIN notified' : notified'[i] \in Notification
        BY <2>10, <3>1, <3>2, PutNotified DEF TxSend
    <3> QED BY <2>10, <3>3 DEF TxSend, TypeOK
  <2>11. ASSUME TxDone PROVE TypeOK'
    <3> DEFINE PCs == {"idle", "swap_wait", "swap_woken", "writer_wait",
                       "writer_woken"}
    <3>1. NotifyWriters(pc) \in [Threads -> PCs]
        BY DEF NotifyWriters, TypeOK
    <3>2. \A f \in [Threads -> PCs] : NotifySwap(f) \subseteq [Threads -> PCs]
        BY DEF NotifySwap
    <3>3. pc' \in [Threads -> PCs]
        BY <2>11, <3>1, <3>2 DEF TxDone, WokenThreads
    <3> HIDE DEF PCs
    <3>4. tx' \in {"test", "stopped"} /\ <<>> \in Seq(Samples)
        BY <2>11 DEF TxDone
    <3> QED BY <2>11, <3>3, <3>4 DEF TxDone, TypeOK, PCs
  <2>12. ASSUME NEW id \in DOMAIN notified, AckBuffer(id) PROVE TypeOK'
    <3>1. /\ DOMAIN notified' \subseteq Ids
          /\ \A i \in DOMAIN notified' : notified'[i] \in Notification
        BY <2>12, LeftType, PutNotified DEF AckBuffer, TypeOK
    <3>2. /\ filter' \subseteq Samples /\ ub' \in BOOLEAN
          /\ DOMAIN old_buffers' \subseteq Nat
          /\ \A i \in DOMAIN old_buffers' : old_buffers'[i] \in FilterPtrs
        BY <2>12, EraseOldBuffers DEF AckBuffer, ack_buffer, FilterWithout, TypeOK
    <3> QED BY <2>12, <3>1, <3>2 DEF AckBuffer, TypeOK
  <2>13. ASSUME NEW id \in DOMAIN notified, NEW ids \in SUBSET notified[id].left,
                Ack(id, ids)
         PROVE  TypeOK'
    <3>1. /\ DOMAIN notified' \subseteq Ids
          /\ \A i \in DOMAIN notified' : notified'[i] \in Notification
        BY <2>13, LeftType, PutNotified DEF Ack, TypeOK
    <3>2. filter' \subseteq Samples /\ ub' \in BOOLEAN
        BY <2>13 DEF Ack, ack, TypeOK
    <3>3. /\ DOMAIN old_buffers' \subseteq Nat
          /\ \A i \in DOMAIN old_buffers' : old_buffers'[i] \in FilterPtrs
      <4>1. CASE UNCHANGED old_buffers
          BY <4>1 DEF TypeOK
      <4>2. CASE old_buffers' = Erase(old_buffers, id)
          BY <4>2, EraseOldBuffers
      <4> DEFINE p == old_buffers[id]
                 count == p.unacked_count - Cardinality(ids)
                 q == [unacked_count |-> count, buffer |-> p.buffer,
                       erased |-> p.erased \cup ids]
      <4>3. CASE /\ id \in DOMAIN old_buffers
                 /\ ids \subseteq DOMAIN p.buffer \ p.erased
                 /\ old_buffers' = Put(old_buffers, id, q)
        <5>1. p \in FilterPtrs /\ id \in Nat
            BY <4>3 DEF TypeOK
        <5> HIDE DEF p
        <5>2. DOMAIN p.buffer = 1 .. Len(p.buffer) /\ Len(p.buffer) \in Nat
            BY <5>1 DEF FilterPtrs
        <5>3. IsFiniteSet(1 .. Len(p.buffer))
            BY <5>2, FS_Interval
        <5>6. ids \subseteq 1 .. Len(p.buffer)
            BY <4>3, <5>2
        <5>7. IsFiniteSet(ids)
            BY <5>3, <5>6, FS_Subset
        <5>4. Cardinality(ids) \in Nat
            BY <5>7, FS_CardinalityType
        <5>5. q \in FilterPtrs
            BY <5>1, <5>4, <5>6 DEF FilterPtrs
        <5> HIDE DEF q
        <5> QED BY <4>3, <5>1, <5>5, PutOldBuffers
      <4> QED BY <2>13, <4>1, <4>2, <4>3 DEF Ack, ack, EraseIterators
    <3> QED BY <2>13, <3>1, <3>2, <3>3 DEF Ack, TypeOK
  <2>14. ASSUME ResetState PROVE TypeOK'
    <3> QED BY <2>14 DEF ResetState, TypeOK
  <2>15. ASSUME Destroy PROVE TypeOK'
    <3> QED BY <2>15 DEF Destroy, NotifyTransmitThread, NotifySend, TypeOK
  <2>16. ASSUME UNCHANGED vars PROVE TypeOK'
    <3> QED BY <2>16 DEF vars, TypeOK
  <2> QED
      BY <2>1, <2>2, <2>3, <2>4, <2>5, <2>6, <2>7, <2>8, <2>9, <2>10, <2>11,
         <2>12, <2>13, <2>14, <2>15, <2>16 DEF Next
<1> QED
    BY <1>1, <1>2, PTL DEF Spec

-----------------------------------------------------------------------------
(* What makes FilterIsUnacked inductive: ack() erased only iterators of the  *)
(* buffer, and the ones it left point to different samples.                  *)
Distinct(p) ==
    /\ p.erased \subseteq DOMAIN p.buffer
    /\ \A i, j \in DOMAIN p.buffer \ p.erased : p.buffer[i] = p.buffer[j] => i = j

FilterInv ==
    /\ TypeOK
    /\ FilterIsUnacked
    /\ \A id \in DOMAIN old_buffers : Distinct(old_buffers[id])

(* A sample that was not in the buffer adds itself to the unacknowledged.    *)
LEMMA UnackedAppend ==
    ASSUME NEW p \in FilterPtrs, Distinct(p), NEW s \in Samples,
           s \notin Unacked(p), NEW n \in Int
    PROVE  LET q == [unacked_count |-> n, buffer |-> Append(p.buffer, s),
                     erased |-> p.erased]
           IN  Distinct(q) /\ Unacked(q) = Unacked(p) \cup {s}
<1> DEFINE L == Len(p.buffer)
           app == Append(p.buffer, s)
           q == [unacked_count |-> n, buffer |-> app, erased |-> p.erased]
<1>1. p.buffer \in Seq(Samples) /\ p.erased \subseteq Nat
    BY DEF FilterPtrs
<1>2. L \in Nat /\ DOMAIN p.buffer = 1 .. L
    BY <1>1
<1>3. /\ DOMAIN app = 1 .. L + 1
      /\ app[L + 1] = s
      /\ \A i \in 1 .. L : app[i] = p.buffer[i]
    BY <1>1
<1>4. p.erased \subseteq 1 .. L
    BY <1>2 DEF Distinct
<1> HIDE DEF app, L
<1>5. q.buffer = app /\ q.erased = p.erased
    OBVIOUS
<1> HIDE DEF q
<1>6. DOMAIN q.buffer \ q.erased = (DOMAIN p.buffer \ p.erased) \cup {L + 1}
    BY <1>2, <1>3, <1>4, <1>5
<1>7. Unacked(q) = Unacked(p) \cup {s}
    BY <1>2, <1>3, <1>5, <1>6 DEF Unacked
<1>8. Distinct(q)
    BY <1>2, <1>3, <1>4, <1>5, <1>6 DEF Distinct, Unacked
<1> QED
    BY <1>7, <1>8 DEF q, app

(* Erasing iterators takes their samples away, one for one.                  *)
LEMMA UnackedErase ==
    ASSUME NEW p \in FilterPtrs, Distinct(p),
           NEW ids \in SUBSET (DOMAIN p.buffer \ p.erased), NEW n \in Int
    PROVE  LET q == [unacked_count |-> n, buffer |-> p.buffer,
                     erased |-> p.erased \cup ids]
               gone == {p.buffer[i] : i \in ids}
           IN  /\ Distinct(q)
               /\ gone \subseteq Unacked(p)
               /\ Unacked(q) = Unacked(p) \ gone
               /\ IsFiniteSet(Unacked(p))
               /\ Cardinality(Unacked(q)) = Cardinality(Unacked(p))
                                              - Cardinality(ids)
<1> DEFINE gone == {p.buffer[i] : i \in ids}
           q == [unacked_count |-> n, buffer |-> p.buffer,
                 erased |-> p.erased \cup ids]
           kept == DOMAIN p.buffer \ p.erased
<1>1. p.buffer \in Seq(Samples)
    BY DEF FilterPtrs
<1>2. IsFiniteSet(DOMAIN p.buffer)
  <2>1. Len(p.buffer) \in Nat /\ DOMAIN p.buffer = 1 .. Len(p.buffer)
      BY <1>1
  <2>2. IsFiniteSet(1 .. Len(p.buffer))
      BY <2>1, FS_Interval
  <2> QED BY <2>1, <2>2
<1>3. IsFiniteSet(Unacked(p))
  <2>1. Unacked(p) \subseteq Samples
      BY <1>1 DEF Unacked
  <2> QED BY <2>1, SamplesAssumption, FS_Subset
<1>4. gone \subseteq Unacked(p)
    BY DEF Unacked
<1>5. /\ q.buffer = p.buffer
      /\ q.erased = p.erased \cup ids
    OBVIOUS
<1>6. Cardinality(gone) = Cardinality(ids) /\ IsFiniteSet(gone)
  <2> DEFINE f == [i \in ids |-> p.buffer[i]]
  <2>1. f \in Bijection(ids, gone)
      BY DEF Distinct, Bijection, Injection, Surjection, IsInjective
  <2>2. IsFiniteSet(ids)
      BY <1>2, FS_Subset
  <2>3. ExistsBijection(ids, gone)
      BY <2>1 DEF ExistsBijection
  <2> QED BY <2>2, <2>3, FS_Bijection
<1> HIDE DEF q, gone
<1>7. Distinct(q)
    BY <1>5 DEF Distinct
<1>8. Unacked(q) = Unacked(p) \ gone
    BY <1>5 DEF Distinct, Unacked, gone
<1>9. Cardinality(Unacked(q)) = Cardinality(Unacked(p)) - Cardinality(ids)
  <2>1. Cardinality(Unacked(p) \ gone)
           = Cardinality(Unacked(p)) - Cardinality(Unacked(p) \cap gone)
      BY <1>3, FS_Difference
  <2>2. Unacked(p) \cap gone = gone
      BY <1>4
  <2> QED BY <1>6, <1>8, <2>1, <2>2
<1> QED
    BY <1>3, <1>4, <1>7, <1>8, <1>9 DEF q, gone

(* FilterIsUnacked and Distinct, of any filter and any map of buffers.       *)
Partition(flt, ob) ==
    /\ flt = UNION {Unacked(ob[id]) : id \in DOMAIN ob}
    /\ \A i, j \in DOMAIN ob :
          i # j => Unacked(ob[i]) \cap Unacked(ob[j]) = {}
    /\ \A id \in DOMAIN ob : ob[id].unacked_count = Cardinality(Unacked(ob[id]))
    /\ \A id \in DOMAIN ob : Distinct(ob[id])

LEMMA FilterInvIsPartition ==
    FilterInv <=> TypeOK /\ Partition(filter, old_buffers)
BY DEF FilterInv, Partition, FilterIsUnacked

LEMMA PartitionPut ==
    ASSUME NEW flt, NEW ob, NEW k, NEW q, NEW old, Partition(flt, ob),
           Distinct(q), q.unacked_count = Cardinality(Unacked(q)),
           old = IF k \in DOMAIN ob THEN Unacked(ob[k]) ELSE {},
           Unacked(q) \cap (flt \ old) = {}
    PROVE  Partition((flt \ old) \cup Unacked(q), Put(ob, k, q))
<1> DEFINE pb == Put(ob, k, q)
<1>1. /\ DOMAIN pb = DOMAIN ob \cup {k}
      /\ pb[k] = q
      /\ \A i \in DOMAIN ob : i # k => pb[i] = ob[i]
    BY DEF Put
<1> HIDE DEF pb
<1>2. \A i \in DOMAIN ob : i # k => /\ Unacked(ob[i]) \subseteq flt
                                   /\ Unacked(ob[i]) \cap old = {}
    BY DEF Partition
<1>3. flt \ old = UNION {Unacked(ob[i]) : i \in DOMAIN ob \ {k}}
    BY <1>2 DEF Partition
<1>4. (flt \ old) \cup Unacked(q) = UNION {Unacked(pb[i]) : i \in DOMAIN pb}
    BY <1>1, <1>3
<1>5. \A i, j \in DOMAIN pb : i # j => Unacked(pb[i]) \cap Unacked(pb[j]) = {}
    BY <1>1, <1>2 DEF Partition
<1>6. \A i \in DOMAIN pb : /\ pb[i].unacked_count = Cardinality(Unacked(pb[i]))
                          /\ Distinct(pb[i])
    BY <1>1 DEF Partition
<1> QED
    BY <1>4, <1>5, <1>6 DEF Partition, pb

LEMMA PartitionErase ==
    ASSUME NEW flt, NEW ob, NEW k \in DOMAIN ob, Partition(flt, ob)
    PROVE  Partition(flt \ Unacked(ob[k]), Erase(ob, k))
<1> DEFINE eb == Erase(ob, k)
<1>1. /\ DOMAIN eb = DOMAIN ob \ {k}
      /\ \A i \in DOMAIN eb : eb[i] = ob[i]
    BY DEF Erase
<1> HIDE DEF eb
<1>2. flt \ Unacked(ob[k]) = UNION {Unacked(eb[i]) : i \in DOMAIN eb}
    BY <1>1 DEF Partition
<1> QED
    BY <1>1, <1>2 DEF Partition, eb

(* The step of add_sample().                                                 *)
LEMMA PartitionAdd ==
    ASSUME FilterInv, NEW s \in Samples, s \notin filter
    PROVE  Partition(filter \cup {s}, WithSample(s))
<1> DEFINE p == IF buffer_id \in DOMAIN old_buffers THEN old_buffers[buffer_id]
                ELSE NoPtrs
           q == [unacked_count |-> p.unacked_count + 1,
                 buffer |-> Append(p.buffer, s), erased |-> p.erased]
           old == IF buffer_id \in DOMAIN old_buffers
                  THEN Unacked(old_buffers[buffer_id]) ELSE {}
<1>1. /\ NoPtrs \in FilterPtrs /\ Distinct(NoPtrs) /\ Unacked(NoPtrs) = {}
      /\ NoPtrs.unacked_count = Cardinality(Unacked(NoPtrs))
    BY FS_EmptySet DEF NoPtrs, FilterPtrs, Distinct, Unacked
<1>2. /\ p \in FilterPtrs /\ Distinct(p) /\ Unacked(p) = old
      /\ p.unacked_count = Cardinality(Unacked(p))
      /\ old \subseteq filter
    BY <1>1 DEF FilterInv, FilterIsUnacked, TypeOK
<1>3. p.unacked_count + 1 \in Int
    BY <1>2 DEF FilterPtrs
<1> HIDE DEF p
<1>4. Distinct(q) /\ Unacked(q) = Unacked(p) \cup {s}
    BY <1>2, <1>3, UnackedAppend
<1>5. q.unacked_count = Cardinality(Unacked(q))
  <2>1. Unacked(p) \subseteq Samples
      BY <1>2 DEF FilterPtrs, Unacked
  <2>2. IsFiniteSet(Unacked(p))
      BY <2>1, SamplesAssumption, FS_Subset
  <2>3. Cardinality(Unacked(p) \cup {s}) = Cardinality(Unacked(p)) + 1
      BY <1>2, <2>2, FS_AddElement
  <2> QED BY <1>2, <1>4, <2>3
<1>6. WithSample(s) = Put(old_buffers, buffer_id, q)
    BY DEF WithSample, p
<1> HIDE DEF q, old
<1>7. Partition((filter \ old) \cup Unacked(q), Put(old_buffers, buffer_id, q))
  <2>1. Unacked(q) \cap (filter \ old) = {}
      BY <1>2, <1>4
  <2>2. Partition(filter, old_buffers)
      BY FilterInvIsPartition
  <2> QED BY <1>4, <1>5, <2>1, <2>2, PartitionPut DEF old
<1>8. (filter \ old) \cup Unacked(q) = filter \cup {s}
    BY <1>2, <1>4
<1> QED
    BY <1>6, <1>7, <1>8

(* The steps of ack() and ack_buffer().                                      *)
LEMMA PartitionAck ==
    ASSUME FilterInv, NEW id, NEW ids, ack(id, ids)
    PROVE  Partition(filter', old_buffers')
<1>1. Partition(filter, old_buffers)
    BY FilterInvIsPartition
<1>2. CASE UNCHANGED <<filter, old_buffers>>
    BY <1>1, <1>2
<1> DEFINE p == old_buffers[id]
           count == p.unacked_count - Cardinality(ids)
           gone == {p.buffer[i] : i \in ids}
           q == [unacked_count |-> count, buffer |-> p.buffer,
                 erased |-> p.erased \cup ids]
<1>3. CASE /\ id \in DOMAIN old_buffers
           /\ ids \subseteq DOMAIN p.buffer \ p.erased
           /\ filter' = filter \ gone
           /\ old_buffers' = IF count = 0 THEN Erase(old_buffers, id)
                             ELSE Put(old_buffers, id, q)
  <2>1. /\ p \in FilterPtrs /\ Distinct(p)
        /\ p.unacked_count = Cardinality(Unacked(p))
        /\ Unacked(p) \subseteq filter
      BY <1>3 DEF FilterInv, FilterIsUnacked, TypeOK
  <2>2. IsFiniteSet(ids) /\ Cardinality(ids) \in Nat
    <3>1. p.buffer \in Seq(Samples)
        BY <2>1 DEF FilterPtrs
    <3>2. Len(p.buffer) \in Nat /\ DOMAIN p.buffer = 1 .. Len(p.buffer)
        BY <3>1
    <3>3. IsFiniteSet(1 .. Len(p.buffer))
        BY <3>2, FS_Interval
    <3>4. ids \subseteq 1 .. Len(p.buffer)
        BY <1>3, <3>2
    <3> QED BY <3>3, <3>4, FS_Subset, FS_CardinalityType
  <2>3. count \in Int
      BY <2>1, <2>2 DEF FilterPtrs
  <2>4. /\ Distinct(q) /\ gone \subseteq Unacked(p)
        /\ Unacked(q) = Unacked(p) \ gone
        /\ IsFiniteSet(Unacked(p))
        /\ Cardinality(Unacked(q)) = Cardinality(Unacked(p)) - Cardinality(ids)
      BY <1>3, <2>1, <2>3, UnackedErase
  <2>5. q.unacked_count = count /\ count = Cardinality(Unacked(q))
      BY <2>1, <2>4
  <2> HIDE DEF q, gone, count
  <2>6. CASE count = 0
    <3>1. Unacked(q) = {}
      <4>1. IsFiniteSet(Unacked(q))
          BY <2>4, FS_Difference
      <4> QED BY <2>5, <2>6, <4>1, FS_EmptySet
    <3>2. Unacked(p) = gone
        BY <2>4, <3>1
    <3>3. Partition(filter \ Unacked(p), Erase(old_buffers, id))
        BY <1>1, <1>3, PartitionErase
    <3> QED BY <1>3, <2>6, <3>2, <3>3
  <2>7. CASE count # 0
    <3>1. Unacked(q) \cap (filter \ Unacked(p)) = {}
        BY <2>4
    <3>2. Partition((filter \ Unacked(p)) \cup Unacked(q),
                    Put(old_buffers, id, q))
        BY <1>1, <1>3, <2>4, <2>5, <3>1, PartitionPut
    <3>3. (filter \ Unacked(p)) \cup Unacked(q) = filter \ gone
        BY <2>1, <2>4
    <3> QED BY <1>3, <2>7, <3>2, <3>3
  <2> QED BY <2>6, <2>7
<1> QED
    BY <1>2, <1>3 DEF ack, EraseIterators

LEMMA PartitionAckBuffer ==
    ASSUME FilterInv, NEW id, ack_buffer(id)
    PROVE  Partition(filter', old_buffers')
<1>1. Partition(filter, old_buffers)
    BY FilterInvIsPartition
<1>2. CASE UNCHANGED <<filter, old_buffers>>
    BY <1>1, <1>2
<1> DEFINE p == old_buffers[id]
           all == p.unacked_count = Cardinality(filter)
<1>3. CASE /\ id \in DOMAIN old_buffers
           /\ all \/ p.erased = {}
           /\ filter' = IF all THEN {} ELSE filter \ Range(p.buffer)
           /\ old_buffers' = Erase(old_buffers, id)
  <2>1. /\ p.unacked_count = Cardinality(Unacked(p))
        /\ Unacked(p) \subseteq filter
        /\ filter \subseteq Samples
      BY <1>3 DEF FilterInv, FilterIsUnacked, TypeOK
  <2>2. Partition(filter \ Unacked(p), Erase(old_buffers, id))
      BY <1>1, <1>3, PartitionErase
  <2>3. CASE all
    <3>1. IsFiniteSet(filter)
        BY <2>1, SamplesAssumption, FS_Subset
    <3>2. Unacked(p) = filter
        BY <2>1, <2>3, <3>1, FS_Subset
    <3> QED BY <1>3, <2>2, <2>3, <3>2
  <2>4. CASE ~all
    <3>1. Range(p.buffer) = Unacked(p)
        BY <1>3, <2>4 DEF Unacked, Range
    <3> QED BY <1>3, <2>2, <2>4, <3>1
  <2> QED BY <2>3, <2>4
<1> QED
    BY <1>2, <1>3 DEF ack_buffer, FilterWithout

(* FilterInv is inductive.                                                   *)
LEMMA FilterInvCorrect == Spec => []FilterInv
<1>1. Init => Partition(filter, old_buffers)
  <2>1. DOMAIN <<>> = {}
      OBVIOUS
  <2> QED BY <2>1 DEF Init, Partition
<1>2. FilterInv /\ [Next]_vars => Partition(filter, old_buffers)'
  <2> SUFFICES ASSUME FilterInv, [Next]_vars
               PROVE  Partition(filter', old_buffers')
      BY DEF Partition, Unacked, Distinct
  <2>0. ASSUME UNCHANGED <<filter, old_buffers>>
        PROVE  Partition(filter', old_buffers')
      BY <2>0, FilterInvIsPartition
  <2>1. ASSUME NEW t \in Threads, NEW s \in Samples, AddSample(t, s)
        PROVE  Partition(filter', old_buffers')
      BY <2>1, PartitionAdd DEF AddSample, NewSample
  <2>2. ASSUME NEW id \in DOMAIN notified, AckBuffer(id)
        PROVE  Partition(filter', old_buffers')
      BY <2>2, PartitionAckBuffer DEF AckBuffer
  <2>3. ASSUME NEW id \in DOMAIN notified, NEW ids \in SUBSET notified[id].left,
               Ack(id, ids)
        PROVE  Partition(filter', old_buffers')
      BY <2>3, PartitionAck DEF Ack
  <2>4. ASSUME ResetState PROVE Partition(filter', old_buffers')
    <3>1. DOMAIN <<>> = {}
        OBVIOUS
    <3> QED BY <2>4, <3>1 DEF ResetState, Partition
  <2>5. ASSUME \/ \E t \in Threads, n \in MaxSamples : SetMaxSamples(t, n)
               \/ \E t \in Threads : SwapWoken(t)
               \/ \E t \in Threads, mode \in Modes : SetLearnWriter(t, mode)
               \/ \E on \in Timeouts, passed \in BOOLEAN :
                     SetTimeout(on, passed)
               \/ DeadlinePasses \/ TxTest \/ TxTimeout \/ TxHeader
               \/ TxSend \/ TxDone \/ Destroy \/ UNCHANGED vars
        PROVE  UNCHANGED <<filter, old_buffers>>
      BY <2>5 DEF SetMaxSamples, SwapWoken, SetLearnWriter, SetTimeout,
         DeadlinePasses, TxTest, TxTimeout, TxHeader, TxSend, TxDone, Destroy,
         vars
  <2> QED
      BY <2>0, <2>1, <2>2, <2>3, <2>4, <2>5 DEF Next
<1>3. Partition(filter, old_buffers) /\ TypeOK => FilterInv
    BY FilterInvIsPartition
<1> QED
    BY <1>1, <1>2, <1>3, TypeCorrect, PTL DEF Spec

(* In every state, with resets and stale acknowledgements too, the filter is *)
(* the disjoint union of the unacknowledged samples and the counts are       *)
(* right, so the shortcut of ack_buffer() never forgets another buffer's     *)
(* samples.                                                                  *)
THEOREM FilterCorrect == Spec => []FilterIsUnacked
<1>1. FilterInv => FilterIsUnacked
    BY DEF FilterInv
<1> QED
    BY <1>1, FilterInvCorrect, PTL

-----------------------------------------------------------------------------
(* Where the samples of a buffer are until the control plane has them: in    *)
(* buffer under buffer_id, in buffer_tmp under the id before it, and, once   *)
(* sent, in a notification.                                                  *)
Held(id, buf, ob) ==
    IF buf = <<>> THEN id \notin DOMAIN ob
    ELSE id \in DOMAIN ob /\ ob[id].buffer = buf /\ ob[id].erased = {}

Unsent == buffer_tmp # <<>> /\ tx # "sent"

(* A notification n of id: the entry of old_buffers is there until the last  *)
(* of its samples is acknowledged, and has erased the others.                *)
Matched(n, id, ob) ==
    /\ n.samples # <<>> /\ n.num_samples = Len(n.samples)
    /\ n.left \subseteq DOMAIN n.samples
    /\ id \in DOMAIN ob <=> n.left # {}
    /\ id \in DOMAIN ob => /\ ob[id].buffer = n.samples
                           /\ ob[id].erased = DOMAIN n.samples \ n.left

(* While the transmit thread sends, with the mutex released, buffer_tmp and  *)
(* buffer_id stay what they were when it took them.                          *)
Transmission ==
    /\ buffer_tmp # <<>> => num_samples_tmp = Len(buffer_tmp) /\ buffer_id > 0
    /\ tx \in {"header", "send", "sent"} => buffer_tmp # <<>>
    /\ tx \in {"header", "send"} => msg.num_samples = Len(buffer_tmp)
    /\ tx = "send" => msg.buffer_id = buffer_id - 1

Waiting(ob) ==
    Unsent => /\ Held(buffer_id - 1, buffer_tmp, ob)
              /\ buffer_id - 1 \notin DOMAIN notified

Sent(ob) ==
    \A id \in DOMAIN notified : id < buffer_id /\ Matched(notified[id], id, ob)

Covered(ob) ==
    \A id \in DOMAIN ob : \/ id = buffer_id
                          \/ Unsent /\ id = buffer_id - 1
                          \/ id \in DOMAIN notified

(* All of it, of a buffer, a count and a map that a step may be about to     *)
(* store.                                                                    *)
TrackedAs(buf, n, ob) ==
    /\ ~ub
    /\ n = Len(buf) /\ Held(buffer_id, buf, ob)
    /\ Transmission /\ Waiting(ob) /\ Sent(ob) /\ Covered(ob)

Tracked == resets = 0 => TrackedAs(buffer, num_samples, old_buffers)

TrackedInv == FilterInv /\ Tracked

(* Steps that leave the transmission where it is.                            *)
LEMMA TrackedFrame ==
    ASSUME NEW buf, NEW n, NEW ob, TrackedAs(buf, n, ob),
           buffer' = buf, num_samples' = n, old_buffers' = ob,
           UNCHANGED <<buffer_id, buffer_tmp, num_samples_tmp, msg, notified, ub>>,
           \/ tx' = tx
           \/ tx # "sent" /\ tx' \notin {"header", "send", "sent"}
    PROVE  TrackedAs(buffer, num_samples, old_buffers)'
<1>1. Unsent' <=> Unsent
    BY DEF Unsent
<1>2. Transmission'
    BY DEF TrackedAs, Transmission
<1>3. Held(buffer_id, buf, ob)' /\ (Unsent => Held(buffer_id - 1, buffer_tmp, ob)')
    BY DEF TrackedAs, Waiting, Held
<1>4. Waiting(old_buffers)' /\ Covered(old_buffers)'
    BY <1>1 DEF TrackedAs, Waiting, Covered, Held
<1>5. Sent(old_buffers)'
    BY DEF TrackedAs, Sent, Matched
<1> QED
    BY <1>2, <1>4, <1>5 DEF TrackedAs, Held

(* swap_buffers(): the buffer becomes the one to send, under the id before   *)
(* the new one.                                                              *)
LEMMA TrackedSwap ==
    ASSUME TypeOK, NEW buf \in Seq(Samples), NEW n, NEW ob, TrackedAs(buf, n, ob),
           swap_buffers(buf, n), buffer_tmp = <<>>, old_buffers' = ob,
           UNCHANGED <<notified, ub>>,
           \/ tx' = tx
           \/ tx' \notin {"header", "send", "sent"}
           \/ tx' = "header" /\ msg'.num_samples = n /\ buf # <<>>
    PROVE  TrackedAs(buffer, num_samples, old_buffers)'
<1>1. /\ buffer_tmp' = buf /\ buffer' = <<>> /\ num_samples_tmp' = n
      /\ num_samples' = 0 /\ buffer_id' = buffer_id + 1 /\ buffer_id \in Nat
      /\ n = Len(buf) /\ DOMAIN notified \subseteq Ids
    BY DEF swap_buffers, TypeOK, TrackedAs
<1>2. ~Unsent /\ tx \notin {"header", "send", "sent"}
    BY DEF TrackedAs, Transmission, Unsent
<1>3. Transmission'
    BY <1>1, <1>2 DEF Transmission
<1>4. \A id \in DOMAIN notified : id < buffer_id /\ id \in Int
    BY DEF TrackedAs, Sent, TypeOK, Ids
<1>5. \A id \in DOMAIN ob : id = buffer_id \/ id \in DOMAIN notified
    BY <1>2 DEF TrackedAs, Covered
<1>6. buffer_id + 1 \notin DOMAIN ob /\ buffer_id \notin DOMAIN notified
    BY <1>1, <1>4, <1>5
<1>7. Held(buffer_id + 1, <<>>, ob) /\ Held(buffer_id, buf, ob)
    BY <1>6 DEF Held, TrackedAs
<1>8. Waiting(old_buffers)'
    BY <1>1, <1>6, <1>7 DEF Waiting, Held
<1>9. Sent(old_buffers)'
  <2>1. \A id \in DOMAIN notified : id < buffer_id + 1
      BY <1>1, <1>4
  <2> QED BY <1>1, <2>1 DEF Sent, Matched, TrackedAs
<1>10. Covered(old_buffers)'
  <2>1. buf = <<>> => buffer_id \notin DOMAIN ob
      BY <1>7 DEF Held
  <2>2. buf # <<>> => Unsent'
      BY <1>1, <1>2 DEF Unsent
  <2> QED BY <1>1, <1>5, <2>1, <2>2 DEF Covered
<1>11. Len(<<>>) = 0
    OBVIOUS
<1> QED
    BY <1>1, <1>3, <1>7, <1>8, <1>9, <1>10, <1>11 DEF TrackedAs, Held

LEMMA TrackedProcess ==
    ASSUME TypeOK, NEW t, NEW buf \in Seq(Samples), NEW n, NEW ob,
           TrackedAs(buf, n, ob), process_full_buffer(t, buf, n),
           old_buffers' = ob, UNCHANGED <<msg, notified, ub>>
    PROVE  TrackedAs(buffer, num_samples, old_buffers)'
<1>1. CASE /\ buffer' = buf /\ num_samples' = n
           /\ UNCHANGED <<buffer_id, buffer_tmp, num_samples_tmp, tx>>
    BY <1>1, TrackedFrame
<1>2. CASE buffer_tmp = <<>> /\ swap_buffers(buf, n) /\ NotifySend
  <2>1. tx' = tx \/ tx' \notin {"header", "send", "sent"}
      BY <1>2 DEF NotifySend
  <2> QED BY <1>2, <2>1, TrackedSwap
<1> QED
    BY <1>1, <1>2 DEF process_full_buffer

(* add_sample(): the sample goes to the buffer and to its entry.             *)
LEMMA TrackedAdd ==
    ASSUME TypeOK, NEW s \in Samples, TrackedAs(buffer, num_samples, old_buffers)
    PROVE  TrackedAs(Append(buffer, s), num_samples + 1, WithSample(s))
<1> DEFINE p == IF buffer_id \in DOMAIN old_buffers THEN old_buffers[buffer_id]
                ELSE NoPtrs
           q == [unacked_count |-> p.unacked_count + 1,
                 buffer |-> Append(p.buffer, s), erased |-> p.erased]
           ob == WithSample(s)
<1>1. p.buffer = buffer /\ p.erased = {}
    BY DEF TrackedAs, Held, NoPtrs
<1>2. ob = Put(old_buffers, buffer_id, q)
    BY DEF WithSample
<1>3. q.buffer = Append(buffer, s) /\ q.erased = {}
    BY <1>1
<1> HIDE DEF p, q
<1>4. /\ DOMAIN ob = DOMAIN old_buffers \cup {buffer_id} /\ ob[buffer_id] = q
      /\ \A i \in DOMAIN old_buffers : i # buffer_id => ob[i] = old_buffers[i]
    BY <1>2 DEF Put
<1> HIDE DEF ob
<1>5. Append(buffer, s) # <<>> /\ num_samples + 1 = Len(Append(buffer, s))
  <2>1. buffer \in Seq(Samples) /\ num_samples = Len(buffer)
      BY DEF TypeOK, TrackedAs
  <2>2. Len(Append(buffer, s)) = Len(buffer) + 1 /\ Len(buffer) \in Nat /\ Len(<<>>) = 0
      BY <2>1
  <2>3. Len(Append(buffer, s)) # Len(<<>>)
      BY <2>2
  <2> QED BY <2>1, <2>2, <2>3
<1>6. Held(buffer_id, Append(buffer, s), ob)
    BY <1>3, <1>4, <1>5 DEF Held
<1>7. buffer_id \in Nat /\ \A id \in DOMAIN notified : id \in Int /\ id < buffer_id
    BY DEF TypeOK, Ids, TrackedAs, Sent
<1>8. Waiting(ob)
    BY <1>4, <1>7 DEF TrackedAs, Waiting, Held, Unsent
<1>9. Sent(ob)
  <2>1. \A id \in DOMAIN notified : id # buffer_id
      BY <1>7
  <2> QED BY <1>4, <2>1 DEF TrackedAs, Sent, Matched
<1>10. Covered(ob)
    BY <1>4 DEF TrackedAs, Covered
<1> QED
    BY <1>5, <1>6, <1>8, <1>9, <1>10 DEF TrackedAs, ob

LEMMA TrackedAddSample ==
    ASSUME TypeOK, NEW t \in Threads, NEW s \in Samples, AddSample(t, s),
           TrackedAs(buffer, num_samples, old_buffers)
    PROVE  TrackedAs(buffer, num_samples, old_buffers)'
<1> DEFINE buf == Append(buffer, s)
           n == num_samples + 1
           ob == WithSample(s)
<1>1. TrackedAs(buf, n, ob)
    BY TrackedAdd
<1>2. buf \in Seq(Samples) /\ old_buffers' = ob /\ UNCHANGED <<msg, notified, ub>>
    BY DEF TypeOK, AddSample
<1>3. \/ FirstSample(buf) /\ n = 1
      \/ process_full_buffer(t, buf, n)
      \/ /\ buffer' = buf /\ num_samples' = n
         /\ UNCHANGED <<buffer_id, buffer_tmp, num_samples_tmp, tx>>
    BY DEF AddSample
<1> HIDE DEF buf, n, ob
<1>4. CASE FirstSample(buf) /\ n = 1
  <2>1. /\ buffer' = buf /\ num_samples' = n
        /\ UNCHANGED <<buffer_id, buffer_tmp, num_samples_tmp>>
        /\ tx' = tx \/ (tx # "sent" /\ tx' \notin {"header", "send", "sent"})
      BY <1>4 DEF FirstSample, NotifySend
  <2> QED BY <1>1, <1>2, <2>1, TrackedFrame
<1>5. CASE process_full_buffer(t, buf, n)
    BY <1>1, <1>2, <1>5, TrackedProcess
<1>6. CASE /\ buffer' = buf /\ num_samples' = n
           /\ UNCHANGED <<buffer_id, buffer_tmp, num_samples_tmp, tx>>
    BY <1>1, <1>2, <1>6, TrackedFrame
<1> QED
    BY <1>3, <1>4, <1>5, <1>6

(* buffer_transmit(), from the condition of its loop to the end of a send.   *)
LEMMA TrackedTxTest ==
    ASSUME TypeOK, TxTest, TrackedAs(buffer, num_samples, old_buffers)
    PROVE  TrackedAs(buffer, num_samples, old_buffers)'
<1>1. UNCHANGED <<notified, old_buffers, ub>> /\ tx = "test"
    BY DEF TxTest
<1>2. CASE /\ UNCHANGED <<buffer, buffer_id, num_samples, buffer_tmp, num_samples_tmp, msg>>
           /\ tx' \in {"stopped", "wait", "timed_wait"}
  <2>1. tx # "sent" /\ tx' \notin {"header", "send", "sent"}
      BY <1>1, <1>2
  <2> QED BY <1>1, <1>2, <2>1, TrackedFrame
<1>3. CASE /\ buffer_tmp = <<>> /\ num_samples # 0
           /\ msg' = [buffer_id |-> msg.buffer_id, num_samples |-> num_samples]
           /\ swap_buffers(buffer, num_samples) /\ tx' = "header"
  <2>1. buffer \in Seq(Samples) /\ buffer # <<>>
      BY <1>3 DEF TypeOK, TrackedAs
  <2>2. msg'.num_samples = num_samples
      BY <1>3
  <2> QED BY <1>1, <1>3, <2>1, <2>2, TrackedSwap
<1>4. CASE /\ buffer_tmp # <<>> /\ tx' = "header"
           /\ msg' = [buffer_id |-> msg.buffer_id, num_samples |-> num_samples_tmp]
           /\ UNCHANGED <<buffer, buffer_id, num_samples, buffer_tmp, num_samples_tmp>>
  <2>1. msg'.num_samples = num_samples_tmp /\ num_samples_tmp = Len(buffer_tmp)
      BY <1>4 DEF TrackedAs, Transmission
  <2>2. Transmission'
      BY <1>4, <2>1 DEF TrackedAs, Transmission
  <2>3. Unsent' <=> Unsent
      BY <1>1, <1>4 DEF Unsent
  <2>4. Waiting(old_buffers)' /\ Covered(old_buffers)' /\ Sent(old_buffers)'
      BY <1>1, <1>4, <2>3 DEF TrackedAs, Waiting, Covered, Sent, Held, Matched
  <2> QED BY <1>1, <1>4, <2>2, <2>4 DEF TrackedAs, Held
<1> QED
    BY <1>1, <1>2, <1>3, <1>4 DEF TxTest

LEMMA TrackedTxHeader ==
    ASSUME TypeOK, TxHeader, TrackedAs(buffer, num_samples, old_buffers)
    PROVE  TrackedAs(buffer, num_samples, old_buffers)'
<1>1. /\ UNCHANGED <<notified, old_buffers, ub>> /\ tx = "header" /\ tx' = "send"
      /\ msg' = [buffer_id |-> buffer_id - 1, num_samples |-> msg.num_samples]
      /\ UNCHANGED <<buffer, buffer_id, num_samples, buffer_tmp, num_samples_tmp>>
    BY DEF TxHeader, SwappedBufferId
<1>2. msg'.buffer_id = buffer_id - 1 /\ msg'.num_samples = msg.num_samples
    BY <1>1
<1>3. Transmission'
    BY <1>1, <1>2 DEF TrackedAs, Transmission
<1>4. Unsent' <=> Unsent
    BY <1>1 DEF Unsent
<1>5. Waiting(old_buffers)' /\ Covered(old_buffers)' /\ Sent(old_buffers)'
    BY <1>1, <1>4 DEF TrackedAs, Waiting, Covered, Sent, Held, Matched
<1> QED
    BY <1>1, <1>3, <1>5 DEF TrackedAs, Held

LEMMA TrackedTxSend ==
    ASSUME TypeOK, TxSend, TrackedAs(buffer, num_samples, old_buffers)
    PROVE  TrackedAs(buffer, num_samples, old_buffers)'
<1> DEFINE n == [samples |-> buffer_tmp, num_samples |-> msg.num_samples,
                 left |-> 1 .. msg.num_samples]
           b == buffer_id - 1
<1>1. /\ UNCHANGED <<old_buffers, ub, msg>> /\ tx = "send" /\ tx' = "sent"
      /\ notified' = Put(notified, msg.buffer_id, n)
      /\ UNCHANGED <<buffer, buffer_id, num_samples, buffer_tmp, num_samples_tmp>>
    BY DEF TxSend
<1>2. /\ buffer_tmp # <<>> /\ msg.num_samples = Len(buffer_tmp) /\ msg.buffer_id = b
      /\ buffer_tmp \in Seq(Samples) /\ buffer_id \in Nat
    BY <1>1 DEF TrackedAs, Transmission, TypeOK
<1>3. Unsent /\ ~Unsent'
    BY <1>1, <1>2 DEF Unsent
<1>4. /\ b \in DOMAIN old_buffers /\ old_buffers[b].buffer = buffer_tmp
      /\ old_buffers[b].erased = {}
    BY <1>2, <1>3 DEF TrackedAs, Waiting, Held
<1>5. /\ n.samples = buffer_tmp /\ n.num_samples = Len(buffer_tmp)
      /\ n.left = DOMAIN buffer_tmp /\ n.left # {}
  <2>1. Len(buffer_tmp) \in Nat /\ Len(buffer_tmp) # 0
        /\ DOMAIN buffer_tmp = 1 .. Len(buffer_tmp)
      BY <1>2
  <2>2. 1 \in DOMAIN buffer_tmp
      BY <2>1
  <2> QED BY <1>2, <2>1, <2>2
<1> HIDE DEF n
<1>6. /\ DOMAIN notified' = DOMAIN notified \cup {b} /\ notified'[b] = n
      /\ \A i \in DOMAIN notified : i # b => notified'[i] = notified[i]
    BY <1>1, <1>2 DEF Put
<1>7. Matched(n, b, old_buffers)
    BY <1>2, <1>4, <1>5 DEF Matched
<1>8. b < buffer_id
    BY <1>2
<1> HIDE DEF b
<1>9. Sent(old_buffers)'
  <2>1. \A id \in DOMAIN notified' : id < buffer_id /\ Matched(notified'[id], id, old_buffers)
      BY <1>6, <1>7, <1>8 DEF TrackedAs, Sent
  <2> QED BY <1>1, <2>1 DEF Sent, Matched
<1>10. Waiting(old_buffers)'
    BY <1>3 DEF Waiting
<1>11. Covered(old_buffers)'
    BY <1>1, <1>6 DEF TrackedAs, Covered, b
<1>12. Transmission'
    BY <1>1, <1>2 DEF TrackedAs, Transmission
<1> QED
    BY <1>1, <1>9, <1>10, <1>11, <1>12 DEF TrackedAs, Held

LEMMA TrackedTxDone ==
    ASSUME TypeOK, TxDone, TrackedAs(buffer, num_samples, old_buffers)
    PROVE  TrackedAs(buffer, num_samples, old_buffers)'
<1>1. /\ UNCHANGED <<old_buffers, ub, notified>> /\ tx = "sent"
      /\ tx' \in {"test", "stopped"} /\ buffer_tmp' = <<>>
      /\ UNCHANGED <<buffer, buffer_id, num_samples>>
    BY DEF TxDone
<1>2. ~Unsent /\ ~Unsent'
    BY <1>1 DEF Unsent
<1>3. Transmission'
    BY <1>1 DEF Transmission
<1>4. Waiting(old_buffers)' /\ Covered(old_buffers)' /\ Sent(old_buffers)'
    BY <1>1, <1>2 DEF TrackedAs, Waiting, Covered, Sent, Matched
<1> QED
    BY <1>1, <1>3, <1>4 DEF TrackedAs, Held

-----------------------------------------------------------------------------
(* An acknowledgement of one entry: what was sent stays matched, and what    *)
(* waits is another entry.                                                   *)
LEMMA TrackedEntry ==
    ASSUME TypeOK, NEW id \in DOMAIN notified, NEW l,
           TrackedAs(buffer, num_samples, old_buffers),
           notified' = Put(notified, id, Left(notified[id], l)),
           UNCHANGED <<buffer, buffer_id, num_samples, buffer_tmp, num_samples_tmp, tx, msg, ub>>,
           \A i : i # id => /\ i \in DOMAIN old_buffers' <=> i \in DOMAIN old_buffers
                            /\ i \in DOMAIN old_buffers => old_buffers'[i] = old_buffers[i],
           Matched(Left(notified[id], l), id, old_buffers')
    PROVE  TrackedAs(buffer, num_samples, old_buffers)'
<1>1. /\ DOMAIN notified' = DOMAIN notified /\ notified'[id] = Left(notified[id], l)
      /\ \A i \in DOMAIN notified : i # id => notified'[i] = notified[i]
    BY DEF Put
<1>2. id < buffer_id /\ id \in Int /\ buffer_id \in Nat
    BY DEF TrackedAs, Sent, TypeOK, Ids
<1>3. Unsent => id # buffer_id - 1
    BY DEF TrackedAs, Waiting
<1>4. id # buffer_id
    BY <1>2
<1>5. Unsent' <=> Unsent
    BY DEF Unsent
<1>6. Transmission'
    BY DEF TrackedAs, Transmission
<1>7. Held(buffer_id, buffer, old_buffers)'
    BY <1>4 DEF TrackedAs, Held
<1>8. Waiting(old_buffers)'
    BY <1>1, <1>3, <1>5 DEF TrackedAs, Waiting, Held
<1>9. Covered(old_buffers)'
    BY <1>1, <1>5 DEF TrackedAs, Covered
<1>10. Sent(old_buffers)'
  <2>1. ASSUME NEW i \in DOMAIN notified
        PROVE  i < buffer_id /\ Matched(notified'[i], i, old_buffers')
    <3>1. CASE i = id
        BY <3>1, <1>1, <1>2
    <3>2. CASE i # id
      <4>1. /\ i \in DOMAIN old_buffers' <=> i \in DOMAIN old_buffers
            /\ i \in DOMAIN old_buffers => old_buffers'[i] = old_buffers[i]
          BY <3>2
      <4>2. notified'[i] = notified[i] /\ i < buffer_id /\ Matched(notified[i], i, old_buffers)
          BY <3>2, <1>1 DEF TrackedAs, Sent
      <4> QED BY <4>1, <4>2 DEF Matched
    <3> QED BY <3>1, <3>2
  <2> QED BY <1>1, <2>1 DEF Sent, Matched
<1> QED
    BY <1>6, <1>7, <1>8, <1>9, <1>10 DEF TrackedAs

LEMMA EraseIs ==
    ASSUME NEW ob, NEW k
    PROVE  /\ k \notin DOMAIN Erase(ob, k)
           /\ \A i : i # k => /\ i \in DOMAIN Erase(ob, k) <=> i \in DOMAIN ob
                              /\ i \in DOMAIN ob => Erase(ob, k)[i] = ob[i]
BY DEF Erase

LEMMA PutIs ==
    ASSUME NEW ob, NEW k, NEW v
    PROVE  /\ k \in DOMAIN Put(ob, k, v) /\ Put(ob, k, v)[k] = v
           /\ \A i : i # k => /\ i \in DOMAIN Put(ob, k, v) <=> i \in DOMAIN ob
                              /\ i \in DOMAIN ob => Put(ob, k, v)[i] = ob[i]
BY DEF Put

LEMMA LeftIs ==
    ASSUME NEW n, NEW l
    PROVE  /\ Left(n, l).samples = n.samples /\ Left(n, l).num_samples = n.num_samples
           /\ Left(n, l).left = l
BY DEF Left

LEMMA TrackedAckBuffer ==
    ASSUME FilterInv, NEW id \in DOMAIN notified, AckBuffer(id),
           TrackedAs(buffer, num_samples, old_buffers)
    PROVE  TrackedAs(buffer, num_samples, old_buffers)'
<1> DEFINE n == notified[id]
           m == Left(notified[id], {})
<1>1. /\ n.left \in {{}, 1 .. n.num_samples} /\ ack_buffer(id)
      /\ notified' = Put(notified, id, m)
      /\ UNCHANGED <<buffer, buffer_id, num_samples, buffer_tmp, num_samples_tmp, tx, msg>>
    BY DEF AckBuffer
<1>2. Matched(n, id, old_buffers)
    BY DEF TrackedAs, Sent
<1>3. /\ m.samples = n.samples /\ m.num_samples = n.num_samples /\ m.left = {}
    BY LeftIs
<1>4. n.samples \in Seq(Samples) /\ TypeOK
    BY DEF FilterInv, TypeOK, Notification
<1>5. CASE id \notin DOMAIN old_buffers
  <2>1. UNCHANGED <<filter, old_buffers, ub>>
      BY <1>1, <1>5 DEF ack_buffer
  <2> HIDE DEF m, n
  <2>2. Matched(m, id, old_buffers')
      BY <1>2, <1>3, <1>5, <2>1 DEF Matched
  <2> QED BY <1>1, <1>4, <2>1, <2>2, TrackedEntry DEF m
<1>6. CASE id \in DOMAIN old_buffers
  <2>1. n.left = DOMAIN n.samples
    <3>1. n.left # {} /\ n.num_samples = Len(n.samples)
        BY <1>2, <1>6 DEF Matched
    <3>2. DOMAIN n.samples = 1 .. Len(n.samples)
        BY <1>4
    <3> QED BY <1>1, <3>1, <3>2
  <2>2. old_buffers[id].erased = {}
      BY <1>2, <1>6, <2>1 DEF Matched
  <2>3. old_buffers' = Erase(old_buffers, id) /\ UNCHANGED ub
      BY <1>1, <1>6, <2>2 DEF ack_buffer
  <2> HIDE DEF m, n
  <2>4. /\ id \notin DOMAIN old_buffers'
        /\ \A i : i # id => /\ i \in DOMAIN old_buffers' <=> i \in DOMAIN old_buffers
                            /\ i \in DOMAIN old_buffers => old_buffers'[i] = old_buffers[i]
      BY <2>3, EraseIs
  <2>5. Matched(m, id, old_buffers')
      BY <1>2, <1>3, <2>4 DEF Matched
  <2> QED BY <1>1, <1>4, <2>3, <2>4, <2>5, TrackedEntry DEF m
<1> QED
    BY <1>5, <1>6

LEMMA TrackedAck ==
    ASSUME FilterInv, NEW id \in DOMAIN notified, NEW ids, Ack(id, ids),
           TrackedAs(buffer, num_samples, old_buffers)
    PROVE  TrackedAs(buffer, num_samples, old_buffers)'
<1> DEFINE n == notified[id]
           p == old_buffers[id]
           m == Left(notified[id], notified[id].left \ ids)
           count == p.unacked_count - Cardinality(ids)
           q == [unacked_count |-> count, buffer |-> p.buffer,
                 erased |-> p.erased \cup ids]
<1>1. /\ ids # {} /\ ids \subseteq n.left /\ ack(id, ids)
      /\ notified' = Put(notified, id, m)
      /\ UNCHANGED <<buffer, buffer_id, num_samples, buffer_tmp, num_samples_tmp, tx, msg>>
    BY DEF Ack
<1>2. Matched(n, id, old_buffers)
    BY DEF TrackedAs, Sent
<1>3. /\ m.samples = n.samples /\ m.num_samples = n.num_samples
      /\ m.left = n.left \ ids
    BY LeftIs
<1>4. TypeOK
    BY DEF FilterInv
<1>5. id \in DOMAIN old_buffers
    BY <1>1, <1>2 DEF Matched
<1>6. /\ p.buffer = n.samples /\ p.erased = DOMAIN n.samples \ n.left
      /\ n.left \subseteq DOMAIN n.samples
    BY <1>2, <1>5 DEF Matched
<1>7. ids \subseteq DOMAIN p.buffer \ p.erased
    BY <1>1, <1>6
<1>8. /\ old_buffers' = IF count = 0 THEN Erase(old_buffers, id)
                        ELSE Put(old_buffers, id, q)
      /\ UNCHANGED ub
    BY <1>1, <1>5, <1>7 DEF ack, EraseIterators
<1>9. count = 0 <=> n.left \ ids = {}
  <2>1. /\ p \in FilterPtrs /\ Distinct(p)
        /\ p.unacked_count = Cardinality(Unacked(p))
      BY <1>5 DEF FilterInv, FilterIsUnacked, TypeOK
  <2>2. count \in Int
    <3>1. p.buffer \in Seq(Samples) /\ p.unacked_count \in Int
        BY <2>1 DEF FilterPtrs
    <3>2. Len(p.buffer) \in Nat /\ DOMAIN p.buffer = 1 .. Len(p.buffer)
        BY <3>1
    <3>3. IsFiniteSet(1 .. Len(p.buffer))
        BY <3>2, FS_Interval
    <3>4. ids \subseteq 1 .. Len(p.buffer)
        BY <1>7, <3>2
    <3>5. Cardinality(ids) \in Nat
        BY <3>3, <3>4, FS_Subset, FS_CardinalityType
    <3> QED BY <3>1, <3>5
  <2>3. /\ Unacked(q) = Unacked(p) \ {p.buffer[i] : i \in ids}
        /\ IsFiniteSet(Unacked(p))
        /\ Cardinality(Unacked(q)) = Cardinality(Unacked(p)) - Cardinality(ids)
      BY <1>7, <2>1, <2>2, UnackedErase
  <2>4. count = Cardinality(Unacked(q))
      BY <2>1, <2>3
  <2>5. IsFiniteSet(Unacked(q))
      BY <2>3, FS_Difference
  <2>6. count = 0 <=> Unacked(q) = {}
      BY <2>4, <2>5, FS_EmptySet
  <2>7. q.buffer = p.buffer /\ q.erased = p.erased \cup ids
      OBVIOUS
  <2> HIDE DEF q, count, p, n
  <2>8. DOMAIN q.buffer \ q.erased = n.left \ ids
      BY <1>6, <2>7
  <2>9. Unacked(q) = {} <=> n.left \ ids = {}
      BY <2>8 DEF Unacked
  <2> QED BY <2>6, <2>9
<1>10. q.buffer = p.buffer /\ q.erased = p.erased \cup ids
    OBVIOUS
<1> HIDE DEF m, n, p, q, count
<1>11. \A i : i # id => /\ i \in DOMAIN old_buffers' <=> i \in DOMAIN old_buffers
                        /\ i \in DOMAIN old_buffers => old_buffers'[i] = old_buffers[i]
    BY <1>8, EraseIs, PutIs
<1>12. Matched(m, id, old_buffers')
  <2>1. CASE count = 0
    <3>1. id \notin DOMAIN old_buffers'
        BY <1>8, <2>1, EraseIs
    <3> QED BY <1>2, <1>3, <1>9, <2>1, <3>1 DEF Matched
  <2>2. CASE count # 0
    <3>1. id \in DOMAIN old_buffers' /\ old_buffers'[id] = q
        BY <1>8, <2>2, PutIs
    <3>2. q.buffer = m.samples /\ q.erased = DOMAIN m.samples \ m.left
        BY <1>1, <1>3, <1>6, <1>10
    <3> QED BY <1>2, <1>3, <1>9, <2>2, <3>1, <3>2 DEF Matched
  <2> QED BY <2>1, <2>2
<1> QED
    BY <1>1, <1>4, <1>8, <1>11, <1>12, TrackedEntry DEF m

-----------------------------------------------------------------------------
(* As long as no reset_state() has happened, the samples of every entry of   *)
(* old_buffers are where their id says, through every step of the data       *)
(* plane, the transmit thread and the control plane.                         *)
LEMMA TrackedStep ==
    ASSUME FilterInv, TypeOK', Tracked, [Next]_vars
    PROVE  Tracked'
<1>0. TypeOK
    BY DEF FilterInv
<1> DEFINE Now == TrackedAs(buffer, num_samples, old_buffers)
<1>1. ASSUME ResetState PROVE Tracked'
  <2>1. resets' # 0
      BY <1>0, <1>1 DEF ResetState, TypeOK
  <2> QED BY <2>1 DEF Tracked
<1>2. ASSUME ~ResetState PROVE UNCHANGED resets
    BY <1>2 DEF Next, vars, AddSample, SetMaxSamples, SwapWoken, SetLearnWriter,
       SetTimeout, DeadlinePasses, TxTest, TxTimeout, TxHeader, TxSend, TxDone,
       AckBuffer, Ack, Destroy
<1>3. ASSUME ~ResetState, Now PROVE Now'
  <2>1. ASSUME NEW t \in Threads, NEW s \in Samples, AddSample(t, s) PROVE Now'
      BY <1>0, <1>3, <2>1, TrackedAddSample
  <2>2. ASSUME NEW t \in Threads, NEW n \in MaxSamples, SetMaxSamples(t, n) PROVE Now'
    <3>1. UNCHANGED <<old_buffers, msg, notified, ub>> /\ buffer \in Seq(Samples)
        BY <1>0, <2>2 DEF SetMaxSamples, TypeOK
    <3>2. CASE process_full_buffer(t, buffer, num_samples)
        BY <1>0, <1>3, <3>1, <3>2, TrackedProcess
    <3>3. CASE UNCHANGED <<buffer, buffer_id, num_samples, buffer_tmp, num_samples_tmp, tx>>
        BY <1>3, <3>1, <3>3, TrackedFrame
    <3> QED BY <2>2, <3>2, <3>3 DEF SetMaxSamples
  <2>3. ASSUME NEW t \in Threads, SwapWoken(t) PROVE Now'
    <3>1. /\ UNCHANGED <<old_buffers, msg, notified, ub>> /\ buffer \in Seq(Samples)
          /\ process_full_buffer(t, buffer, num_samples)
        BY <1>0, <2>3 DEF SwapWoken, TypeOK
    <3> QED BY <1>0, <1>3, <3>1, TrackedProcess
  <2>4. ASSUME NEW id \in DOMAIN notified, AckBuffer(id) PROVE Now'
      BY <1>3, <2>4, TrackedAckBuffer
  <2>5. ASSUME NEW id \in DOMAIN notified, NEW ids \in SUBSET notified[id].left,
               Ack(id, ids)
        PROVE  Now'
      BY <1>3, <2>5, TrackedAck
  <2>6. CASE TxTest
      BY <1>0, <1>3, <2>6, TrackedTxTest
  <2>7. CASE TxHeader
      BY <1>0, <1>3, <2>7, TrackedTxHeader
  <2>8. CASE TxSend
      BY <1>0, <1>3, <2>8, TrackedTxSend
  <2>9. CASE TxDone
      BY <1>0, <1>3, <2>9, TrackedTxDone
  <2>10. CASE \/ \E t \in Threads, mode \in Modes : SetLearnWriter(t, mode)
              \/ \E on \in Timeouts, passed \in BOOLEAN : SetTimeout(on, passed)
              \/ DeadlinePasses \/ TxTimeout \/ Destroy \/ UNCHANGED vars
    <3>1. /\ UNCHANGED <<buffer, buffer_id, num_samples, buffer_tmp, num_samples_tmp>>
          /\ UNCHANGED <<old_buffers, msg, notified, ub>>
          /\ tx' = tx \/ (tx # "sent" /\ tx' \notin {"header", "send", "sent"})
        BY <2>10 DEF SetLearnWriter, SetTimeout, DeadlinePasses, TxTimeout, Destroy,
           NotifyTransmitThread, NotifySend, vars
    <3> QED BY <1>3, <3>1, TrackedFrame
  <2> QED
      BY <1>3, <2>1, <2>2, <2>3, <2>4, <2>5, <2>6, <2>7, <2>8, <2>9, <2>10 DEF Next
<1> QED
    BY <1>1, <1>2, <1>3 DEF Tracked

LEMMA TrackedInit == Init => Tracked
<1> SUFFICES ASSUME Init PROVE TrackedAs(buffer, num_samples, old_buffers)
    BY DEF Tracked
<1>1. /\ buffer = <<>> /\ num_samples = 0 /\ buffer_tmp = <<>> /\ tx = "test" /\ ~ub
      /\ DOMAIN old_buffers = {} /\ DOMAIN notified = {}
    BY DEF Init
<1>2. Len(<<>>) = 0
    OBVIOUS
<1>3. Transmission /\ ~Unsent
    BY <1>1 DEF Transmission, Unsent
<1> QED
    BY <1>1, <1>2, <1>3 DEF TrackedAs, Held, Waiting, Sent, Covered

(* What follows from the places of the samples.                              *)
LEMMA OutstandingIs ==
    ASSUME TrackedInv, resets = 0, NEW id \in DOMAIN notified
    PROVE  Outstanding(notified[id]) =
              IF id \in DOMAIN old_buffers THEN Unacked(old_buffers[id]) ELSE {}
<1> DEFINE n == notified[id]
<1>1. Matched(n, id, old_buffers)
    BY DEF TrackedInv, Tracked, TrackedAs, Sent
<1> HIDE DEF n
<1>2. CASE id \in DOMAIN old_buffers
  <2>1. /\ DOMAIN old_buffers[id].buffer \ old_buffers[id].erased = n.left \cap DOMAIN n.samples
        /\ old_buffers[id].buffer = n.samples
      BY <1>1, <1>2 DEF Matched
  <2> QED BY <1>2, <2>1 DEF Outstanding, Unacked, n
<1>3. CASE id \notin DOMAIN old_buffers
    BY <1>1, <1>3 DEF Matched, Outstanding, n
<1> QED
    BY <1>2, <1>3

LEMMA OutstandingOnceHolds == TrackedInv => OutstandingOnce
<1> SUFFICES ASSUME TrackedInv, resets = 0, NEW i \in DOMAIN notified,
                    NEW j \in DOMAIN notified, i # j
             PROVE  Outstanding(notified[i]) \cap Outstanding(notified[j]) = {}
    BY DEF OutstandingOnce
<1>1. i \in DOMAIN old_buffers /\ j \in DOMAIN old_buffers =>
         Unacked(old_buffers[i]) \cap Unacked(old_buffers[j]) = {}
    BY DEF TrackedInv, FilterInv, FilterIsUnacked
<1> QED
    BY <1>1, OutstandingIs

LEMMA NoSampleLostHolds == TrackedInv => NoSampleLost
<1> SUFFICES ASSUME TrackedInv, resets = 0, NEW s \in filter
             PROVE  \/ s \in Range(buffer) \cup Range(buffer_tmp)
                    \/ \E id \in DOMAIN notified : s \in Outstanding(notified[id])
    BY DEF NoSampleLost
<1>1. TrackedAs(buffer, num_samples, old_buffers)
    BY DEF TrackedInv, Tracked
<1>2. PICK id \in DOMAIN old_buffers : s \in Unacked(old_buffers[id])
    BY DEF TrackedInv, FilterInv, FilterIsUnacked
<1>3. s \in Range(old_buffers[id].buffer)
    BY <1>2 DEF Unacked, Range
<1>4. CASE id = buffer_id
    BY <1>1, <1>3, <1>4 DEF TrackedAs, Held
<1>5. CASE Unsent /\ id = buffer_id - 1
    BY <1>1, <1>3, <1>5 DEF TrackedAs, Waiting, Held
<1>6. CASE id \in DOMAIN notified
    BY <1>2, <1>6, OutstandingIs
<1> QED
    BY <1>1, <1>4, <1>5, <1>6 DEF TrackedAs, Covered

(* Every state without a reset: the samples of each entry of old_buffers are *)
(* in the buffer, the buffer to send or the notification of its id, whatever *)
(* add_sample(), buffer_transmit(), its timeout, ack() and ack_buffer() do   *)
(* between each other's critical sections.                                   *)
THEOREM TrackedCorrect == Spec => []TrackedInv
<1>1. FilterInv /\ TypeOK' /\ Tracked /\ [Next]_vars => Tracked'
    BY TrackedStep
<1>2. TrackedInv <=> FilterInv /\ Tracked
    BY DEF TrackedInv
<1> QED
    BY <1>1, <1>2, TrackedInit, TypeCorrect, FilterInvCorrect, PTL DEF Spec

(* Without resets, the header that buffer_transmit() writes after it has     *)
(* released the mutex, reading buffer_id unprotected, names the buffer it    *)
(* sends and counts its samples: an index the control plane acknowledges     *)
(* means the sample it was sent.                                             *)
THEOREM NotificationCorrect == Spec => []NotificationMatchesBuffer
<1>1. TrackedInv => NotificationMatchesBuffer
    BY DEF TrackedInv, Tracked, TrackedAs, Sent, Matched, NotificationMatchesBuffer
<1> QED
    BY <1>1, TrackedCorrect, PTL

(* Without resets, ack() and ack_buffer() never use an iterator that was     *)
(* erased or that never was, for a control plane that acknowledges what it   *)
(* was sent.                                                                 *)
THEOREM IteratorsCorrect == Spec => []NoBadIterator
<1>1. TrackedInv => NoBadIterator
    BY DEF TrackedInv, Tracked, TrackedAs, NoBadIterator
<1> QED
    BY <1>1, TrackedCorrect, PTL

(* Without resets, the filter keeps a sample that was sent and is still to   *)
(* acknowledge from being sent in a second notification.                     *)
THEOREM OutstandingCorrect == Spec => []OutstandingOnce
    BY OutstandingOnceHolds, TrackedCorrect, PTL

(* Without resets, a sample the filter blocks is in a buffer that will be    *)
(* sent or in a notification still to acknowledge: neither a full buffer_tmp *)
(* nor the race of the timeout with process_full_buffer() loses it.          *)
THEOREM NoSampleLostCorrect == Spec => []NoSampleLost
    BY NoSampleLostHolds, TrackedCorrect, PTL

-----------------------------------------------------------------------------
(* The refinement of LearnFilter.  Its queue is what the transmit thread has *)
(* still to send of buffer_tmp, then the buffer.                             *)
Front == IF tx = "sent" THEN <<>> ELSE buffer_tmp

HeldIsKnown == resets = 0 => filter = Learned!Known

LEMMA PendingIs ==
    ASSUME TypeOK
    PROVE  /\ Front \in Seq(Samples) /\ Pending \in Seq(Samples)
           /\ Pending = Front \o buffer
           /\ Range(Pending) = Range(Front) \cup Range(buffer)
<1>1. Front \in Seq(Samples) /\ buffer \in Seq(Samples)
    BY DEF TypeOK, Front
<1>2. Pending = Front \o buffer
    BY DEF Pending, Front
<1> QED
    BY <1>1, <1>2, ConcatProperties, RangeConcatenation

LEMMA KnownIs ==
    ASSUME TrackedInv, resets = 0
    PROVE  Learned!Known = Range(Front) \cup Range(buffer)
              \cup UNION {Outstanding(notified[id]) : id \in DOMAIN notified}
<1>1. TypeOK /\ TrackedAs(buffer, num_samples, old_buffers)
    BY DEF TrackedInv, FilterInv, Tracked
<1>2. \A id \in DOMAIN notified :
         Learned!Unacknowledged(Notes[id]) = Outstanding(notified[id])
  <2> SUFFICES ASSUME NEW id \in DOMAIN notified
               PROVE  Learned!Unacknowledged(Notes[id]) = Outstanding(notified[id])
      OBVIOUS
  <2>1. notified[id].left \subseteq DOMAIN notified[id].samples
      BY <1>1 DEF TrackedAs, Sent, Matched
  <2>2. /\ Notes[id].samples = notified[id].samples
        /\ Notes[id].left = notified[id].left
      BY DEF Notes
  <2> QED BY <2>1, <2>2 DEF Learned!Unacknowledged, Outstanding
<1>3. DOMAIN Notes = DOMAIN notified
    BY DEF Notes
<1>4. {Pending[i] : i \in DOMAIN Pending} = Range(Front) \cup Range(buffer)
    BY <1>1, PendingIs DEF Range
<1> QED
    BY <1>2, <1>3, <1>4 DEF Learned!Known

(* The filter holds exactly what is to be sent or to be acknowledged.        *)
LEMMA HeldIsKnownHolds == TrackedInv => HeldIsKnown
<1> SUFFICES ASSUME TrackedInv, resets = 0 PROVE filter = Learned!Known
    BY DEF HeldIsKnown
<1>1. TypeOK /\ TrackedAs(buffer, num_samples, old_buffers)
    BY DEF TrackedInv, FilterInv, Tracked
<1>2. filter = UNION {Unacked(old_buffers[id]) : id \in DOMAIN old_buffers}
    BY DEF TrackedInv, FilterInv, FilterIsUnacked
<1>3. Front = IF Unsent THEN buffer_tmp ELSE <<>>
    BY DEF Front, Unsent
<1>4. ASSUME NEW id, NEW buf \in Seq(Samples), Held(id, buf, old_buffers)
      PROVE  Range(buf) = IF id \in DOMAIN old_buffers THEN Unacked(old_buffers[id])
                          ELSE {}
  <2>1. CASE buf = <<>>
    <3>1. Range(<<>>) = {}
        BY DEF Range
    <3> QED BY <1>4, <2>1, <3>1 DEF Held
  <2>2. CASE buf # <<>>
    <3>1. id \in DOMAIN old_buffers /\ old_buffers[id].buffer = buf
             /\ old_buffers[id].erased = {}
        BY <1>4, <2>2 DEF Held
    <3> QED BY <3>1 DEF Unacked, Range
  <2> QED BY <2>1, <2>2
<1>5. Range(buffer) = IF buffer_id \in DOMAIN old_buffers
                      THEN Unacked(old_buffers[buffer_id]) ELSE {}
    BY <1>1, <1>4 DEF TrackedAs, TypeOK
<1>6. CASE Unsent
  <2>1. Range(Front) = IF buffer_id - 1 \in DOMAIN old_buffers
                       THEN Unacked(old_buffers[buffer_id - 1]) ELSE {}
      BY <1>1, <1>3, <1>4, <1>6 DEF TrackedAs, TypeOK, Waiting
  <2>2. \A id \in DOMAIN old_buffers :
           id = buffer_id \/ id = buffer_id - 1 \/ id \in DOMAIN notified
      BY <1>1 DEF TrackedAs, Covered
  <2> QED BY <1>2, <1>5, <2>1, <2>2, KnownIs, OutstandingIs
<1>7. CASE ~Unsent
  <2>1. Range(Front) = {}
      BY <1>3, <1>7 DEF Range
  <2>2. \A id \in DOMAIN old_buffers : id = buffer_id \/ id \in DOMAIN notified
      BY <1>1, <1>7 DEF TrackedAs, Covered
  <2> QED BY <1>2, <1>5, <2>1, <2>2, KnownIs, OutstandingIs
<1> QED
    BY <1>6, <1>7

(* swap_buffers() moves the samples within the queue, and process_full_buffer*)
(* leaves it as its caller has made it.                                      *)
LEMMA PendingSwap ==
    ASSUME TypeOK, NEW buf \in Seq(Samples), NEW n, buffer_tmp = <<>>,
           swap_buffers(buf, n), tx' # "sent"
    PROVE  Pending' = Front \o buf
<1>1. buffer' = <<>> /\ buffer_tmp' = buf
    BY DEF swap_buffers
<1>2. Front = <<>> /\ Pending' = buf \o <<>>
    BY <1>1 DEF Front, Pending
<1> QED
    BY <1>2, ConcatEmptySeq

LEMMA PendingProcess ==
    ASSUME TypeOK, Transmission, NEW t, NEW buf \in Seq(Samples), NEW n,
           process_full_buffer(t, buf, n)
    PROVE  Pending' = Front \o buf
<1>1. CASE buffer' = buf /\ UNCHANGED <<buffer_tmp, tx>>
    BY <1>1 DEF Front, Pending
<1>2. CASE buffer_tmp = <<>> /\ swap_buffers(buf, n) /\ NotifySend
  <2>1. tx' # "sent"
      BY <1>2 DEF Transmission, NotifySend
  <2> QED BY <1>2, <2>1, PendingSwap
<1> QED
    BY <1>1, <1>2 DEF process_full_buffer

(* add_sample(): the new sample goes to the end of the queue.                *)
LEMMA AddSampleLearns ==
    ASSUME TrackedInv, HeldIsKnown, resets = 0, NEW t, NEW s \in Samples,
           AddSample(t, s)
    PROVE  Learned!Learn(s)
<1>1. TypeOK /\ Transmission
    BY DEF TrackedInv, FilterInv, Tracked, TrackedAs
<1> DEFINE buf == Append(buffer, s)
<1>2. buffer \in Seq(Samples) /\ buf \in Seq(Samples)
    BY <1>1 DEF TypeOK
<1>3. Pending' = Front \o buf
  <2>1. CASE process_full_buffer(t, buf, num_samples + 1)
      BY <1>1, <1>2, <2>1, PendingProcess
  <2>2. CASE /\ buffer' = buf /\ UNCHANGED buffer_tmp
             /\ tx' = "sent" <=> tx = "sent"
    <3>1. Front' = Front
        BY <2>2 DEF Front
    <3>2. Pending' = Front' \o buffer'
        BY DEF Pending, Front
    <3> QED BY <2>2, <3>1, <3>2
  <2> QED BY <2>1, <2>2 DEF AddSample, FirstSample, NotifySend
<1>4. Front \o buf = Append(Pending, s)
  <2>1. /\ Front \in Seq(Samples) /\ Pending \in Seq(Samples)
        /\ Pending = Front \o buffer
      BY <1>1, PendingIs
  <2>2. buf = buffer \o <<s>> /\ Append(Pending, s) = Pending \o <<s>>
      BY <1>2, <2>1, AppendIsConcat
  <2>3. <<s>> \in Seq(Samples)
      OBVIOUS
  <2>4. (Front \o buffer) \o <<s>> = Front \o (buffer \o <<s>>)
      BY <1>2, <2>1, <2>3, ConcatAssociative
  <2> QED BY <2>1, <2>2, <2>4
<1> HIDE DEF buf
<1>5. s \notin Learned!Known
    BY DEF HeldIsKnown, AddSample, NewSample
<1>6. UNCHANGED Notes
    BY DEF AddSample, Notes
<1> QED
    BY <1>3, <1>4, <1>5, <1>6 DEF Learned!Learn

(* The front of the queue, when it is cut off.                               *)
LEMMA CutFront ==
    ASSUME NEW s \in Seq(Samples), NEW r \in Seq(Samples), s # <<>>
    PROVE  /\ Len(s) \in 1 .. Len(s \o r)
           /\ SubSeq(s \o r, 1, Len(s)) = s
           /\ SubSeq(s \o r, Len(s) + 1, Len(s \o r)) = r
<1>1. /\ Len(s) \in Nat \ {0} /\ Len(r) \in Nat
      /\ Len(s \o r) = Len(s) + Len(r)
    BY EmptySeq, ConcatProperties
<1>2. SubSeq(s \o r, 1, Len(s)) = s
  <2>1. 1 \in 1 .. Len(s) /\ Len(s) \in 1 .. Len(s)
      BY <1>1
  <2>2. SubSeq(s \o r, 1, Len(s)) = SubSeq(s, 1, Len(s))
      BY <2>1, SubSeqOfConcat1
  <2> QED BY <2>2, SubSeqFull
<1>3. SubSeq(s \o r, Len(s) + 1, Len(s \o r)) = r
  <2>1. CASE r = <<>>
    <3>1. Len(r) = 0
        BY <2>1
    <3>2. /\ Len(s) + 1 \in Int /\ Len(s \o r) \in Int
          /\ Len(s \o r) < Len(s) + 1
        BY <1>1, <3>1
    <3> QED BY <2>1, <3>2, SubSeqEmpty
  <2>2. CASE r # <<>>
    <3>1. Len(r) \in Nat \ {0}
        BY <2>2, EmptySeq
    <3>2. /\ Len(s) + 1 \in Len(s) + 1 .. Len(s) + Len(r)
          /\ Len(s) + Len(r) \in Len(s) + 1 .. Len(s) + Len(r)
        BY <1>1, <3>1
    <3>3. SubSeq(s \o r, Len(s) + 1, Len(s) + Len(r))
             = SubSeq(r, Len(s) + 1 - Len(s), Len(s) + Len(r) - Len(s))
        BY <3>2, SubSeqOfConcat2
    <3>4. Len(s) + 1 - Len(s) = 1 /\ Len(s) + Len(r) - Len(s) = Len(r)
        BY <1>1
    <3> QED BY <1>1, <3>3, <3>4, SubSeqFull
  <2> QED BY <2>1, <2>2
<1> QED
    BY <1>1, <1>2, <1>3

(* Send with the mutex released: the whole of buffer_tmp, as it was when the *)
(* transmit thread took it, under an id of its own.                          *)
LEMMA TxSendSends ==
    ASSUME TrackedInv, resets = 0, TxSend
    PROVE  /\ Learned!Send(buffer_id - 1, Len(buffer_tmp))
           /\ buffer_id - 1 \in DOMAIN Notes' \ DOMAIN Notes
           /\ Len(buffer_tmp) \in 1 .. Len(Pending)
<1> DEFINE id == buffer_id - 1
           n == Len(buffer_tmp)
           new == [samples |-> buffer_tmp, num_samples |-> n, left |-> 1 .. n]
<1>1. TypeOK /\ Transmission /\ Waiting(old_buffers) /\ Sent(old_buffers)
    BY DEF TrackedInv, FilterInv, Tracked, TrackedAs
<1>2. /\ tx = "send" /\ tx' = "sent" /\ UNCHANGED <<buffer, buffer_tmp>>
      /\ msg.buffer_id = id /\ msg.num_samples = n /\ buffer_tmp # <<>>
    BY <1>1 DEF TxSend, Transmission
<1>3. notified' = Put(notified, id, new)
    BY <1>2 DEF TxSend
<1>4. /\ buffer \in Seq(Samples) /\ buffer_tmp \in Seq(Samples)
      /\ Pending = buffer_tmp \o buffer
    BY <1>1, <1>2 DEF TypeOK, Pending
<1>5. Pending' = buffer
  <2>1. Pending' = <<>> \o buffer
      BY <1>2 DEF Pending
  <2> QED BY <1>4, <2>1, ConcatEmptySeq
<1>6. id \notin DOMAIN notified /\ \A i \in DOMAIN notified : i < id
  <2>1. id \notin DOMAIN notified
      BY <1>1, <1>2 DEF Waiting, Unsent
  <2>2. \A i \in DOMAIN notified : i < buffer_id /\ i \in Int
      BY <1>1 DEF Sent, TypeOK, Ids
  <2>3. buffer_id \in Nat
      BY <1>1 DEF TypeOK
  <2> QED BY <2>1, <2>2, <2>3
<1>7. /\ SubSeq(Pending, 1, n) = buffer_tmp
      /\ SubSeq(Pending, n + 1, Len(Pending)) = buffer
      /\ n \in 1 .. Len(Pending)
    BY <1>2, <1>4, CutFront
<1>8. new.samples = buffer_tmp /\ new.left = 1 .. n
    OBVIOUS
<1> HIDE DEF id, n, new
<1>9. Notes' = [i \in DOMAIN notified \cup {id} |->
                   IF i = id THEN [samples |-> buffer_tmp, left |-> 1 .. n]
                   ELSE Notes[i]]
    BY <1>3, <1>8 DEF Notes, Put
<1>10. DOMAIN Notes = DOMAIN notified
    BY DEF Notes
<1>11. Learned!Send(id, n)
    BY <1>5, <1>6, <1>7, <1>9, <1>10 DEF Learned!Send, Learned!With
<1>12. id \in DOMAIN Notes' \ DOMAIN Notes
    BY <1>6, <1>9, <1>10
<1> QED
    BY <1>7, <1>11, <1>12 DEF id, n

(* ack() and ack_buffer(): the control plane's places in one notification.   *)
LEMMA LeftAcknowledges ==
    ASSUME NEW id \in DOMAIN notified, NEW ids,
           notified' = Put(notified, id,
                           Left(notified[id], notified[id].left \ ids)),
           UNCHANGED <<buffer, buffer_tmp, tx>>
    PROVE  Learned!Acknowledge(id, ids)
<1> DEFINE m == Left(notified[id], notified[id].left \ ids)
<1>1. m.samples = notified[id].samples /\ m.left = notified[id].left \ ids
    BY LeftIs
<1>2. notified' = Put(notified, id, m)
    OBVIOUS
<1> HIDE DEF m
<1>3. Notes' = [i \in DOMAIN notified \cup {id} |->
                   IF i = id THEN [samples |-> Notes[id].samples,
                                   left |-> Notes[id].left \ ids]
                   ELSE Notes[i]]
    BY <1>1, <1>2 DEF Notes, Put
<1>4. DOMAIN Notes = DOMAIN notified
    BY DEF Notes
<1>5. UNCHANGED Pending
    BY DEF Pending
<1> QED
    BY <1>3, <1>4, <1>5 DEF Learned!Acknowledge, Learned!With

(* The steps of the list that LearnFilter does not see.                      *)
LEMMA FilterStutters ==
    ASSUME UNCHANGED <<buffer, buffer_tmp, notified, filter>>,
           tx' = "sent" <=> tx = "sent"
    PROVE  UNCHANGED Learned!vars
BY DEF Learned!vars, Pending, Notes

(* Every step but a reset is one of LearnFilter, or none.                    *)
LEMMA LearnFilterStep ==
    ASSUME TrackedInv, HeldIsKnown, HeldIsKnown', [Next]_vars
    PROVE  [resets' = 0 => Learned!Next]_(Learned!vars)
<1> DEFINE Moves == \/ \E s \in Samples : Learned!Learn(s)
                    \/ \E id \in DOMAIN Notes' \ DOMAIN Notes, n \in 1 .. Len(Pending) :
                          Learned!Send(id, n)
                    \/ \E id \in DOMAIN Notes : \E ids \in SUBSET Notes[id].left :
                          Learned!Acknowledge(id, ids)
<1> SUFFICES ASSUME resets' = 0 PROVE Moves \/ UNCHANGED Learned!vars
    BY DEF HeldIsKnown, Learned!Next
<1>0. TypeOK
    BY DEF TrackedInv, FilterInv
<1>1. ~ResetState
    BY <1>0 DEF ResetState, TypeOK
<1>2. resets = 0
    BY <1>1 DEF Next, vars, AddSample, SetMaxSamples, SwapWoken, SetLearnWriter,
       SetTimeout, DeadlinePasses, TxTest, TxTimeout, TxHeader, TxSend, TxDone,
       AckBuffer, Ack, Destroy
<1>3. Transmission
    BY <1>2 DEF TrackedInv, Tracked, TrackedAs
<1>4. /\ DOMAIN Notes = DOMAIN notified
      /\ \A id \in DOMAIN notified : Notes[id].left = notified[id].left
    BY DEF Notes
<1>5. ASSUME NEW t, process_full_buffer(t, buffer, num_samples),
             UNCHANGED <<filter, notified>>
      PROVE  UNCHANGED Learned!vars
  <2>1. Pending' = Pending
      BY <1>0, <1>3, <1>5, PendingProcess, PendingIs DEF TypeOK
  <2> QED BY <1>5, <2>1 DEF Learned!vars, Notes
<1>6. ASSUME NEW t \in Threads, NEW s \in Samples, AddSample(t, s) PROVE Moves
    BY <1>2, <1>6, AddSampleLearns
<1>7. ASSUME NEW t \in Threads, NEW n \in MaxSamples, SetMaxSamples(t, n)
      PROVE  UNCHANGED Learned!vars
    BY <1>5, <1>7, FilterStutters DEF SetMaxSamples
<1>8. ASSUME NEW t \in Threads, SwapWoken(t) PROVE UNCHANGED Learned!vars
    BY <1>5, <1>8 DEF SwapWoken
<1>9. CASE TxTest
  <2>1. CASE UNCHANGED <<buffer, buffer_tmp>>
    <3>1. UNCHANGED <<notified, filter>> /\ (tx' = "sent" <=> tx = "sent")
        BY <1>9 DEF TxTest
    <3> QED BY <2>1, <3>1, FilterStutters
  <2>2. CASE buffer_tmp = <<>> /\ swap_buffers(buffer, num_samples) /\ tx' = "header"
    <3>1. Pending' = Pending
        BY <1>0, <2>2, PendingSwap, PendingIs DEF TypeOK
    <3> QED BY <1>9, <3>1 DEF TxTest, Learned!vars, Notes
  <2> QED BY <1>9, <2>1, <2>2 DEF TxTest
<1>10. CASE TxSend
    BY <1>2, <1>10, TxSendSends
<1>11. CASE TxDone
  <2>1. /\ tx = "sent" /\ tx' # "sent" /\ buffer_tmp' = <<>>
        /\ UNCHANGED <<buffer, notified, filter>>
      BY <1>11 DEF TxDone
  <2> QED BY <2>1 DEF Learned!vars, Pending, Notes
<1>12. ASSUME NEW id \in DOMAIN notified, AckBuffer(id) PROVE Moves
  <2>1. notified' = Put(notified, id,
                        Left(notified[id], notified[id].left \ notified[id].left))
    <3>1. notified[id].left \ notified[id].left = {}
        OBVIOUS
    <3> QED BY <1>12, <3>1 DEF AckBuffer
  <2>2. Learned!Acknowledge(id, notified[id].left)
      BY <1>12, <2>1, LeftAcknowledges DEF AckBuffer
  <2> QED BY <1>4, <2>2
<1>13. ASSUME NEW id \in DOMAIN notified, NEW ids \in SUBSET notified[id].left,
              Ack(id, ids)
       PROVE  Moves
  <2>1. Learned!Acknowledge(id, ids)
      BY <1>13, LeftAcknowledges DEF Ack
  <2> QED BY <1>4, <2>1
<1>14. CASE \/ \E t \in Threads, mode \in Modes : SetLearnWriter(t, mode)
            \/ \E on \in Timeouts, passed \in BOOLEAN : SetTimeout(on, passed)
            \/ DeadlinePasses \/ TxTimeout \/ TxHeader \/ Destroy \/ UNCHANGED vars
  <2>1. UNCHANGED <<buffer, buffer_tmp, notified, filter>>
      BY <1>14 DEF SetLearnWriter, SetTimeout, DeadlinePasses, TxTimeout, TxHeader,
         Destroy, vars
  <2>2. tx' = "sent" <=> tx = "sent"
      BY <1>14 DEF SetLearnWriter, SetTimeout, DeadlinePasses, TxTimeout, TxHeader,
         Destroy, NotifyTransmitThread, NotifySend, vars
  <2> QED BY <2>1, <2>2, FilterStutters
<1> HIDE DEF Moves
<1> QED
    BY <1>1, <1>6, <1>7, <1>8, <1>9, <1>10, <1>11, <1>12, <1>13, <1>14 DEF Next

(* Up to the first reset the list implements LearnFilter, for any samples,   *)
(* threads and timeouts: what add_sample() learns, buffer_transmit() sends   *)
(* once and in that order under growing ids, though it takes buffer_tmp and  *)
(* buffer_id without the mutex, and ack() and ack_buffer() release the       *)
(* samples they name and no others.                                          *)
THEOREM LearnFilterImplemented == Spec => LearnsInOrder
<1>1. Init => Learned!Init
  <2> SUFFICES ASSUME Init PROVE Learned!Init
      OBVIOUS
  <2>1. Pending = <<>> \o <<>>
      BY DEF Init, Pending
  <2>2. <<>> \o <<>> = <<>>
      BY EmptySeq, ConcatEmptySeq
  <2>3. Notes = <<>>
      BY DEF Init, Notes
  <2> QED BY <2>1, <2>2, <2>3 DEF Init, Learned!Init
<1>2. TrackedInv /\ HeldIsKnown /\ HeldIsKnown' /\ [Next]_vars
         => [resets' = 0 => Learned!Next]_(Learned!vars)
    BY LearnFilterStep
<1> QED
    BY <1>1, <1>2, HeldIsKnownHolds, TrackedCorrect, PTL DEF Spec, LearnsInOrder
=============================================================================
