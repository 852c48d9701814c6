------------------------------ MODULE LearnList ------------------------------
(***************************************************************************)
(* The learning engine of the behavioral model: one LearnList of           *)
(* src/bm_sim/learning.cpp.  The data plane threads add samples to a       *)
(* buffer; a full buffer, or one older than the timeout, is swapped with   *)
(* buffer_tmp and sent by the list's own transmit thread; the control      *)
(* plane acknowledges the samples, which may then be learned again.        *)
(*                                                                         *)
(* Each action is one critical section of the list's mutex, from a lock or *)
(* a wake-up to the next unlock or wait.  What the transmit thread does    *)
(* with the mutex released (the header and the send) is two steps of its   *)
(* own.  A sample is a model value: the bytes the builder concatenates     *)
(* matter only through their equality in the filter.                       *)
(***************************************************************************)
EXTENDS Integers, Sequences, FiniteSets, Functions

CONSTANTS
    Samples,      \* the samples the packets of the model can give
    Threads,      \* data plane and RPC threads that call into the list
    MaxSamples,   \* the values max_samples can be set to
    MaxBufferId,  \* bound on buffer_id: no sample is added beyond it
    Timeouts,     \* the arguments of set_timeout: TRUE for a positive one
    MaxResets     \* bound on the calls of reset_state

ASSUME SamplesAssumption == IsFiniteSet(Samples)
ASSUME MaxSamplesAssumption == MaxSamples \subseteq Nat /\ MaxSamples # {}
ASSUME MaxBufferIdAssumption == MaxBufferId \in Nat
ASSUME TimeoutsAssumption == Timeouts \subseteq BOOLEAN
ASSUME MaxResetsAssumption == MaxResets \in Nat

VARIABLES
    buffer, buffer_id, num_samples, max_samples,
    with_timeout, \* timeout > 0
    expired,      \* clock::now() >= buffer_started + timeout
    filter, old_buffers,
    buffer_tmp, num_samples_tmp, stop_transmit_thread,
    learn_mode, writer_busy,
    pc,           \* where each thread is: in no call, or waiting on a condition
    wanted,       \* the learn_mode a thread waiting in set_learn_* asked for
    tx,           \* where the transmit thread is in buffer_transmit
    msg,          \* its locals: the header's buffer_id and num_samples_to_send
    notified,     \* what the control plane was sent and has still to acknowledge
    resets,       \* how many times reset_state was called
    ub            \* an invalidated or out of range iterator was used

vars == <<buffer, buffer_id, num_samples, max_samples, with_timeout, expired,
          filter, old_buffers, buffer_tmp, num_samples_tmp,
          stop_transmit_thread, learn_mode, writer_busy, pc, wanted, tx, msg,
          notified, resets, ub>>

bufs == <<buffer, buffer_id, num_samples, buffer_tmp, num_samples_tmp>>
clock == <<with_timeout, expired>>
acks == <<filter, old_buffers, ub>>
calls == <<pc, wanted, learn_mode>>
sends == <<tx, msg, writer_busy>>
env == <<notified, resets>>

Modes == {"WRITER", "CB"}

(* FilterPtrs: the iterators into the filter, in the order of the samples of *)
(* the buffer, and the indices of those that ack has erased since.           *)
FilterPtrs == [unacked_count : Int, buffer : Seq(Samples), erased : SUBSET Nat]

(* What the control plane remembers of a notification.                       *)
Notification == [samples : Seq(Samples), num_samples : Nat, left : SUBSET Nat]

Ids == Nat \cup {-1}   \* -1 is the uint64_t 2^64 - 1 that 0 - 1 gives

TypeOK ==
    /\ buffer \in Seq(Samples) /\ buffer_tmp \in Seq(Samples)
    /\ buffer_id \in Nat /\ num_samples \in Nat /\ num_samples_tmp \in Nat
    /\ max_samples \in MaxSamples
    /\ with_timeout \in BOOLEAN /\ expired \in BOOLEAN
    /\ filter \subseteq Samples
    /\ DOMAIN old_buffers \subseteq Nat
    /\ \A i \in DOMAIN old_buffers : old_buffers[i] \in FilterPtrs
    /\ stop_transmit_thread \in BOOLEAN /\ writer_busy \in BOOLEAN
    /\ learn_mode \in Modes
    /\ pc \in [Threads -> {"idle", "swap_wait", "swap_woken",
                           "writer_wait", "writer_woken"}]
    /\ wanted \in [Threads -> Modes]
    /\ tx \in {"test", "wait", "timed_wait", "header", "send", "sent", "stopped"}
    /\ msg \in [buffer_id : Ids, num_samples : Nat]
    /\ DOMAIN notified \subseteq Ids
    /\ \A i \in DOMAIN notified : notified[i] \in Notification
    /\ resets \in Nat
    /\ ub \in BOOLEAN

-----------------------------------------------------------------------------
(* The list as P4Objects leaves it: list_create, the fields, the writer,     *)
(* list_init, which starts the transmit thread.                              *)
Init ==
    /\ buffer = <<>> /\ buffer_tmp = <<>>
    /\ buffer_id = 0 /\ num_samples = 0 /\ num_samples_tmp = 0
    /\ max_samples \in MaxSamples
    /\ with_timeout \in BOOLEAN
    /\ expired = TRUE
    /\ filter = {} /\ old_buffers = <<>>
    /\ stop_transmit_thread = FALSE
    /\ learn_mode = "WRITER" /\ writer_busy = FALSE
    /\ pc = [t \in Threads |-> "idle"]
    /\ wanted = [t \in Threads |-> "WRITER"]
    /\ tx = "test"
    /\ msg = [buffer_id |-> 0, num_samples |-> 0]
    /\ notified = <<>>
    /\ resets = 0
    /\ ub = FALSE

live == ~stop_transmit_thread /\ ~ub   \* the list exists and is well defined

(* f with k mapped to v, k being in its domain or not (operator[] of a map). *)
Put(f, k, v) == [i \in DOMAIN f \cup {k} |-> IF i = k THEN v ELSE f[i]]
Erase(f, k) == [i \in DOMAIN f \ {k} |-> f[i]]

(* b_can_send.notify_one(): the transmit thread is the only one to wait.     *)
NotifySend == tx' = IF tx \in {"wait", "timed_wait"} THEN "test" ELSE tx

(* b_can_swap.notify_one(): one of the threads that wait, if there is one.   *)
NotifySwap(p) ==
    LET waiting == {t \in Threads : p[t] = "swap_wait"} IN
    IF waiting = {} THEN {p}
    ELSE {[p EXCEPT ![t] = "swap_woken"] : t \in waiting}

(* can_change_writer.notify_all()                                            *)
NotifyWriters(p) ==
    [t \in Threads |-> IF p[t] = "writer_wait" THEN "writer_woken" ELSE p[t]]

(* A swap that steps the id the wrong way.                                   *)
swap_buffers_back(buf, n) ==
    /\ buffer_tmp' = buf
    /\ buffer' = buffer_tmp
    /\ num_samples_tmp' = n
    /\ num_samples' = 0
    /\ buffer_id' = buffer_id - 1

(* swap_buffers(), on the buffer and the count its caller has just left.     *)
swap_buffers(buf, n) ==
    /\ buffer_tmp' = buf
    /\ buffer' = buffer_tmp
    /\ num_samples_tmp' = n
    /\ num_samples' = 0
    /\ buffer_id' = buffer_id + 1

(* process_full_buffer(): wait while the transmit thread has not finished    *)
(* with buffer_tmp, then swap and wake it.                                   *)
process_full_buffer(t, buf, n) ==
    \/ /\ buffer_tmp # <<>>
       /\ pc' = [pc EXCEPT ![t] = "swap_wait"]
       /\ buffer' = buf /\ num_samples' = n
       /\ UNCHANGED <<buffer_id, buffer_tmp, num_samples_tmp, tx>>
    \/ /\ buffer_tmp = <<>>
       /\ swap_buffers(buf, n)
       /\ pc' = [pc EXCEPT ![t] = "idle"]
       /\ NotifySend

NoPtrs == [unacked_count |-> 0, buffer |-> <<>>, erased |-> {}]

(* old_buffers[buffer_id] with one more sample.  The iterator that is stored *)
(* is a position: those of the standard libraries point to a node, which an  *)
(* insertion that rehashes the filter leaves where it is.                    *)
WithSample(s) ==
    LET p == IF buffer_id \in DOMAIN old_buffers THEN old_buffers[buffer_id]
             ELSE NoPtrs
    IN  Put(old_buffers, buffer_id,
            [unacked_count |-> p.unacked_count + 1,
             buffer |-> Append(p.buffer, s),
             erased |-> p.erased])

-----------------------------------------------------------------------------
(* A filter that is not consulted, and the filter.find() of add_sample().    *)
AnySample(s) == TRUE
NewSample(s) == s \notin filter

(* The first sample of a buffer starts its clock, and wakes the transmit     *)
(* thread to update its wait time, or, in the first form, forgets to.        *)
FirstSampleNoWake(buf) ==
    /\ buffer' = buf /\ num_samples' = 1
    /\ expired' = FALSE
    /\ UNCHANGED <<buffer_id, buffer_tmp, num_samples_tmp, pc, tx>>

FirstSample(buf) ==
    /\ buffer' = buf /\ num_samples' = 1
    /\ expired' = FALSE
    /\ NotifySend
    /\ UNCHANGED <<buffer_id, buffer_tmp, num_samples_tmp, pc>>

(* learn() on a packet whose sample is s.  A sample in the filter is dropped *)
(* and changes nothing.                                                      *)
AddSample(t, s) ==
    /\ live /\ pc[t] = "idle"
    /\ buffer_id < MaxBufferId
    /\ NewSample(s)
    /\ filter' = filter \cup {s}
    /\ old_buffers' = WithSample(s)
    /\ LET buf == Append(buffer, s)
           n == num_samples + 1
           first == n = 1 /\ max_samples > 1
       IN  \/ /\ first
              /\ FirstSample(buf)
           \/ /\ ~first /\ n >= max_samples
              /\ process_full_buffer(t, buf, n)
              /\ UNCHANGED expired
           \/ /\ ~first /\ n < max_samples
              /\ buffer' = buf /\ num_samples' = n
              /\ UNCHANGED <<buffer_id, buffer_tmp, num_samples_tmp, pc, tx,
                             expired>>
    /\ UNCHANGED <<env, max_samples, with_timeout, stop_transmit_thread,
                   learn_mode, writer_busy, wanted, msg, ub>>

(* list_set_max_samples()                                                    *)
SetMaxSamples(t, n) ==
    /\ live /\ pc[t] = "idle"
    /\ max_samples' = n
    /\ \/ /\ num_samples > 0 /\ num_samples >= n
          /\ process_full_buffer(t, buffer, num_samples)
       \/ /\ ~(num_samples > 0 /\ num_samples >= n)
          /\ UNCHANGED <<bufs, pc, tx>>
    /\ UNCHANGED <<clock, acks, env, stop_transmit_thread, learn_mode,
                   writer_busy, wanted, msg>>

(* The rest of process_full_buffer() in a thread that b_can_swap has woken.  *)
SwapWoken(t) ==
    /\ live /\ pc[t] = "swap_woken"
    /\ process_full_buffer(t, buffer, num_samples)
    /\ UNCHANGED <<clock, acks, env, max_samples, stop_transmit_thread,
                   learn_mode, writer_busy, wanted, msg>>

(* list_set_timeout(): the deadline moves to either side of now, and the     *)
(* transmit thread is not woken.                                             *)
SetTimeout(on, passed) ==
    /\ live
    /\ with_timeout' = on
    /\ expired' = passed
    /\ UNCHANGED <<bufs, acks, calls, sends, env, max_samples,
                   stop_transmit_thread>>

(* The time: buffer_started + timeout passes.                                *)
DeadlinePasses ==
    /\ live
    /\ with_timeout /\ ~expired
    /\ expired' = TRUE
    /\ UNCHANGED <<bufs, acks, calls, sends, env, max_samples, with_timeout,
                   stop_transmit_thread>>

(* set_learn_writer() and set_learn_cb(): wait while the transmit thread     *)
(* uses the one it has, with the mutex released.                             *)
ChangeWriter(t, mode) ==
    \/ /\ writer_busy
       /\ pc' = [pc EXCEPT ![t] = "writer_wait"]
       /\ wanted' = [wanted EXCEPT ![t] = mode]
       /\ UNCHANGED learn_mode
    \/ /\ ~writer_busy
       /\ pc' = [pc EXCEPT ![t] = "idle"]
       /\ learn_mode' = mode
       /\ UNCHANGED wanted

SetLearnWriter(t, mode) ==
    /\ live
    /\ \/ pc[t] = "idle"
       \/ pc[t] = "writer_woken" /\ mode = wanted[t]
    /\ ChangeWriter(t, mode)
    /\ UNCHANGED <<bufs, clock, acks, sends, env, max_samples,
                   stop_transmit_thread>>

-----------------------------------------------------------------------------
(* buffer_transmit() up to the point where it waits or releases the mutex to *)
(* send: the loop's condition, then the swap if the timeout ended it.        *)
TxTest ==
    /\ ~ub /\ tx = "test"
    /\ IF stop_transmit_thread
       THEN /\ tx' = "stopped"
            /\ UNCHANGED <<bufs, writer_busy, msg>>
       ELSE \/ /\ buffer_tmp = <<>>
               /\ ~with_timeout \/ num_samples = 0 \/ ~expired
               /\ tx' = IF with_timeout /\ num_samples > 0 THEN "timed_wait"
                        ELSE "wait"
               /\ UNCHANGED <<bufs, writer_busy, msg>>
            \/ /\ buffer_tmp = <<>>
               /\ with_timeout /\ num_samples # 0 /\ expired
               /\ msg' = [buffer_id |-> msg.buffer_id, num_samples |-> num_samples]
               /\ swap_buffers(buffer, num_samples)
               /\ writer_busy' = TRUE /\ tx' = "header"
            \/ /\ buffer_tmp # <<>>
               /\ msg' = [buffer_id |-> msg.buffer_id,
                           num_samples |-> num_samples_tmp]
               /\ writer_busy' = TRUE /\ tx' = "header"
               /\ UNCHANGED bufs
    /\ UNCHANGED <<clock, acks, calls, env, max_samples,
                   stop_transmit_thread>>

(* wait_until() returns at the deadline.                                     *)
TxTimeout ==
    /\ ~ub /\ tx = "timed_wait" /\ expired
    /\ tx' = "test"
    /\ UNCHANGED <<bufs, clock, acks, calls, env, max_samples,
                   stop_transmit_thread, writer_busy, msg>>

(* The id of the header: swap_buffers() has stepped buffer_id already.       *)
NextBufferId == buffer_id
SwappedBufferId == buffer_id - 1

(* The header, written after lock.unlock(): buffer_id is read unprotected.   *)
TxHeader ==
    /\ ~ub /\ tx = "header"
    /\ msg' = [buffer_id |-> SwappedBufferId, num_samples |-> msg.num_samples]
    /\ tx' = "send"
    /\ UNCHANGED <<bufs, clock, acks, calls, env, max_samples,
                   stop_transmit_thread, writer_busy>>

(* send_msgs() or the callback: the samples are what buffer_tmp then holds.  *)
TxSend ==
    /\ ~ub /\ tx = "send"
    /\ notified' = Put(notified, msg.buffer_id,
                       [samples |-> buffer_tmp,
                        num_samples |-> msg.num_samples,
                        left |-> 1 .. msg.num_samples])
    /\ tx' = "sent"
    /\ UNCHANGED <<bufs, clock, acks, calls, max_samples,
                   stop_transmit_thread, writer_busy, msg, resets>>

(* The threads at the end of a transmission; the first form forgets          *)
(* b_can_swap.                                                               *)
WokenWriters(p) == {NotifyWriters(p)}
WokenThreads(p) == NotifySwap(NotifyWriters(p))

(* The last critical section of buffer_transmit(), and the loop's test.      *)
TxDone ==
    /\ ~ub /\ tx = "sent"
    /\ writer_busy' = FALSE
    /\ buffer_tmp' = <<>>
    /\ pc' \in WokenThreads(pc)
    /\ tx' = IF stop_transmit_thread THEN "stopped" ELSE "test"
    /\ UNCHANGED <<clock, acks, env, buffer, buffer_id, num_samples,
                   max_samples, num_samples_tmp, stop_transmit_thread,
                   learn_mode, wanted, msg>>

-----------------------------------------------------------------------------
(* old_buffers with the iterators ids of id erased: the entry goes with the  *)
(* last of them.  In the first form it never does.                           *)
KeepErased(id, p, ids) ==
    Put(old_buffers, id, [unacked_count |-> p.unacked_count - Cardinality(ids),
                          buffer |-> p.buffer, erased |-> p.erased \cup ids])

EraseIterators(id, p, ids) ==
    LET count == p.unacked_count - Cardinality(ids) IN
    IF count = 0 THEN Erase(old_buffers, id)
    ELSE Put(old_buffers, id, [unacked_count |-> count, buffer |-> p.buffer,
                               erased |-> p.erased \cup ids])

(* ack(buffer_id, sample_ids): an id no longer in old_buffers was acked      *)
(* already.  An index beyond the iterators, or of one already erased, is     *)
(* undefined behaviour.  Samples are counted from 1 here.                    *)
ack(id, ids) ==
    IF id \notin DOMAIN old_buffers THEN UNCHANGED acks
    ELSE LET p == old_buffers[id]
             bad == ~(ids \subseteq DOMAIN p.buffer \ p.erased)
         IN  IF bad THEN ub' = TRUE /\ UNCHANGED <<filter, old_buffers>>
             ELSE /\ filter' = filter \ {p.buffer[i] : i \in ids}
                  /\ old_buffers' = EraseIterators(id, p, ids)
                  /\ UNCHANGED ub

(* The filter once a buffer is acknowledged; the first form takes the        *)
(* shortcut, and only that.                                                  *)
ClearIfAll(p) ==
    IF p.unacked_count = Cardinality(filter) THEN {} ELSE filter

FilterWithout(p) ==
    IF p.unacked_count = Cardinality(filter) THEN {}
    ELSE filter \ Range(p.buffer)

(* ack_buffer(buffer_id), with its shortcut when no other sample is          *)
(* unacknowledged.                                                           *)
ack_buffer(id) ==
    IF id \notin DOMAIN old_buffers THEN UNCHANGED acks
    ELSE LET p == old_buffers[id]
             all == p.unacked_count = Cardinality(filter)
         IN  IF ~all /\ p.erased # {}
             THEN ub' = TRUE /\ UNCHANGED <<filter, old_buffers>>
             ELSE /\ filter' = FilterWithout(p)
                  /\ old_buffers' = Erase(old_buffers, id)
                  /\ UNCHANGED ub

(* A notification of which the control plane has the samples "left" to ack.  *)
Left(n, left) ==
    [samples |-> n.samples, num_samples |-> n.num_samples, left |-> left]

(* The control plane acknowledges what it was sent: some samples of a        *)
(* notification, each once, or the whole of it, which it may repeat.  It     *)
(* does not mix the two on one notification.                                 *)
Ack(id, ids) ==
    /\ live
    /\ id \in DOMAIN notified /\ ids # {} /\ ids \subseteq notified[id].left
    /\ notified' = Put(notified, id, Left(notified[id], notified[id].left \ ids))
    /\ ack(id, ids)
    /\ UNCHANGED <<bufs, clock, calls, sends, max_samples,
                   stop_transmit_thread, resets>>

AckBuffer(id) ==
    /\ live
    /\ id \in DOMAIN notified
    /\ notified[id].left \in {{}, 1 .. notified[id].num_samples}
    /\ notified' = Put(notified, id, Left(notified[id], {}))
    /\ ack_buffer(id)
    /\ UNCHANGED <<bufs, clock, calls, sends, max_samples,
                   stop_transmit_thread, resets>>

(* reset_state(): no thread is notified, and what was sent stays with the    *)
(* control plane.                                                            *)
ResetState ==
    /\ live /\ resets < MaxResets
    /\ resets' = resets + 1
    /\ buffer' = <<>> /\ buffer_id' = 0
    /\ num_samples' = 0 /\ num_samples_tmp' = 0
    /\ filter' = {} /\ old_buffers' = <<>>
    /\ buffer_tmp' = <<>>
    /\ UNCHANGED <<clock, calls, sends, max_samples, stop_transmit_thread,
                   notified, ub>>

(* b_can_send.notify_all() of the destructor, and a destructor without it.   *)
NoNotify == UNCHANGED tx
NotifyTransmitThread == NotifySend

(* ~LearnList(), when no thread is in a call: the join waits for TxTest or   *)
(* TxDone to see the flag.                                                   *)
Destroy ==
    /\ live /\ \A t \in Threads : pc[t] = "idle"
    /\ stop_transmit_thread' = TRUE
    /\ NotifyTransmitThread
    /\ UNCHANGED <<bufs, clock, acks, calls, env, max_samples, writer_busy,
                   msg>>

Next ==
    \/ \E t \in Threads :
          \/ \E s \in Samples : AddSample(t, s)
          \/ \E n \in MaxSamples : SetMaxSamples(t, n)
          \/ SwapWoken(t)
          \/ \E mode \in Modes : SetLearnWriter(t, mode)
    \/ \E on \in Timeouts, passed \in BOOLEAN : SetTimeout(on, passed)
    \/ DeadlinePasses
    \/ TxTest \/ TxTimeout \/ TxHeader \/ TxSend \/ TxDone
    \/ \E id \in DOMAIN notified :
          \/ AckBuffer(id)
          \/ \E ids \in SUBSET notified[id].left : Ack(id, ids)
    \/ ResetState
    \/ Destroy

Spec == Init /\ [][Next]_vars

(* Threads are scheduled, time passes, sends return; nobody has to call.     *)
Fairness ==
    /\ WF_vars(DeadlinePasses)
    /\ WF_vars(TxTest) /\ WF_vars(TxTimeout) /\ WF_vars(TxHeader)
    /\ WF_vars(TxSend) /\ WF_vars(TxDone)
    /\ \A t \in Threads : WF_vars(SwapWoken(t))
    /\ \A t \in Threads : WF_vars(pc[t] = "writer_woken"
                                  /\ \E mode \in Modes : SetLearnWriter(t, mode))

FairSpec == Spec /\ Fairness

-----------------------------------------------------------------------------
(* The samples of a buffer that ack() has not erased from the filter.        *)
Unacked(p) == {p.buffer[i] : i \in DOMAIN p.buffer \ p.erased}

(* What the control plane holds of a notification and has not acknowledged.  *)
Outstanding(n) == {n.samples[i] : i \in n.left \cap DOMAIN n.samples}

(* The filter is the disjoint union of the unacknowledged samples of the     *)
(* buffers, and unacked_count counts them.  ack_buffer() relies on it when   *)
(* it compares unacked_count with the size of the filter and clears all of   *)
(* it.                                                                       *)
FilterIsUnacked ==
    /\ filter = UNION {Unacked(old_buffers[id]) : id \in DOMAIN old_buffers}
    /\ \A i, j \in DOMAIN old_buffers :
          i # j => Unacked(old_buffers[i]) \cap Unacked(old_buffers[j]) = {}
    /\ \A id \in DOMAIN old_buffers :
          old_buffers[id].unacked_count = Cardinality(Unacked(old_buffers[id]))

(* Without resets, the indices the control plane acknowledges mean in        *)
(* old_buffers what they meant in the notification: same samples, same       *)
(* order, and as many as the header, written without the lock, announced.    *)
NotificationMatchesBuffer ==
    resets = 0 => \A id \in DOMAIN notified :
        /\ notified[id].num_samples = Len(notified[id].samples)
        /\ id \in DOMAIN old_buffers =>
              old_buffers[id].buffer = notified[id].samples

(* Without resets, a control plane that acknowledges what it was sent never  *)
(* makes ack() or ack_buffer() use a bad iterator, even when it repeats an   *)
(* ack_buffer() it made already.                                             *)
NoBadIterator == resets = 0 => ~ub

(* Without resets, no sample is in two notifications that are both still to  *)
(* acknowledge: the filter stops what was sent from being sent again.        *)
OutstandingOnce ==
    resets = 0 => \A i, j \in DOMAIN notified :
        i # j => Outstanding(notified[i]) \cap Outstanding(notified[j]) = {}

(* Without resets, a sample in the filter is on its way to the control plane *)
(* or was sent to it: the filter never blocks a sample nobody will hear of.  *)
NoSampleLost ==
    resets = 0 => \A s \in filter :
        \/ s \in Range(buffer) \cup Range(buffer_tmp)
        \/ \E id \in DOMAIN notified : s \in Outstanding(notified[id])

(* Both buffers as one queue: the transmit thread has done with buffer_tmp   *)
(* when it has sent it.                                                      *)
Pending == (IF tx = "sent" THEN <<>> ELSE buffer_tmp) \o buffer

Notes == [id \in DOMAIN notified |-> [samples |-> notified[id].samples,
                                       left |-> notified[id].left]]

Learned == INSTANCE LearnFilter WITH pending <- Pending, notes <- Notes, held <- filter

(* Up to the first reset, whatever swaps, timeouts, transmissions and        *)
(* acknowledgements come between each other, the list does what LearnFilter  *)
(* says: it sends what it learned once and in order, under new ids, and      *)
(* holds back exactly what waits to be sent or to be acknowledged.           *)
LearnsInOrder == /\ Learned!Init
                 /\ [][resets' = 0 => Learned!Next]_(Learned!vars)

(* Without resets, a thread that waits in process_full_buffer(), the ingress *)
(* thread of the switch for one, goes on.                                    *)
SwapWaitersServed ==
    \A t \in Threads :
        pc[t] \in {"swap_wait", "swap_woken"} ~> pc[t] = "idle" \/ resets > 0

(* Without resets, a sample of a list with a timeout leaves the buffers,     *)
(* which NoSampleLost says it does only for the control plane; the           *)
(* destructor gives it up.                                                   *)
SamplesSent ==
    \A s \in Samples :
        (with_timeout /\ s \in Range(buffer) \cup Range(buffer_tmp))
            ~> (s \notin Range(buffer) \cup Range(buffer_tmp)
                \/ stop_transmit_thread \/ resets > 0)

(* ~LearnList() joins the transmit thread: it ends.                          *)
TransmitThreadJoins == stop_transmit_thread ~> tx = "stopped"
=============================================================================
