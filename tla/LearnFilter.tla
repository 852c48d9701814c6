----------------------------- MODULE LearnFilter -----------------------------
(***************************************************************************)
(* What the learning engine promises the data plane and the control plane, *)
(* with no buffers to swap, transmit thread, timeout or iterator in sight. *)
(*                                                                         *)
(*   - a sample is learned only while it is neither waiting to be sent nor *)
(*     sent and unacknowledged, and exactly these samples are held back;   *)
(*   - samples are sent once for each time they are learned, in the order  *)
(*     in which they were, under ids that only grow;                       *)
(*   - an acknowledgement is of samples of one notification, by their      *)
(*     place in it, and releases those and no others.                      *)
(***************************************************************************)
EXTENDS Integers, Sequences

CONSTANT Samples

VARIABLES
    pending, \* the samples learned and not yet sent, the oldest first
    notes,   \* for each id the samples sent and the places not acknowledged
    held     \* the samples that are held back

vars == <<pending, notes, held>>

(* The samples of a notification that are still to acknowledge.              *)
Unacknowledged(n) == {n.samples[i] : i \in n.left}

Known == {pending[i] : i \in DOMAIN pending}
            \cup UNION {Unacknowledged(notes[id]) : id \in DOMAIN notes}

Init == pending = <<>> /\ notes = <<>> /\ held = {}

With(id, samples, left) ==
    [i \in DOMAIN notes \cup {id} |->
        IF i = id THEN [samples |-> samples, left |-> left] ELSE notes[i]]

Learn(s) ==
    /\ s \notin Known
    /\ pending' = Append(pending, s)
    /\ UNCHANGED notes

(* The oldest n samples are sent as notification id.                         *)
Send(id, n) ==
    /\ \A i \in DOMAIN notes : i < id
    /\ notes' = With(id, SubSeq(pending, 1, n), 1 .. n)
    /\ pending' = SubSeq(pending, n + 1, Len(pending))

Acknowledge(id, ids) ==
    /\ notes' = With(id, notes[id].samples, notes[id].left \ ids)
    /\ UNCHANGED pending

Next ==
    /\ \/ \E s \in Samples : Learn(s)
       \/ \E id \in DOMAIN notes' \ DOMAIN notes, n \in 1 .. Len(pending) : Send(id, n)
       \/ \E id \in DOMAIN notes : \E ids \in SUBSET notes[id].left : Acknowledge(id, ids)
    /\ held' = Known'

Spec == Init /\ [][Next]_vars
=============================================================================
