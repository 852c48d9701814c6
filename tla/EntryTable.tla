----------------------------- MODULE EntryTable ------------------------------
(***************************************************************************)
(* What a match unit promises the control plane, with no list in sight:    *)
(* entries under handles.  A handle is a version and the slot of the       *)
(* entry, and there are only so many versions.                             *)
(*                                                                         *)
(*   - no key and priority is there twice, and no slot has two entries;    *)
(*   - a handle deletes one entry at most until the table is reset;        *)
(*   - an entry gets a handle that was not used before, unless all those   *)
(*     of its slot were: it then has one that deletes nothing, and stays   *)
(*     until the table is reset;                                           *)
(*   - to add or delete an entry leaves every other one as it was.         *)
(***************************************************************************)
CONSTANTS Versions, Slots, PrioKeys

VARIABLES
    entries,  \* the key and priority under each handle
    retired   \* the handles that have deleted an entry since the last reset

vars == <<entries, retired>>

Init == entries = <<>> /\ retired = {}

Free(slot) == \A v \in Versions : <<v, slot>> \notin DOMAIN entries
WornOut(slot) == \A v \in Versions : <<v, slot>> \in retired

Add(kp, v, slot) ==
    /\ \A handle \in DOMAIN entries : entries[handle] # kp
    /\ Free(slot)
    /\ <<v, slot>> \in retired => WornOut(slot)
    /\ entries' = [handle \in DOMAIN entries \cup {<<v, slot>>} |->
                      IF handle = <<v, slot>> THEN kp ELSE entries[handle]]
    /\ UNCHANGED retired

Delete(old) ==
    /\ old \in DOMAIN entries \ retired
    /\ entries' = [handle \in DOMAIN entries \ {old} |-> entries[handle]]
    /\ retired' = retired \cup {old}

Reset == entries' = <<>> /\ retired' = {}

Next ==
    \/ \E kp \in PrioKeys, v \in Versions, slot \in Slots : Add(kp, v, slot)
    \/ \E old \in DOMAIN entries : Delete(old)
    \/ Reset

Spec == Init /\ [][Next]_vars
=============================================================================
