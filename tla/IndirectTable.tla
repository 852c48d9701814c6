---------------------------- MODULE IndirectTable ----------------------------
(***************************************************************************)
(* MatchTableIndirect and MatchTableIndirectWS (src/bm_sim/match_tables).  *)
(* A match entry points to a member or to a group of members, members and  *)
(* groups are named by handles that HandleMgr gives out lowest first, and  *)
(* index_ref_count says which of them may be deleted.                      *)
(*                                                                         *)
(* Every operation runs under the table's write lock and is one step; one  *)
(* that only returns an error is no step.  Actions and their data, which   *)
(* the table stores but never looks at, are left out, and so are keys: the *)
(* match unit accepts an entry or refuses it (a bad or duplicate key).     *)
(***************************************************************************)
EXTENDS Integers, FiniteSets

CONSTANTS
    NbMbrs, NbGrps,  \* bounds on the handles in use
    Entries,         \* the entries the match unit has room for
    MaxCount         \* the largest count_t, bound on the references counted

Mbrs == 0 .. NbMbrs - 1
Grps == 0 .. NbGrps - 1

ASSUME BoundsAssumption == NbMbrs \in Nat /\ NbGrps \in Nat /\ MaxCount \in Nat
ASSUME EntriesAssumption == IsFiniteSet(Entries)

VARIABLES
    mbr_handles, grp_handles,  \* the handles in use
    groups,                    \* the members of each group
    nb_groups,                 \* length of the vector of groups
    mbr_count, grp_count,      \* index_ref_count
    value,                     \* the index of each entry
    default_index,
    misused        \* a modify_entry has failed on its new handle since a reset

vars == <<mbr_handles, grp_handles, groups, nb_groups, mbr_count, grp_count,
          value, default_index, misused>>

NoIndex == <<"none", 0>>
MbrIndex(m) == <<"mbr", m>>
GrpIndex(g) == <<"grp", g>>
Index == {MbrIndex(m) : m \in Mbrs} \cup {GrpIndex(g) : g \in Grps}

TypeOK ==
    /\ mbr_handles \subseteq Mbrs /\ grp_handles \subseteq Grps
    /\ groups \in [Grps -> SUBSET Mbrs]
    /\ nb_groups \in 0 .. NbGrps
    /\ mbr_count \in [Mbrs -> 0 .. MaxCount]
    /\ grp_count \in [Grps -> 0 .. MaxCount]
    /\ value \in [Entries -> Index \cup {NoIndex}]
    /\ default_index \in Index \cup {NoIndex}
    /\ misused \in BOOLEAN

Init ==
    /\ mbr_handles = {} /\ grp_handles = {}
    /\ groups = [g \in Grps |-> {}] /\ nb_groups = 0
    /\ mbr_count = [m \in Mbrs |-> 0] /\ grp_count = [g \in Grps |-> 0]
    /\ value = [e \in Entries |-> NoIndex]
    /\ default_index = NoIndex
    /\ misused = FALSE

-----------------------------------------------------------------------------
(* HandleMgr::get_handle(): the lowest handle that is free.                  *)
FirstEmpty(handles, h) == h \notin handles /\ \A i \in 0 .. h - 1 : i \in handles

(* A valid group that is in the vector: at() throws for any other.           *)
GroupAt(g) == g \in grp_handles /\ g < nb_groups

(* increase() and decrease(), of an unsigned count.                          *)
Dec(n) == IF n = 0 THEN MaxCount ELSE n - 1

IncreaseMbr(m) ==
    mbr_count[m] < MaxCount /\ mbr_count' = [mbr_count EXCEPT ![m] = @ + 1]
IncreaseGrp(g) ==
    grp_count[g] < MaxCount /\ grp_count' = [grp_count EXCEPT ![g] = @ + 1]

(* The counts when the reference of an entry is dropped.                     *)
MbrDropped(index) ==
    [m \in Mbrs |-> IF index = MbrIndex(m) THEN Dec(mbr_count[m]) ELSE mbr_count[m]]
GrpDropped(index) ==
    [g \in Grps |-> IF index = GrpIndex(g) THEN Dec(grp_count[g]) ELSE grp_count[g]]

AddMember(m) ==
    /\ FirstEmpty(mbr_handles, m)
    /\ mbr_handles' = mbr_handles \cup {m}
    /\ mbr_count' = [mbr_count EXCEPT ![m] = 0]
    /\ UNCHANGED <<grp_handles, groups, nb_groups, grp_count, value,
                   default_index, misused>>

(* delete_member(), after a form that does not ask for the count.            *)
DeleteUsedMember(m) ==
    /\ m \in mbr_handles
    /\ mbr_handles' = mbr_handles \ {m}
    /\ UNCHANGED <<grp_handles, groups, nb_groups, mbr_count, grp_count,
                   value, default_index, misused>>

DeleteMember(m) ==
    /\ m \in mbr_handles /\ mbr_count[m] = 0
    /\ mbr_handles' = mbr_handles \ {m}
    /\ UNCHANGED <<grp_handles, groups, nb_groups, mbr_count, grp_count,
                   value, default_index, misused>>

(* add_entry() and add_entry_ws() raise the count before the match unit has  *)
(* accepted the entry, and keep it raised when it is refused.                *)
Accepted(index) ==
    \/ \E e \in Entries : value[e] = NoIndex /\ value' = [value EXCEPT ![e] = index]
    \/ UNCHANGED value

AddEntry(m) ==
    /\ m \in mbr_handles
    /\ IncreaseMbr(m)
    /\ Accepted(MbrIndex(m))
    /\ UNCHANGED <<mbr_handles, grp_handles, groups, nb_groups, grp_count,
                   default_index, misused>>

AddEntryWS(g) ==
    /\ GroupAt(g) /\ groups[g] # {}
    /\ IncreaseGrp(g)
    /\ Accepted(GrpIndex(g))
    /\ UNCHANGED <<mbr_handles, grp_handles, groups, nb_groups, mbr_count,
                   default_index, misused>>

DeleteEntry(e) ==
    /\ value[e] # NoIndex
    /\ value' = [value EXCEPT ![e] = NoIndex]
    /\ mbr_count' = MbrDropped(value[e]) /\ grp_count' = GrpDropped(value[e])
    /\ UNCHANGED <<mbr_handles, grp_handles, groups, nb_groups,
                   default_index, misused>>

(* modify_entry() and modify_entry_ws(): the old reference is dropped first, *)
(* the new handle is looked at after that.  The first forms raise nothing.   *)
RepointMbrUncounted(e, m) ==
    /\ m \in mbr_handles
    /\ mbr_count' = MbrDropped(value[e])
    /\ grp_count' = GrpDropped(value[e])
    /\ value' = [value EXCEPT ![e] = MbrIndex(m)]

RepointMbr(e, m) ==
    LET dropped == MbrDropped(value[e]) IN
    /\ m \in mbr_handles
    /\ dropped[m] < MaxCount
    /\ mbr_count' = [dropped EXCEPT ![m] = dropped[m] + 1]
    /\ grp_count' = GrpDropped(value[e])
    /\ value' = [value EXCEPT ![e] = MbrIndex(m)]

RepointGrp(e, g) ==
    LET dropped == GrpDropped(value[e]) IN
    /\ GroupAt(g) /\ groups[g] # {}
    /\ dropped[g] < MaxCount
    /\ grp_count' = [dropped EXCEPT ![g] = dropped[g] + 1]
    /\ mbr_count' = MbrDropped(value[e])
    /\ value' = [value EXCEPT ![e] = GrpIndex(g)]

ModifyEntry(e) ==
    /\ value[e] # NoIndex
    /\ \/ \E m \in Mbrs : RepointMbr(e, m)
       \/ \E g \in Grps : RepointGrp(e, g)
    /\ UNCHANGED <<mbr_handles, grp_handles, groups, nb_groups,
                   default_index, misused>>

(* The same calls with an invalid handle or an empty group.                  *)
ModifyEntryFails(e) ==
    /\ value[e] # NoIndex
    /\ mbr_count' = MbrDropped(value[e]) /\ grp_count' = GrpDropped(value[e])
    /\ misused' = TRUE
    /\ UNCHANGED <<mbr_handles, grp_handles, groups, nb_groups, value,
                   default_index>>

(* set_default_member() and set_default_group() count no reference.          *)
SetDefault(index) ==
    /\ \/ \E m \in mbr_handles : index = MbrIndex(m)
       \/ \E g \in grp_handles : index = GrpIndex(g)
    /\ default_index' = index
    /\ UNCHANGED <<mbr_handles, grp_handles, groups, nb_groups, mbr_count,
                   grp_count, value, misused>>

-----------------------------------------------------------------------------
(* insert_group(): a group reuses its place in the vector or is appended.    *)
(* The first form always appends.                                            *)
AppendedSize(g) == nb_groups + 1
SizeWith(g) == IF g = nb_groups THEN nb_groups + 1 ELSE nb_groups

(* create_group(), with insert_group() and its assertion.                    *)
CreateGroup(g) ==
    /\ FirstEmpty(grp_handles, g) /\ g <= nb_groups
    /\ grp_handles' = grp_handles \cup {g}
    /\ groups' = [groups EXCEPT ![g] = {}]
    /\ nb_groups' = SizeWith(g)
    /\ grp_count' = [grp_count EXCEPT ![g] = 0]
    /\ UNCHANGED <<mbr_handles, mbr_count, value, default_index, misused>>

(* delete_group() of a group that no entry uses, empty or not.               *)
DeleteGroup(g) ==
    /\ GroupAt(g) /\ grp_count[g] = 0
    /\ mbr_count' = [m \in Mbrs |->
                       IF m \in groups[g] THEN Dec(mbr_count[m]) ELSE mbr_count[m]]
    /\ grp_handles' = grp_handles \ {g}
    /\ UNCHANGED <<mbr_handles, groups, nb_groups, grp_count, value,
                   default_index, misused>>

AddMemberToGroup(m, g) ==
    /\ m \in mbr_handles /\ GroupAt(g) /\ m \notin groups[g]
    /\ groups' = [groups EXCEPT ![g] = @ \cup {m}]
    /\ IncreaseMbr(m)
    /\ UNCHANGED <<mbr_handles, grp_handles, nb_groups, grp_count, value,
                   default_index, misused>>

(* The group may be in use and become empty.                                 *)
RemoveMemberFromGroup(m, g) ==
    /\ m \in mbr_handles /\ GroupAt(g) /\ m \in groups[g]
    /\ groups' = [groups EXCEPT ![g] = @ \ {m}]
    /\ mbr_count' = [mbr_count EXCEPT ![m] = Dec(mbr_count[m])]
    /\ UNCHANGED <<mbr_handles, grp_handles, nb_groups, grp_count, value,
                   default_index, misused>>

(* reset_state_() of the WS table: members, entries, counts and the groups   *)
(* go, the group handles and the default stay.                               *)
ResetState ==
    /\ mbr_handles' = {}
    /\ groups' = [g \in Grps |-> {}] /\ nb_groups' = 0
    /\ mbr_count' = [m \in Mbrs |-> 0] /\ grp_count' = [g \in Grps |-> 0]
    /\ value' = [e \in Entries |-> NoIndex]
    /\ misused' = FALSE
    /\ UNCHANGED <<grp_handles, default_index>>

Next ==
    \/ \E m \in Mbrs : AddMember(m) \/ DeleteMember(m) \/ AddEntry(m)
    \/ \E g \in Grps : AddEntryWS(g) \/ CreateGroup(g) \/ DeleteGroup(g)
    \/ \E e \in Entries : DeleteEntry(e) \/ ModifyEntry(e) \/ ModifyEntryFails(e)
    \/ \E m \in Mbrs, g \in Grps :
          AddMemberToGroup(m, g) \/ RemoveMemberFromGroup(m, g)
    \/ \E index \in Index : SetDefault(index)
    \/ ResetState

Spec == Init /\ [][Next]_vars

-----------------------------------------------------------------------------
EntryRefs(index) == {e \in Entries : value[e] = index}
GroupRefs(m) == {g \in grp_handles : m \in groups[g]}

(* index_ref_count never promises too little: it counts every entry and      *)
(* every group that refers to a handle in use, and what failed insertions    *)
(* have left behind.  A modification that fails breaks the promise.          *)
CountsCoverReferences ==
    ~misused =>
    /\ \A m \in mbr_handles :
          Cardinality(EntryRefs(MbrIndex(m))) + Cardinality(GroupRefs(m))
            <= mbr_count[m]
    /\ \A g \in grp_handles : Cardinality(EntryRefs(GrpIndex(g))) <= grp_count[g]

(* What an entry or a group refers to exists: after no order of insertions,  *)
(* modifications and deletions, and no reuse of a handle, does an entry name *)
(* a member or a group that was deleted, or a group hold such a member,      *)
(* unless a modification failed.  The default, which set_default_member()    *)
(* does not count, may.                                                      *)
ReferencesExist ==
    ~misused =>
    /\ \A e \in Entries : \A m \in Mbrs : value[e] = MbrIndex(m) => m \in mbr_handles
    /\ \A e \in Entries : \A g \in Grps : value[e] = GrpIndex(g) => g \in grp_handles
    /\ \A g \in grp_handles : groups[g] \subseteq mbr_handles
=============================================================================
