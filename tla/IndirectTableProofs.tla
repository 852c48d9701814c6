------------------------- MODULE IndirectTableProofs -------------------------
(***************************************************************************)
(* Proofs about IndirectTable, for any number of members, groups and       *)
(* entries: as long as no modification fails, the reference counts cover   *)
(* every reference and nothing refers to a deleted member or group.        *)
(***************************************************************************)
EXTENDS IndirectTable, FiniteSetTheorems, TLAPS

(* Members, groups and no index are told apart.                              *)
LEMMA IndexDistinct ==
    /\ \A m \in Mbrs : MbrIndex(m) \in Index /\ MbrIndex(m) # NoIndex
    /\ \A g \in Grps : GrpIndex(g) \in Index /\ GrpIndex(g) # NoIndex
    /\ \A m \in Mbrs, g \in Grps : MbrIndex(m) # GrpIndex(g)
    /\ \A m, n \in Mbrs : MbrIndex(m) = MbrIndex(n) => m = n
    /\ \A g, h \in Grps : GrpIndex(g) = GrpIndex(h) => g = h
BY DEF Index, MbrIndex, GrpIndex, NoIndex

LEMMA IndexCases ==
    ASSUME NEW i \in Index \cup {NoIndex}
    PROVE  \/ i = NoIndex
           \/ \E m \in Mbrs : i = MbrIndex(m)
           \/ \E g \in Grps : i = GrpIndex(g)
BY DEF Index

LEMMA DecType ==
    ASSUME NEW n \in 0 .. MaxCount
    PROVE  Dec(n) \in 0 .. MaxCount /\ (n # 0 => Dec(n) = n - 1)
BY BoundsAssumption DEF Dec

(* Every variable keeps its type.                                            *)
THEOREM TypeCorrect == Spec => []TypeOK
<1>1. Init => TypeOK
  <2> SUFFICES ASSUME Init PROVE TypeOK
    OBVIOUS
  <2>1. /\ mbr_handles \subseteq Mbrs /\ grp_handles \subseteq Grps
        /\ groups \in [Grps -> SUBSET Mbrs] /\ nb_groups \in 0 .. NbGrps
        /\ mbr_count \in [Mbrs -> 0 .. MaxCount]
        /\ grp_count \in [Grps -> 0 .. MaxCount]
    BY BoundsAssumption DEF Init
  <2>2. value \in [Entries -> Index \cup {NoIndex}]
        /\ default_index \in Index \cup {NoIndex}
    BY DEF Init
  <2>3. misused \in BOOLEAN
    BY DEF Init
  <2> QED
    BY <2>1, <2>2, <2>3 DEF TypeOK
<1>2. TypeOK /\ [Next]_vars => TypeOK'
  <2> SUFFICES ASSUME TypeOK, [Next]_vars PROVE TypeOK'
    OBVIOUS
  <2>d. ASSUME NEW i
        PROVE  /\ MbrDropped(i) \in [Mbrs -> 0 .. MaxCount]
               /\ GrpDropped(i) \in [Grps -> 0 .. MaxCount]
    BY DecType DEF MbrDropped, GrpDropped, TypeOK
  <2>1. ASSUME NEW m \in Mbrs, AddMember(m) PROVE TypeOK'
    BY <2>1, BoundsAssumption DEF AddMember, TypeOK
  <2>2. ASSUME NEW m \in Mbrs, DeleteMember(m) PROVE TypeOK'
    BY <2>2 DEF DeleteMember, TypeOK
  <2>a. ASSUME NEW i \in Index, Accepted(i)
        PROVE  value' \in [Entries -> Index \cup {NoIndex}]
    BY <2>a DEF Accepted, TypeOK
  <2>3. ASSUME NEW m \in Mbrs, AddEntry(m) PROVE TypeOK'
    <3>1. mbr_count' \in [Mbrs -> 0 .. MaxCount]
        BY <2>3, BoundsAssumption DEF AddEntry, IncreaseMbr, TypeOK
    <3>2. value' \in [Entries -> Index \cup {NoIndex}]
        BY <2>3, <2>a, IndexDistinct DEF AddEntry
    <3> QED
        BY <2>3, <3>1, <3>2 DEF AddEntry, TypeOK
  <2>4. ASSUME NEW g \in Grps, AddEntryWS(g) PROVE TypeOK'
    <3>1. grp_count' \in [Grps -> 0 .. MaxCount]
        BY <2>4, BoundsAssumption DEF AddEntryWS, IncreaseGrp, TypeOK
    <3>2. value' \in [Entries -> Index \cup {NoIndex}]
        BY <2>4, <2>a, IndexDistinct DEF AddEntryWS
    <3> QED
        BY <2>4, <3>1, <3>2 DEF AddEntryWS, TypeOK
  <2>5. ASSUME NEW g \in Grps, CreateGroup(g) PROVE TypeOK'
    <3>1. nb_groups' \in 0 .. NbGrps
        BY <2>5, BoundsAssumption DEF CreateGroup, SizeWith, TypeOK, Grps
    <3>2. groups' \in [Grps -> SUBSET Mbrs] /\ grp_count' \in [Grps -> 0 .. MaxCount]
        BY <2>5, BoundsAssumption DEF CreateGroup, TypeOK
    <3> QED
        BY <2>5, <3>1, <3>2 DEF CreateGroup, TypeOK
  <2>6. ASSUME NEW g \in Grps, DeleteGroup(g) PROVE TypeOK'
    BY <2>6, DecType DEF DeleteGroup, TypeOK
  <2>7. ASSUME NEW e \in Entries, DeleteEntry(e) PROVE TypeOK'
    BY <2>7, <2>d DEF DeleteEntry, TypeOK
  <2>8. ASSUME NEW e \in Entries, ModifyEntry(e) PROVE TypeOK'
    <3>1. CASE \E m \in Mbrs : RepointMbr(e, m)
      <4>1. PICK m \in Mbrs : RepointMbr(e, m)
        BY <3>1
      <4>2. mbr_count' \in [Mbrs -> 0 .. MaxCount]
        BY <4>1, <2>d, BoundsAssumption DEF RepointMbr
      <4>3. grp_count' \in [Grps -> 0 .. MaxCount]
        BY <4>1, <2>d DEF RepointMbr
      <4>4. value' \in [Entries -> Index \cup {NoIndex}]
        BY <4>1, IndexDistinct DEF RepointMbr, TypeOK
      <4> QED
        BY <2>8, <4>2, <4>3, <4>4 DEF ModifyEntry, TypeOK
    <3>2. CASE \E g \in Grps : RepointGrp(e, g)
      <4>1. PICK g \in Grps : RepointGrp(e, g)
        BY <3>2
      <4>2. grp_count' \in [Grps -> 0 .. MaxCount]
        BY <4>1, <2>d, BoundsAssumption DEF RepointGrp
      <4>3. mbr_count' \in [Mbrs -> 0 .. MaxCount]
        BY <4>1, <2>d DEF RepointGrp
      <4>4. value' \in [Entries -> Index \cup {NoIndex}]
        BY <4>1, IndexDistinct DEF RepointGrp, TypeOK
      <4> QED
        BY <2>8, <4>2, <4>3, <4>4 DEF ModifyEntry, TypeOK
    <3> QED
        BY <2>8, <3>1, <3>2 DEF ModifyEntry
  <2>9. ASSUME NEW e \in Entries, ModifyEntryFails(e) PROVE TypeOK'
    BY <2>9, <2>d DEF ModifyEntryFails, TypeOK
  <2>10. ASSUME NEW m \in Mbrs, NEW g \in Grps, AddMemberToGroup(m, g)
         PROVE  TypeOK'
    BY <2>10, BoundsAssumption DEF AddMemberToGroup, IncreaseMbr, TypeOK
  <2>11. ASSUME NEW m \in Mbrs, NEW g \in Grps, RemoveMemberFromGroup(m, g)
         PROVE  TypeOK'
    BY <2>11, DecType DEF RemoveMemberFromGroup, TypeOK
  <2>12. ASSUME NEW index \in Index, SetDefault(index) PROVE TypeOK'
    BY <2>12 DEF SetDefault, TypeOK
  <2>13. CASE ResetState
    <3>1. misused' \in BOOLEAN
        BY <2>13 DEF ResetState
    <3> QED
        BY <2>13, <3>1, BoundsAssumption DEF ResetState, TypeOK
  <2>14. CASE UNCHANGED vars
    BY <2>14 DEF vars, TypeOK
  <2> QED
    BY <2>1, <2>2, <2>3, <2>4, <2>5, <2>6, <2>7, <2>8, <2>9, <2>10, <2>11,
       <2>12, <2>13, <2>14 DEF Next
<1> QED
    BY <1>1, <1>2, PTL DEF Spec

-----------------------------------------------------------------------------
(* The references to a handle are finitely many.                             *)
LEMMA RefsFinite ==
    ASSUME TypeOK
    PROVE  /\ \A i : IsFiniteSet(EntryRefs(i)) /\ Cardinality(EntryRefs(i)) \in Nat
           /\ \A m : IsFiniteSet(GroupRefs(m)) /\ Cardinality(GroupRefs(m)) \in Nat
<1>1. \A i : EntryRefs(i) \subseteq Entries
    BY DEF EntryRefs
<1>2. \A m : GroupRefs(m) \subseteq Grps
    BY DEF GroupRefs, TypeOK
<1>3. IsFiniteSet(Grps)
    BY BoundsAssumption, FS_Interval DEF Grps
<1> QED
    BY <1>1, <1>2, <1>3, EntriesAssumption, FS_Subset, FS_CardinalityType

(* Without one of its elements, a set of references has one less.            *)
LEMMA RefsLess ==
    ASSUME NEW S, IsFiniteSet(S), NEW x
    PROVE  /\ Cardinality(S \ {x}) \in Nat /\ Cardinality(S) \in Nat
           /\ Cardinality(S \ {x}) <= Cardinality(S)
           /\ x \in S => /\ Cardinality(S \ {x}) = Cardinality(S) - 1
                         /\ Cardinality(S) >= 1
           /\ Cardinality(S \cup {x}) \in Nat
           /\ Cardinality(S \cup {x}) <= Cardinality(S) + 1
           /\ Cardinality((S \ {x}) \cup {x}) = Cardinality(S \ {x}) + 1
<1>1. Cardinality(S) \in Nat
    BY FS_CardinalityType
<1>2. /\ IsFiniteSet(S \ {x})
      /\ Cardinality(S \ {x}) = IF x \in S THEN Cardinality(S) - 1
                                ELSE Cardinality(S)
    BY FS_RemoveElement
<1>3. /\ IsFiniteSet(S \cup {x})
      /\ Cardinality(S \cup {x}) = IF x \in S THEN Cardinality(S)
                                   ELSE Cardinality(S) + 1
    BY FS_AddElement
<1>4. Cardinality(S \ {x}) \in Nat
    BY <1>2, FS_CardinalityType
<1>5. Cardinality((S \ {x}) \cup {x}) = Cardinality(S \ {x}) + 1
    BY <1>2, FS_AddElement
<1> QED
    BY <1>1, <1>2, <1>3, <1>4, <1>5

(* The references once entry e has another index.                            *)
LEMMA EntryRefsAfter ==
    ASSUME TypeOK, NEW e \in Entries, NEW i, value' = [value EXCEPT ![e] = i],
           NEW j
    PROVE  EntryRefs(j)' = IF j = i THEN (EntryRefs(j) \ {e}) \cup {e}
                           ELSE EntryRefs(j) \ {e}
BY DEF EntryRefs, TypeOK

(* What a dropped reference leaves is still covered.                         *)
LEMMA DropCovers ==
    ASSUME TypeOK, CountsCoverReferences, ~misused, NEW e \in Entries
    PROVE  /\ \A m \in mbr_handles :
                 /\ MbrDropped(value[e])[m] \in 0 .. MaxCount
                 /\ Cardinality(EntryRefs(MbrIndex(m)) \ {e})
                      + Cardinality(GroupRefs(m)) <= MbrDropped(value[e])[m]
           /\ \A g \in grp_handles :
                 /\ GrpDropped(value[e])[g] \in 0 .. MaxCount
                 /\ Cardinality(EntryRefs(GrpIndex(g)) \ {e})
                      <= GrpDropped(value[e])[g]
<1>1. ASSUME NEW m \in mbr_handles
      PROVE  /\ MbrDropped(value[e])[m] \in 0 .. MaxCount
             /\ Cardinality(EntryRefs(MbrIndex(m)) \ {e})
                  + Cardinality(GroupRefs(m)) <= MbrDropped(value[e])[m]
  <2> DEFINE S == EntryRefs(MbrIndex(m))
  <2>1. m \in Mbrs /\ mbr_count[m] \in 0 .. MaxCount
    BY DEF TypeOK
  <2>2. Cardinality(S) + Cardinality(GroupRefs(m)) <= mbr_count[m]
    BY DEF CountsCoverReferences
  <2>3. IsFiniteSet(S) /\ Cardinality(GroupRefs(m)) \in Nat
    BY RefsFinite
  <2>4. e \in S <=> value[e] = MbrIndex(m)
    BY DEF EntryRefs
  <2>5. MbrDropped(value[e])[m] =
           IF value[e] = MbrIndex(m) THEN Dec(mbr_count[m]) ELSE mbr_count[m]
    BY <2>1 DEF MbrDropped
  <2>6. /\ Cardinality(S \ {e}) \in Nat /\ Cardinality(S) \in Nat
        /\ Cardinality(S \ {e}) <= Cardinality(S)
        /\ e \in S => /\ Cardinality(S \ {e}) = Cardinality(S) - 1
                      /\ Cardinality(S) >= 1
    BY <2>3, RefsLess
  <2>7. Dec(mbr_count[m]) \in 0 .. MaxCount
        /\ (mbr_count[m] # 0 => Dec(mbr_count[m]) = mbr_count[m] - 1)
    BY <2>1, DecType
  <2> HIDE DEF S
  <2>8. CASE value[e] = MbrIndex(m)
    BY <2>1, <2>2, <2>3, <2>4, <2>5, <2>6, <2>7, <2>8 DEF S
  <2>9. CASE value[e] # MbrIndex(m)
    BY <2>1, <2>2, <2>3, <2>4, <2>5, <2>6, <2>9 DEF S
  <2> QED
    BY <2>8, <2>9
<1>2. ASSUME NEW g \in grp_handles
      PROVE  /\ GrpDropped(value[e])[g] \in 0 .. MaxCount
             /\ Cardinality(EntryRefs(GrpIndex(g)) \ {e}) <= GrpDropped(value[e])[g]
  <2> DEFINE S == EntryRefs(GrpIndex(g))
  <2>1. g \in Grps /\ grp_count[g] \in 0 .. MaxCount
    BY DEF TypeOK
  <2>2. Cardinality(S) <= grp_count[g]
    BY DEF CountsCoverReferences
  <2>3. IsFiniteSet(S)
    BY RefsFinite
  <2>4. e \in S <=> value[e] = GrpIndex(g)
    BY DEF EntryRefs
  <2>5. GrpDropped(value[e])[g] =
           IF value[e] = GrpIndex(g) THEN Dec(grp_count[g]) ELSE grp_count[g]
    BY <2>1 DEF GrpDropped
  <2>6. /\ Cardinality(S \ {e}) \in Nat /\ Cardinality(S) \in Nat
        /\ Cardinality(S \ {e}) <= Cardinality(S)
        /\ e \in S => /\ Cardinality(S \ {e}) = Cardinality(S) - 1
                      /\ Cardinality(S) >= 1
    BY <2>3, RefsLess
  <2>7. Dec(grp_count[g]) \in 0 .. MaxCount
        /\ (grp_count[g] # 0 => Dec(grp_count[g]) = grp_count[g] - 1)
    BY <2>1, DecType
  <2> HIDE DEF S
  <2>8. CASE value[e] = GrpIndex(g)
    BY <2>1, <2>2, <2>4, <2>5, <2>6, <2>7, <2>8 DEF S
  <2>9. CASE value[e] # GrpIndex(g)
    BY <2>1, <2>2, <2>4, <2>5, <2>6, <2>9 DEF S
  <2> QED
    BY <2>8, <2>9
<1> QED
    BY <1>1, <1>2

-----------------------------------------------------------------------------
(* What the two invariants say of one member and of one group.               *)
MbrCovered(m) ==
    Cardinality(EntryRefs(MbrIndex(m))) + Cardinality(GroupRefs(m)) <= mbr_count[m]
GrpCovered(g) == Cardinality(EntryRefs(GrpIndex(g))) <= grp_count[g]

(* A handle whose count is zero is referred to by nobody.                    *)
LEMMA ZeroUnreferenced ==
    ASSUME TypeOK, CountsCoverReferences, ~misused
    PROVE  /\ \A m \in mbr_handles : mbr_count[m] = 0 =>
                 EntryRefs(MbrIndex(m)) = {} /\ GroupRefs(m) = {}
           /\ \A g \in grp_handles : grp_count[g] = 0 => EntryRefs(GrpIndex(g)) = {}
<1>1. ASSUME NEW m \in mbr_handles, mbr_count[m] = 0
      PROVE  EntryRefs(MbrIndex(m)) = {} /\ GroupRefs(m) = {}
  <2>1. /\ Cardinality(EntryRefs(MbrIndex(m))) \in Nat
        /\ Cardinality(GroupRefs(m)) \in Nat
        /\ Cardinality(EntryRefs(MbrIndex(m))) + Cardinality(GroupRefs(m)) <= 0
    BY <1>1, RefsFinite DEF CountsCoverReferences
  <2>2. Cardinality(EntryRefs(MbrIndex(m))) = 0 /\ Cardinality(GroupRefs(m)) = 0
    BY ONLY <2>1
  <2> QED
    BY <2>2, RefsFinite, FS_EmptySet
<1>2. ASSUME NEW g \in grp_handles, grp_count[g] = 0
      PROVE  EntryRefs(GrpIndex(g)) = {}
  <2>1. /\ Cardinality(EntryRefs(GrpIndex(g))) \in Nat
        /\ Cardinality(EntryRefs(GrpIndex(g))) <= 0
    BY <1>2, RefsFinite DEF CountsCoverReferences
  <2>2. Cardinality(EntryRefs(GrpIndex(g))) = 0
    BY ONLY <2>1
  <2> QED
    BY <2>2, RefsFinite, FS_EmptySet
<1> QED
    BY <1>1, <1>2

(* A handle that is not in use is referred to by nobody.                     *)
LEMMA FreeUnreferenced ==
    ASSUME TypeOK, ReferencesExist, ~misused
    PROVE  /\ \A m \in Mbrs \ mbr_handles :
                 EntryRefs(MbrIndex(m)) = {} /\ GroupRefs(m) = {}
           /\ \A g \in Grps \ grp_handles : EntryRefs(GrpIndex(g)) = {}
BY DEF ReferencesExist, EntryRefs, GroupRefs

(* An entry that takes a reference adds at most one to what its count has    *)
(* to cover, and its old reference goes.                                     *)
LEMMA TakeRefs ==
    ASSUME TypeOK, NEW e \in Entries, NEW i, value' = [value EXCEPT ![e] = i]
    PROVE  \A j : /\ Cardinality(EntryRefs(j)') \in Nat
                  /\ Cardinality(EntryRefs(j)') <=
                        Cardinality(EntryRefs(j) \ {e}) + (IF j = i THEN 1 ELSE 0)
                  /\ Cardinality(EntryRefs(j) \ {e}) \in Nat
                  /\ Cardinality(EntryRefs(j)) \in Nat
                  /\ Cardinality(EntryRefs(j) \ {e}) <= Cardinality(EntryRefs(j))
<1> TAKE j
<1> DEFINE S == EntryRefs(j)
<1>1. IsFiniteSet(S)
    BY RefsFinite
<1>2. EntryRefs(j)' = IF j = i THEN (S \ {e}) \cup {e} ELSE S \ {e}
    BY EntryRefsAfter
<1>3. /\ Cardinality(S \ {e}) \in Nat /\ Cardinality(S) \in Nat
      /\ Cardinality(S \ {e}) <= Cardinality(S)
      /\ Cardinality((S \ {e}) \cup {e}) = Cardinality(S \ {e}) + 1
    BY <1>1, RefsLess
<1> HIDE DEF S
<1>4. CASE j = i
    BY <1>2, <1>3, <1>4 DEF S
<1>5. CASE j # i
    BY <1>2, <1>3, <1>5 DEF S
<1> QED
    BY <1>4, <1>5

-----------------------------------------------------------------------------
(* One lemma for each operation that can disturb the counts or what they     *)
(* protect.  Referred is the pair of invariants, in a state with no failed   *)
(* modification.                                                             *)
Referred ==
    /\ \A m \in mbr_handles : MbrCovered(m)
    /\ \A g \in grp_handles : GrpCovered(g)
    /\ \A e \in Entries : \A m \in Mbrs : value[e] = MbrIndex(m) => m \in mbr_handles
    /\ \A e \in Entries : \A g \in Grps : value[e] = GrpIndex(g) => g \in grp_handles
    /\ \A g \in grp_handles : groups[g] \subseteq mbr_handles

LEMMA ReferredIsBoth ==
    ASSUME ~misused
    PROVE  Referred <=> CountsCoverReferences /\ ReferencesExist
BY DEF Referred, CountsCoverReferences, ReferencesExist, MbrCovered, GrpCovered

LEMMA AddMemberStep ==
    ASSUME TypeOK, ~misused, Referred, NEW m \in Mbrs, AddMember(m)
    PROVE  Referred'
<1>1. \A j : EntryRefs(j)' = EntryRefs(j)
    BY DEF EntryRefs, AddMember
<1>2. \A n : GroupRefs(n)' = GroupRefs(n)
    BY DEF GroupRefs, AddMember
<1>3. EntryRefs(MbrIndex(m)) = {} /\ GroupRefs(m) = {}
    BY FreeUnreferenced, ReferredIsBoth DEF AddMember, FirstEmpty
<1>4. \A n \in mbr_handles' : MbrCovered(n)'
  <2> TAKE n \in mbr_handles'
  <2>1. CASE n = m
    <3>1. Cardinality({}) = 0
      BY FS_EmptySet
    <3>2. mbr_count'[m] = 0
      BY DEF AddMember, TypeOK
    <3> QED
      BY <1>1, <1>2, <1>3, <2>1, <3>1, <3>2 DEF MbrCovered, MbrIndex
  <2>2. CASE n # m
    <3>1. n \in mbr_handles /\ mbr_count'[n] = mbr_count[n]
      BY <2>2 DEF AddMember, TypeOK
    <3> QED
      BY <1>1, <1>2, <3>1 DEF MbrCovered, Referred, MbrIndex
  <2> QED
    BY <2>1, <2>2
<1>5. \A g \in grp_handles' : GrpCovered(g)'
    BY <1>1 DEF AddMember, GrpCovered, Referred, GrpIndex
<1> QED
    BY <1>4, <1>5 DEF Referred, AddMember, MbrIndex, GrpIndex

LEMMA DeleteMemberStep ==
    ASSUME TypeOK, ~misused, Referred, NEW m \in Mbrs, DeleteMember(m)
    PROVE  Referred'
<1>1. \A j : EntryRefs(j)' = EntryRefs(j)
    BY DEF EntryRefs, DeleteMember
<1>2. \A n : GroupRefs(n)' = GroupRefs(n)
    BY DEF GroupRefs, DeleteMember
<1>3. EntryRefs(MbrIndex(m)) = {} /\ GroupRefs(m) = {}
    BY ZeroUnreferenced, ReferredIsBoth DEF DeleteMember
<1>4. /\ \A n \in mbr_handles' : MbrCovered(n)'
      /\ \A g \in grp_handles' : GrpCovered(g)'
    BY <1>1, <1>2 DEF DeleteMember, MbrCovered, GrpCovered, Referred, MbrIndex, GrpIndex
<1>5. \A e \in Entries : value[e] # MbrIndex(m)
    BY <1>3 DEF EntryRefs
<1>6. \A g \in grp_handles : m \notin groups[g]
    BY <1>3 DEF GroupRefs
<1>7. \A e \in Entries : \A n \in Mbrs : value'[e] = MbrIndex(n)' => n \in mbr_handles'
    BY <1>5 DEF Referred, DeleteMember, MbrIndex
<1>8. \A g \in grp_handles' : groups'[g] \subseteq mbr_handles'
    BY <1>6 DEF Referred, DeleteMember
<1> QED
    BY <1>4, <1>7, <1>8 DEF Referred, DeleteMember, MbrIndex, GrpIndex

(* An entry that is accepted adds at most one reference; one that is refused *)
(* adds none.                                                                *)
LEMMA AcceptedRefs ==
    ASSUME TypeOK, NEW i, Accepted(i)
    PROVE  \A j : /\ Cardinality(EntryRefs(j)) \in Nat
                  /\ Cardinality(EntryRefs(j)') \in Nat
                  /\ j # i => Cardinality(EntryRefs(j)') <= Cardinality(EntryRefs(j))
                  /\ Cardinality(EntryRefs(j)') <= Cardinality(EntryRefs(j)) + 1
<1> TAKE j
<1>1. Cardinality(EntryRefs(j)) \in Nat
    BY RefsFinite
<1>2. CASE UNCHANGED value
  <2>1. EntryRefs(j)' = EntryRefs(j)
    BY <1>2 DEF EntryRefs
  <2>2. Cardinality(EntryRefs(j)') = Cardinality(EntryRefs(j))
    BY <2>1
  <2> QED
    BY <1>1, <2>2
<1>3. CASE ~ UNCHANGED value
  <2>1. PICK e \in Entries : value' = [value EXCEPT ![e] = i]
    BY <1>3 DEF Accepted
  <2>2. /\ Cardinality(EntryRefs(j)') \in Nat
        /\ Cardinality(EntryRefs(j)') <=
              Cardinality(EntryRefs(j) \ {e}) + (IF j = i THEN 1 ELSE 0)
        /\ Cardinality(EntryRefs(j) \ {e}) \in Nat
        /\ Cardinality(EntryRefs(j) \ {e}) <= Cardinality(EntryRefs(j))
    BY <2>1, TakeRefs
  <2>3. CASE j = i
    BY <1>1, <2>2, <2>3
  <2>4. CASE j # i
    BY <1>1, <2>2, <2>4
  <2> QED
    BY <2>3, <2>4
<1> QED
    BY <1>2, <1>3

LEMMA AddEntryStep ==
    ASSUME TypeOK, ~misused, Referred, NEW m \in Mbrs, AddEntry(m)
    PROVE  Referred'
<1>1. \A n : GroupRefs(n)' = GroupRefs(n)
    BY DEF GroupRefs, AddEntry
<1>2. \A j : /\ Cardinality(EntryRefs(j)) \in Nat
             /\ Cardinality(EntryRefs(j)') \in Nat
             /\ j # MbrIndex(m) =>
                   Cardinality(EntryRefs(j)') <= Cardinality(EntryRefs(j))
             /\ Cardinality(EntryRefs(j)') <= Cardinality(EntryRefs(j)) + 1
    BY AcceptedRefs DEF AddEntry
<1>3. ASSUME NEW n \in mbr_handles PROVE MbrCovered(n)'
  <2>1. n \in Mbrs /\ mbr_count[n] \in 0 .. MaxCount
        /\ Cardinality(GroupRefs(n)) \in Nat
    BY RefsFinite DEF TypeOK
  <2>2. Cardinality(EntryRefs(MbrIndex(n))) + Cardinality(GroupRefs(n)) <= mbr_count[n]
    BY DEF Referred, MbrCovered
  <2>3. mbr_count'[n] = IF n = m THEN mbr_count[n] + 1 ELSE mbr_count[n]
    BY <2>1 DEF AddEntry, IncreaseMbr, TypeOK
  <2>4. MbrIndex(n) = MbrIndex(m) => n = m
    BY <2>1, IndexDistinct
  <2>5. Cardinality(EntryRefs(MbrIndex(n))') + Cardinality(GroupRefs(n)) <= mbr_count'[n]
    BY <1>2, <2>1, <2>2, <2>3, <2>4
  <2> QED
    BY <1>1, <2>5 DEF MbrCovered, MbrIndex
<1>4. ASSUME NEW g \in grp_handles PROVE GrpCovered(g)'
  <2>1. g \in Grps /\ grp_count[g] \in 0 .. MaxCount
    BY DEF TypeOK
  <2>2. GrpIndex(g) # MbrIndex(m)
    BY <2>1, IndexDistinct
  <2>3. Cardinality(EntryRefs(GrpIndex(g))') <= grp_count[g]
    BY <1>2, <2>1, <2>2 DEF Referred, GrpCovered
  <2> QED
    BY <2>3 DEF GrpCovered, AddEntry, GrpIndex
<1>5. \A e \in Entries : value'[e] = value[e] \/ value'[e] = MbrIndex(m)
    BY DEF AddEntry, Accepted, TypeOK
<1>6. \A e \in Entries : \A n \in Mbrs : value'[e] = MbrIndex(n)' => n \in mbr_handles'
    BY <1>5, IndexDistinct DEF Referred, AddEntry, MbrIndex
<1>7. \A e \in Entries : \A g \in Grps : value'[e] = GrpIndex(g)' => g \in grp_handles'
  <2> TAKE e \in Entries
  <2> TAKE g \in Grps
  <2>1. GrpIndex(g)' = GrpIndex(g) /\ GrpIndex(g) # MbrIndex(m)
    BY IndexDistinct DEF GrpIndex
  <2> QED
    BY <1>5, <2>1 DEF Referred, AddEntry
<1> QED
    BY <1>3, <1>4, <1>6, <1>7 DEF Referred, AddEntry

LEMMA AddEntryWSStep ==
    ASSUME TypeOK, ~misused, Referred, NEW g \in Grps, AddEntryWS(g)
    PROVE  Referred'
<1>1. \A n : GroupRefs(n)' = GroupRefs(n)
    BY DEF GroupRefs, AddEntryWS
<1>2. \A j : /\ Cardinality(EntryRefs(j)) \in Nat
             /\ Cardinality(EntryRefs(j)') \in Nat
             /\ j # GrpIndex(g) =>
                   Cardinality(EntryRefs(j)') <= Cardinality(EntryRefs(j))
             /\ Cardinality(EntryRefs(j)') <= Cardinality(EntryRefs(j)) + 1
    BY AcceptedRefs DEF AddEntryWS
<1>3. ASSUME NEW h \in grp_handles PROVE GrpCovered(h)'
  <2>1. h \in Grps /\ grp_count[h] \in 0 .. MaxCount
    BY DEF TypeOK
  <2>2. Cardinality(EntryRefs(GrpIndex(h))) <= grp_count[h]
    BY DEF Referred, GrpCovered
  <2>3. grp_count'[h] = IF h = g THEN grp_count[h] + 1 ELSE grp_count[h]
    BY <2>1 DEF AddEntryWS, IncreaseGrp, TypeOK
  <2>4. GrpIndex(h) = GrpIndex(g) => h = g
    BY <2>1, IndexDistinct
  <2>5. Cardinality(EntryRefs(GrpIndex(h))') <= grp_count'[h]
    BY <1>2, <2>1, <2>2, <2>3, <2>4
  <2> QED
    BY <2>5 DEF GrpCovered, GrpIndex
<1>4. ASSUME NEW n \in mbr_handles PROVE MbrCovered(n)'
  <2>1. n \in Mbrs /\ mbr_count[n] \in 0 .. MaxCount
        /\ Cardinality(GroupRefs(n)) \in Nat
    BY RefsFinite DEF TypeOK
  <2>2. GrpIndex(g) # MbrIndex(n)
    BY <2>1, IndexDistinct
  <2>3. Cardinality(EntryRefs(MbrIndex(n))) + Cardinality(GroupRefs(n)) <= mbr_count[n]
    BY DEF Referred, MbrCovered
  <2>4. Cardinality(EntryRefs(MbrIndex(n))') + Cardinality(GroupRefs(n)) <= mbr_count[n]
    BY <1>2, <2>1, <2>2, <2>3
  <2> QED
    BY <1>1, <2>4 DEF MbrCovered, AddEntryWS, MbrIndex
<1>5. \A e \in Entries : value'[e] = value[e] \/ value'[e] = GrpIndex(g)
    BY DEF AddEntryWS, Accepted, TypeOK
<1>6. \A e \in Entries : \A h \in Grps : value'[e] = GrpIndex(h)' => h \in grp_handles'
    BY <1>5, IndexDistinct DEF Referred, AddEntryWS, GroupAt, GrpIndex
<1>7. \A e \in Entries : \A n \in Mbrs : value'[e] = MbrIndex(n)' => n \in mbr_handles'
  <2> TAKE e \in Entries
  <2> TAKE n \in Mbrs
  <2>1. MbrIndex(n)' = MbrIndex(n) /\ GrpIndex(g) # MbrIndex(n)
    BY IndexDistinct DEF MbrIndex
  <2> QED
    BY <1>5, <2>1 DEF Referred, AddEntryWS
<1> QED
    BY <1>3, <1>4, <1>6, <1>7 DEF Referred, AddEntryWS

(* delete_entry() and both forms of modify_entry(): the reference of entry e *)
(* is dropped and a reference to i, if it is an index, is taken.             *)
LEMMA RepointStep ==
    ASSUME TypeOK, ~misused, Referred, NEW e \in Entries, NEW i,
           UNCHANGED <<mbr_handles, grp_handles, groups>>,
           value' = [value EXCEPT ![e] = i],
           \A m \in Mbrs : i = MbrIndex(m) => m \in mbr_handles,
           \A g \in Grps : i = GrpIndex(g) => g \in grp_handles,
           \A m \in Mbrs : mbr_count'[m] = MbrDropped(value[e])[m]
                                           + (IF MbrIndex(m) = i THEN 1 ELSE 0),
           \A g \in Grps : grp_count'[g] = GrpDropped(value[e])[g]
                                           + (IF GrpIndex(g) = i THEN 1 ELSE 0)
    PROVE  Referred'
<1>1. \A n : GroupRefs(n)' = GroupRefs(n)
    BY DEF GroupRefs
<1>2. CountsCoverReferences
    BY ReferredIsBoth
<1>3. ASSUME NEW m \in mbr_handles PROVE MbrCovered(m)'
  <2> DEFINE a == Cardinality(EntryRefs(MbrIndex(m))')
             b == Cardinality(EntryRefs(MbrIndex(m)) \ {e})
             c == Cardinality(GroupRefs(m))
             d == IF MbrIndex(m) = i THEN 1 ELSE 0
             o == MbrDropped(value[e])[m]
  <2>1. m \in Mbrs /\ c \in Nat
    BY RefsFinite DEF TypeOK
  <2>2. a \in Nat /\ b \in Nat /\ a <= b + d
    BY TakeRefs
  <2>3. o \in 0 .. MaxCount /\ b + c <= o
    BY <1>2, DropCovers
  <2>4. mbr_count'[m] = o + d /\ d \in Nat
    BY <2>1
  <2> HIDE DEF a, b, c, d, o
  <2>5. o \in Int
    BY <2>3
  <2>6. a + c <= mbr_count'[m]
    BY <2>1, <2>2, <2>3, <2>4, <2>5
  <2> QED
    BY <1>1, <2>6 DEF MbrCovered, MbrIndex, a, c
<1>4. ASSUME NEW g \in grp_handles PROVE GrpCovered(g)'
  <2> DEFINE a == Cardinality(EntryRefs(GrpIndex(g))')
             b == Cardinality(EntryRefs(GrpIndex(g)) \ {e})
             d == IF GrpIndex(g) = i THEN 1 ELSE 0
             o == GrpDropped(value[e])[g]
  <2>1. g \in Grps
    BY DEF TypeOK
  <2>2. a \in Nat /\ b \in Nat /\ a <= b + d
    BY TakeRefs
  <2>3. o \in 0 .. MaxCount /\ b <= o
    BY <1>2, DropCovers
  <2>4. grp_count'[g] = o + d /\ d \in Nat
    BY <2>1
  <2> HIDE DEF a, b, d, o
  <2>5. o \in Int
    BY <2>3
  <2>6. a <= grp_count'[g]
    BY <2>2, <2>3, <2>4, <2>5
  <2> QED
    BY <2>6 DEF GrpCovered, GrpIndex, a
<1>5. \A f \in Entries : value'[f] = value[f] \/ value'[f] = i
    BY DEF TypeOK
<1>6. \A f \in Entries : \A m \in Mbrs : value'[f] = MbrIndex(m) => m \in mbr_handles
    BY <1>5 DEF Referred
<1>7. \A f \in Entries : \A g \in Grps : value'[f] = GrpIndex(g) => g \in grp_handles
    BY <1>5 DEF Referred
<1> QED
    BY <1>3, <1>4, <1>6, <1>7 DEF Referred, MbrIndex, GrpIndex

LEMMA DeleteEntryStep ==
    ASSUME TypeOK, ~misused, Referred, NEW e \in Entries, DeleteEntry(e)
    PROVE  Referred'
<1>1. \A m \in Mbrs : MbrIndex(m) # NoIndex
    BY IndexDistinct
<1>2. \A g \in Grps : GrpIndex(g) # NoIndex
    BY IndexDistinct
<1>3. \A m \in Mbrs : mbr_count'[m] = MbrDropped(value[e])[m]
                                     + (IF MbrIndex(m) = NoIndex THEN 1 ELSE 0)
  <2> TAKE m \in Mbrs
  <2>1. MbrDropped(value[e])[m] \in Int
    BY DecType DEF MbrDropped, TypeOK
  <2>2. mbr_count'[m] = MbrDropped(value[e])[m]
    BY DEF DeleteEntry
  <2> QED
    BY <1>1, <2>1, <2>2
<1>4. \A g \in Grps : grp_count'[g] = GrpDropped(value[e])[g]
                                     + (IF GrpIndex(g) = NoIndex THEN 1 ELSE 0)
  <2> TAKE g \in Grps
  <2>1. GrpDropped(value[e])[g] \in Int
    BY DecType DEF GrpDropped, TypeOK
  <2>2. grp_count'[g] = GrpDropped(value[e])[g]
    BY DEF DeleteEntry
  <2> QED
    BY <1>2, <2>1, <2>2
<1> QED
    BY <1>1, <1>2, <1>3, <1>4, RepointStep DEF DeleteEntry

LEMMA ModifyEntryStep ==
    ASSUME TypeOK, ~misused, Referred, NEW e \in Entries, ModifyEntry(e)
    PROVE  Referred'
<1>1. \A m \in Mbrs : MbrDropped(value[e])[m] \in Int
    BY DecType DEF MbrDropped, TypeOK
<1>2. \A g \in Grps : GrpDropped(value[e])[g] \in Int
    BY DecType DEF GrpDropped, TypeOK
<1>3. ASSUME NEW n \in Mbrs, RepointMbr(e, n) PROVE Referred'
  <2>1. \A m \in Mbrs : mbr_count'[m] = MbrDropped(value[e])[m]
                                       + (IF MbrIndex(m) = MbrIndex(n) THEN 1 ELSE 0)
    BY <1>1, <1>3, IndexDistinct DEF RepointMbr, MbrDropped
  <2>2. \A g \in Grps : GrpIndex(g) # MbrIndex(n)
    BY IndexDistinct
  <2>3. \A g \in Grps : grp_count'[g] = GrpDropped(value[e])[g]
                                       + (IF GrpIndex(g) = MbrIndex(n) THEN 1 ELSE 0)
    BY <1>2, <1>3, <2>2 DEF RepointMbr
  <2>4. \A m \in Mbrs : MbrIndex(n) = MbrIndex(m) => m \in mbr_handles
    BY <1>3, IndexDistinct DEF RepointMbr
  <2>5. value' = [value EXCEPT ![e] = MbrIndex(n)]
    BY <1>3 DEF RepointMbr
  <2> QED
    BY <2>1, <2>2, <2>3, <2>4, <2>5, RepointStep DEF ModifyEntry
<1>4. ASSUME NEW h \in Grps, RepointGrp(e, h) PROVE Referred'
  <2>1. \A g \in Grps : grp_count'[g] = GrpDropped(value[e])[g]
                                       + (IF GrpIndex(g) = GrpIndex(h) THEN 1 ELSE 0)
    BY <1>2, <1>4, IndexDistinct DEF RepointGrp, GrpDropped
  <2>2. \A m \in Mbrs : MbrIndex(m) # GrpIndex(h)
    BY IndexDistinct
  <2>3. \A m \in Mbrs : mbr_count'[m] = MbrDropped(value[e])[m]
                                       + (IF MbrIndex(m) = GrpIndex(h) THEN 1 ELSE 0)
    BY <1>1, <1>4, <2>2 DEF RepointGrp
  <2>4. \A g \in Grps : GrpIndex(h) = GrpIndex(g) => g \in grp_handles
    BY <1>4, IndexDistinct DEF RepointGrp, GroupAt
  <2>5. value' = [value EXCEPT ![e] = GrpIndex(h)]
    BY <1>4 DEF RepointGrp
  <2> QED
    BY <2>1, <2>2, <2>3, <2>4, <2>5, RepointStep DEF ModifyEntry
<1> QED
    BY <1>3, <1>4 DEF ModifyEntry

LEMMA CreateGroupStep ==
    ASSUME TypeOK, ~misused, Referred, NEW g \in Grps, CreateGroup(g)
    PROVE  Referred'
<1>1. \A j : EntryRefs(j)' = EntryRefs(j)
    BY DEF EntryRefs, CreateGroup
<1>2. g \notin grp_handles /\ grp_handles' = grp_handles \cup {g}
      /\ groups' = [groups EXCEPT ![g] = {}]
    BY DEF CreateGroup, FirstEmpty
<1>3. \A m : GroupRefs(m)' = GroupRefs(m)
    BY <1>2 DEF GroupRefs, TypeOK
<1>4. EntryRefs(GrpIndex(g)) = {}
    BY <1>2, FreeUnreferenced, ReferredIsBoth
<1>5. \A h \in grp_handles' : GrpCovered(h)'
  <2> TAKE h \in grp_handles'
  <2>1. CASE h = g
    <3>1. Cardinality({}) = 0
      BY FS_EmptySet
    <3>2. grp_count'[g] = 0
      BY DEF CreateGroup, TypeOK
    <3> QED
      BY <1>1, <1>4, <2>1, <3>1, <3>2 DEF GrpCovered, GrpIndex
  <2>2. CASE h # g
    <3>1. h \in grp_handles /\ grp_count'[h] = grp_count[h]
      BY <2>2 DEF CreateGroup, TypeOK
    <3> QED
      BY <1>1, <3>1 DEF GrpCovered, Referred, GrpIndex
  <2> QED
    BY <2>1, <2>2
<1>6. \A m \in mbr_handles' : MbrCovered(m)'
    BY <1>1, <1>3 DEF CreateGroup, MbrCovered, Referred, MbrIndex
<1>7. \A h \in grp_handles' : groups'[h] \subseteq mbr_handles'
    BY <1>2 DEF Referred, CreateGroup, TypeOK
<1> QED
    BY <1>5, <1>6, <1>7 DEF Referred, CreateGroup, MbrIndex, GrpIndex

(* Group g gains or loses member m, or is deleted: what the counts of the    *)
(* members have to cover changes by that one group.                          *)
LEMMA GroupRefsStep ==
    ASSUME TypeOK, ~misused, Referred, UNCHANGED value, NEW g \in grp_handles,
           NEW m \in mbr_handles,
           \/ GroupRefs(m)' = GroupRefs(m) /\ mbr_count'[m] = mbr_count[m]
           \/ g \in GroupRefs(m) /\ GroupRefs(m)' = GroupRefs(m) \ {g}
              /\ mbr_count'[m] = Dec(mbr_count[m])
           \/ GroupRefs(m)' = GroupRefs(m) \cup {g}
              /\ mbr_count'[m] = mbr_count[m] + 1
    PROVE  MbrCovered(m)'
<1> DEFINE a == Cardinality(EntryRefs(MbrIndex(m)))
           S == GroupRefs(m)
<1>1. MbrIndex(m)' = MbrIndex(m) /\ EntryRefs(MbrIndex(m))' = EntryRefs(MbrIndex(m))
    BY DEF EntryRefs, MbrIndex
<1>2. a \in Nat /\ IsFiniteSet(S)
    BY RefsFinite
<1>3. a + Cardinality(S) <= mbr_count[m] /\ mbr_count[m] \in 0 .. MaxCount
    BY DEF Referred, MbrCovered, TypeOK
<1>4. Dec(mbr_count[m]) \in 0 .. MaxCount
      /\ (mbr_count[m] # 0 => Dec(mbr_count[m]) = mbr_count[m] - 1)
    BY <1>3, DecType
<1>5. /\ Cardinality(S \ {g}) \in Nat /\ Cardinality(S) \in Nat
      /\ g \in S => /\ Cardinality(S \ {g}) = Cardinality(S) - 1
                    /\ Cardinality(S) >= 1
      /\ Cardinality(S \cup {g}) \in Nat
      /\ Cardinality(S \cup {g}) <= Cardinality(S) + 1
    BY <1>2, RefsLess
<1>6. SUFFICES a + Cardinality(S') <= mbr_count'[m]
    BY <1>1 DEF MbrCovered
<1>7. CASE S' = S /\ mbr_count'[m] = mbr_count[m]
    BY <1>3, <1>7
<1>8. CASE g \in S /\ S' = S \ {g} /\ mbr_count'[m] = Dec(mbr_count[m])
  <2>1. Cardinality(S') = Cardinality(S) - 1 /\ Cardinality(S) >= 1
    BY <1>5, <1>8
  <2> HIDE DEF a, S
  <2> QED
    BY <1>2, <1>3, <1>4, <1>5, <1>8, <2>1
<1>9. CASE S' = S \cup {g} /\ mbr_count'[m] = mbr_count[m] + 1
  <2>1. Cardinality(S') \in Nat /\ Cardinality(S') <= Cardinality(S) + 1
    BY <1>5, <1>9
  <2> HIDE DEF a, S
  <2> QED
    BY <1>2, <1>3, <1>5, <1>9, <2>1
<1> QED
    BY <1>7, <1>8, <1>9

LEMMA DeleteGroupStep ==
    ASSUME TypeOK, ~misused, Referred, NEW g \in Grps, DeleteGroup(g)
    PROVE  Referred'
<1>1. g \in grp_handles /\ grp_handles' = grp_handles \ {g} /\ groups' = groups
    BY DEF DeleteGroup, GroupAt
<1>2. EntryRefs(GrpIndex(g)) = {}
    BY <1>1, ZeroUnreferenced, ReferredIsBoth DEF DeleteGroup
<1>3. ASSUME NEW m \in mbr_handles PROVE MbrCovered(m)'
  <2>1. m \in Mbrs /\ UNCHANGED value
    BY DEF TypeOK, DeleteGroup
  <2>2. CASE m \in groups[g]
    <3>1. g \in GroupRefs(m) /\ GroupRefs(m)' = GroupRefs(m) \ {g}
      BY <1>1, <2>2 DEF GroupRefs
    <3>2. mbr_count'[m] = Dec(mbr_count[m])
      BY <2>1, <2>2 DEF DeleteGroup
    <3> QED
      BY <1>1, <2>1, <3>1, <3>2, GroupRefsStep
  <2>3. CASE m \notin groups[g]
    <3>1. GroupRefs(m)' = GroupRefs(m)
      BY <1>1, <2>3 DEF GroupRefs
    <3>2. mbr_count'[m] = mbr_count[m]
      BY <2>1, <2>3 DEF DeleteGroup
    <3> QED
      BY <1>1, <2>1, <3>1, <3>2, GroupRefsStep
  <2> QED
    BY <2>2, <2>3
<1>4. \A h \in grp_handles' : GrpCovered(h)'
    BY <1>1 DEF DeleteGroup, GrpCovered, EntryRefs, Referred, GrpIndex
<1>5. \A e \in Entries : value[e] # GrpIndex(g)
    BY <1>2 DEF EntryRefs
<1>6. \A e \in Entries : \A h \in Grps : value'[e] = GrpIndex(h)' => h \in grp_handles'
    BY <1>1, <1>5 DEF Referred, DeleteGroup, GrpIndex
<1> QED
    BY <1>1, <1>3, <1>4, <1>6 DEF Referred, DeleteGroup, MbrIndex

LEMMA AddMemberToGroupStep ==
    ASSUME TypeOK, ~misused, Referred, NEW m \in Mbrs, NEW g \in Grps,
           AddMemberToGroup(m, g)
    PROVE  Referred'
<1>1. g \in grp_handles /\ m \in mbr_handles
      /\ groups' = [groups EXCEPT ![g] = @ \cup {m}]
      /\ UNCHANGED <<mbr_handles, grp_handles, grp_count, value>>
    BY DEF AddMemberToGroup, GroupAt
<1>2. ASSUME NEW n \in mbr_handles PROVE MbrCovered(n)'
  <2>1. n \in Mbrs
    BY DEF TypeOK
  <2>2. CASE n = m
    <3>1. GroupRefs(n)' = GroupRefs(n) \cup {g}
      BY <1>1, <2>2 DEF GroupRefs, TypeOK
    <3>2. mbr_count'[n] = mbr_count[n] + 1
      BY <2>1, <2>2 DEF AddMemberToGroup, IncreaseMbr, TypeOK
    <3> QED
      BY <1>1, <3>1, <3>2, GroupRefsStep
  <2>3. CASE n # m
    <3>1. GroupRefs(n)' = GroupRefs(n)
      BY <1>1, <2>3 DEF GroupRefs, TypeOK
    <3>2. mbr_count'[n] = mbr_count[n]
      BY <2>1, <2>3 DEF AddMemberToGroup, IncreaseMbr, TypeOK
    <3> QED
      BY <1>1, <3>1, <3>2, GroupRefsStep
  <2> QED
    BY <2>2, <2>3
<1>3. \A h \in grp_handles' : GrpCovered(h)'
    BY <1>1 DEF GrpCovered, EntryRefs, Referred, GrpIndex
<1>4. \A h \in grp_handles' : groups'[h] \subseteq mbr_handles'
    BY <1>1 DEF Referred, TypeOK
<1> QED
    BY <1>1, <1>2, <1>3, <1>4 DEF Referred, MbrIndex, GrpIndex

LEMMA RemoveMemberFromGroupStep ==
    ASSUME TypeOK, ~misused, Referred, NEW m \in Mbrs, NEW g \in Grps,
           RemoveMemberFromGroup(m, g)
    PROVE  Referred'
<1>1. g \in grp_handles /\ m \in mbr_handles /\ m \in groups[g]
      /\ groups' = [groups EXCEPT ![g] = @ \ {m}]
      /\ UNCHANGED <<mbr_handles, grp_handles, grp_count, value>>
    BY DEF RemoveMemberFromGroup, GroupAt
<1>2. ASSUME NEW n \in mbr_handles PROVE MbrCovered(n)'
  <2>1. n \in Mbrs
    BY DEF TypeOK
  <2>2. CASE n = m
    <3>1. g \in GroupRefs(n) /\ GroupRefs(n)' = GroupRefs(n) \ {g}
      BY <1>1, <2>2 DEF GroupRefs, TypeOK
    <3>2. mbr_count'[n] = Dec(mbr_count[n])
      BY <2>1, <2>2 DEF RemoveMemberFromGroup, TypeOK
    <3> QED
      BY <1>1, <3>1, <3>2, GroupRefsStep
  <2>3. CASE n # m
    <3>1. GroupRefs(n)' = GroupRefs(n)
      BY <1>1, <2>3 DEF GroupRefs, TypeOK
    <3>2. mbr_count'[n] = mbr_count[n]
      BY <2>1, <2>3 DEF RemoveMemberFromGroup, TypeOK
    <3> QED
      BY <1>1, <3>1, <3>2, GroupRefsStep
  <2> QED
    BY <2>2, <2>3
<1>3. \A h \in grp_handles' : GrpCovered(h)'
    BY <1>1 DEF GrpCovered, EntryRefs, Referred, GrpIndex
<1>4. \A h \in grp_handles' : groups'[h] \subseteq mbr_handles'
    BY <1>1 DEF Referred, TypeOK
<1> QED
    BY <1>1, <1>2, <1>3, <1>4 DEF Referred, MbrIndex, GrpIndex

(* A table without entries and members, as a new one and as reset_state_()   *)
(* leaves it: the groups that keep their handle are empty and nobody uses    *)
(* them.                                                                     *)
Empty ==
    /\ mbr_handles = {} /\ grp_handles \subseteq Grps
    /\ groups = [g \in Grps |-> {}] /\ value = [e \in Entries |-> NoIndex]
    /\ grp_count = [g \in Grps |-> 0]

LEMMA EmptyReferred == Empty => Referred
<1> SUFFICES ASSUME Empty PROVE Referred
    OBVIOUS
<1> USE DEF Empty
<1>1. /\ \A e \in Entries : \A m \in Mbrs : value[e] # MbrIndex(m)
      /\ \A e \in Entries : \A g \in Grps : value[e] # GrpIndex(g)
    BY IndexDistinct
<1>2. \A g \in grp_handles : GrpCovered(g)
  <2> TAKE g \in grp_handles
  <2>1. EntryRefs(GrpIndex(g)) = {}
    BY <1>1 DEF EntryRefs
  <2>2. Cardinality({}) = 0 /\ grp_count[g] = 0
    BY FS_EmptySet
  <2> QED
    BY <2>1, <2>2 DEF GrpCovered
<1> QED
    BY <1>1, <1>2 DEF Referred

(* The counts cover what refers to a handle because what is referred to      *)
(* exists, and the other way round: the two are inductive together.          *)
LEMMA BothCorrect == Spec => [](CountsCoverReferences /\ ReferencesExist)
<1> DEFINE Inv == CountsCoverReferences /\ ReferencesExist
<1>1. Init => Inv
  <2> SUFFICES ASSUME Init PROVE Inv
    OBVIOUS
  <2>1. Referred
    BY EmptyReferred DEF Init, Empty
  <2> QED
    BY <2>1, ReferredIsBoth DEF Init
<1>2. TypeOK /\ TypeOK' /\ Inv /\ [Next]_vars => Inv'
  <2> SUFFICES ASSUME TypeOK, TypeOK', Inv, [Next]_vars PROVE Inv'
    OBVIOUS
  <2>1. SUFFICES ASSUME ~misused' PROVE Referred'
    BY DEF Referred, CountsCoverReferences, ReferencesExist, MbrCovered, GrpCovered
  <2>2. CASE ResetState
    <3>1. Empty'
      BY <2>2 DEF ResetState, TypeOK, Empty, NoIndex
    <3> QED
      BY <3>1, EmptyReferred, PTL
  <2>3. CASE ~ ResetState
    <3>1. ~misused
      BY <2>1, <2>3 DEF Next, vars, AddMember, DeleteMember, AddEntry, AddEntryWS,
         CreateGroup, DeleteGroup, DeleteEntry, ModifyEntry, ModifyEntryFails,
         AddMemberToGroup, RemoveMemberFromGroup, SetDefault
    <3>2. Referred
      BY <3>1, ReferredIsBoth
    <3>3. ASSUME NEW index \in Index, SetDefault(index) PROVE Referred'
      BY <3>2, <3>3 DEF SetDefault, Referred, MbrCovered, GrpCovered, EntryRefs,
         GroupRefs, MbrIndex, GrpIndex
    <3>4. ASSUME NEW e \in Entries, ModifyEntryFails(e) PROVE FALSE
      BY <2>1, <3>4 DEF ModifyEntryFails
    <3>5. CASE UNCHANGED vars
      BY <3>2, <3>5 DEF vars, Referred, MbrCovered, GrpCovered, EntryRefs,
         GroupRefs, MbrIndex, GrpIndex
    <3> QED
      BY <2>3, <3>1, <3>2, <3>3, <3>4, <3>5, AddMemberStep, DeleteMemberStep,
         AddEntryStep, AddEntryWSStep, DeleteEntryStep, ModifyEntryStep,
         CreateGroupStep, DeleteGroupStep, AddMemberToGroupStep,
         RemoveMemberFromGroupStep DEF Next
  <2> QED
    BY <2>2, <2>3
<1> QED
    BY <1>1, <1>2, TypeCorrect, PTL DEF Spec

(* As long as no modification fails, index_ref_count counts every reference, *)
(* for any number of members, groups and entries and after any reset.        *)
THEOREM CountsCorrect == Spec => []CountsCoverReferences
BY BothCorrect, PTL

(* As long as no modification fails, what entries and groups refer to        *)
(* exists, so that lookup()'s assertions hold.                               *)
THEOREM ReferencesCorrect == Spec => []ReferencesExist
BY BothCorrect, PTL
=============================================================================
