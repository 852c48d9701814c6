--------------------------- MODULE MatchUnitProofs ---------------------------
(***************************************************************************)
(* Proofs about MatchUnit, for a table of any size: the list of entries is *)
(* in the order of the handles, no entry is there twice, num_entries       *)
(* counts the entries, the handle of a deleted entry is never accepted,    *)
(* and lookup() answers with the distance of the best entry from the       *)
(* lowest slot in use.  Slots, versions and links together implement       *)
(* EntryTable.                                                             *)
(***************************************************************************)
EXTENDS MatchUnit, FiniteSetTheorems, WellFoundedInduction, TLAPS

(* A set of naturals that is not empty has a least element.                  *)
LEMMA LeastElement ==
    ASSUME NEW S \in SUBSET Nat, S # {}
    PROVE  \E m \in S : \A n \in S : m <= n
<1> DEFINE R == OpToRel(<, Nat)
<1>1. PICK m \in S : \A n \in S : ~ (<<n, m>> \in R)
    BY NatLessThanWellFounded, WFMin
<1>2. \A n \in S : ~ (n < m)
    BY <1>1 DEF OpToRel
<1> QED
    BY <1>2

(* Neighbours in a set of naturals: who is next to whom, and what becomes of *)
(* it when an element goes or comes.                                         *)
LEMMA NextPrev ==
    ASSUME NEW H \in SUBSET Nat, NEW h \in H, NEW p \in Int, PrevIn(H, h, p),
           NEW g \in H, NEW n \in Int, NextIn(H, g, n)
    PROVE  n = h <=> g = p
BY DEF PrevIn, NextIn, Null

LEMMA PrevNext ==
    ASSUME NEW H \in SUBSET Nat, NEW h \in H, NEW n \in Int, NextIn(H, h, n),
           NEW g \in H, NEW p \in Int, PrevIn(H, g, p)
    PROVE  p = h <=> g = n
BY DEF PrevIn, NextIn, Null

LEMMA NextRemove ==
    ASSUME NEW H \in SUBSET Nat, NEW h \in H, NEW x \in Int, NextIn(H, h, x),
           NEW g \in H \ {h}, NEW n \in Int, NextIn(H, g, n)
    PROVE  NextIn(H \ {h}, g, IF n = h THEN x ELSE n)
<1>1. CASE n = h
    BY <1>1 DEF NextIn, Null
<1>2. CASE n # h
    BY <1>2 DEF NextIn, Null
<1> QED
    BY <1>1, <1>2

LEMMA PrevRemove ==
    ASSUME NEW H \in SUBSET Nat, NEW h \in H, NEW x \in Int, PrevIn(H, h, x),
           NEW g \in H \ {h}, NEW p \in Int, PrevIn(H, g, p)
    PROVE  PrevIn(H \ {h}, g, IF p = h THEN x ELSE p)
<1>1. CASE p = h
    BY <1>1 DEF PrevIn, Null
<1>2. CASE p # h
    BY <1>2 DEF PrevIn, Null
<1> QED
    BY <1>1, <1>2

LEMMA FirstRemove ==
    ASSUME NEW H \in SUBSET Nat, NEW h \in H, NEW f \in Int, FirstIn(H, f),
           NEW x \in Int, NextIn(H, h, x), NEW p \in Int, PrevIn(H, h, p)
    PROVE  FirstIn(H \ {h}, IF p = Null THEN x ELSE f)
<1>1. CASE p = Null
  <2>1. \A g \in H : h <= g
    BY <1>1 DEF PrevIn, Null
  <2>2. CASE x = Null
    BY <1>1, <2>1, <2>2 DEF FirstIn, NextIn, Null
  <2>3. CASE x # Null
    BY <1>1, <2>1, <2>3 DEF FirstIn, NextIn, Null
  <2> QED
    BY <2>2, <2>3
<1>2. CASE p # Null
    BY <1>2 DEF FirstIn, PrevIn, Null
<1> QED
    BY <1>1, <1>2

(* The element after h - 1, when h comes.                                    *)
LEMMA NextAdd ==
    ASSUME NEW H \in SUBSET Nat, NEW h \in Nat \ H, h - 1 \in H,
           NEW x \in Int, NextIn(H, h - 1, x), NEW g \in H, NEW n \in Int, NextIn(H, g, n)
    PROVE  /\ NextIn(H \cup {h}, h, x)
           /\ NextIn(H \cup {h}, g, IF g = h - 1 THEN h ELSE n)
<1>1. NextIn(H \cup {h}, h, x)
    BY DEF NextIn, Null
<1>2. CASE g = h - 1
    BY <1>2 DEF NextIn, Null
<1>3. CASE g # h - 1
    BY <1>3 DEF NextIn, Null
<1> QED
    BY <1>1, <1>2, <1>3

LEMMA PrevAdd ==
    ASSUME NEW H \in SUBSET Nat, NEW h \in Nat \ H, h - 1 \in H,
           NEW x \in Int, NextIn(H, h - 1, x), NEW g \in H, NEW p \in Int, PrevIn(H, g, p)
    PROVE  /\ PrevIn(H \cup {h}, h, h - 1)
           /\ PrevIn(H \cup {h}, g, IF g = x THEN h ELSE p)
<1>1. PrevIn(H \cup {h}, h, h - 1)
    BY DEF PrevIn, Null
<1>2. CASE g = x
    BY <1>2 DEF PrevIn, NextIn, Null
<1>3. CASE g # x
    BY <1>3 DEF PrevIn, NextIn, Null
<1> QED
    BY <1>1, <1>2, <1>3

(* The same for 0, which comes first.                                        *)
LEMMA ZeroAdd ==
    ASSUME NEW H \in SUBSET Nat, 0 \notin H, NEW f \in Int, FirstIn(H, f),
           NEW g \in H, NEW n \in Int, NextIn(H, g, n), NEW p \in Int, PrevIn(H, g, p)
    PROVE  /\ NextIn(H \cup {0}, g, n)
           /\ PrevIn(H \cup {0}, g, IF g = f THEN 0 ELSE p)
<1>1. NextIn(H \cup {0}, g, n)
    BY DEF NextIn, Null
<1>2. CASE g = f
    BY <1>1, <1>2 DEF PrevIn, FirstIn, Null
<1>3. CASE g # f
    BY <1>1, <1>3 DEF PrevIn, FirstIn, Null
<1> QED
    BY <1>1, <1>2, <1>3

LEMMA ZeroFirst ==
    ASSUME NEW H \in SUBSET Nat, 0 \notin H, NEW f \in Int, FirstIn(H, f)
    PROVE  /\ FirstIn(H \cup {0}, 0) /\ NextIn(H \cup {0}, 0, f)
           /\ PrevIn(H \cup {0}, 0, Null)
BY DEF FirstIn, NextIn, PrevIn, Null

-----------------------------------------------------------------------------
(* Handles and links are numbers.                                            *)
LEMMA Numbers ==
    ASSUME TypeOK
    PROVE  /\ handles \in SUBSET Nat /\ handles \in SUBSET Slots
           /\ Slots \subseteq Nat
           /\ head \in Int /\ (\A h \in Slots : prev[h] \in Int /\ next[h] \in Int)
           /\ Null \in Int /\ Null \notin Slots
BY SizeAssumption DEF TypeOK, Slots, Null

(* When the list is in order, a walk meets exactly the slots in use.         *)
LEMMA VisitedIsHandles ==
    ASSUME TypeOK, ListInOrder
    PROVE  Visited = handles
<1>1. Visited \subseteq handles
  <2>1. head # Null => head \in handles
    BY DEF ListInOrder, FirstIn
  <2>2. \A g \in handles : next[g] # Null => next[g] \in handles
    BY DEF ListInOrder, NextIn
  <2> QED
    BY <2>1, <2>2, Numbers DEF Visited
<1>2. ASSUME NEW S \in SUBSET Slots,
             head # Null => head \in S,
             \A g \in S : next[g] # Null => next[g] \in S
      PROVE  handles \subseteq S
  <2> SUFFICES ASSUME handles \ S # {} PROVE FALSE
    OBVIOUS
  <2>1. PICK m \in handles \ S : \A n \in handles \ S : m <= n
    BY Numbers, LeastElement
  <2>2. m \in handles /\ m \in Slots /\ PrevIn(handles, m, prev[m])
    BY <2>1, Numbers DEF ListInOrder
  <2>3. CASE prev[m] = Null
    <3>1. \A g \in handles : m <= g
      BY <2>2, <2>3, Numbers DEF PrevIn
    <3>2. head \in handles /\ head <= m
      BY <2>2 DEF ListInOrder, FirstIn
    <3>3. head = m
      BY <3>1, <3>2, <2>2, Numbers
    <3> QED
      BY <1>2, <2>1, <3>2, <3>3, Numbers
  <2>4. CASE prev[m] # Null
    <3> DEFINE p == prev[m]
    <3>1. p \in handles /\ p < m
      BY <2>2, <2>4 DEF PrevIn
    <3>2. p \in S
      BY <2>1, <2>2, <3>1, Numbers
    <3>3. p \in Int /\ next[p] \in Int /\ NextIn(handles, p, next[p])
      BY <3>1, Numbers DEF ListInOrder
    <3>4. next[p] = m
      BY <2>2, <3>1, <3>3, NextPrev, Numbers
    <3>5. m # Null
      BY <2>2, Numbers
    <3> QED
      BY <1>2, <2>1, <3>2, <3>4, <3>5
  <2> QED
    BY <2>3, <2>4
<1>3. handles \subseteq Visited
    BY <1>2, Numbers DEF Visited
<1> QED
    BY <1>1, <1>3

(* Thus find_entry() finds the entry it is asked for and no other.           *)
LEMMA FoundIsEntry ==
    ASSUME TypeOK, ListInOrder, NoDuplicateEntry, NEW h \in handles
    PROVE  Found(key[h]) = {h}
BY VisitedIsHandles DEF Found, NoDuplicateEntry

LEMMA ExistsIsPresent ==
    ASSUME TypeOK, ListInOrder, NEW kp, ~ entry_exists(kp)
    PROVE  \A h \in handles : key[h] # kp
BY VisitedIsHandles DEF entry_exists, Found

(* Linking the lowest free slot keeps the list in order.                     *)
LEMMA LinkInOrder ==
    ASSUME TypeOK, ListInOrder, NEW h \in Slots, FirstEmpty(h),
           handles' = handles \cup {h}, Link(h)
    PROVE  ListInOrder'
<1>1. /\ h \in Nat \ handles
      /\ \A g \in handles : /\ g \in Slots /\ g # h
                            /\ next[g] \in Int /\ NextIn(handles, g, next[g])
                            /\ prev[g] \in Int /\ PrevIn(handles, g, prev[g])
      /\ FirstIn(handles, head) /\ head \in Int
    BY Numbers DEF ListInOrder, FirstEmpty
<1>2. CASE h = 0
  <2>1. /\ head' = 0 /\ prev'[0] = Null /\ next'[0] = head
        /\ \A g \in handles : /\ next'[g] = next[g]
                              /\ prev'[g] = IF g = head THEN 0 ELSE prev[g]
    BY <1>1, <1>2, Numbers DEF Link, NodePrev, NodeNext
  <2>2. /\ FirstIn(handles \cup {0}, 0) /\ NextIn(handles \cup {0}, 0, head)
        /\ PrevIn(handles \cup {0}, 0, Null)
    BY <1>1, <1>2, ZeroFirst, Numbers
  <2>3. \A g \in handles :
          /\ NextIn(handles \cup {0}, g, next[g])
          /\ PrevIn(handles \cup {0}, g, IF g = head THEN 0 ELSE prev[g])
    BY <1>1, <1>2, ZeroAdd, Numbers
  <2>4. \A g \in handles' : /\ NextIn(handles', g, next'[g])
                            /\ PrevIn(handles', g, prev'[g])
    BY <1>2, <2>1, <2>2, <2>3
  <2>5. FirstIn(handles', head')
    BY <1>2, <2>1, <2>2
  <2> QED
    BY <2>4, <2>5 DEF ListInOrder, FirstIn, NextIn, PrevIn, Null
<1>3. CASE h # 0
  <2>1. h - 1 \in handles
    BY <1>1, <1>3 DEF FirstEmpty
  <2>2. /\ head' = head /\ prev'[h] = h - 1 /\ next'[h] = next[h - 1]
        /\ \A g \in handles :
              /\ next'[g] = IF g = h - 1 THEN h ELSE next[g]
              /\ prev'[g] = IF g = next[h - 1] THEN h ELSE prev[g]
    BY <1>1, <1>3 DEF Link, NodePrev, NodeNext
  <2>3. next[h - 1] \in Int /\ NextIn(handles, h - 1, next[h - 1])
    BY <1>1, <2>1
  <2>4. \A g \in handles :
          /\ NextIn(handles \cup {h}, h, next[h - 1])
          /\ NextIn(handles \cup {h}, g, IF g = h - 1 THEN h ELSE next[g])
    BY <1>1, <2>1, <2>3, NextAdd, Numbers
  <2>5. \A g \in handles :
          /\ PrevIn(handles \cup {h}, h, h - 1)
          /\ PrevIn(handles \cup {h}, g, IF g = next[h - 1] THEN h ELSE prev[g])
    BY <1>1, <2>1, <2>3, PrevAdd, Numbers
  <2>6. \A g \in handles' : /\ NextIn(handles', g, next'[g])
                            /\ PrevIn(handles', g, prev'[g])
    BY <2>1, <2>2, <2>4, <2>5
  <2>7. FirstIn(handles', head')
    BY <1>1, <2>1, <2>2, Numbers DEF FirstIn
  <2> QED
    BY <2>6, <2>7 DEF ListInOrder, FirstIn, NextIn, PrevIn, Null
<1> QED
    BY <1>2, <1>3

(* Unlinking a slot in use keeps it in order.                                *)
LEMMA UnlinkInOrder ==
    ASSUME TypeOK, ListInOrder, NEW h \in handles, handles' = handles \ {h},
           Unlink(h)
    PROVE  ListInOrder'
<1>1. /\ \A g \in handles : /\ g \in Slots
                            /\ next[g] \in Int /\ NextIn(handles, g, next[g])
                            /\ prev[g] \in Int /\ PrevIn(handles, g, prev[g])
      /\ FirstIn(handles, head) /\ head \in Int
    BY Numbers DEF ListInOrder
<1>2. /\ head' = IF prev[h] = Null THEN next[h] ELSE head
      /\ \A g \in handles : next'[g] = IF g = prev[h] THEN next[h] ELSE next[g]
      /\ \A g \in handles : prev'[g] = IF g = next[h] THEN prev[h] ELSE prev[g]
    BY <1>1 DEF Unlink
<1>3. \A g \in handles \ {h} : NextIn(handles', g, next'[g])
  <2> TAKE g \in handles \ {h}
  <2>1. next[g] = h <=> g = prev[h]
    BY <1>1, NextPrev, Numbers
  <2>2. NextIn(handles \ {h}, g, IF next[g] = h THEN next[h] ELSE next[g])
    BY <1>1, NextRemove, Numbers
  <2> QED
    BY <1>2, <2>1, <2>2
<1>4. \A g \in handles \ {h} : PrevIn(handles', g, prev'[g])
  <2> TAKE g \in handles \ {h}
  <2>1. prev[g] = h <=> g = next[h]
    BY <1>1, PrevNext, Numbers
  <2>2. PrevIn(handles \ {h}, g, IF prev[g] = h THEN prev[h] ELSE prev[g])
    BY <1>1, PrevRemove, Numbers
  <2> QED
    BY <1>2, <2>1, <2>2
<1>5. FirstIn(handles', head')
  <2>1. FirstIn(handles \ {h}, IF prev[h] = Null THEN next[h] ELSE head)
    BY <1>1, FirstRemove, Numbers
  <2> QED
    BY <1>2, <2>1
<1> QED
    BY <1>3, <1>4, <1>5 DEF ListInOrder, FirstIn, NextIn, PrevIn, Null

-----------------------------------------------------------------------------
(* The handles of a slot that are gone are those with a version below the    *)
(* slot's, bits a handle does not have included.                             *)
VersionsAhead ==
    \A h \in Slots, v \in 0 .. VersionMod - 1 : <<v, h>> \in gone <=> v < version[h]

(* The inductive invariant: the types need num_entries to count the handles, *)
(* a deletion needs the list and the absence of duplicates, and these need   *)
(* the types.                                                                *)
IInv == TypeOK /\ ListInOrder /\ NoDuplicateEntry /\ EntriesCounted /\ VersionsAhead

LEMMA InitIInv == Init => IInv
<1> SUFFICES ASSUME Init PROVE IInv
    OBVIOUS
<1>1. TypeOK
    BY SizeAssumption, VersionAssumption, TimeoutsAssumption DEF Init, TypeOK
<1>2. EntriesCounted
    BY FS_EmptySet DEF Init, EntriesCounted
<1> QED
    BY <1>1, <1>2 DEF Init, IInv, ListInOrder, FirstIn, NoDuplicateEntry, VersionsAhead

LEMMA AddEntryStep ==
    ASSUME IInv, NEW kp \in PrioKeys, AddEntry(kp)
    PROVE  IInv'
<1> USE DEF IInv
<1>1. PICK h \in 0 .. Size :
         /\ FirstEmpty(h)
         /\ handles' = handles \cup {h}
         /\ num_entries' = num_entries + 1
         /\ key' = [key EXCEPT ![h] = kp]
         /\ meta_version' = [meta_version EXCEPT ![h] = HandleOf(h)[1]]
         /\ Link(h)
    BY DEF AddEntry
<1>2. IsFiniteSet(Slots) /\ Cardinality(Slots) = Size
    BY SizeAssumption, FS_Interval DEF Slots
<1>3. IsFiniteSet(handles)
    BY <1>2, FS_Subset DEF TypeOK
<1>4. h \in Slots
  <2> SUFFICES ASSUME h = Size PROVE FALSE
    BY SizeAssumption DEF Slots
  <2>1. handles = Slots
    BY <1>1 DEF FirstEmpty, TypeOK, Slots
  <2> QED
    BY <1>2, <2>1, SizeAssumption DEF AddEntry, HasRoom, EntriesCounted
<1>5. TypeOK'
  <2>1. num_entries' \in 0 .. Size
    BY <1>1, SizeAssumption DEF TypeOK, AddEntry, HasRoom
  <2>2. HandleOf(h)[1] \in 0 .. VersionMod - 1
    BY <1>4, VersionAssumption DEF HandleOf, TypeOK
  <2>3. NodePrev(h) \in Slots \cup {Null} /\ NodeNext(h) \in Slots \cup {Null}
    BY <1>4, SizeAssumption DEF NodePrev, NodeNext, TypeOK, Slots
  <2>4. /\ head' \in Slots \cup {Null}
        /\ prev' \in [Slots -> Slots \cup {Null}]
        /\ next' \in [Slots -> Slots \cup {Null}]
    BY <1>1, <1>4, <2>3 DEF Link, TypeOK
  <2> QED
    BY <1>1, <1>4, <2>1, <2>2, <2>4 DEF TypeOK, AddEntry
<1>6. ListInOrder'
    BY <1>1, <1>4, LinkInOrder
<1>7. NoDuplicateEntry'
  <2>1. \A g \in handles : key[g] # kp
    BY ExistsIsPresent DEF AddEntry
  <2>2. \A g \in handles' : key'[g] = IF g = h THEN kp ELSE key[g]
    BY <1>1, <1>4 DEF TypeOK
  <2> QED
    BY <1>1, <2>1, <2>2 DEF NoDuplicateEntry
<1>8. EntriesCounted'
  <2>1. Cardinality(handles') = Cardinality(handles) + 1
    BY <1>1, <1>3, FS_AddElement DEF FirstEmpty
  <2> QED
    BY <1>1, <2>1 DEF EntriesCounted
<1> QED
    BY <1>5, <1>6, <1>7, <1>8 DEF VersionsAhead, AddEntry

LEMMA DeleteEntryStep ==
    ASSUME IInv, NEW v \in 0 .. VersionMod - 1, NEW h \in Slots, DeleteEntry(v, h)
    PROVE  IInv'
<1> USE DEF IInv
<1>1. /\ h \in handles /\ v = version[h] /\ handles' = handles \ {h}
      /\ version' = [version EXCEPT ![h] = @ + 1] /\ version[h] < VersionMod
      /\ num_entries' = num_entries - 1 /\ gone' = gone \cup {<<v, h>>}
      /\ UNCHANGED <<key, meta_version, timeout_ms>>
    BY VersionAssumption DEF DeleteEntry, Accepted
<1>2. Unlink(h)
    BY <1>1, FoundIsEntry DEF DeleteEntry
<1>3. IsFiniteSet(handles)
  <2>1. IsFiniteSet(Slots)
    BY SizeAssumption, FS_Interval DEF Slots
  <2> QED
    BY <2>1, FS_Subset DEF TypeOK
<1>4. Cardinality(handles') = num_entries - 1 /\ num_entries # 0
  <2>1. Cardinality(handles \ {h}) = Cardinality(handles) - 1
        /\ Cardinality(handles) # 0
    BY <1>1, <1>3, FS_RemoveElement, FS_EmptySet
  <2> QED
    BY <1>1, <2>1 DEF EntriesCounted
<1>5. TypeOK'
  <2>1. num_entries' \in 0 .. Size
    BY <1>1, <1>4, SizeAssumption DEF TypeOK
  <2>2. version' \in [Slots -> 0 .. VersionMod]
    BY <1>1, VersionAssumption DEF TypeOK
  <2>3. /\ head' \in Slots \cup {Null}
        /\ prev' \in [Slots -> Slots \cup {Null}]
        /\ next' \in [Slots -> Slots \cup {Null}]
    BY <1>2 DEF Unlink, TypeOK
  <2>4. gone' \subseteq (0 .. VersionMod - 1) \X Slots
    BY <1>1 DEF TypeOK
  <2> QED
    BY <1>1, <2>1, <2>2, <2>3, <2>4 DEF TypeOK
<1>6. ListInOrder'
    BY <1>1, <1>2, UnlinkInOrder
<1>7. NoDuplicateEntry'
    BY <1>1 DEF NoDuplicateEntry
<1>8. EntriesCounted'
    BY <1>1, <1>4 DEF EntriesCounted
<1>9. VersionsAhead'
  <2> SUFFICES ASSUME NEW g \in Slots, NEW u \in 0 .. VersionMod - 1
               PROVE  <<u, g>> \in gone' <=> u < version'[g]
    BY DEF VersionsAhead
  <2>1. <<u, g>> \in gone <=> u < version[g]
    BY DEF VersionsAhead
  <2>2. version[g] \in Nat /\ u \in Nat
    BY VersionAssumption DEF TypeOK
  <2>3. CASE g = h
    <3>1. version'[g] = version[g] + 1 /\ (<<u, g>> \in gone' <=> <<u, g>> \in gone \/ u = version[g])
      BY <1>1, <2>3 DEF TypeOK
    <3> QED BY <2>1, <2>2, <3>1
  <2>4. CASE g # h
    BY <1>1, <2>1, <2>4 DEF TypeOK
  <2> QED
    BY <2>3, <2>4
<1> QED
    BY <1>5, <1>6, <1>7, <1>8, <1>9

LEMMA SetEntryTtlStep ==
    ASSUME IInv, NEW h \in Slots, NEW t \in Timeouts, SetEntryTtl(h, t)
    PROVE  IInv'
<1>1. TypeOK'
    BY DEF IInv, TypeOK, SetEntryTtl
<1> QED
    BY <1>1 DEF IInv, SetEntryTtl, ListInOrder, FirstIn, NextIn, PrevIn,
       NoDuplicateEntry, EntriesCounted, VersionsAhead

LEMMA ResetStateStep ==
    ASSUME IInv, ResetState
    PROVE  IInv'
<1>1. TypeOK'
    BY SizeAssumption, VersionAssumption, TimeoutsAssumption
       DEF IInv, TypeOK, ResetState, NewEntries, NoKey
<1>2. EntriesCounted'
    BY FS_EmptySet DEF EntriesCounted, ResetState, NewEntries
<1> QED
    BY <1>1, <1>2 DEF IInv, ResetState, NewEntries, ListInOrder, FirstIn, Null,
       NoDuplicateEntry, VersionsAhead

LEMMA IInvCorrect == Spec => []IInv
<1>1. IInv /\ [Next]_vars => IInv'
  <2> SUFFICES ASSUME IInv, [Next]_vars PROVE IInv'
    OBVIOUS
  <2>1. CASE UNCHANGED vars
    <3>1. TypeOK'
      BY <2>1 DEF IInv, TypeOK, vars
    <3> QED
      BY <2>1, <3>1 DEF vars, IInv, ListInOrder, FirstIn, NextIn, PrevIn,
         NoDuplicateEntry, EntriesCounted, VersionsAhead
  <2> QED
    BY <2>1, AddEntryStep, DeleteEntryStep, SetEntryTtlStep, ResetStateStep DEF Next
<1> QED
    BY <1>1, InitIInv, PTL DEF Spec

(* Every variable keeps its type: above all, no handle is given out past the *)
(* last slot.                                                                *)
THEOREM TypeCorrect == Spec => []TypeOK
<1>1. IInv => TypeOK
    BY DEF IInv
<1> QED
    BY <1>1, IInvCorrect, PTL

(* The list of entries is in the order of the handles.                       *)
THEOREM ListCorrect == Spec => []ListInOrder
<1>1. IInv => ListInOrder
    BY DEF IInv
<1> QED
    BY <1>1, IInvCorrect, PTL

(* No key and priority is in the table twice.                                *)
THEOREM NoDuplicateCorrect == Spec => []NoDuplicateEntry
<1>1. IInv => NoDuplicateEntry
    BY DEF IInv
<1> QED
    BY <1>1, IInvCorrect, PTL

(* num_entries counts the entries.                                           *)
THEOREM CountCorrect == Spec => []EntriesCounted
<1>1. IInv => EntriesCounted
    BY DEF IInv
<1> QED
    BY <1>1, IInvCorrect, PTL

(* The handle of a deleted entry is never accepted for another one.          *)
THEOREM StaleCorrect == Spec => []StaleHandlesRejected
<1>1. IInv => StaleHandlesRejected
  <2> SUFFICES ASSUME IInv, NEW vh \in gone, Accepted(vh[1], vh[2]) PROVE FALSE
    BY DEF StaleHandlesRejected
  <2>1. PICK v \in 0 .. VersionMod - 1, h \in Slots : vh = <<v, h>>
    BY DEF IInv, TypeOK
  <2>2. v < version[h] /\ v = version[h] /\ v \in Int
    BY <2>1 DEF IInv, VersionsAhead, Accepted
  <2> QED
    BY <2>2
<1> QED
    BY <1>1, IInvCorrect, PTL

-----------------------------------------------------------------------------
(* f is x0 at 0 and then step F of its own last value: the function a walk   *)
(* or a rebuild defines exists, by induction over its domain.                *)
Iterates(f, X, x0, F, N) ==
    /\ f \in [0 .. N -> X]
    /\ \A n \in 0 .. N : f[n] = IF n = 0 THEN x0 ELSE F[<<n, f[n - 1]>>]

LEMMA Iteration ==
    ASSUME NEW X, NEW x0 \in X, NEW F \in [Nat \X X -> X], NEW N \in Nat
    PROVE  \E f : Iterates(f, X, x0, F, N)
<1> DEFINE Good(n) == \E f \in [0 .. n -> X] :
                         \A i \in 0 .. n : f[i] = IF i = 0 THEN x0 ELSE F[<<i, f[i - 1]>>]
           Bad == {n \in Nat : ~Good(n)}
<1>1. Bad = {}
  <2> SUFFICES ASSUME Bad # {} PROVE FALSE
    OBVIOUS
  <2>1. PICK m \in Bad : \A n \in Bad : m <= n
    BY LeastElement
  <2>2. CASE m = 0
    <3> DEFINE f == [i \in 0 .. 0 |-> x0]
    <3>1. f \in [0 .. 0 -> X] /\ \A i \in 0 .. 0 : i = 0 /\ f[i] = x0
      OBVIOUS
    <3> HIDE DEF f
    <3>2. Good(0)
      BY <3>1
    <3> QED BY <2>1, <2>2, <3>2
  <2>3. CASE m # 0
    <3>1. m - 1 \in Nat /\ m - 1 \notin Bad
      BY <2>1, <2>3
    <3>2. Good(m - 1)
      BY <3>1
    <3>3. PICK f \in [0 .. m - 1 -> X] :
             \A i \in 0 .. m - 1 : f[i] = IF i = 0 THEN x0 ELSE F[<<i, f[i - 1]>>]
      BY <3>2
    <3> DEFINE g == [i \in 0 .. m |-> IF i = m THEN F[<<m, f[m - 1]>>] ELSE f[i]]
    <3>4. F[<<m, f[m - 1]>>] \in X
      BY <2>1, <2>3
    <3>5. g \in [0 .. m -> X]
      BY <3>4
    <3>6. ASSUME NEW i \in 0 .. m
          PROVE  g[i] = IF i = 0 THEN x0 ELSE F[<<i, g[i - 1]>>]
      <4>1. CASE i = m
        <5>1. g[i] = F[<<m, f[m - 1]>>] /\ i # 0 /\ g[i - 1] = f[m - 1]
          BY <4>1, <2>1, <2>3
        <5> QED BY <4>1, <5>1
      <4>2. CASE i # m
        <5>1. i \in 0 .. m - 1 /\ g[i] = f[i]
          BY <4>2, <2>1
        <5>2. i # 0 => g[i - 1] = f[i - 1]
          BY <4>2, <2>1
        <5>3. f[i] = IF i = 0 THEN x0 ELSE F[<<i, f[i - 1]>>]
          BY <3>3, <5>1
        <5> HIDE DEF g
        <5> QED BY <5>1, <5>2, <5>3
      <4> QED BY <4>1, <4>2
    <3>7. Good(m)
      BY <3>5, <3>6
    <3> QED BY <2>1, <3>7
  <2> QED BY <2>2, <2>3
<1>2. Good(N)
  BY <1>1
<1> QED BY <1>2 DEF Iterates

(* The walk of lookup(): where it is after n nodes and the best it has met.  *)
LEMMA WalkIs ==
    ASSUME TypeOK, NEW pkt
    PROVE  \E w : /\ MinEntry(pkt) = w[Size][2]
                  /\ w[0] = <<head, Null>>
                  /\ \A n \in 1 .. Size :
                        w[n] = LET h == w[n - 1][1]  best == w[n - 1][2]
                               IN  IF h = Null THEN w[n - 1]
                                   ELSE <<next[h], IF Better(h, best, pkt) THEN h ELSE best>>
<1> DEFINE X == (Slots \cup {Null}) \X (Slots \cup {Null})
           step(x) == LET h == x[1]  best == x[2]
                      IN  IF h = Null THEN x
                          ELSE <<next[h], IF Better(h, best, pkt) THEN h ELSE best>>
           F == [nx \in Nat \X X |-> step(nx[2])]
           W == CHOOSE walk : walk = [n \in 0 .. Size |->
                   IF n = 0 THEN <<head, Null>> ELSE step(walk[n - 1])]
<1>1. MinEntry(pkt) = W[Size][2]
    BY DEF MinEntry
<1>2. <<head, Null>> \in X /\ Size \in Nat
    BY SizeAssumption DEF TypeOK
<1>3. \A x \in X : step(x) \in X
    BY DEF TypeOK
<1>4. F \in [Nat \X X -> X]
    BY <1>3
<1>5. \A n \in Nat, x \in X : F[<<n, x>>] = step(x)
    OBVIOUS
<1> HIDE DEF F, X
<1>6. PICK f \in [0 .. Size -> X] :
          \A n \in 0 .. Size : f[n] = IF n = 0 THEN <<head, Null>> ELSE F[<<n, f[n - 1]>>]
  <2> DEFINE x0 == <<head, Null>>
  <2>1. x0 \in X
    BY <1>2
  <2> HIDE DEF x0
  <2>2. \E f : Iterates(f, X, x0, F, Size)
    BY <1>2, <1>4, <2>1, Iteration
  <2> QED BY <2>2 DEF x0, Iterates
<1>7. f = [n \in 0 .. Size |-> IF n = 0 THEN <<head, Null>> ELSE step(f[n - 1])]
  <2>1. ASSUME NEW n \in 0 .. Size, n # 0 PROVE f[n] = step(f[n - 1])
    <3>1. n - 1 \in 0 .. Size /\ n \in Nat
      BY <1>2, <2>1
    <3> QED BY <1>5, <1>6, <2>1, <3>1
  <2> HIDE DEF step
  <2> QED BY <1>6, <2>1
<1> HIDE DEF step
<1>8. W = [n \in 0 .. Size |-> IF n = 0 THEN <<head, Null>> ELSE step(W[n - 1])]
    BY <1>7
<1> HIDE DEF W
<1>9. W[0] = <<head, Null>> /\ \A n \in 1 .. Size : W[n] = step(W[n - 1])
  <2> DEFINE s(n) == IF n = 0 THEN <<head, Null>> ELSE step(W[n - 1])
  <2>1. W = [n \in 0 .. Size |-> s(n)]
    BY <1>8
  <2> HIDE DEF s
  <2>2. \A n \in 0 .. Size : W[n] = s(n)
    BY <2>1
  <2> QED BY <1>2, <2>2 DEF s
<1> QED
    BY <1>1, <1>9 DEF step

(* The entries in use have keys.                                             *)
Keyed == \A h \in handles : key[h] \in PrioKeys

(* The entries a walk that has come to node h has met.                       *)
Met(h) == {g \in handles : h = Null \/ g < h}

LEMMA MetNext ==
    ASSUME TypeOK, ListInOrder, NEW h \in handles
    PROVE  Met(next[h]) = Met(h) \cup {h}
<1>1. NextIn(handles, h, next[h]) /\ next[h] \in Int /\ h \in Slots /\ h # Null
    BY Numbers DEF ListInOrder
<1>2. handles \subseteq Nat /\ Null \notin handles
    BY Numbers
<1>3. ASSUME NEW g \in handles
      PROVE  (next[h] = Null \/ g < next[h]) <=> (g < h \/ g = h)
  <2>1. g \in Nat /\ h \in Nat
    BY <1>2
  <2>2. CASE next[h] = Null
    <3>1. g <= h
      BY <1>1, <1>2, <2>2 DEF NextIn
    <3> QED BY <2>1, <2>2, <3>1
  <2>3. CASE next[h] # Null
    <3>1. h < next[h] /\ (g <= h \/ next[h] <= g)
      BY <1>1, <2>3 DEF NextIn
    <3> QED BY <1>1, <2>1, <2>3, <3>1
  <2> QED BY <2>2, <2>3
<1> QED
    BY <1>1, <1>3 DEF Met

LEMMA BetterStep ==
    ASSUME TypeOK, Keyed, NEW pkt, NEW h \in handles, NEW best,
           IsBest(Hits(pkt) \cap Met(h), best)
    PROVE  IsBest(Hits(pkt) \cap (Met(h) \cup {h}),
                  IF Better(h, best, pkt) THEN h ELSE best)
<1> DEFINE H == Hits(pkt) \cap Met(h)
           prio(g) == key[g][2]
<1>1. /\ \A g \in handles : prio(g) \in Int
      /\ MaxPrio \in Int /\ handles \subseteq Nat /\ Null \notin handles
    BY PriosAssumption, Numbers DEF Keyed, PrioKeys
<1>2. \A g \in H : g \in handles /\ g < h /\ prio(g) < MaxPrio
    BY Numbers DEF Hits, Met
<1>3. h \in Hits(pkt) <=> pkt \in Matches[key[h][1]] /\ prio(h) < MaxPrio
    BY DEF Hits
<1>4. Better(h, best, pkt) <=> /\ prio(h) < (IF best = Null THEN MaxPrio ELSE prio(best))
                               /\ pkt \in Matches[key[h][1]]
    BY DEF Better
<1>5. Hits(pkt) \cap (Met(h) \cup {h}) = IF h \in Hits(pkt) THEN H \cup {h} ELSE H
    OBVIOUS
<1>6. IF H = {} THEN best = Null
      ELSE /\ best \in H
           /\ \A g \in H : prio(best) < prio(g) \/ (prio(best) = prio(g) /\ best <= g)
    BY DEF IsBest
<1> HIDE DEF H, prio
<1>7. CASE H = {}
  <2>1. Better(h, best, pkt) <=> h \in Hits(pkt)
    BY <1>3, <1>4, <1>6, <1>7
  <2>2. CASE h \in Hits(pkt)
    <3>1. Hits(pkt) \cap (Met(h) \cup {h}) = {h}
      BY <1>5, <1>7, <2>2
    <3>2. h <= h
      BY <1>1
    <3> QED BY <2>1, <2>2, <3>1, <3>2 DEF IsBest
  <2>3. CASE h \notin Hits(pkt)
    BY <1>5, <1>6, <1>7, <2>1, <2>3 DEF IsBest
  <2> QED BY <2>2, <2>3
<1>8. CASE H # {}
  <2>1. /\ best \in H /\ best # Null /\ best < h /\ prio(best) \in Int /\ prio(h) \in Int
        /\ prio(best) < MaxPrio
    BY <1>1, <1>2, <1>6, <1>8
  <2>2. CASE Better(h, best, pkt)
    <3>1. prio(h) < prio(best) /\ h \in Hits(pkt)
      BY <1>1, <1>3, <1>4, <2>1, <2>2
    <3>2. ASSUME NEW g \in H \cup {h}
          PROVE  prio(h) < prio(g) \/ (prio(h) = prio(g) /\ h <= g)
      <4>1. CASE g = h
        BY <4>1, <1>1
      <4>2. CASE g \in H
        <5>1. prio(g) \in Int
          BY <4>2, <1>1, <1>2
        <5>2. prio(best) < prio(g) \/ prio(best) = prio(g)
          BY <4>2, <1>6, <1>8
        <5>3. prio(h) < prio(g)
          BY <2>1, <3>1, <5>1, <5>2
        <5> QED BY <5>3
      <4> QED BY <4>1, <4>2
    <3> QED BY <1>5, <2>2, <3>1, <3>2 DEF IsBest, prio
  <2>3. CASE ~Better(h, best, pkt)
    <3>1. h \in Hits(pkt) => prio(best) < prio(h) \/ (prio(best) = prio(h) /\ best <= h)
      <4>1. h \in Hits(pkt) => ~(prio(h) < prio(best))
        BY <1>3, <1>4, <2>1, <2>3
      <4>2. best \in Nat /\ h \in Nat
        BY <1>1, <1>2, <2>1
      <4> QED BY <2>1, <4>1, <4>2
    <3>2. \A g \in Hits(pkt) \cap (Met(h) \cup {h}) :
             prio(best) < prio(g) \/ (prio(best) = prio(g) /\ best <= g)
      BY <1>5, <1>6, <1>8, <3>1
    <3>3. best \in Hits(pkt) \cap (Met(h) \cup {h})
      BY <1>5, <2>1
    <3> QED BY <2>3, <3>2, <3>3 DEF IsBest, prio
  <2> QED BY <2>2, <2>3
<1> QED
    BY <1>7, <1>8

(* The walk ends with the best of all entries: after n nodes it is at a slot *)
(* not below n, and it has the best of those it has met.                     *)
LEMMA WalkFindsBest ==
    ASSUME TypeOK, ListInOrder, Keyed, NEW pkt
    PROVE  IsBest(Hits(pkt), MinEntry(pkt))
<1>1. PICK w : /\ MinEntry(pkt) = w[Size][2]
               /\ w[0] = <<head, Null>>
               /\ \A n \in 1 .. Size :
                     w[n] = LET h == w[n - 1][1]  best == w[n - 1][2]
                            IN  IF h = Null THEN w[n - 1]
                                ELSE <<next[h], IF Better(h, best, pkt) THEN h ELSE best>>
    BY WalkIs
<1> DEFINE at(n) == w[n][1]
           best(n) == w[n][2]
           Good(n) == /\ at(n) \in handles \cup {Null}
                      /\ at(n) # Null => at(n) >= n
                      /\ IsBest(Hits(pkt) \cap Met(at(n)), best(n))
           Bad == {n \in 0 .. Size : ~Good(n)}
<1>2. /\ at(0) = head /\ best(0) = Null
      /\ \A n \in 1 .. Size :
            /\ at(n - 1) = Null => at(n) = at(n - 1) /\ best(n) = best(n - 1)
            /\ at(n - 1) # Null =>
                  /\ at(n) = next[at(n - 1)]
                  /\ best(n) = IF Better(at(n - 1), best(n - 1), pkt) THEN at(n - 1)
                               ELSE best(n - 1)
  <2>1. at(0) = head /\ best(0) = Null
    BY <1>1
  <2>2. ASSUME NEW n \in 1 .. Size
        PROVE  w[n] = IF at(n - 1) = Null THEN w[n - 1]
                      ELSE <<next[at(n - 1)],
                             IF Better(at(n - 1), best(n - 1), pkt) THEN at(n - 1)
                             ELSE best(n - 1)>>
    BY <1>1
  <2>3. ASSUME NEW n \in 1 .. Size
        PROVE  /\ at(n - 1) = Null => at(n) = at(n - 1) /\ best(n) = best(n - 1)
               /\ at(n - 1) # Null =>
                     /\ at(n) = next[at(n - 1)]
                     /\ best(n) = IF Better(at(n - 1), best(n - 1), pkt) THEN at(n - 1)
                                  ELSE best(n - 1)
    <3>1. CASE at(n - 1) = Null
      <4>1. w[n] = w[n - 1]
        BY <2>2, <3>1
      <4> QED BY <3>1, <4>1
    <3>2. CASE at(n - 1) # Null
      <4> DEFINE a == at(n - 1)
                 c == IF Better(at(n - 1), best(n - 1), pkt) THEN at(n - 1)
                      ELSE best(n - 1)
      <4>1. w[n] = <<next[a], c>>
        BY <2>2, <3>2
      <4> HIDE DEF a, c
      <4>2. at(n) = next[a] /\ best(n) = c
        BY <4>1
      <4> QED BY <3>2, <4>2 DEF a, c
    <3> QED BY <3>1, <3>2
  <2> QED BY <2>1, <2>3
<1>3. MinEntry(pkt) = best(Size)
    BY <1>1
<1> HIDE DEF at, best
<1>4. Size \in Nat /\ handles \subseteq Nat /\ handles \subseteq Slots
    BY SizeAssumption, Numbers
<1>5. Bad = {}
  <2> SUFFICES ASSUME Bad # {} PROVE FALSE
    OBVIOUS
  <2>1. Bad \in SUBSET Nat
    OBVIOUS
  <2> HIDE DEF Good
  <2>2. PICK m \in Bad : \A n \in Bad : m <= n
    BY <2>1, LeastElement
  <2>3. m \in 0 .. Size /\ ~Good(m)
    BY <2>2
  <2>6. \A n \in 0 .. Size : n < m => Good(n)
    BY <2>2, <2>3
  <2> HIDE DEF Bad
  <2>4. CASE m = 0
    <3>1. head \in handles \cup {Null} /\ Met(head) = {}
      BY Numbers DEF ListInOrder, FirstIn, Met
    <3>2. head # Null => head >= 0
      BY <1>4, <3>1
    <3>3. IsBest(Hits(pkt) \cap Met(head), Null)
      BY <3>1 DEF IsBest
    <3> QED BY <1>2, <2>3, <2>4, <3>1, <3>2, <3>3 DEF Good
  <2>5. CASE m # 0
    <3>1. m - 1 \in 0 .. Size /\ m - 1 < m /\ m \in 1 .. Size
      BY <1>4, <2>3, <2>5
    <3>2. Good(m - 1)
      BY <2>6, <3>1
    <3> DEFINE h == at(m - 1)
               b == best(m - 1)
    <3>3. /\ h \in handles \cup {Null} /\ (h # Null => h >= m - 1)
          /\ IsBest(Hits(pkt) \cap Met(h), b)
      BY <3>2 DEF Good
    <3>4. CASE h = Null
      <4>1. at(m) = Null /\ best(m) = b
        BY <1>2, <3>1, <3>4
      <4> QED BY <2>3, <3>3, <3>4, <4>1 DEF Good
    <3>5. CASE h # Null
      <4>1. /\ at(m) = next[h]
            /\ best(m) = IF Better(h, b, pkt) THEN h ELSE b
        BY <1>2, <3>1, <3>5
      <4> HIDE DEF h, b
      <4>2. h \in handles
        BY <3>3, <3>5
      <4>3. Met(next[h]) = Met(h) \cup {h}
        BY <4>2, MetNext
      <4>4. IsBest(Hits(pkt) \cap Met(at(m)), best(m))
        BY <3>3, <4>1, <4>2, <4>3, BetterStep
      <4>5. NextIn(handles, h, next[h]) /\ h \in Nat
        BY <1>4, <4>2 DEF ListInOrder
      <4>6. at(m) \in handles \cup {Null} /\ (at(m) # Null => at(m) >= m)
        <5>1. at(m) = Null \/ (at(m) \in handles /\ h < at(m))
          BY <4>1, <4>5 DEF NextIn
        <5>2. CASE at(m) \in handles /\ h < at(m)
          <6>1. at(m) \in Nat
            BY <1>4, <5>2
          <6>2. h >= m - 1
            BY <3>3, <3>5
          <6>3. m \in Nat
            BY <2>3
          <6> QED BY <4>5, <5>2, <6>1, <6>2, <6>3
        <5> QED BY <5>1, <5>2
      <4> QED BY <2>3, <4>4, <4>6 DEF Good
    <3> QED BY <3>4, <3>5
  <2> QED BY <2>4, <2>5
<1>6. Good(Size)
    BY <1>4, <1>5
<1>7. at(Size) = Null
  <2>1. at(Size) \in handles \cup {Null} /\ (at(Size) # Null => at(Size) >= Size)
    BY <1>6
  <2>2. \A h \in handles : ~(h >= Size)
    BY <1>4 DEF Slots
  <2> QED BY <2>1, <2>2
<1>8. Hits(pkt) \cap Met(at(Size)) = Hits(pkt)
    BY <1>7 DEF Met, Hits
<1> QED
    BY <1>3, <1>6, <1>8

-----------------------------------------------------------------------------
(* An entry is stored with the key and the priority it was added with.       *)
LEMMA KeyedCorrect == Spec => []Keyed
<1>1. Init => Keyed
    BY DEF Init, Keyed
<1>2. IInv /\ Keyed /\ [Next]_vars => Keyed'
  <2> SUFFICES ASSUME IInv, Keyed, [Next]_vars PROVE Keyed'
    OBVIOUS
  <2>1. TypeOK
    BY DEF IInv
  <2>2. ASSUME NEW kp \in PrioKeys, AddEntry(kp) PROVE Keyed'
    <3>1. PICK h \in 0 .. Size : handles' = handles \cup {h} /\ key' = [key EXCEPT ![h] = kp]
      BY <2>2 DEF AddEntry
    <3>2. handles' \subseteq Slots
      BY <2>2, AddEntryStep DEF IInv, TypeOK
    <3>3. key \in [Slots -> PrioKeys \cup {NoKey}] /\ h \in Slots
      BY <2>1, <3>1, <3>2 DEF TypeOK
    <3>4. ASSUME NEW g \in handles' PROVE key'[g] \in PrioKeys
      <4>1. g \in Slots /\ (g = h \/ g \in handles)
        BY <3>1, <3>2
      <4> QED BY <3>1, <3>3, <4>1 DEF Keyed
    <3> QED BY <3>4 DEF Keyed
  <2>3. ASSUME NEW v, NEW h, DeleteEntry(v, h) PROVE Keyed'
    BY <2>3 DEF DeleteEntry, Keyed
  <2>4. ASSUME NEW h, NEW t, SetEntryTtl(h, t) PROVE Keyed'
    BY <2>4 DEF SetEntryTtl, Keyed
  <2>5. CASE ResetState
    BY <2>5 DEF ResetState, NewEntries, Keyed
  <2>6. CASE UNCHANGED vars
    BY <2>6 DEF vars, Keyed
  <2> QED
    BY <2>2, <2>3, <2>4, <2>5, <2>6 DEF Next
<1> QED
    BY <1>1, <1>2, IInvCorrect, PTL DEF Spec

(* The head of the list is the lowest slot in use.                           *)
LEMMA HeadIsFirst ==
    ASSUME TypeOK, ListInOrder, handles # {}
    PROVE  head \in handles /\ \A h \in handles : head <= h
BY DEF ListInOrder, FirstIn

(* lookup() finds the matching entry of least priority, the lowest slot      *)
(* among equals, and answers with its distance from the lowest slot in use,  *)
(* for a table of any size and any history of additions and deletions.       *)
THEOREM LookupCorrect == Spec => []LookupFromHead
<1>1. ASSUME IInv, Keyed PROVE LookupFromHead
  <2> USE <1>1 DEF IInv
  <2> SUFFICES ASSUME NEW pkt \in Packets
               PROVE  IF Hits(pkt) = {} THEN lookup(pkt) = Null
                      ELSE \E first \in handles, best \in Hits(pkt) :
                              /\ \A h \in handles : first <= h
                              /\ IsBest(Hits(pkt), best)
                              /\ lookup(pkt) = best - first
    BY DEF LookupFromHead
  <2>1. IsBest(Hits(pkt), MinEntry(pkt))
    BY WalkFindsBest
  <2>2. CASE Hits(pkt) = {}
    BY <2>1, <2>2 DEF IsBest, lookup
  <2>3. CASE Hits(pkt) # {}
    <3>1. MinEntry(pkt) \in Hits(pkt)
      BY <2>1, <2>3 DEF IsBest
    <3>2. MinEntry(pkt) \in handles /\ MinEntry(pkt) # Null
      BY <3>1, Numbers DEF Hits
    <3>3. head \in handles /\ \A h \in handles : head <= h
      BY <3>2, HeadIsFirst
    <3>4. lookup(pkt) = MinEntry(pkt) - head
      BY <3>2 DEF lookup, handle_from_entry
    <3> QED
      BY <2>1, <2>3, <3>1, <3>3, <3>4
  <2> QED
    BY <2>2, <2>3
<1> QED
    BY <1>1, IInvCorrect, KeyedCorrect, PTL

(* As long as slot 0 is in use, the answer of lookup() is the handle of the  *)
(* best entry.                                                               *)
LEMMA LookupWithSlotZero ==
    ASSUME IInv, LookupFromHead, 0 \in handles, NEW pkt \in Packets, Hits(pkt) # {}
    PROVE  IsBest(Hits(pkt), lookup(pkt))
<1>1. PICK first \in handles, best \in Hits(pkt) :
         /\ \A h \in handles : first <= h
         /\ IsBest(Hits(pkt), best)
         /\ lookup(pkt) = best - first
    BY DEF LookupFromHead
<1>2. handles \subseteq Nat /\ best \in handles
    BY Numbers DEF IInv, Hits
<1>3. first = 0 /\ best - 0 = best
    BY <1>1, <1>2
<1> QED
    BY <1>1, <1>3

-----------------------------------------------------------------------------
(* The refinement of EntryTable.  The list shows the entries in use.         *)
LEMMA ListedIs ==
    ASSUME IInv
    PROVE  /\ DOMAIN Listed = {HandleOf(h) : h \in handles}
           /\ \A h \in handles : Listed[HandleOf(h)] = key[h]
<1>1. DOMAIN Listed = {HandleOf(h) : h \in handles}
    BY VisitedIsHandles DEF IInv, Listed
<1>2. \A h : HandleOf(h)[2] = h
    BY DEF HandleOf
<1> QED
    BY <1>1, <1>2 DEF Listed

LEMMA VisitedNext == IInv' => Visited' = handles'
<1>1. IInv => Visited = handles
    BY VisitedIsHandles DEF IInv
<1>2. (IInv => Visited = handles)'
    BY <1>1, PTL
<1> QED
    BY <1>2

(* A handle that was used before is given out when all of the slot were.     *)
LEMMA RunOut ==
    ASSUME IInv, NEW h \in Slots, HandleOf(h) \in gone
    PROVE  \A v \in 0 .. VersionMod - 1 : <<v, h>> \in gone
<1>1. version[h] \in 0 .. VersionMod /\ VersionMod \in Nat \ {0}
    BY VersionAssumption DEF IInv, TypeOK
<1>2. CASE version[h] < VersionMod
  <2>1. HandleOf(h) = <<version[h], h>> /\ version[h] \in 0 .. VersionMod - 1
    BY <1>1, <1>2 DEF HandleOf
  <2>2. version[h] < version[h]
    BY <2>1 DEF IInv, VersionsAhead
  <2> QED
    BY <1>1, <2>2
<1>3. CASE version[h] = VersionMod
    BY <1>1, <1>3 DEF IInv, VersionsAhead
<1> QED
    BY <1>1, <1>2, <1>3

LEMMA AddEntryAdds ==
    ASSUME IInv, IInv', NEW kp \in PrioKeys, AddEntry(kp)
    PROVE  \E v \in 0 .. VersionMod - 1, h \in Slots : Table!Add(kp, v, h)
<1>1. PICK h \in 0 .. Size : /\ FirstEmpty(h)
                             /\ handles' = handles \cup {h}
                             /\ key' = [key EXCEPT ![h] = kp]
    BY DEF AddEntry
<1>2. h \in Slots /\ h \notin handles /\ UNCHANGED <<version, gone>>
    BY <1>1 DEF IInv, TypeOK, FirstEmpty, AddEntry
<1> DEFINE v == version[h] % VersionMod
           new == HandleOf(h)
<1>3. v \in 0 .. VersionMod - 1 /\ new = <<v, h>>
    BY <1>2, VersionAssumption DEF IInv, TypeOK, HandleOf
<1>4. \A handle \in DOMAIN Listed : Listed[handle] # kp
  <2>1. \A g \in handles : key[g] # kp
    BY ExistsIsPresent DEF IInv, AddEntry
  <2> QED BY <2>1, ListedIs
<1>5. new \in gone => \A u \in 0 .. VersionMod - 1 : <<u, h>> \in gone
    BY <1>2, RunOut
<1>6. /\ DOMAIN Listed = {HandleOf(g) : g \in handles}
      /\ \A g \in handles : Listed[HandleOf(g)] = key[g]
      /\ \A g : HandleOf(g)[2] = g
    BY ListedIs DEF HandleOf
<1>7. \A u : <<u, h>> \notin DOMAIN Listed
  <2> SUFFICES ASSUME NEW u, <<u, h>> \in DOMAIN Listed PROVE FALSE
    OBVIOUS
  <2>1. PICK g \in handles : <<u, h>> = HandleOf(g)
    BY <1>6
  <2>2. g = h
    BY <2>1 DEF HandleOf
  <2> QED BY <1>2, <2>2
<1>8. Listed' = [vh \in {HandleOf(g) : g \in handles'} |-> key'[vh[2]]]
  <2>1. Visited' = handles'
    BY VisitedNext
  <2> QED BY <1>2, <2>1 DEF Listed, HandleOf
<1>9. {HandleOf(g) : g \in handles'} = DOMAIN Listed \cup {new}
    BY <1>1, <1>6
<1>10. \A vh \in DOMAIN Listed \cup {new} :
          key'[vh[2]] = IF vh = new THEN kp ELSE Listed[vh]
  <2> SUFFICES ASSUME NEW vh \in DOMAIN Listed \cup {new}
               PROVE  key'[vh[2]] = IF vh = new THEN kp ELSE Listed[vh]
    OBVIOUS
  <2>1. key \in [Slots -> PrioKeys \cup {NoKey}] /\ handles \subseteq Slots
    BY DEF IInv, TypeOK
  <2>2. CASE vh = new
    <3>1. vh[2] = h
      BY <1>6, <2>2
    <3> QED BY <1>1, <1>2, <2>1, <2>2, <3>1
  <2>3. CASE vh # new
    <3>1. PICK g \in handles : vh = HandleOf(g)
      BY <1>6, <2>3
    <3>2. g # h /\ g \in Slots /\ vh[2] = g
      BY <1>2, <1>6, <2>1, <3>1
    <3> QED BY <1>1, <1>6, <2>1, <2>3, <3>1, <3>2
  <2> QED BY <2>2, <2>3
<1> HIDE DEF v, new
<1>11. Listed' = [vh \in DOMAIN Listed \cup {new} |-> IF vh = new THEN kp ELSE Listed[vh]]
    BY <1>8, <1>9, <1>10
<1>12. Table!Add(kp, v, h)
    BY <1>2, <1>3, <1>4, <1>5, <1>7, <1>11 DEF Table!Add, Table!Free, Table!WornOut
<1> QED
    BY <1>2, <1>3, <1>12

LEMMA DeleteEntryDeletes ==
    ASSUME IInv, IInv', NEW v \in 0 .. VersionMod - 1, NEW h \in Slots, DeleteEntry(v, h)
    PROVE  <<v, h>> \in DOMAIN Listed /\ Table!Delete(<<v, h>>)
<1>1. /\ h \in handles /\ v = version[h] /\ handles' = handles \ {h}
      /\ version' = [version EXCEPT ![h] = @ + 1] /\ UNCHANGED key
      /\ gone' = gone \cup {<<v, h>>}
    BY DEF DeleteEntry, Accepted
<1>2. HandleOf(h) = <<v, h>>
    BY <1>1, VersionAssumption DEF HandleOf
<1>3. <<v, h>> \notin gone
    BY <1>1 DEF IInv, VersionsAhead
<1>4. /\ DOMAIN Listed = {HandleOf(g) : g \in handles}
      /\ \A g \in handles : Listed[HandleOf(g)] = key[g]
      /\ \A g : HandleOf(g)[2] = g
    BY ListedIs DEF HandleOf
<1>5. \A g \in handles' : version'[g] = version[g] /\ g # h /\ g \in handles
    BY <1>1 DEF IInv, TypeOK
<1>6. Listed' = [vh \in {HandleOf(g) : g \in handles'} |-> key[vh[2]]]
  <2>1. Visited' = handles'
    BY VisitedNext
  <2>2. {HandleOf(g)' : g \in handles'} = {HandleOf(g) : g \in handles'}
    BY <1>5 DEF HandleOf
  <2>3. Listed' = [vh \in {HandleOf(g)' : g \in handles'} |-> key[vh[2]]]
    BY <1>1, <2>1 DEF Listed, HandleOf
  <2> QED BY <2>2, <2>3
<1>7. {HandleOf(g) : g \in handles'} = DOMAIN Listed \ {<<v, h>>}
  <2>1. \A g \in handles : HandleOf(g) = <<v, h>> <=> g = h
    BY <1>2, <1>4
  <2> QED BY <1>1, <1>4, <2>1
<1>8. \A vh \in DOMAIN Listed : key[vh[2]] = Listed[vh]
    BY <1>4
<1>9. Listed' = [vh \in DOMAIN Listed \ {<<v, h>>} |-> Listed[vh]]
    BY <1>6, <1>7, <1>8
<1>10. <<v, h>> \in DOMAIN Listed
    BY <1>1, <1>2, <1>4
<1> QED
    BY <1>1, <1>3, <1>9, <1>10 DEF Table!Delete

(* For a table of any size, and through any sequence of add_entry(),         *)
(* delete_entry(), set_entry_ttl() and reset_state(): the entries that the   *)
(* walks of lookup() and find_entry() meet come and go one by one under the  *)
(* handles add_entry() returns, each of which deletes one entry at most and  *)
(* is given out again only when all those of its slot were used.             *)
THEOREM EntryTableImplemented == Spec => HandlesNameEntries
<1>1. ASSUME IInv, head = Null PROVE Listed = <<>>
  <2>1. handles = {}
    BY <1>1, Numbers DEF IInv, ListInOrder, FirstIn
  <2>2. Visited = {}
    BY <1>1, <2>1, VisitedIsHandles DEF IInv
  <2> QED BY <2>2 DEF Listed
<1>2. Init => Table!Init
    BY <1>1, InitIInv DEF Init, Table!Init
<1>3. IInv /\ IInv' /\ [Next]_vars => [Table!Next]_(Table!vars)
  <2> SUFFICES ASSUME IInv, IInv', [Next]_vars PROVE [Table!Next]_(Table!vars)
    OBVIOUS
  <2>1. ASSUME NEW kp \in PrioKeys, AddEntry(kp) PROVE Table!Next
    BY <2>1, AddEntryAdds DEF Table!Next
  <2>2. ASSUME NEW v \in 0 .. VersionMod - 1, NEW h \in Slots, DeleteEntry(v, h)
        PROVE  Table!Next
    BY <2>2, DeleteEntryDeletes DEF Table!Next
  <2>3. ASSUME NEW h, NEW t, SetEntryTtl(h, t) PROVE UNCHANGED Table!vars
    BY <2>3 DEF SetEntryTtl, Table!vars, Listed, Visited, HandleOf
  <2>4. CASE ResetState
    <3>1. head' = Null /\ gone' = {}
      BY <2>4 DEF ResetState, NewEntries
    <3>2. handles' = {}
      BY <2>4 DEF ResetState, NewEntries
    <3>3. Visited' = {}
      BY <3>1 DEF Visited, Null
    <3>4. Listed' = <<>>
      BY <3>3 DEF Listed
    <3> QED BY <3>1, <3>4 DEF Table!Next, Table!Reset
  <2>5. CASE UNCHANGED vars
    BY <2>5 DEF vars, Table!vars, Listed, Visited, HandleOf
  <2> QED
    BY <2>1, <2>2, <2>3, <2>4, <2>5 DEF Next
<1> QED
    BY <1>2, <1>3, IInvCorrect, PTL DEF Spec, HandlesNameEntries, Table!Spec
=============================================================================
