------------------------------ MODULE MatchUnit ------------------------------
(***************************************************************************)
(* The match unit of a ternary or range table (MatchUnitGeneric, in        *)
(* src/bm_sim/match_units.cpp): the entries in their slots, the handles    *)
(* HandleMgr gives out, and the lookup structure (EntryList, in            *)
(* lookup_structures.cpp), a doubly linked list threaded through an array  *)
(* of nodes, one for each slot.                                            *)
(*                                                                         *)
(* The operations run under the write lock of the table and are one step   *)
(* each; one that returns an error is no step.  A handle that the client   *)
(* sees is a slot and the low bits of the slot's version.  Values, hit     *)
(* counters and timestamps are stored and never looked at: left out.       *)
(* Writing the table to a file and reading it back are left out as well:   *)
(* deserialize_() gives the list a pointer to a key that is gone.          *)
(***************************************************************************)
EXTENDS Integers, FiniteSets

CONSTANTS
    Size,          \* the number of slots
    VersionMod,    \* a handle holds version % VersionMod (256 in the code)
    Keys,          \* match keys: data, mask and widths
    Packets,       \* the values that are looked up
    Matches,       \* for each key, the packets it matches
    Prios,         \* the priorities entries are given
    MaxPrio,       \* numeric_limits<int>::max()
    Timeouts       \* the timeouts entries are given, 0 for none

Slots == 0 .. Size - 1
Null == -1   \* nullptr

ASSUME SizeAssumption == Size \in Nat
ASSUME VersionAssumption == VersionMod \in Nat \ {0}
ASSUME KeysAssumption == Matches \in [Keys -> SUBSET Packets]
ASSUME PriosAssumption == MaxPrio \in Int /\ \A p \in Prios : p \in Int /\ p <= MaxPrio
ASSUME TimeoutsAssumption == 0 \in Timeouts

VARIABLES
    handles, num_entries,
    key,                       \* key and priority of each slot, kept on release
    version,                   \* entries[h].key.version, all of its bits
    meta_version, timeout_ms,  \* entry_meta[h]
    head, prev, next,          \* the list of entries
    gone                       \* the handles of deleted entries

vars == <<handles, num_entries, key, version, meta_version, timeout_ms,
          head, prev, next, gone>>

NoKey == <<"none", MaxPrio>>
PrioKeys == Keys \X Prios

(* Every variable has its type.  A version stops one past what a handle can   *)
(* hold, so its 32 bits do not overflow.                                     *)
TypeOK ==
    /\ handles \subseteq Slots
    /\ num_entries \in 0 .. Size
    /\ key \in [Slots -> PrioKeys \cup {NoKey}]
    /\ version \in [Slots -> 0 .. VersionMod]
    /\ meta_version \in [Slots -> 0 .. VersionMod - 1]
    /\ timeout_ms \in [Slots -> Timeouts]
    /\ head \in Slots \cup {Null}
    /\ prev \in [Slots -> Slots \cup {Null}]
    /\ next \in [Slots -> Slots \cup {Null}]
    /\ gone \subseteq (0 .. VersionMod - 1) \X Slots

Init ==
    /\ handles = {} /\ num_entries = 0
    /\ key = [h \in Slots |-> NoKey] /\ version = [h \in Slots |-> 0]
    /\ meta_version = [h \in Slots |-> 0] /\ timeout_ms = [h \in Slots |-> 0]
    /\ head = Null
    /\ prev = [h \in Slots |-> Null] /\ next = [h \in Slots |-> Null]
    /\ gone = {}

-----------------------------------------------------------------------------
(* EntryList.  The nodes a walk from the head meets.                         *)
Visited ==
    {h \in Slots : \A S \in SUBSET Slots :
        (/\ head # Null => head \in S
         /\ \A g \in S : next[g] # Null => next[g] \in S) => h \in S}

(* find_entry(): a node of the list with this key and priority.              *)
Found(kp) == {h \in Visited : key[h] = kp}

(* lookup(): the walk keeps the first of the matching nodes whose priority   *)
(* is least; the first form of the test keeps the last one.  The answer is   *)
(* the distance of that node from the head, Null if none matches: lookup_key *)
(* takes it for the handle of the entry.                                     *)
BetterOrSame(h, best, pkt) ==
    /\ key[h][2] <= (IF best = Null THEN MaxPrio ELSE key[best][2])
    /\ pkt \in Matches[key[h][1]]

Better(h, best, pkt) ==
    /\ key[h][2] < (IF best = Null THEN MaxPrio ELSE key[best][2])
    /\ pkt \in Matches[key[h][1]]

handle_from_entry(h) == h - head

MinEntry(pkt) ==
    LET walk[n \in 0 .. Size] ==   \* the node reached and the best so far
          IF n = 0 THEN <<head, Null>>
          ELSE LET h == walk[n - 1][1]  best == walk[n - 1][2]
               IN  IF h = Null THEN walk[n - 1]
                   ELSE <<next[h], IF Better(h, best, pkt) THEN h ELSE best>>
    IN  walk[Size][2]

lookup(pkt) ==
    IF MinEntry(pkt) = Null THEN Null ELSE handle_from_entry(MinEntry(pkt))

(* add(): the node of slot h goes after that of slot h - 1, or first.        *)
NodePrev(h) == IF h = 0 THEN Null ELSE h - 1
NodeNext(h) == IF h = 0 THEN head ELSE next[h - 1]

Link(h) ==
    /\ head' = IF h = 0 THEN h ELSE head
    /\ prev' = [g \in Slots |-> IF g = h THEN NodePrev(h)
                                ELSE IF g = NodeNext(h) THEN h ELSE prev[g]]
    /\ next' = [g \in Slots |-> IF g = h THEN NodeNext(h)
                                ELSE IF g = NodePrev(h) THEN h ELSE next[g]]

(* delete_entry().  The first form forgets to step back over the node.       *)
UnlinkForwardOnly(h) ==
    /\ head' = IF prev[h] = Null THEN next[h] ELSE head
    /\ next' = [g \in Slots |-> IF g = prev[h] THEN next[h] ELSE next[g]]
    /\ UNCHANGED prev

Unlink(h) ==
    /\ head' = IF prev[h] = Null THEN next[h] ELSE head
    /\ next' = [g \in Slots |-> IF g = prev[h] THEN next[h] ELSE next[g]]
    /\ prev' = [g \in Slots |-> IF g = next[h] THEN prev[h] ELSE prev[g]]

-----------------------------------------------------------------------------
(* HandleMgr::get_handle(): the lowest handle that is free.                  *)
FirstEmpty(h) == h \notin handles /\ \A g \in 0 .. h - 1 : g \in handles

(* HANDLE_SET and the comparison of HANDLE_VERSION with the version.  The    *)
(* first form compares the bits a handle has.                                *)
HandleOf(h) == <<version[h] % VersionMod, h>>
AcceptedByBits(v, h) == h \in handles /\ v = version[h] % VersionMod
Accepted(v, h) == h \in handles /\ v = version[h]

(* entry_exists()                                                            *)
entry_exists(kp) == Found(kp) # {}

(* get_and_set_handle() and a form with an off-by-one.                       *)
OneTooMany == num_entries <= Size
HasRoom == num_entries < Size

AddEntry(kp) ==
    /\ ~ entry_exists(kp)
    /\ HasRoom
    /\ \E h \in 0 .. Size :
          /\ FirstEmpty(h)
          /\ handles' = handles \cup {h}
          /\ num_entries' = num_entries + 1
          /\ key' = [key EXCEPT ![h] = kp]
          /\ meta_version' = [meta_version EXCEPT ![h] = HandleOf(h)[1]]
          /\ Link(h)
    /\ UNCHANGED <<version, timeout_ms, gone>>

DeleteEntry(v, h) ==
    /\ Accepted(v, h)
    /\ version' = [version EXCEPT ![h] = @ + 1]
    /\ \E g \in Found(key[h]) : Unlink(g)
    /\ handles' = handles \ {h}
    /\ num_entries' = num_entries - 1
    /\ gone' = gone \cup {<<v, h>>}
    /\ UNCHANGED <<key, meta_version, timeout_ms>>

(* set_entry_ttl(): the version of the handle is not compared.               *)
SetEntryTtl(h, t) ==
    /\ h \in handles
    /\ timeout_ms' = [timeout_ms EXCEPT ![h] = t]
    /\ UNCHANGED <<handles, num_entries, key, version, meta_version, head,
                   prev, next, gone>>

(* reset_state(): clear() leaves the links of the nodes as they are.         *)
NewEntries ==
    /\ handles' = {}
    /\ key' = [h \in Slots |-> NoKey] /\ version' = [h \in Slots |-> 0]
    /\ meta_version' = [h \in Slots |-> 0] /\ timeout_ms' = [h \in Slots |-> 0]
    /\ head' = Null
    /\ gone' = {}
    /\ UNCHANGED <<prev, next>>

ResetState == NewEntries /\ num_entries' = 0

Next ==
    \/ \E kp \in PrioKeys : AddEntry(kp)
    \/ \E v \in 0 .. VersionMod - 1, h \in Slots : DeleteEntry(v, h)
    \/ \E h \in Slots, t \in Timeouts : SetEntryTtl(h, t)
    \/ ResetState

Spec == Init /\ [][Next]_vars

-----------------------------------------------------------------------------
FirstIn(H, f) ==
    \/ f = Null /\ H = {}
    \/ f \in H /\ \A g \in H : f <= g
NextIn(H, h, n) ==
    \/ n = Null /\ \A g \in H : g <= h
    \/ n \in H /\ h < n /\ \A g \in H : g <= h \/ n <= g
PrevIn(H, h, p) ==
    \/ p = Null /\ \A g \in H : h <= g
    \/ p \in H /\ p < h /\ \A g \in H : g <= p \/ h <= g

(* The list holds the slots in use in the order of their handles, forwards   *)
(* and backwards: add() may rely on the node of the handle before it.        *)
ListInOrder ==
    /\ FirstIn(handles, head)
    /\ \A h \in handles : NextIn(handles, h, next[h])
    /\ \A h \in handles : PrevIn(handles, h, prev[h])

(* No two entries have the same key and priority, however entries come, go   *)
(* and take over slots, so that find_entry() finds the entry to delete.      *)
NoDuplicateEntry == \A g, h \in handles : key[g] = key[h] => g = h

(* num_entries counts the handles in use: TABLE_FULL is returned before a    *)
(* handle past the last slot could be given out.                             *)
EntriesCounted == num_entries = Cardinality(handles)

(* No handle of a deleted entry is taken for the entry that has its slot     *)
(* now, however often the version has gone round.                            *)
StaleHandlesRejected == \A vh \in gone : ~ Accepted(vh[1], vh[2])

(* The entries that a walk of the list meets, under the handles that the     *)
(* control plane was given for them.                                         *)
Listed == [vh \in {HandleOf(h) : h \in Visited} |-> key[vh[2]]]

Table == INSTANCE EntryTable
            WITH Versions <- 0 .. VersionMod - 1, entries <- Listed, retired <- gone

(* Whatever slots are reused and however often a version goes round, add()   *)
(* puts one entry on the list under a handle that no entry has, a deletion   *)
(* takes off the one entry its handle names and works once for each handle,  *)
(* no walk loses another entry, and a handle is given out a second time only *)
(* when the versions of its slot have run out: the match unit does what      *)
(* EntryTable says.                                                          *)
HandlesNameEntries == Table!Spec

Hits(pkt) == {h \in handles : pkt \in Matches[key[h][1]] /\ key[h][2] < MaxPrio}

(* Of the entries H, best is the one of least priority, the lowest slot      *)
(* among equals; Null if there is none.                                      *)
IsBest(H, best) ==
    IF H = {} THEN best = Null
    ELSE /\ best \in H
         /\ \A h \in H : \/ key[best][2] < key[h][2]
                         \/ key[best][2] = key[h][2] /\ best <= h

(* lookup() finds the matching entry of least priority, whatever slots were  *)
(* reused, and answers with its distance from the lowest slot in use: its    *)
(* handle as long as slot 0 is in use, that of another slot when it is not.  *)
LookupFromHead ==
    \A pkt \in Packets :
       IF Hits(pkt) = {} THEN lookup(pkt) = Null
       ELSE \E first \in handles, best \in Hits(pkt) :
               /\ \A h \in handles : first <= h
               /\ IsBest(Hits(pkt), best)
               /\ lookup(pkt) = best - first

(* What LookupStructure promises of lookup(): the handle it sets is that of  *)
(* an entry that matches.  It is not when slot 0 is free.                    *)
LookupReturnsMatch ==
    \A pkt \in Packets : lookup(pkt) # Null =>
        lookup(pkt) \in handles /\ pkt \in Matches[key[lookup(pkt)][1]]
=============================================================================
