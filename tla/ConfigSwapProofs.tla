-------------------------- MODULE ConfigSwapProofs --------------------------
(***************************************************************************)
(* Proofs about ConfigSwap, for any configurations, CLIs, packets and      *)
(* bounds: types, no use of objects that a swap has freed, and a CLI that  *)
(* agrees with the objects it loaded.                                      *)
(***************************************************************************)
EXTENDS ConfigSwap, TLAPS

----------------------------------------------------------------------------
(* The inductive invariant.                                                *)

\* From the end of the spin until the factory is set there is no packet.
Quiet == rx \in {"swap", "factory"} => \A p \in Slots : phv[p] = 0

\* What holds of the slot of a packet: no thread handles a packet that is not there.
SlotOK(p) ==
    /\ phv[p] \in {0, p4objects.id}
    /\ used[p] \in {0, phv[p]}

PoolOK ==
    rx # "factory" =>
        /\ phv_factory = p4objects.id
        /\ \A i \in Ids : pool[i] > 0 => i = phv_factory

\* What holds of the CLI that built p4objects_rt, at each point of its command.
LoaderOK(c) ==
    /\ cmd[c] # "off"
    /\ cmd[c] = "idle" => cli[c] = p4objects_rt.config
    /\ cmd[c] \in {"publish", "cache"} => arg[c] = p4objects_rt.config

PacketInv == Quiet /\ PoolOK /\ \A p \in Slots : SlotOK(p)

LoaderInv == \A c \in loader : LoaderOK(c)

Inv == TypeOK /\ PacketInv /\ LoaderInv

LEMMA InvInit == Init => Inv
<1> SUFFICES ASSUME Init PROVE Inv
    OBVIOUS
<1>1. TypeOK
  <2>1. 1 \in Ids
    BY BoundAssumption DEF Ids
  <2>2. PICK config \in Configs : p4objects = [id |-> 1, config |-> config]
    BY DEF Init
  <2>3. p4objects \in Objects /\ p4objects_rt = p4objects
    BY <2>1, <2>2 DEF Init, Objects
  <2>4. pool \in [Ids -> Nat] /\ stalled \subseteq Slots
    BY DEF Init
  <2>5. arg \in [Clis -> Configs] /\ cli \in [Clis -> Configs]
    BY DEF Init
  <2>6. phv \in [Slots -> Ids \cup {0}] /\ used \in [Slots -> Ids \cup {0}]
    BY DEF Init
  <2>7. cmd \in [Clis -> {"off", "idle", "publish", "cache"}]
    BY DEF Init
  <2>8. swap_ordered \in BOOLEAN /\ aborted \in BOOLEAN /\ current_config \in Configs
    BY Zenon DEF Init
  <2>9. rx = "idle" /\ phv_factory \in Ids /\ loader \subseteq Clis
    BY <2>1 DEF Init
  <2> QED
    BY <2>3, <2>4, <2>5, <2>6, <2>7, <2>8, <2>9 DEF TypeOK
<1>2. PacketInv
    BY <1>1 DEF Init, PacketInv, Quiet, PoolOK, SlotOK, Ids
<1>3. LoaderInv
    BY DEF Init, LoaderInv
<1> QED
    BY <1>1, <1>2, <1>3 DEF Inv

----------------------------------------------------------------------------
(* Packets.                                                                *)

\* A PHV from the pool is one of the objects in use.
LEMMA GetStep ==
    ASSUME Inv, NEW p \in Slots, Get(p), rx # "factory"
    PROVE  /\ pool' \in [Ids -> Nat]
           /\ phv' = [phv EXCEPT ![p] = p4objects.id]
           /\ \A i \in Ids : pool'[i] > 0 => pool[i] > 0
<1>1. CASE /\ \A i \in Ids : pool[i] = 0
           /\ phv' = [phv EXCEPT ![p] = phv_factory]
           /\ UNCHANGED pool
    BY <1>1 DEF Inv, TypeOK, PacketInv, PoolOK
<1>2. CASE \E i \in Ids : /\ pool[i] > 0
                          /\ pool' = [pool EXCEPT ![i] = @ - 1]
                          /\ phv' = [phv EXCEPT ![p] = i]
  <2>1. PICK i \in Ids : /\ pool[i] > 0
                         /\ pool' = [pool EXCEPT ![i] = @ - 1]
                         /\ phv' = [phv EXCEPT ![p] = i]
    BY <1>2
  <2>2. i = p4objects.id
    BY <2>1 DEF Inv, PacketInv, PoolOK
  <2>3. pool[i] \in Nat /\ pool[i] - 1 \in Nat
    BY <2>1 DEF Inv, TypeOK
  <2>4. pool' \in [Ids -> Nat]
    BY <2>1, <2>3 DEF Inv, TypeOK
  <2>5. \A j \in Ids : pool'[j] > 0 => pool[j] > 0
    BY <2>1, <2>3 DEF Inv, TypeOK
  <2> QED
    BY <2>1, <2>2, <2>4, <2>5
<1> QED
    BY <1>1, <1>2 DEF Get

LEMMA PacketsStep ==
    ASSUME Inv, Packets, UNCHANGED <<switchVars, aborted, cliVars>>
    PROVE  Inv'
<1> USE DEF Inv
<1>1. PICK p \in Slots : Take(p) \/ Enqueue(p) \/ Release(p) \/ Stall(p)
                          \/ \E q \in Slots : Copy(p, q)
    BY DEF Packets
<1>2. /\ UNCHANGED <<p4objects, p4objects_rt, swap_ordered, current_config, loader, aborted>>
      /\ UNCHANGED <<cmd, arg, cli, rx, phv_factory>>
    BY <1>1 DEF switchVars, cliVars, Take, Enqueue, Release, Stall, Copy
<1>3. p4objects.id \in Ids /\ 0 \notin Ids
    BY DEF TypeOK, Objects, Ids
<1>4. phv[p] # 0 /\ phv[p] = p4objects.id /\ rx \notin {"swap", "factory"}
    BY <1>1, <1>3 DEF Take, Running, Enqueue, Release, Stall, Copy, PacketInv, SlotOK, Quiet
<1>5. LoaderInv'
    BY <1>2 DEF LoaderInv, LoaderOK
<1>6. CASE Take(p)
  <2>1. TypeOK'
    BY <1>2, <1>3, <1>6 DEF Take, TypeOK
  <2>2. PacketInv'
    BY <1>2, <1>4, <1>6 DEF Take, TypeOK, PacketInv, Quiet, PoolOK, SlotOK
  <2> QED
    BY <1>5, <2>1, <2>2
<1>7. CASE Enqueue(p)
  <2>2. TypeOK'
    BY <1>2, <1>7 DEF Enqueue, TypeOK
  <2>3. PacketInv'
    BY <1>2, <1>4, <1>7 DEF Enqueue, TypeOK, PacketInv, Quiet, PoolOK, SlotOK
  <2> QED
    BY <1>5, <2>2, <2>3
<1>8. CASE Release(p)
  <2>1. pool' \in [Ids -> Nat]
    BY <1>4, <1>8 DEF Release, TypeOK
  <2>2. TypeOK'
    BY <1>2, <1>8, <2>1 DEF Release, TypeOK
  <2>3. PoolOK'
    <3>1. \A i \in Ids : i # p4objects.id => pool'[i] = pool[i]
        BY <1>3, <1>4, <1>8 DEF Release, TypeOK
    <3> QED
        BY <1>2, <1>4, <3>1 DEF PacketInv, PoolOK
  <2>4. PacketInv'
    BY <1>2, <1>4, <1>8, <2>3 DEF Release, TypeOK, PacketInv, Quiet, SlotOK
  <2> QED
    BY <1>5, <2>2, <2>4
<1>9. ASSUME NEW q \in Slots, Copy(p, q) PROVE Inv'
  <2>1. /\ pool' \in [Ids -> Nat]
        /\ phv' = [phv EXCEPT ![q] = p4objects.id]
        /\ \A i \in Ids : pool'[i] > 0 => pool[i] > 0
    BY <1>4, <1>9, GetStep DEF Copy
  <2>3. TypeOK'
    BY <1>2, <1>3, <1>9, <2>1 DEF Copy, TypeOK
  <2>4. phv[q] = 0 /\ used' = used
    BY <1>9 DEF Copy
  <2>5. \A r \in Slots : SlotOK(r)'
    BY <1>2, <2>1, <2>4 DEF TypeOK, PacketInv, SlotOK
  <2>6. Quiet' /\ PoolOK'
    BY <1>2, <1>4, <2>1 DEF PacketInv, Quiet, PoolOK
  <2> QED
    BY <1>5, <2>3, <2>5, <2>6 DEF PacketInv
<1>10. CASE Stall(p)
  <2>1. TypeOK'
    BY <1>2, <1>10 DEF Stall, TypeOK
  <2>2. PacketInv'
    BY <1>2, <1>10 DEF Stall, PacketInv, Quiet, PoolOK, SlotOK
  <2> QED
    BY <1>5, <2>1, <2>2
<1> QED
    BY <1>1, <1>6, <1>7, <1>8, <1>9, <1>10

----------------------------------------------------------------------------
(* The thread in receive().                                                *)

LEMMA RxStep ==
    ASSUME Inv, Rx, UNCHANGED <<aborted, cliVars>>
    PROVE  Inv'
<1> USE DEF Inv
<1>1. /\ UNCHANGED <<p4objects_rt, current_config, loader, aborted, cmd, arg, cli, used, stalled>>
    BY DEF Rx, Receive, Spin, Commit, SetFactory, NewPacket, switchVars, cliVars
<1>2. LoaderInv'
    BY <1>1 DEF LoaderInv, LoaderOK
<1>3. CASE Receive \/ Spin
  <2>1. /\ UNCHANGED <<p4objects, swap_ordered, phv_factory, pool, phv>>
        /\ rx # "factory" /\ rx' \in {"spin", "new", "swap"}
        /\ rx' = "swap" => Live = {}
    BY <1>3 DEF Receive, Spin, switchVars
  <2>2. TypeOK'
    BY <1>1, <2>1 DEF TypeOK
  <2>3. PacketInv'
    BY <1>1, <2>1 DEF PacketInv, Quiet, PoolOK, SlotOK, Live
  <2> QED
    BY <1>2, <2>2, <2>3
<1>4. CASE Commit
  <2>1. \A p \in Slots : phv[p] = 0
    BY <1>4 DEF Commit, PacketInv, Quiet
  <2>2. TypeOK'
    BY <1>1, <1>4 DEF Commit, TypeOK
  <2>3. PacketInv'
    BY <1>1, <1>4, <2>1 DEF Commit, PacketInv, Quiet, PoolOK, SlotOK
  <2> QED
    BY <1>2, <2>2, <2>3
<1>5. CASE SetFactory
  <2>1. TypeOK'
    BY <1>1, <1>5 DEF SetFactory, switchVars, TypeOK, Objects
  <2>2. PacketInv'
    BY <1>1, <1>5 DEF SetFactory, switchVars, PacketInv, Quiet, PoolOK, SlotOK
  <2> QED
    BY <1>2, <2>1, <2>2
<1>6. CASE NewPacket
  <2>1. PICK p \in Slots : phv[p] = 0 /\ Get(p)
    BY <1>6 DEF NewPacket
  <2>2. /\ UNCHANGED <<p4objects, swap_ordered, phv_factory>> /\ rx = "new" /\ rx' = "idle"
    BY <1>6 DEF NewPacket, switchVars
  <2>3. /\ pool' \in [Ids -> Nat]
        /\ phv' = [phv EXCEPT ![p] = p4objects.id]
        /\ \A i \in Ids : pool'[i] > 0 => pool[i] > 0
    BY <2>1, <2>2, GetStep
  <2>4. TypeOK'
    <3>1. p4objects.id \in Ids
        BY DEF TypeOK, Objects
    <3> QED
        BY <1>1, <2>2, <2>3, <3>1 DEF TypeOK
  <2>5. \A r \in Slots : SlotOK(r)'
    BY <1>1, <2>1, <2>2, <2>3 DEF TypeOK, PacketInv, SlotOK
  <2>6. Quiet' /\ PoolOK'
    BY <2>2, <2>3 DEF PacketInv, Quiet, PoolOK
  <2> QED
    BY <1>2, <2>4, <2>5, <2>6 DEF PacketInv
<1> QED
    BY <1>3, <1>4, <1>5, <1>6 DEF Rx

----------------------------------------------------------------------------
(* The CLIs.                                                               *)

LEMMA CliStep ==
    ASSUME Inv, NEW c \in Clis, Cli(c), UNCHANGED packetVars
    PROVE  Inv'
<1> USE DEF Inv
<1>1. UNCHANGED <<p4objects, rx, phv_factory, pool, phv, used, stalled>>
    BY DEF Cli, Start, Load, Publish, Cache, Swap, TableCommand, switchVars, packetVars
<1>2. PacketInv'
    BY <1>1 DEF PacketInv, Quiet, PoolOK, SlotOK
<1>3. ASSUME NEW config \in Configs, Start(c, config) PROVE Inv'
  <2>1. TypeOK'
    BY <1>1, <1>3 DEF Start, TypeOK, switchVars
  <2>2. c \notin loader
    BY <1>3 DEF Start, LoaderInv, LoaderOK
  <2>3. LoaderInv'
    BY <1>3, <2>2 DEF Start, TypeOK, switchVars, LoaderInv, LoaderOK
  <2> QED
    BY <1>2, <2>1, <2>3
<1>4. ASSUME NEW config \in Configs, Load(c, config) PROVE Inv'
  <2>1. p4objects_rt' \in Objects /\ p4objects_rt'.config = config
    BY <1>4, BoundAssumption DEF Load, TypeOK, Objects, Ids
  <2>2. TypeOK'
    BY <1>1, <1>4, <2>1 DEF Load, TypeOK
  <2>3. LoaderInv'
    BY <1>4, <2>1 DEF Load, TypeOK, LoaderInv, LoaderOK
  <2> QED
    BY <1>2, <2>2, <2>3
<1>5. CASE Publish(c)
  <2>1. TypeOK'
    BY <1>1, <1>5 DEF Publish, TypeOK
  <2>2. LoaderInv'
    BY <1>5 DEF Publish, TypeOK, LoaderInv, LoaderOK
  <2> QED
    BY <1>2, <2>1, <2>2
<1>6. CASE Cache(c)
  <2>1. TypeOK'
    BY <1>1, <1>6 DEF Cache, TypeOK, switchVars
  <2>2. LoaderInv'
    BY <1>6 DEF Cache, TypeOK, switchVars, LoaderInv, LoaderOK
  <2> QED
    BY <1>2, <2>1, <2>2
<1>7. CASE Swap(c) \/ \E name \in Names : TableCommand(c, name)
  <2>1. TypeOK'
    BY <1>1, <1>7 DEF Swap, TableCommand, TypeOK, switchVars, cliVars
  <2>2. LoaderInv'
    BY <1>7 DEF Swap, TableCommand, switchVars, cliVars, LoaderInv, LoaderOK
  <2> QED
    BY <1>2, <2>1, <2>2
<1> QED
    BY <1>3, <1>4, <1>5, <1>6, <1>7 DEF Cli

LEMMA InvNext == Inv /\ [Next]_vars => Inv'
<1> SUFFICES ASSUME Inv, [Next]_vars PROVE Inv'
    OBVIOUS
<1>1. CASE UNCHANGED vars
    BY <1>1 DEF vars, switchVars, packetVars, cliVars, Inv, TypeOK, PacketInv, Quiet, PoolOK,
                SlotOK, LoaderInv, LoaderOK
<1> QED
    BY <1>1, PacketsStep, RxStep, CliStep DEF Next

LEMMA InvAlways == Spec => []Inv
BY InvInit, InvNext, PTL DEF Spec

(* Every variable keeps its type: no PHV is taken from an empty pool.        *)
THEOREM TypeCorrect == Spec => []TypeOK
<1>1. Inv => TypeOK
    BY DEF Inv
<1> QED
    BY <1>1, InvAlways, PTL

(* do_swap() frees the old objects when no packet uses them any more, and    *)
(* none of their PHVs is handed out afterwards.                              *)
THEOREM ObjectsCorrect == Spec => []NoDanglingObjects
<1>1. Inv => NoDanglingObjects
    BY DEF Inv, PacketInv, PoolOK, SlotOK, NoDanglingObjects, Live
<1> QED
    BY <1>1, InvAlways, PTL

(* The CLI that loaded the objects behind the runtime API caches their       *)
(* configuration when it is ready for the next command.                      *)
THEOREM LoaderCorrect == Spec => []LoaderInSync
<1>1. Inv => LoaderInSync
    BY DEF Inv, LoaderInv, LoaderOK, LoaderInSync
<1> QED
    BY <1>1, InvAlways, PTL

=============================================================================
