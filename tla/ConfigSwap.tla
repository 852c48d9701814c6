----------------------------- MODULE ConfigSwap -----------------------------
(***************************************************************************)
(* The live replacement of the P4 configuration of a switch: Context with  *)
(* the objects that packets use (p4objects) and those that the runtime API *)
(* acts upon (p4objects_rt), the pool of PHVs, the thread that receives    *)
(* packets and commits the swap, and the runtime CLIs, each with a cache   *)
(* of the configuration (TABLES, ACTIONS, ...) and an RPC thread of its    *)
(* own in the switch (TThreadedServer).                                    *)
(*                                                                         *)
(* The switch has one context, as bm::Switch has, and swaps are enabled.   *)
(* A call that the switch refuses (ONGOING_SWAP, NO_ONGOING_SWAP) changes  *)
(* nothing anywhere: the CLI prints the error.                             *)
(***************************************************************************)
EXTENDS Naturals

CONSTANTS
    Configs,    \* JSON configurations
    Names,      \* names of tables
    TablesOf,   \* the tables of each configuration
    Clis,       \* runtime CLIs; one that is run again is another one
    Slots,      \* bounds the packets that exist at a time
    MaxObjects  \* bound on the P4Objects built

ASSUME TablesAssumption == TablesOf \in [Configs -> SUBSET Names]
ASSUME BoundAssumption == MaxObjects \in Nat \ {0}

VARIABLES
    p4objects, p4objects_rt, \* shared pointers, to [id, config]
    swap_ordered,
    current_config,          \* what bm_get_config answers
    aborted,                 \* an assertion failed
    rx,                      \* where the thread in receive() is
    phv_factory,             \* the objects whose factory makes PHVs
    pool,                    \* the number of free PHVs made from each objects
    phv,                     \* the objects that the PHV of a packet comes from, 0: no packet
    used,                    \* the objects that the thread with the packet uses, 0: none
    stalled,                 \* the packets whose thread is blocked for ever
    cmd,                     \* what each CLI is doing
    arg,                     \* the configuration it was given
    cli,                     \* the configuration it caches
    loader                   \* history: the CLI that built p4objects_rt

switchVars == <<p4objects, p4objects_rt, swap_ordered, current_config, loader>>
packetVars == <<rx, phv_factory, pool, phv, used, stalled>>
cliVars == <<cmd, arg, cli>>
vars == <<switchVars, aborted, packetVars, cliVars>>

Ids == 1 .. MaxObjects

Objects == [id : Ids, config : Configs]

\* Every variable has its type.
TypeOK ==
    /\ p4objects \in Objects
    /\ p4objects_rt \in Objects
    /\ swap_ordered \in BOOLEAN
    /\ current_config \in Configs
    /\ aborted \in BOOLEAN
    /\ rx \in {"idle", "spin", "swap", "factory", "new"}
    /\ phv_factory \in Ids
    /\ pool \in [Ids -> Nat]
    /\ phv \in [Slots -> Ids \cup {0}]
    /\ used \in [Slots -> Ids \cup {0}]
    /\ stalled \subseteq Slots
    /\ cmd \in [Clis -> {"off", "idle", "publish", "cache"}]
    /\ arg \in [Clis -> Configs]
    /\ cli \in [Clis -> Configs]
    /\ loader \subseteq Clis

\* init_objects() of the switch with the configuration of its command line.
Init ==
    \E config \in Configs :
        /\ p4objects = [id |-> 1, config |-> config]
        /\ p4objects_rt = p4objects
        /\ swap_ordered = FALSE
        /\ current_config = config
        /\ aborted = FALSE
        /\ rx = "idle"
        /\ phv_factory = 1
        /\ pool = [i \in Ids |-> 0]
        /\ phv = [p \in Slots |-> 0]
        /\ used = [p \in Slots |-> 0]
        /\ stalled = {}
        /\ cmd = [c \in Clis |-> "off"]
        /\ arg = [c \in Clis |-> config]
        /\ cli = [c \in Clis |-> config]
        /\ loader = {}

----------------------------------------------------------------------------
(* The pool of PHVs, and packets.                                          *)

Live == {p \in Slots : phv[p] # 0}

\* A deviation: a free PHV is taken for granted.
GetUnchecked(p) ==
    \E i \in Ids :
        /\ pool' = [pool EXCEPT ![i] = @ - 1]
        /\ phv' = [phv EXCEPT ![p] = i]

\* PHVPool::get(), for packet p: a free PHV, or a new one when there is none.
Get(p) ==
    \/ /\ \A i \in Ids : pool[i] = 0
       /\ phv' = [phv EXCEPT ![p] = phv_factory]
       /\ UNCHANGED pool
    \/ \E i \in Ids :
          /\ pool[i] > 0
          /\ pool' = [pool EXCEPT ![i] = @ - 1]
          /\ phv' = [phv EXCEPT ![p] = i]

\* A thread takes the packet from a queue and looks up the parser, the pipeline or the
\* deparser.
Take(p) ==
    /\ phv[p] # 0
    /\ used[p] = 0
    /\ used' = [used EXCEPT ![p] = p4objects.id]
    /\ UNCHANGED <<rx, phv_factory, pool, phv, stalled>>

\* What it does next, unless it is blocked.
Running(p) == used[p] # 0 /\ p \notin stalled

\* It makes a copy: cloning, replication, resubmission or recirculation.
Copy(p, q) ==
    /\ Running(p)
    /\ phv[q] = 0
    /\ Get(q)
    /\ UNCHANGED <<rx, phv_factory, used, stalled>>

\* It passes the packet on to the next queue.
Enqueue(p) ==
    /\ Running(p)
    /\ used' = [used EXCEPT ![p] = 0]
    /\ UNCHANGED <<rx, phv_factory, pool, phv, stalled>>

\* It drops or transmits it: the PHV goes back to the pool.
Release(p) ==
    /\ Running(p)
    /\ pool' = [pool EXCEPT ![phv[p]] = @ + 1]
    /\ phv' = [phv EXCEPT ![p] = 0]
    /\ used' = [used EXCEPT ![p] = 0]
    /\ UNCHANGED <<rx, phv_factory, stalled>>

\* It blocks for ever: the ingress thread resubmits the packet to an input buffer that is
\* full and that nobody else empties (IngressWaitsForItself of SimpleSwitch), or waits in
\* learn() for a notification that does not come (the run learn_two_waiters of LearnList).
Stall(p) ==
    /\ Running(p)
    /\ stalled' = stalled \cup {p}
    /\ UNCHANGED <<rx, phv_factory, pool, phv, used>>

Packets ==
    \E p \in Slots :
        Take(p) \/ Enqueue(p) \/ Release(p) \/ Stall(p) \/ \E q \in Slots : Copy(p, q)

----------------------------------------------------------------------------
(* SimpleSwitch::receive() and do_swap().                                  *)

\* The check for a swap that was ordered.
Receive ==
    /\ rx = "idle"
    /\ rx' = IF swap_ordered THEN "spin" ELSE "new"
    /\ UNCHANGED <<switchVars, phv_factory, pool, phv, used, stalled>>

\* A deviation: packets that wait in queues are not waited for.
SpinForThreads ==
    /\ rx = "spin"
    /\ \A p \in Slots : used[p] = 0
    /\ rx' = "swap"
    /\ UNCHANGED <<switchVars, phv_factory, pool, phv, used, stalled>>

\* The spin until no PHV is in use.
Spin ==
    /\ rx = "spin"
    /\ Live = {}
    /\ rx' = "swap"
    /\ UNCHANGED <<switchVars, phv_factory, pool, phv, used, stalled>>

\* A deviation: the order is not reset.
CommitKeepsOrder ==
    /\ rx = "swap"
    /\ p4objects' = p4objects_rt
    /\ rx' = "factory"
    /\ UNCHANGED <<p4objects_rt, swap_ordered, current_config, loader, phv_factory, pool, phv,
                   used, stalled>>

\* Context::do_swap().
Commit ==
    /\ rx = "swap"
    /\ p4objects' = p4objects_rt
    /\ swap_ordered' = FALSE
    /\ rx' = "factory"
    /\ UNCHANGED <<p4objects_rt, current_config, loader, phv_factory, pool, phv, used, stalled>>

\* PHVPool::set_phv_factory().
SetFactory ==
    /\ rx = "factory"
    /\ phv_factory' = p4objects.id
    /\ pool' = [i \in Ids |-> 0]
    /\ rx' = "new"
    /\ UNCHANGED <<switchVars, phv, used, stalled>>

\* new_packet_ptr() and the push to the input buffer.
NewPacket ==
    /\ rx = "new"
    /\ rx' = "idle"
    /\ \E p \in Slots : phv[p] = 0 /\ Get(p)
    /\ UNCHANGED <<switchVars, phv_factory, used, stalled>>

Rx == Receive \/ Spin \/ Commit \/ SetFactory \/ NewPacket

----------------------------------------------------------------------------
(* The CLIs and the runtime API.                                           *)

\* main(): the configuration comes from the switch, or from a file whose checksum is
\* compared, with nothing but a warning when it differs.
Start(c, config) ==
    /\ cmd[c] = "off"
    /\ cmd' = [cmd EXCEPT ![c] = "idle"]
    /\ cli' = [cli EXCEPT ![c] = config]
    /\ UNCHANGED <<switchVars, aborted, arg>>

\* load_new_config_file: Context::load_new_config() builds the objects.
Load(c, config) ==
    /\ cmd[c] = "idle"
    /\ p4objects = p4objects_rt
    /\ p4objects_rt.id < MaxObjects
    /\ p4objects_rt' = [id |-> p4objects_rt.id + 1, config |-> config]
    /\ loader' = {c}
    /\ cmd' = [cmd EXCEPT ![c] = "publish"]
    /\ arg' = [arg EXCEPT ![c] = config]
    /\ UNCHANGED <<p4objects, swap_ordered, current_config, aborted, cli>>

\* A deviation: a CLI that does not read the configuration it loaded.
PublishOnly(c) ==
    /\ cmd[c] = "publish"
    /\ current_config' = arg[c]
    /\ cmd' = [cmd EXCEPT ![c] = "idle"]
    /\ UNCHANGED <<p4objects, p4objects_rt, swap_ordered, loader, aborted, arg, cli>>

\* The end of SwitchWContexts::load_new_config(), under another lock.
Publish(c) ==
    /\ cmd[c] = "publish"
    /\ current_config' = arg[c]
    /\ cmd' = [cmd EXCEPT ![c] = "cache"]
    /\ UNCHANGED <<p4objects, p4objects_rt, swap_ordered, loader, aborted, arg, cli>>

\* The call returned: load_json_str().
Cache(c) ==
    /\ cmd[c] = "cache"
    /\ cli' = [cli EXCEPT ![c] = arg[c]]
    /\ cmd' = [cmd EXCEPT ![c] = "idle"]
    /\ UNCHANGED <<switchVars, aborted, arg>>

\* swap_configs: the swap is ordered, for the thread in receive() to commit.
Swap(c) ==
    /\ cmd[c] = "idle"
    /\ p4objects # p4objects_rt
    /\ swap_ordered' = TRUE
    /\ UNCHANGED <<p4objects, p4objects_rt, current_config, loader, aborted, cliVars>>

\* table_add, table_set_default, table_modify, table_delete: the name is looked up in the
\* cache, then in p4objects_rt under an assertion.
TableCommand(c, name) ==
    /\ cmd[c] = "idle"
    /\ name \in TablesOf[cli[c]]
    /\ aborted' = (name \notin TablesOf[p4objects_rt.config])
    /\ UNCHANGED <<switchVars, cliVars>>

Cli(c) ==
    \/ \E config \in Configs : Start(c, config) \/ Load(c, config)
    \/ Publish(c)
    \/ Cache(c)
    \/ Swap(c)
    \/ \E name \in Names : TableCommand(c, name)

Next ==
    /\ ~aborted
    /\ \/ Packets /\ UNCHANGED <<switchVars, aborted, cliVars>>
       \/ Rx /\ UNCHANGED <<aborted, cliVars>>
       \/ \E c \in Clis : Cli(c) /\ UNCHANGED packetVars

Spec == Init /\ [][Next]_vars

\* Packets keep arriving, and the threads that handle them go on as long as none of them
\* is blocked for ever: the others may then wait for it, receive() too.  (Strong
\* fairness of Rx: a packet that is received needs a free slot in the model and none in the
\* code.)  Nobody has to load or swap anything.
Fairness ==
    LET Going == ~aborted /\ stalled = {}
    IN  /\ SF_vars(Going /\ Rx /\ UNCHANGED <<aborted, cliVars>>)
        /\ \A p \in Slots :
              /\ WF_vars(Going /\ Take(p) /\ UNCHANGED <<switchVars, aborted, cliVars>>)
              /\ WF_vars(/\ Going
                         /\ Enqueue(p) \/ Release(p)
                         /\ UNCHANGED <<switchVars, aborted, cliVars>>)

FairSpec == Spec /\ Fairness

----------------------------------------------------------------------------
(* Properties.                                                             *)

\* do_swap() frees the old objects while other threads hold pointers into them, and yet no
\* packet has a PHV of objects that are gone, no thread handles a packet with a parser or a
\* pipeline of other objects than its PHV's, and the pool hands out nothing but PHVs of the
\* objects in use.
NoDanglingObjects ==
    /\ \A p \in Live : phv[p] = p4objects.id /\ used[p] \in {0, phv[p]}
    /\ rx # "factory" =>
          /\ phv_factory = p4objects.id
          /\ \A i \in Ids : pool[i] > 0 => i = phv_factory

\* The CLI that loaded the configuration the runtime API acts upon resolves names with
\* that configuration, however the other CLIs and the swap interleave with its call.
LoaderInSync ==
    \A c \in loader : cmd[c] = "idle" => cli[c] = p4objects_rt.config

\* A packet is queued again or copied while receive() waits for packets to go: in the spin
\* of do_swap(), or for a free packet.
Circulates ==
    /\ rx = "spin" \/ (rx = "new" /\ Live = Slots)
    /\ \E p \in Slots : Enqueue(p) \/ \E q \in Slots : Copy(p, q)

\* A swap that was ordered is committed, although do_swap() waits for packets that threads
\* hold, that wait in queues and that are copied.  Three things hold it up for good: a P4
\* program that makes packets go round for ever, a thread that is blocked for ever, and an
\* assertion that failed.
SwapCommitted ==
    \/ []<><<Circulates>>_vars
    \/ swap_ordered ~> ~swap_ordered \/ aborted \/ stalled # {}

=============================================================================
