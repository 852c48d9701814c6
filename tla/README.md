# The SAI behavioral model, in TLA+

TLA+ modules, TLC configurations and TLAPS proofs for the P4 behavioral model
(`bmv2`) and its P4-SAI target.  Paths are relative to the root of the
repository.  Each definition that models code is tied to its lines by the
`map` of `PROJECT.json`.

## 1. The system

A switch is a process with several threads.  `receive()` hands packets of the
devices to the target, whose ingress thread, egress threads and transmit thread
pass them on through queues; on the way a packet is parsed, goes through the
match tables of the loaded P4 program and may be cloned, replicated,
resubmitted, recirculated, learned from or dropped.  A Thrift server runs RPC
threads that add and delete entries, set queue depths, mirroring sessions,
multicast groups and learning parameters, and swap configurations.  On top of
it, the SAI server keeps SAI objects (ports, bridge ports, VLANs, LAGs) and turns
each into entries of the tables of the SAI P4 program.

### Components

| Component | State | Operations | Concurrency and failure |
|---|---|---|---|
| Learning engine, `learning.cpp` | per list: `buffer`, `buffer_tmp`, `filter`, `old_buffers`, ids and counts, the writer | `learn`, `ack`, `ack_buffer`, `set_max_samples`, `set_timeout`, `set_learn_writer`, `reset_state`, the destructor; a transmit thread | one mutex, three condition variables, a timeout, a send with the mutex released |
| P4-SAI packet path, `simple_switch.cpp` | `input_buffer`, `egress_buffers`, `output_buffer`, `mirroring_map` | `receive_`, `ingress_thread`, `egress_thread`, `transmit_thread`, `set_egress_queue_depth`, mirroring | one ingress thread, several egress threads, blocking and dropping queues in a cycle |
| `bm::Queue`, `queue.h` | deque, capacity | `push_front`, `pop_back`, `set_capacity` | producers and consumers on one mutex and two condition variables, notified after the unlock |
| Indirect tables, `match_tables.cpp` | members, groups, reference counts, entries, default | add, delete, modify, group membership, default, reset | write lock; errors after part of the work is done |
| Match units and lookup structures, `match_units.cpp`, `lookup_structures.cpp` | slots, handles, versions, linked list of entries | add, delete, lookup, timeouts, reset, serialize and deserialize | write lock; slots and versions are used again |
| Switch and contexts, `switch.cpp`, `context.cpp` | current and next configuration | load, swap, `do_swap` | packets in flight and RPC threads against the swap |
| Queueing disciplines, `queueing.h` | heaps per worker | push, pop, capacity, rate | rate limits, priorities, one mutex per worker |
| Replication engine, `simple_pre.cpp`, `simple_pre_lag.cpp` | groups, L1 and L2 entries | create, destroy, associate, replicate | shared lock; references between the tables |
| Ageing, `ageing.cpp` | buffer of aged entries | sweep, add table | sweep thread against changing tables |
| Devices and port monitor, `dev_mgr.cpp`, `port_monitor.cpp` | ports, status callbacks | add, remove, poll | callbacks of a monitor thread |
| SAI server, `Sai-Tests/switch_sai_server.py` | SAI objects and their entries | create, remove and set of each object | one thread; steps of several RPC calls of which one may fail |
| Thrift messages, `switch_sai_rpc.py`, `ttypes.py`, `SimpleSwitch.py` | the stream of a connection | `read` and `write` of every class, stubs and processors | messages that the reader does not know, replies nobody compares with calls |
| SAI RPC service, `sai_base_test.py`, `switch_sai_rpc.py`, `switch_sai_server.py` | connections, buffers, the call that is served | connect, call, reply, close | several clients and a single-threaded server; calls that raise, return nothing or lose their caller |
| Runtime CLI, `tools/runtime_CLI.py` | a cache of the configuration | load, swap, table commands | several CLIs, each with its own cache and its RPC thread in the switch |
| P4 SAI pipeline, `p4src/` | tables | | sequential for one packet |

The other parts (parser and deparser, actions, meters, checksums, `P4Objects`,
packets, debugger, transport, the C++ RPC servers, BMI, PD API, start-up, the
test framework) are
listed under `components` in `PROJECT.json` with what is planned for each or
why it is left out.

### How they interact

* The packet path calls `learn()` from its ingress thread.  When the learning
  list's transmit thread is behind, `learn()` blocks, and with it all ingress.
* The packet path's threads communicate only through `bm::Queue`
  (`input_buffer`, `output_buffer`) and `QueueingLogicRL` (`egress_buffers`).
* An indirect table keeps its entries in a match unit and what they refer to in
  its own members, groups and counts.  A match unit keeps the entries and gives
  the lookup structure pointers to their keys.
* RPC threads call into all of these while packets are processed.
* Runtime CLIs load and swap configurations through RPCs; the thread that
  receives packets commits a swap once no packet is left.
* Test clients call the SAI server over Thrift, one connection for each test.
* The SAI server is a client of these RPCs: each of its calls is a handful of
  table additions and removals whose errors it only prints.

### What makes each part correct

* Learning: the filter is exactly what has not been acknowledged; every sample
  is announced once; indices in a notification mean the same in the engine;
  nothing waits for ever.
* Packet path: a packet is in one place until it leaves; queues stay within
  their limits; the cycle of queues does not stop.
* Queue: FIFO, bounded, no wakeup is lost.
* Indirect tables: what an entry refers to exists; a count is never too low.
* Match units: the list is the slots in use; lookup returns the best entry (it does
  while slot 0 is in use); a handle of a deleted entry is refused.
* SAI server: what the tables do with a packet is what the objects say.
* Thrift messages: what is read is what was written, and the reader stops at the
  end of a message.
* SAI RPC service: a call runs at most once and in order, has run when it
  returns, is settled when it raises, and ends.
* Configuration swap: nothing refers to objects that a swap frees, a CLI
  resolves names with the configuration it loaded, an ordered swap is committed.

What can go wrong in each, at the line where it would, is the `hazards` list of
`PROJECT.json`.

## 2. Modules

| Module | Models | Composition |
|---|---|---|
| `LearnFilter` | what the data plane and the control plane may rely on in learning | abstract specification |
| `LearnList` | one `LearnList` with its transmit thread, its callers and a control plane | implements `LearnFilter` until the first reset |
| `BlockingFifo` | what a caller of a bounded queue may rely on | abstract specification |
| `BmQueue` | `bm::Queue` | implements `BlockingFifo` |
| `SimpleSwitch` | the packet path | takes `input_buffer` and `output_buffer` as bounded FIFOs whose operations are atomic, which `BlockingFifo` says and `BmQueue` implements; learning is `LearnList`'s |
| `IndirectTable` | `MatchTableIndirect`, `MatchTableIndirectWS` | takes the match unit as something that accepts an entry or refuses it |
| `EntryTable` | what the control plane may rely on in the handles of a match unit | abstract specification |
| `MatchUnit` | `MatchUnitGeneric` with `EntryList`, for ternary and range keys | implements `EntryTable` |
| `SaiServer` | the SAI server and the entries it puts in the tables | takes a table as a map from keys to entries |
| `ThriftCodec` | `read()` and `write()` of the generated classes, over their `thrift_spec`, and `skip()` of the protocol | |
| `SaiThriftTypes`, `SaiThriftForwarding`, `SaiThrift` | the structs and the 82 procedures of `switch_sai_rpc` | descriptions that `ThriftCodec` interprets |
| `SswitchThrift` | the 9 procedures of `SimpleSwitch` | as above |
| `ThriftWire` | calls over one connection, token by token | uses `ThriftCodec` on any service |
| `AtomicRpc` | what a caller of the SAI server may rely on | abstract specification |
| `SaiRpc` | clients, connections and the single-threaded server | implements `AtomicRpc`; a message is whole, which is what `ThriftWire` establishes; what a handler does is `SaiServer`'s |
| `ConfigSwap` | `Context`, the pool of PHVs, the receive thread, packets and CLIs | packets come, are copied and go as in `SimpleSwitch`, without their queues |
| `MC*` | the instances for TLC: model values, symmetry, tables of constants | extend the module they are named after |
| `*Proofs` | the theorems | extend the module they are named after and `TLAPS` |

A definition followed by another that differs in one detail and is described as
"the first form", or as "a deviation", is a mutation of the second: the form a
plausible mistake would give it.  Each property is shown able to fail by substituting one of them
(`mutants` in `PROJECT.json`); `Next` uses none of them.

### LearnList

An action is one critical section of the list's mutex, from a lock or a wakeup
to the next unlock or wait.  `AddSample` is `add_sample()`, `SetMaxSamples`,
`SetTimeout`, `SetLearnWriter`, `Ack`, `AckBuffer`, `ResetState` and `Destroy`
are the calls of the same names, and `SwapWoken` is what follows a wait in
`process_full_buffer()`.  `buffer_transmit()` is `TxTest` (the loop of waits and
the swap after a timeout), `TxHeader` and `TxSend` (with the mutex released) and
`TxDone`.  `TxTimeout` and `DeadlinePasses` are time.  A wait on a condition
variable is a value of `pc` or `tx`; `notify_one()` chooses any waiter.
Spurious wakeups of this list are not modelled: every wait is in a loop, and
`BmQueue` has them.  Samples are model values: their bytes only matter
through equality in the filter.  Iterators into the filter are positions, with
the set of those already erased (the C++ standard lets an insertion that rehashes
the filter, `learning.cpp:368`, invalidate them; in the libraries the switch is built
with they point to nodes and stay valid); using an erased or missing one sets `ub` and
ends the behaviour.  The control plane acknowledges what it was sent, by sample
(each once) or by buffer (repeatedly), and does not mix the two on one
notification.

`LearnFilter` has a queue of learned samples, the notifications that were sent and
the samples that are held back.  The mapping takes as its queue what the transmit
thread has still to send of `buffer_tmp`, then `buffer`; as its notifications the
control plane's; as what is held back the filter.  A swap, a wait, a timeout or the
writing of a header is then no step at all, `TxSend` is the sending of the front of
the queue, and each step must leave the filter equal to what waits to be sent or to
be acknowledged.  `reset_state()` breaks all of it (section 7), so that
`LearnsInOrder` asks nothing of a step after which there has been a reset.

### SimpleSwitch

The P4 program's decisions (clone, resubmit, multicast group, egress port, drop,
recirculate) are free choices of `IngressApply` and `EgressApply`, which take
them in the order of the code.  An action is one queue operation and the thread's own
computation up to it.  `enqueue()` is two steps, because it reads the depth
under one lock and pushes under another.  A packet is an identity, a pass
number, its port and its `enq_qdepth`.  `Places` is the set of the queues,
positions and hands of threads a packet is in.  The egress queues are sets: send times of
`QueueingLogicRL` are arbitrary, so that any packet may be next.

### BmQueue

Each thread's call is at one of seven places; `notify_one()` after the unlock is
a step of its own, and any wait may end by itself.  For `BlockingFifo` a call is
waiting to take effect, over but not returned, or not there: the mapping `CallOf`
forgets whether a thread is at the test, asleep or woken.

### IndirectTable

One action per operation, since each runs under the table's write lock.
`ModifyEntryFails` is the path of `modify_entry()` and `modify_entry_ws()` that
returns an error after the old reference was dropped; `Accepted` is the insertion
that the match unit may refuse after the reference was counted.  Counts wrap at
0, as `unsigned int` does.

### MatchUnit

Slots, versions and the list threaded through the array of nodes, with the
assignments of `EntryList::add()` and `delete_entry()`.  A handle is a slot and
the version modulo `VersionMod`; the code compares it with the whole
version, and so does `Accepted`.  `MinEntry` is the walk of `lookup()`, and `lookup`
its answer, the distance of the node it found from the head.

`EntryTable` has entries under handles and the handles that have deleted one.  The
mapping takes as its entries those that a walk of the list meets, under the handles
`add_entry()` returned: an entry that the slots have and the list has lost would not
be there.  After `VersionMod` deletions in a slot its handles are used up: the next
entry gets the first of them again, and since the code compares the whole version,
neither the one who had it before nor its new owner can delete that entry with it.
`EntryTable` says so: a handle deletes once, and one is given out again only when
its slot is worn out.

### SaiServer

One action per call of `SaiHandler` that changes state, since `TSimpleServer`
runs one at a time.  The dictionaries of the handler are functions from ids, the
tables of the switch a record of functions from keys (or, for tables whose action
follows from the key, of sets of keys), as `p4src/DefaultConfig.txt` leaves them.
`AddTable` and `RemoveTableEntry` change nothing when the switch refuses them,
because `runtime_CLI` prints the error and returns.  A call that raises keeps what
it did up to there: `CreateBridgePort` for a LAG while no LAG has members,
`RemoveVlanMember` for a LAG, and `CreateVlan` once there is a VLAN, which therefore is no
step.  `lag_list` is one list, because the default argument of `Lag_obj` is.
Entries of tables that `sai.p4` does not have, or with the wrong number of
parameters, are refused and left out (`sai_thrift_set_port_attribute`,
`table_port_ingress_interface_type`, `table_ingress_l2_interface_type`).  The
client refers to objects that exist and removes none that is referred to; the
server tests neither.

### ThriftCodec, SaiThrift, SswitchThrift, ThriftWire

The generated `read()` and `write()` differ only in their `thrift_spec`, so that
they are written once, over a description of the class; the descriptions are
those of the generated Python, class by class.  An object is a partial function
from attribute names, an attribute that is `None` being outside its domain.  The
wire is a sequence of tokens; a scalar that is read with another type than it was
written with loses the position in the stream (`Garbled`).  `ThriftWire` has one
action for `send_X()`, two for `process()`, one for the second half of
`process_X()` and one for `recv_X()`.  The token forms and `skip()` belong to the
Thrift library and are external.

### SaiRpc and AtomicRpc

`Connect` and `Close` are `setUp()` and `tearDown()` of a test, `Call` is
`send_X()`, `CallFails` one whose `write()` raises half-way, `Receive` and
`ReceiveEof` are `recv_X()`, `Interrupt` the end of a test that waits.  The server's
actions are the turns of `TSimpleServer.serve()` with `process()` and
`process_X()` in them.  63 of the 82 procedures are not in `SaiHandler`
(`RaiseUnhandled`), and `sai_thrift_create_fdb_entry` returns nothing on one path
(`Nullable`).  Calls carry numbers that are not on the wire, to state what nothing
in the code compares.  `AtomicRpc` knows neither connections nor a server: calls
are due, run, and end for their callers; the mapping takes the calls that wait
for a reply as `open` and those in connections as `due`.

### ConfigSwap

`Load` is `Context::load_new_config()` under its lock, `Publish` the rest of
`SwitchWContexts::load_new_config()`, `Cache` what the CLI does when the call
returns.  `do_swap()` is `Receive` (the check), `Spin`, `Commit` and `SetFactory`, as
other threads may run between them.  A packet has the objects its PHV was made
from and, while a thread handles it, the objects that thread looked up.  Objects
have an identity, so that the same configuration loaded twice is two of them.
A thread that handles a packet copies it, queues it again or releases it as often as
the P4 program makes it do so, or stops for good (`Stall`): the ingress thread can
block in its own push to `input_buffer` and in `learn()`.  The queues themselves are
left out, so that any thread may stop at any packet.
`TableCommand` stands for all commands that resolve a table name in the CLI's
cache and then, under an assertion, in the switch.

## 3. Runs

| Run | Shows |
|---|---|
| `learn_safety` | Two threads, the transmit thread, changing parameters and a control plane: filter, buffers and notifications stay consistent, and the list does what `LearnFilter` says. |
| `learn_live` | One caller, one reset at any point: until the reset, a full buffer is taken, a sample of a list with a timeout is sent; the destructor's join returns. |
| `learn_two_waiters` | Violation.  With two threads in `process_full_buffer()`, a timeout swap leaves the first one woken to swap an empty buffer; nobody notifies the second. |
| `switch_path` | Every feature with queues of one packet: each packet is in one place until it leaves, and it leaves, because egress queues drop where the others block, unless the ingress thread waits for itself. |
| `queue_safety` | The queue implements `BlockingFifo` and loses no wakeup, with notifications after the unlock, spurious wakeups and a changing capacity. |
| `indirect_safety` | As long as no `modify_entry` fails, counts cover the references and no reference dangles. |
| `match_safety` | Slots, handles and list implement `EntryTable` through insertions, deletions, reuse, versions that go round and resets; handles of deleted entries are refused; lookup finds the best entry and answers with its distance from the lowest slot in use. |
| `match_lookup` | Violation.  After the entry of slot 0 is deleted, `lookup()` answers with the handle of another slot, that of the deleted entry among them. |
| `sai_safety` | Through every sequence of SAI calls on the instance, ids that are used again and calls that stop half-way, the VLAN filters are those of the members, a bridge port's packets leave from its port, and a lane's packets are those of its port or LAG. |
| `rpc_wire` | Every procedure of both services with each attribute set or `None`: what is read is what was written, the stream stays at message boundaries, also in front of a server that does not know the procedure, and a stub that reads another procedure's reply raises (results that are lists of different elements excepted). |
| `rpc_calls` | Two clients, three connections: a reply is the one to the call that waits for it, the service implements `AtomicRpc`, every caller gets an answer or an exception. |
| `config_swap` | Two CLIs, two swaps, packets copied and queued again: nothing refers to freed objects, the CLI that loaded is in step with the switch, an ordered swap is committed unless packets go round for ever, a thread is blocked for ever or an assertion failed. |

The violations are findings of `PROJECT.json`, with the line of the repository they
contradict.

### Bounds

* `learn_safety`: three samples, so that there are two in a buffer and one
  learned meanwhile; two callers, the least with which one learns while another
  waits; `max_samples` 1 and 2; ids up to 2, so that a buffer is being filled while
  one is sent and one is acknowledged.
* `learn_live`: one sample and one caller, because a second waiter is what
  `learn_two_waiters` shows to fail; one reset.
* `switch_path`: capacities of one packet, so that every queue is full at some
  time; three packets fill a cycle of queues; one port and one egress thread, which
  with the ingress thread are two producers of one egress queue and of
  `input_buffer`; a group of two replicas; egress depth lowered to 0 and raised.
  `MaxPasses` bounds the loops the P4 program makes.  More ports and egress threads
  are left to the theorems, but for `PacketsLeave`, which is checked on this
  instance only.
* `queue_safety`: three threads (two sleepers and one that wakes them), three
  items, capacities 0 to 2.
* `indirect_safety`: two members, two entries, one group; counts up to 4,
  more than the references there can be.
* `match_safety`: three slots (a first, a middle and a last node), keys that
  overlap, equal and different priorities, the largest priority, two versions, so
  that handles run out.  No bound on the deletions is needed: the code refuses
  them when the versions of a slot are used up.
* `match_lookup`: two slots, the least with which the head moves.
* `rpc_wire`: each attribute alone and all together at every depth, lists of none,
  one and two elements, two values for a scalar; `read()` has no state between
  attributes but the object it builds, so that pairs of attributes add nothing.
* `rpc_calls`: a procedure of each kind (handled, one that may return nothing, not
  handled, unknown); two clients, so that one waits while the other is served;
  three connections, so that a client comes back after it gave up a call; two
  calls each.
* `config_swap`: two configurations with a common table and one of their own, three
  objects, so that there are two swaps and an identity can be stale twice over;
  two packets, so that one is copied while the other is queued.
* `sai_safety`: two lanes, so that an id and a lane differ; two ids for ports and
  LAGs and for bridge ports; one VLAN besides the default one, one bridge, one
  member at a time, one address.  All sequences of calls on them are explored,
  however long.  Ports are in the bind mode the tests use, members untagged; a
  second mode multiplies the states and meets the same entries.

Deadlock is not checked: each instance ends when its bounded items, packets or
ids are used up, when the destructor has run, or when an assertion has stopped the
switch.  In `rpc_wire` it is checked.

### Fairness

* `LearnList`: time passes, the transmit thread is scheduled and its sends
  return, a woken thread runs.  No caller has to call and no
  acknowledgement has to come.
* `SimpleSwitch`: each thread is scheduled and the transmit thread's output
  returns.  The control plane and arrivals are not fair.
* `BmQueue`: a thread in a call runs until it waits.  Spurious wakeups are not
  fair: they may happen and never have to.
* `SaiRpc`: the server loops for ever, `recv_X()` returns once there is something to
  read or the stream has ended, and a test ends.  No client has to call or to
  connect.  Without the last part another client could keep the single-threaded
  server for ever, which it may.
* `ConfigSwap`: packets keep arriving (`do_swap()` is called by `receive()` only), and
  the threads take, pass on and release packets, as long as none is blocked for ever
  (`stalled`); once one is, nothing is assumed of any thread.  `SwapCommitted` then
  asks nothing either, as it does not of a behaviour in which packets are queued again
  or copied for ever while `receive()` waits: a P4 program may resubmit without end.
  Nobody has to load or swap.

It is weak, since no thread holds a lock while it waits, but for the receive thread
of `ConfigSwap`: there a new packet needs a free slot, which is a bound of the model
and not of the code.

## 4. Proofs

All theorems hold for every value of the constants under the named assumptions
of the modules (sets of threads, samples and entries are finite, numbers are
natural, matches are a function of the keys, the procedures that are handled are among
those that are processed, lane 0 exists, as it does in `hw_port_list`).

| Module | Theorems | Argument |
|---|---|---|
| `LearnListProofs` | `TypeCorrect`, `FilterCorrect`, `TrackedCorrect`, `NotificationCorrect`, `IteratorsCorrect`, `OutstandingCorrect`, `NoSampleLostCorrect`, `LearnFilterImplemented` | `FilterIsUnacked` with `TypeOK` is inductive: it speaks of all unacknowledged buffers at once, so that `ack_buffer()`'s shortcut, which compares a count with the size of the whole filter, clears only what belongs to its buffer.  Cardinalities of the erased positions need that a buffer has no sample twice, which the disjointness and the counts give.  The other four need to know where samples are.  `Tracked` says it: those of `buffer_id` are in `buffer`, those of the id before it in `buffer_tmp` until they are sent, all earlier ones in a notification whose unacknowledged indices are exactly those the entry of `old_buffers` has not erased; and while the transmit thread has released the mutex, nobody changes what its header was computed from.  It holds until the first reset, which is the condition in the properties.  `LearnFilterImplemented` follows step by step: with `Tracked` the filter is what waits or is outstanding (`HeldIsKnown`), a swap moves samples within the queue (`PendingSwap`, `PendingProcess`), and what `TxSend` sends is the front of the queue (`CutFront`) under an id above all others. |
| `SimpleSwitchProofs` | `InvCorrect`, `TypeCorrect`, `PacketsCorrect` | Every step moves a packet from its one place to one other, makes a new one in one place, or drops it.  `Staged` says what a thread holds at each of its stages: without it a step could overwrite a packet in a thread's hand.  `Finite` is for the depth, `Gone` for packets yet to come.  A lemma for each kind of place says what a push, a pop or a change of a thread does to it. |
| `BmQueueProofs` | `TypeCorrect`, `FifoCorrect`, `ConsumersWokenCorrect`, `ProducersWokenCorrect`, `CapacityCorrect`, `FifoImplemented` | Each wakeup invariant balances items (or free places) against threads that are awake in the call or about to notify; a consumer goes to sleep only in front of an empty queue, so the balance starts right, and each push adds an item together with a notification.  `FifoImplemented` needs the types only: a thread that moves between places of the same kind, or a notification that wakes another one, changes no call (`SeenMove`, `SeenNotify`). |
| `IndirectTableProofs` | `TypeCorrect`, `CountsCorrect`, `ReferencesCorrect` | Neither is inductive alone: a count can only cover the references of handles in use if references point to handles in use, and these stay so only because a count of 0 means that there is no reference.  They are proved together. |
| `MatchUnitProofs` | `TypeCorrect`, `ListCorrect`, `NoDuplicateCorrect`, `CountCorrect`, `StaleCorrect`, `LookupCorrect`, `EntryTableImplemented` | `TypeOK`, `ListInOrder`, `NoDuplicateEntry`, `EntriesCounted` and `VersionsAhead` (the handles of a slot that are gone are those below its version) are inductive together; the lemma `VisitedIsHandles` says that a walk of an ordered list meets exactly the slots in use, so that `find_entry()` finds the entry to delete and no duplicate is missed.  The walk of `lookup()` is a recursive function; that it has the values its equations say, and what it has after n steps, is shown by the least counterexample (`LeastElement`).  After n nodes the walk is at a slot not below n and has the best of the entries it has met; the head is the lowest slot in use, so that the answer is right if that is slot 0 (`LookupWithSlotZero`).  In `EntryTableImplemented` the walk before a step and the walk after it differ by the entry that the step adds or deletes; by `VersionsAhead` its handle was not used before, or all of its slot were (`RunOut`). |
| `SaiServerProofs` | `InvCorrect`, `TypeCorrect`, `ObjectsCorrect`, `VlanFilterCorrect`, `EgressCorrect`, `LaneCorrect` | The tables are right because of what the objects say of each other.  `References` (who refers to whom, which lanes, ports and pairs are given once, ports and LAGs have no id in common) and `Listed` (the list all LAGs share names each member once) make the three properties of the tables inductive; the removal of an entry takes away nothing another object asked for because no other object has the same key. |
| `SaiRpcProofs` | `TypeCorrect`, `ReplyCorrect`, `AtomicCorrect` | The inductive invariant says what a connection holds at any time: one whose client waits has its call, or the reply to it, in exactly one place, a client has at most one connection that is not closed, connections past the last are untouched, and calls that were given up are numbered below those made later.  With it every step is a step of `AtomicRpc` or a stutter, under the mapping of section 2; the order of the calls of a client needs that connections are served in the order in which they were made. |
| `ConfigSwapProofs` | `TypeCorrect`, `ObjectsCorrect`, `LoaderCorrect` | While the receive thread is between the end of its spin and the new factory there is no packet, and none can appear, since only it makes packets from nothing; that is what `NoDanglingObjects` lacks to be inductive.  `LoaderInSync` needs that a CLI whose load is not over was given the configuration it built, as long as it is the last to have built one. |

Every invariant of a passing run, and every refinement, is proved, except the
invariants of `ThriftWire`.  `NoSampleLost`, `FifoOrder`, `ListInOrder`,
`NoDuplicateEntry` and `EntriesCounted` are theorems and no run checks them by name:
what callers see of them is part of the refinements.

Only model-checked: everything about liveness and fairness (`SwapWaitersServed`,
`SamplesSent`, `TransmitThreadJoins`, `PacketsLeave`, `SleepersServed`, `CallsEnd`,
`SwapCommitted`), which the prover does not handle; and `DeliveredIntact`,
`StreamInSync` and `ForeignReplyHarmless`, because the codec is written with operators
that are recursive over types, which the prover cannot expand.

## 5. Not modelled

Bytes and conversions (match keys, parser, deparser, checksums, arithmetic of
actions) are sequential computations on one packet.  Transport, BMI, the C++ RPC
servers, the PD API and the parsing of command lines forward calls or do I/O.  The enumerations
of `ttypes.py`, `__repr__` and the accelerated codec of the generated Python have no
state.  `ptf`, the SAI tests and `cpplint.py` are a test framework, its inputs and a style checker.  `P4Objects` runs once
when a configuration is loaded.  Hit counters, timestamps, meters and logging
are left out of the modules that exist.  The data race on `mirroring_map`
(`simple_switch.h:85`) has no defined outcome a model could explore; the model has
the map change between any two steps.  `serialize()` and `deserialize()` of a match
unit are left out: the list that is rebuilt points to keys that are gone.

## 6. Plan

1. The SAI P4 pipeline over the tables of `SaiServer`: where a packet goes,
   against what the SAI objects say.
2. The queueing disciplines against their documentation, then `SimpleSwitch`'s
   egress queues as an abstraction they implement.
3. The replication engine and its LAG variant; the ageing monitor; ports and
   their monitor.
4. The table base class, direct tables and exact and LPM structures, the trie
   against longest prefix match by definition; meters; header stacks and the
   parse graph; the debugger's protocol.
5. `serialize()`, `reset_state()` and the learning engine's pointer in
   `ConfigSwap`; the debugger's pauses.
6. Proofs: what of the learning list survives a reset besides its filter; the
   invariants of the modules above.

## 7. Seen while modelling

These are behaviours of the code that a reader of the modules will meet; no run is
about them unless it is named.

* `learning.cpp:424`: a header computed after a `reset_state()` that came during
  a transmission announces buffer id 0 - 1; `reset_state()` notifies nobody, so
  that a thread waiting for `b_can_swap` stays until the next transmission.
* `learning.cpp:322`: `set_timeout()` does not wake the transmit thread.
* `simple_switch.cpp:398`: a resubmitted packet is pushed to `input_buffer` with
  a blocking push by the only thread that empties it.  When `receive()` has
  filled the buffer the thread waits for itself.
* `simple_switch.cpp:251`: `enq_qdepth` is read under one lock and the packet pushed
  under another (line 265); an egress thread that pops in between makes it the
  depth of an earlier moment.
* `queue.h:112`: raising the capacity wakes no producer.
* `match_tables.cpp:801`: `modify_entry()` drops the old reference before it checks
  the new handle, and `modify_entry_ws()` does too (line 1363).  After the error the
  count is one too low, and a member that is in a group can be deleted, which line
  1230 rules out.  `CountsCoverReferences` and `ReferencesExist` hold until then
  (`misused`).
* `lookup_structures.cpp:249`: `handle_from_entry()` returns the distance from the
  head of the list.  The head is the lowest slot in use, so that after the entry of
  slot 0 is deleted `lookup()` and `retrieve_handle()` return the handle of
  another slot (the run `match_lookup`).
* `match_units.cpp:1152`: `deserialize_()` adds entries to a new list in the order of
  their handles, and `add()` links a node after that of the handle before it, since
  "if a handle is allocated, in means all handles before it have already been
  allocated" (`lookup_structures.cpp:211`).
  In a state with a free slot below a used one the entry is unreachable.  What it
  links is the key of a local entry that was moved from, while `add_entry_()` takes
  care to give the list a key that stays (`match_units.cpp:969`).
* `switch.cpp:252`: `load_new_config()` stores the text of the configuration under
  another lock than the objects.  Of two loads with a swap between them the first
  may store its text last: `bm_get_config` and the checksum of a state dump are then
  those of a configuration that is not in use.
* `context.cpp:57`: a table name that the switch does not have fails an assertion.
  A CLI whose cache is of another configuration sends one (`TableCommand`).
* `context.cpp:749`: `load_new_config()` ignores the status of `init_objects()`.
* `runtime_CLI.py:1925`: `table_delete_entry_from_key` is two calls, between which the
  entry may change.
* `switch_sai_rpc.py`: the element type of a list is not looked at when it is read.
* `match_tables.cpp:749`: an entry the match unit refuses leaves its reference
  counted.
* `match_tables.cpp:826`: the default member or group is not counted and can be
  deleted.
* `match_tables.cpp:1549`: the reset of a table with groups keeps the group
  handles, so that the next group may have a handle past the end of the vector;
  `insert_group()` asserts that it has not.
* `match_tables.cpp:1106`: the last member of a group in use can be removed.
* `match_units.cpp:984`: after 256 deletions in a slot the next entry gets a handle
  that was given out before, with 8 bits of version, which is not accepted.  The
  entry can be neither deleted nor modified until the table is reset.
* `match_units.cpp:1075`: `reset_state_()` sets the versions back to 0.
* `match_units.h:216`: a new entry inherits the timeout of the slot's previous
  one.  `set_entry_ttl()` does not compare the version of its handle.
* An entry of priority `INT_MAX` matches no packet: lookup asks for a lower
  priority than the initial one.
* `match_tables.cpp:694`, `match_tables.cpp:1237`, `simple_pre.cpp:139`: calls with
  side effects inside `assert`, gone in a build with `NDEBUG`.
* `switch_sai_server.py:47`: all LAGs share one list of members, and member ids
  are global, so that with two LAGs, or after a member was removed, the hash size
  of a LAG and its entries in `table_egress_lag` disagree.
* `switch_sai_server.py:151`: a second VLAN cannot be created: the test for an id
  in use reads `vid` of the keys.
* `switch_sai_server.py:171`: removing a VLAN member that is a LAG raises after
  the filter entries are gone.
* `switch_sai_server.py:246`, `:291`, `:365`, `:366`: `table_port_mode`, all entries
  of a LAG member, `table_bridge_id_1q` and the interface entry of a bridge
  port outlive their objects; what uses the id next inherits them.
* `switch_sai_server.py:341`: creating a .1Q bridge port removes the bridge of the
  VLAN whose number is the bridge port's.
* `switch_sai_server.py:200`: a LAG's id and a lane's number are the same kind of
  key in `table_egress_vlan_tag`.
