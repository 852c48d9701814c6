---------------------------- MODULE SimpleSwitch ----------------------------
(***************************************************************************)
(* The packet path of the P4-SAI target, targets/P4-SAI/simple_switch.cpp: *)
(* receive() -> input_buffer -> the ingress thread -> egress_buffers, one  *)
(* logical queue per port -> the egress threads -> output_buffer -> the    *)
(* transmit thread, with cloning, multicast, resubmission, recirculation   *)
(* and the drops in between.                                               *)
(*                                                                         *)
(* What the loaded P4 program decides about a packet is a free choice.  A  *)
(* packet is an identity, the port it leaves from and the queue depth      *)
(* noted in its metadata: a resubmitted or recirculated copy stands for    *)
(* the packet it replaces and keeps its identity, a clone or a replica has *)
(* one of its own.  The threads share nothing but the queues, so an action *)
(* is one queue operation with the thread's own computation up to it.      *)
(* input_buffer and output_buffer are bounded FIFOs here, which is what    *)
(* module BmQueue shows of bm::Queue.                                      *)
(***************************************************************************)
EXTENDS Integers, Sequences, FiniteSets

CONSTANTS
    MaxPort,          \* ports and logical queues 0 .. MaxPort - 1
    NbEgressThreads,  \* nb_egress_threads
    InputCapacity, OutputCapacity,
    MirrorPorts,      \* ports the mirroring session is mapped to
    QueueDepths,      \* capacities egress queues have or are given
    McastGroups,      \* the ports replicate() returns for groups 1, 2, ...
    Resubmits, Recirculates,  \* whether the P4 program uses them
    MaxPackets,       \* bound on the packets received, cloned and replicated
    MaxPasses         \* bound on the resubmissions and recirculations of one

Ports == 0 .. MaxPort - 1
Workers == 0 .. NbEgressThreads - 1
Ids == 1 .. MaxPackets

DROP == 511    \* egress_spec of a packet to drop
UNSET == 510   \* egress_spec the egress pipeline starts from
NoPort == -1   \* get_mirroring_mapping() of an unmapped session

ASSUME PortsAssumption == MaxPort \in 1 .. UNSET
ASSUME ThreadsAssumption == NbEgressThreads \in Nat \ {0}
ASSUME CapacityAssumption ==
    InputCapacity \in Nat \ {0} /\ OutputCapacity \in Nat \ {0}
ASSUME DepthsAssumption == QueueDepths \subseteq Nat /\ QueueDepths # {}
ASSUME MirrorAssumption == MirrorPorts \subseteq Ports
ASSUME GroupsAssumption == McastGroups \in Seq(Seq(Ports))
ASSUME UsesAssumption == Resubmits \in BOOLEAN /\ Recirculates \in BOOLEAN
ASSUME BoundsAssumption == MaxPackets \in Nat /\ MaxPasses \in Nat

Ingress == -1
Threads == {Ingress} \cup Workers

VARIABLES
    input_buffer, output_buffer,   \* sequences, the oldest packet first
    egress_buffers,                \* the packets of each logical queue
    capacity,                      \* of each logical queue
    mirroring_map,                 \* the port of the mirroring session
    thread,                        \* what each thread is doing
    received,                      \* packets of the model that exist or have
    gone                           \* those that were transmitted or dropped

vars == <<input_buffer, output_buffer, egress_buffers, capacity,
          mirroring_map, thread, received, gone>>

Packet == [id : Ids, pass : 0 .. MaxPasses, port : Ports, enq_qdepth : Nat]
NoPacket == [id |-> 0, pass |-> 0, port |-> 0, enq_qdepth |-> 0]

(* A thread waits for a packet, runs the pipeline on it, works through the   *)
(* copies it has to enqueue, reading the depth of a queue before it pushes,  *)
(* and ends with the packet itself.                                          *)
Stages == {"pop", "apply", "depth", "push", "end"}
Ends == {"none", "drop", "input", "output"}

Thread == [at : Stages, packet : Packet \cup {NoPacket}, copies : Seq(Packet),
           end : Ends]

TypeOK ==
    /\ input_buffer \in Seq(Packet) /\ output_buffer \in Seq(Packet)
    /\ egress_buffers \in [Ports -> SUBSET Packet]
    /\ capacity \in [Ports -> Nat]
    /\ mirroring_map \in MirrorPorts \cup {NoPort}
    /\ thread \in [Threads -> Thread]
    /\ received \in 0 .. MaxPackets
    /\ gone \subseteq Ids

-----------------------------------------------------------------------------
Idle == [at |-> "pop", packet |-> NoPacket, copies |-> <<>>, end |-> "none"]

Init ==
    /\ input_buffer = <<>> /\ output_buffer = <<>>
    /\ egress_buffers = [p \in Ports |-> {}]
    /\ \E d \in QueueDepths : capacity = [p \in Ports |-> d]
    /\ mirroring_map = NoPort
    /\ thread = [t \in Threads |-> Idle]
    /\ received = 0
    /\ gone = {}

(* EgressThreadMapper                                                        *)
WorkerOf(port) == port % NbEgressThreads

(* n new packets, for the ports of a sequence.                               *)
CopiesFor(packet, ports) ==
    [i \in 1 .. Len(ports) |-> [packet EXCEPT !.id = received + i,
                                              !.port = ports[i]]]

(* Where the thread goes once it knows its copies: to the next one, or to    *)
(* what it does with the packet itself.                                      *)
NextStage(copies) == IF copies = <<>> THEN "end" ELSE "depth"

(* A packet before ingress: its metadata is reset, no port is chosen yet.    *)
Fresh(id, pass) == [id |-> id, pass |-> pass, port |-> 0, enq_qdepth |-> 0]

(* receive(), its push blocking while input_buffer is full.                  *)
Receive ==
    /\ received < MaxPackets
    /\ Len(input_buffer) < InputCapacity
    /\ received' = received + 1
    /\ input_buffer' = Append(input_buffer, Fresh(received + 1, 0))
    /\ UNCHANGED <<output_buffer, egress_buffers, capacity, mirroring_map,
                   thread, gone>>

IngressPop ==
    /\ thread[Ingress].at = "pop" /\ input_buffer # <<>>
    /\ thread' = [thread EXCEPT ![Ingress] =
                    [Idle EXCEPT !.at = "apply", !.packet = Head(input_buffer)]]
    /\ input_buffer' = Tail(input_buffer)
    /\ UNCHANGED <<output_buffer, egress_buffers, capacity, mirroring_map,
                   received, gone>>

(* The ports of the copies and the end of a packet after the ingress         *)
(* pipeline: clone_spec, then resubmit_flag, then mcast_grp, then            *)
(* egress_spec.  The packet itself is the last copy when it is forwarded.    *)
MirrorTo(clone) ==
    IF clone /\ mirroring_map # NoPort THEN <<mirroring_map>> ELSE <<>>

(* replicate(): nothing for a group that does not exist.                     *)
Replicate(mgid) == IF mgid \in DOMAIN McastGroups THEN McastGroups[mgid] ELSE <<>>

IngressPlan(clone, resubmit, mgid, egress_spec) ==
    [copies |-> MirrorTo(clone) \o (IF resubmit THEN <<>> ELSE Replicate(mgid)),
     end |-> CASE resubmit -> "input"
               [] ~resubmit /\ (mgid # 0 \/ egress_spec = DROP) -> "drop"
               [] OTHER -> "none"]

(* The parser, the ingress pipeline and the decisions taken from the         *)
(* metadata it leaves: clone_spec, resubmit_flag, mcast_grp, egress_spec.    *)
(* Learning, between the first two, is module LearnList's.                   *)
IngressApply(clone, resubmit, mgid, egress_spec) ==
    LET packet == thread[Ingress].packet
        plan == IngressPlan(clone, resubmit, mgid, egress_spec)
        new == CopiesFor(packet, plan.copies)
        copies == IF plan.end = "none"
                  THEN Append(new, [packet EXCEPT !.port = egress_spec])
                  ELSE new
    IN  /\ thread[Ingress].at = "apply"
        /\ resubmit => packet.pass < MaxPasses
        /\ received + Len(new) <= MaxPackets
        /\ received' = received + Len(new)
        /\ thread' = [thread EXCEPT ![Ingress] =
                        [at |-> NextStage(copies),
                         packet |-> IF plan.end = "none" THEN NoPacket ELSE packet,
                         copies |-> copies, end |-> plan.end]]
        /\ UNCHANGED <<input_buffer, output_buffer, egress_buffers, capacity,
                       mirroring_map, gone>>

(* pop_back() of a worker takes a packet of one of its ports.  Which one     *)
(* depends on the send times of QueueingLogicRL: any of them may be next.    *)
EgressPop(w) ==
    /\ thread[w].at = "pop"
    /\ \E port \in Ports :
          /\ WorkerOf(port) = w
          /\ \E packet \in egress_buffers[port] :
                /\ egress_buffers' =
                      [egress_buffers EXCEPT ![port] = @ \ {packet}]
                /\ thread' = [thread EXCEPT ![w] =
                                [Idle EXCEPT !.at = "apply", !.packet = packet]]
    /\ UNCHANGED <<input_buffer, output_buffer, capacity, mirroring_map,
                   received, gone>>

(* The port a packet leaves from after the egress pipeline; the first form   *)
(* takes any egress_spec for a port.                                         *)
AnySpec(port, egress_spec) == egress_spec
EgressPort(port, egress_spec) ==
    IF egress_spec \in {UNSET, DROP} THEN port ELSE egress_spec

(* The egress pipeline and its decisions: clone_spec, egress_spec, then      *)
(* recirculate_flag.                                                         *)
EgressApply(w, clone, recirculate, egress_spec) ==
    LET packet == thread[w].packet
        new == CopiesFor(packet, MirrorTo(clone))
    IN  /\ thread[w].at = "apply"
        /\ recirculate => packet.pass < MaxPasses
        /\ received + Len(new) <= MaxPackets
        /\ received' = received + Len(new)
        /\ thread' = [thread EXCEPT ![w] =
              [at |-> NextStage(new), copies |-> new,
               packet |-> [packet EXCEPT !.port = EgressPort(@, egress_spec)],
               end |-> CASE egress_spec = DROP -> "drop"
                         [] egress_spec # DROP /\ recirculate -> "input"
                         [] OTHER -> "output"]]
        /\ UNCHANGED <<input_buffer, output_buffer, egress_buffers, capacity,
                       mirroring_map, gone>>

-----------------------------------------------------------------------------
(* enqueue() of the next copy, in two steps: the depth of the queue goes     *)
(* into queueing_metadata.enq_qdepth under one lock ...                      *)
EnqueueDepth(t) ==
    /\ thread[t].at = "depth"
    /\ LET port == Head(thread[t].copies).port IN
       thread' = [thread EXCEPT
                    ![t].at = "push",
                    ![t].copies[1].enq_qdepth = Cardinality(egress_buffers[port])]
    /\ UNCHANGED <<input_buffer, output_buffer, egress_buffers, capacity,
                   mirroring_map, received, gone>>

(* ... and push_front() of QueueingLogicRL takes another: a full queue drops *)
(* the packet.                                                               *)
TailDrop(port, packet) ==
    IF Cardinality(egress_buffers[port]) >= capacity[port]
    THEN gone' = gone \cup {packet.id} /\ UNCHANGED egress_buffers
    ELSE /\ egress_buffers' = [egress_buffers EXCEPT ![port] = @ \cup {packet}]
         /\ UNCHANGED gone

(* A push that waits while the queue is full, as that of QueueingLogic does. *)
BlockingPush(port, packet) ==
    /\ Cardinality(egress_buffers[port]) < capacity[port]
    /\ egress_buffers' = [egress_buffers EXCEPT ![port] = @ \cup {packet}]
    /\ UNCHANGED gone

Push(port, packet) == TailDrop(port, packet)

EnqueuePush(t) ==
    /\ thread[t].at = "push"
    /\ LET copy == Head(thread[t].copies)
           rest == Tail(thread[t].copies)
       IN  /\ Push(copy.port, copy)
           /\ thread' = [thread EXCEPT ![t].at = NextStage(rest),
                                       ![t].copies = rest]
    /\ UNCHANGED <<input_buffer, output_buffer, capacity, mirroring_map,
                   received>>

(* What becomes of the packet itself: back to input_buffer, on to            *)
(* output_buffer, both blocking while full, or nowhere.  The first form      *)
(* lacks the "continue" that keeps a recirculated packet from leaving.       *)
FallThrough(end, packet) ==
    /\ end = "input"
    /\ Len(input_buffer) < InputCapacity /\ Len(output_buffer) < OutputCapacity
    /\ input_buffer' = Append(input_buffer, Fresh(packet.id, packet.pass + 1))
    /\ output_buffer' = Append(output_buffer, packet)
    /\ UNCHANGED gone

Finish(end, packet) ==
    \/ /\ end = "none"
       /\ UNCHANGED <<input_buffer, output_buffer, gone>>
    \/ /\ end = "drop"
       /\ gone' = gone \cup {packet.id}
       /\ UNCHANGED <<input_buffer, output_buffer>>
    \/ /\ end = "input"
       /\ Len(input_buffer) < InputCapacity
       /\ input_buffer' = Append(input_buffer, Fresh(packet.id, packet.pass + 1))
       /\ UNCHANGED <<output_buffer, gone>>
    \/ /\ end = "output"
       /\ Len(output_buffer) < OutputCapacity
       /\ output_buffer' = Append(output_buffer, packet)
       /\ UNCHANGED <<input_buffer, gone>>

EndPacket(t) ==
    /\ thread[t].at = "end"
    /\ Finish(thread[t].end, thread[t].packet)
    /\ thread' = [thread EXCEPT ![t] = Idle]
    /\ UNCHANGED <<egress_buffers, capacity, mirroring_map, received>>

(* transmit_thread()                                                         *)
Transmit ==
    /\ output_buffer # <<>>
    /\ gone' = gone \cup {Head(output_buffer).id}
    /\ output_buffer' = Tail(output_buffer)
    /\ UNCHANGED <<input_buffer, egress_buffers, capacity, mirroring_map,
                   thread, received>>

(* The control plane: set_egress_queue_depth() keeps what is queued, and     *)
(* mirroring_mapping_add() and _delete() change the session.                 *)
SetEgressQueueDepth(port, depth) ==
    /\ capacity[port] # depth
    /\ capacity' = [capacity EXCEPT ![port] = depth]
    /\ UNCHANGED <<input_buffer, output_buffer, egress_buffers, mirroring_map,
                   thread, received, gone>>

SetMirroring(port) ==
    /\ mirroring_map # port
    /\ mirroring_map' = port
    /\ UNCHANGED <<input_buffer, output_buffer, egress_buffers, capacity,
                   thread, received, gone>>

IngressStep ==
    \/ IngressPop
    \/ \E clone \in BOOLEAN, resubmit \in {Resubmits, FALSE},
          mgid \in 0 .. Len(McastGroups) + 1, egress_spec \in Ports \cup {DROP} :
          IngressApply(clone, resubmit, mgid, egress_spec)

EgressStep(w) ==
    \/ EgressPop(w)
    \/ \E clone \in BOOLEAN, recirculate \in {Recirculates, FALSE},
          egress_spec \in Ports \cup {UNSET, DROP} :
          EgressApply(w, clone, recirculate, egress_spec)

ThreadStep(t) == EnqueueDepth(t) \/ EnqueuePush(t) \/ EndPacket(t)

Next ==
    \/ Receive
    \/ IngressStep
    \/ \E w \in Workers : EgressStep(w)
    \/ \E t \in Threads : ThreadStep(t)
    \/ Transmit
    \/ \E port \in Ports, depth \in QueueDepths :
          SetEgressQueueDepth(port, depth)
    \/ \E port \in MirrorPorts \cup {NoPort} : SetMirroring(port)

Spec == Init /\ [][Next]_vars

(* Every thread is scheduled: none waits for a lock anyone keeps.            *)
Fairness ==
    /\ WF_vars(IngressStep)
    /\ \A w \in Workers : WF_vars(EgressStep(w))
    /\ \A t \in Threads : WF_vars(ThreadStep(t))
    /\ WF_vars(Transmit)

FairSpec == Spec /\ Fairness

-----------------------------------------------------------------------------
(* The places that hold a packet, of the queues and of the threads.          *)
InSeq(s, id) == {i \in DOMAIN s : s[i].id = id}

InputPlaces(id) == {<<"input", i, 0>> : i \in InSeq(input_buffer, id)}
OutputPlaces(id) == {<<"output", i, 0>> : i \in InSeq(output_buffer, id)}
EgressPlaces(id) ==
    UNION {{<<"egress", p, q>> : q \in {q \in egress_buffers[p] : q.id = id}} : p \in Ports}
ThreadPlaces(id) ==
    {<<"thread", t, 0>> : t \in {t \in Threads : thread[t].packet.id = id}}
CopyPlaces(id) ==
    UNION {{<<"copy", t, i>> : i \in InSeq(thread[t].copies, id)} : t \in Threads}

Places(id) == InputPlaces(id) \cup OutputPlaces(id) \cup EgressPlaces(id)
              \cup ThreadPlaces(id) \cup CopyPlaces(id)

(* A packet, clone or replica is in one place until it is transmitted or     *)
(* dropped, and in none after that: no early return, failed push or move     *)
(* between two threads loses one without a drop or makes two of it, so it    *)
(* is transmitted once at most.                                              *)
NoPacketLostOrDuplicated ==
    \A id \in Ids :
        IF id <= received /\ id \notin gone
        THEN \E place \in Places(id) : Places(id) = {place}
        ELSE Places(id) = {}

(* ingress_thread(), the only consumer of input_buffer, waits for room in it *)
(* for a packet it resubmits.                                                *)
IngressWaitsForItself ==
    /\ thread[Ingress].at = "end" /\ thread[Ingress].end = "input"
    /\ Len(input_buffer) >= InputCapacity

(* Every packet leaves the switch or is dropped, although egress threads     *)
(* that recirculate wait for input_buffer and those that forward wait for    *)
(* output_buffer: no cycle of full queues stops the switch but the one of    *)
(* the ingress thread with itself.                                           *)
PacketsLeave == \A id \in Ids : id <= received ~> id \in gone \/ IngressWaitsForItself
=============================================================================
