-------------------------- MODULE SimpleSwitchProofs --------------------------
(***************************************************************************)
(* Proofs about SimpleSwitch.  A packet is never lost or duplicated        *)
(* because every step moves each packet from the place it is in to one     *)
(* other place, drops it, or leaves it; Staged says what a thread holds at *)
(* each of its stages, without which a step could overwrite a packet.      *)
(***************************************************************************)
EXTENDS SimpleSwitch, FiniteSetTheorems, TLAPS

(* What a thread holds at each stage.                                        *)
StagedThread(r) ==
    /\ r.at = "pop" => r = Idle
    /\ r.at = "apply" => r.packet \in Packet /\ r.copies = <<>>
    /\ r.at \in {"depth", "push"} => r.copies # <<>>
    /\ r.at = "end" => r.copies = <<>>
    /\ r.at \in {"depth", "push", "end"} =>
          /\ r.packet \in IF r.end = "none" THEN {NoPacket} ELSE Packet
          /\ r.end = "input" => r.packet.pass < MaxPasses

Staged == \A t \in Threads : StagedThread(thread[t])

Finite == \A p \in Ports : IsFiniteSet(egress_buffers[p])

(* Only packets that exist have gone.                                        *)
Gone == \A id \in gone : id <= received

Inv == TypeOK /\ Staged /\ Finite /\ Gone /\ NoPacketLostOrDuplicated
-----------------------------------------------------------------------------
(* Operators.                                                                *)
LEMMA ThreadSet ==
    ASSUME TypeOK, Staged, NEW t \in Threads, NEW r \in Thread, StagedThread(r),
           thread' = [thread EXCEPT ![t] = r]
    PROVE  thread' \in [Threads -> Thread] /\ Staged'
    <1>1. thread' \in [Threads -> Thread] BY DEF TypeOK
    <1>2. \A u \in Threads : thread'[u] = IF u = t THEN r ELSE thread[u]
        BY DEF TypeOK
    <1>3. Staged' BY <1>2 DEF Staged
    <1>4. QED BY <1>1, <1>3

LEMMA IdleOK == Idle \in Thread /\ StagedThread(Idle) /\ Idle.packet = NoPacket
    BY DEF Idle, Thread, Stages, Ends, StagedThread

LEMMA TakesOK ==
    ASSUME NEW packet \in Packet
    PROVE  LET r == [Idle EXCEPT !.at = "apply", !.packet = packet] IN
           r \in Thread /\ StagedThread(r) /\ r.packet = packet /\ r.copies = <<>>
    <1> DEFINE r == [Idle EXCEPT !.at = "apply", !.packet = packet]
    <1>1. /\ r.at = "apply" /\ r.packet = packet /\ r.copies = <<>> /\ r.end = "none"
        BY DEF Idle
    <1>2. r \in Thread
        <2>1. Idle \in Thread BY IdleOK
        <2>2. QED BY <2>1 DEF Thread, Stages
    <1> HIDE DEF r
    <1>3. StagedThread(r) BY <1>1 DEF StagedThread
    <1>4. QED BY <1>1, <1>2, <1>3 DEF r

LEMMA FreshOK ==
    ASSUME NEW id \in Ids, NEW pass \in 0 .. MaxPasses
    PROVE  Fresh(id, pass) \in Packet /\ Fresh(id, pass).id = id
    BY PortsAssumption DEF Fresh, Packet, Ports, UNSET

LEMMA NoPacketOK == NoPacket.id = 0 /\ NoPacket \notin Packet
    BY DEF NoPacket, Packet, Ids

LEMMA PacketWith ==
    ASSUME NEW packet \in Packet, NEW id \in Ids, NEW port \in Ports
    PROVE  /\ [packet EXCEPT !.id = id, !.port = port] \in Packet
           /\ [packet EXCEPT !.id = id, !.port = port].id = id
           /\ [packet EXCEPT !.port = port] \in Packet
           /\ [packet EXCEPT !.port = port].id = packet.id
           /\ [packet EXCEPT !.port = port].pass = packet.pass
    BY DEF Packet

LEMMA CopiesOK ==
    ASSUME NEW packet \in Packet, NEW ports \in Seq(Ports), received \in Nat,
           received + Len(ports) <= MaxPackets
    PROVE  /\ CopiesFor(packet, ports) \in Seq(Packet)
           /\ Len(CopiesFor(packet, ports)) = Len(ports)
           /\ \A i \in 1 .. Len(ports) : CopiesFor(packet, ports)[i].id = received + i
    <1> DEFINE c(i) == [packet EXCEPT !.id = received + i, !.port = ports[i]]
    <1>1. ASSUME NEW i \in 1 .. Len(ports)
          PROVE  c(i) \in Packet /\ c(i).id = received + i
        <2>1. received + i \in Ids /\ ports[i] \in Ports BY BoundsAssumption DEF Ids
        <2>2. QED BY <2>1, PacketWith
    <1>2. CopiesFor(packet, ports) = [i \in 1 .. Len(ports) |-> c(i)] BY DEF CopiesFor
    <1> HIDE DEF c
    <1>3. QED BY <1>1, <1>2

LEMMA MirrorToOK ==
    ASSUME TypeOK, NEW clone \in BOOLEAN
    PROVE  MirrorTo(clone) \in Seq(Ports)
    BY MirrorAssumption DEF TypeOK, MirrorTo

LEMMA ReplicateOK == ASSUME NEW mgid PROVE Replicate(mgid) \in Seq(Ports)
    BY GroupsAssumption DEF Replicate

LEMMA FiniteDepth ==
    ASSUME Finite, NEW p \in Ports
    PROVE  Cardinality(egress_buffers[p]) \in Nat
    BY FS_CardinalityType DEF Finite

-----------------------------------------------------------------------------
(* Types, stages and finite queues.                                          *)
Shaped == TypeOK /\ Staged /\ Finite

LEMMA ReceiveShaped ==
    ASSUME Shaped, Receive
    PROVE  Shaped'
    <1> USE DEF Shaped
    <1>1. received + 1 \in Ids /\ 0 \in 0 .. MaxPasses
        BY BoundsAssumption DEF TypeOK, Receive, Ids
    <1>2. Fresh(received + 1, 0) \in Packet BY <1>1, FreshOK
    <1>3. TypeOK' BY <1>1, <1>2, BoundsAssumption DEF TypeOK, Receive
    <1>4. Staged' /\ Finite' BY DEF Receive, Staged, Finite
    <1>5. QED BY <1>3, <1>4

LEMMA IngressPopShaped ==
    ASSUME Shaped, IngressPop
    PROVE  Shaped'
    <1> USE DEF Shaped
    <1> DEFINE r == [Idle EXCEPT !.at = "apply", !.packet = Head(input_buffer)]
    <1>1. Head(input_buffer) \in Packet /\ Tail(input_buffer) \in Seq(Packet)
        BY DEF TypeOK, IngressPop
    <1>2. r \in Thread /\ StagedThread(r)
        BY <1>1, TakesOK
    <1>3. thread' = [thread EXCEPT ![Ingress] = r] /\ Ingress \in Threads
        BY DEF IngressPop, Threads
    <1> HIDE DEF r
    <1>4. thread' \in [Threads -> Thread] /\ Staged' BY <1>2, <1>3, ThreadSet
    <1>5. TypeOK' BY <1>1, <1>4 DEF TypeOK, IngressPop
    <1>6. Finite' BY DEF IngressPop, Finite
    <1>7. QED BY <1>4, <1>5, <1>6

LEMMA IngressApplyShaped ==
    ASSUME Shaped, NEW clone \in BOOLEAN, NEW resubmit \in BOOLEAN, NEW mgid \in Nat,
           NEW egress_spec \in Ports \cup {DROP},
           IngressApply(clone, resubmit, mgid, egress_spec)
    PROVE  Shaped' /\ received' >= received
    <1> USE DEF Shaped
    <1> DEFINE packet == thread[Ingress].packet
               plan == IngressPlan(clone, resubmit, mgid, egress_spec)
               new == CopiesFor(packet, plan.copies)
               copies == IF plan.end = "none"
                         THEN Append(new, [packet EXCEPT !.port = egress_spec])
                         ELSE new
               r == [at |-> NextStage(copies),
                     packet |-> IF plan.end = "none" THEN NoPacket ELSE packet,
                     copies |-> copies, end |-> plan.end]
    <1>1. Ingress \in Threads /\ thread[Ingress] \in Thread /\ packet \in Packet
        BY DEF IngressApply, Threads, TypeOK, Staged, StagedThread
    <1>2. /\ plan.copies \in Seq(Ports) /\ plan.end \in {"none", "drop", "input"}
          /\ plan.end = "none" => egress_spec \in Ports
          /\ plan.end = "input" => resubmit
        BY MirrorToOK, ReplicateOK DEF IngressPlan
    <1>3. /\ resubmit => packet.pass < MaxPasses
          /\ received + Len(new) <= MaxPackets /\ received' = received + Len(new)
          /\ thread' = [thread EXCEPT ![Ingress] = r]
          /\ UNCHANGED <<input_buffer, output_buffer, egress_buffers, capacity,
                         mirroring_map, gone>>
        BY DEF IngressApply
    <1> HIDE DEF packet, plan
    <1>4. Len(new) = Len(plan.copies) BY <1>1, <1>2 DEF CopiesFor
    <1>5. new \in Seq(Packet)
        BY <1>1, <1>2, <1>3, <1>4, CopiesOK DEF TypeOK
    <1> HIDE DEF new
    <1>6. copies \in Seq(Packet)
        <2>1. plan.end = "none" => [packet EXCEPT !.port = egress_spec] \in Packet
            BY <1>1, <1>2 DEF Packet
        <2>2. QED BY <2>1, <1>5
    <1>7. plan.end = "none" => copies # <<>> BY <1>5
    <1> HIDE DEF copies
    <1>8. r \in Thread
        BY <1>1, <1>2, <1>6 DEF Thread, Stages, Ends, NextStage
    <1>9. StagedThread(r)
        BY <1>1, <1>2, <1>3, <1>6 DEF StagedThread, NextStage
    <1> HIDE DEF r
    <1>10. thread' \in [Threads -> Thread] /\ Staged' BY <1>1, <1>3, <1>8, <1>9, ThreadSet
    <1>11. received' \in 0 .. MaxPackets /\ received' >= received
        BY <1>3, <1>5, BoundsAssumption DEF TypeOK
    <1>12. TypeOK' BY <1>3, <1>10, <1>11 DEF TypeOK
    <1>13. Finite' BY <1>3 DEF Finite
    <1>14. QED BY <1>10, <1>11, <1>12, <1>13

LEMMA EgressPopShaped ==
    ASSUME Shaped, NEW w \in Workers, EgressPop(w)
    PROVE  Shaped'
    <1> USE DEF Shaped
    <1>1. PICK port \in Ports : \E packet \in egress_buffers[port] :
             /\ egress_buffers' = [egress_buffers EXCEPT ![port] = @ \ {packet}]
             /\ thread' = [thread EXCEPT ![w] =
                             [Idle EXCEPT !.at = "apply", !.packet = packet]]
        BY DEF EgressPop
    <1>1a. PICK packet \in egress_buffers[port] :
             /\ egress_buffers' = [egress_buffers EXCEPT ![port] = @ \ {packet}]
             /\ thread' = [thread EXCEPT ![w] =
                             [Idle EXCEPT !.at = "apply", !.packet = packet]]
        BY <1>1
    <1> DEFINE r == [Idle EXCEPT !.at = "apply", !.packet = packet]
    <1>2. packet \in Packet BY DEF TypeOK
    <1>3. r \in Thread /\ StagedThread(r) BY <1>2, TakesOK
    <1>4. w \in Threads BY DEF Threads
    <1> HIDE DEF r
    <1>5. thread' \in [Threads -> Thread] /\ Staged'
        BY <1>1a, <1>3, <1>4, ThreadSet DEF r
    <1>6. TypeOK' BY <1>1a, <1>5 DEF TypeOK, EgressPop
    <1>7. \A p \in Ports : egress_buffers'[p] =
             IF p = port THEN egress_buffers[p] \ {packet} ELSE egress_buffers[p]
        BY <1>1a DEF TypeOK
    <1>8. IsFiniteSet(egress_buffers[port] \ {packet})
        BY FS_RemoveElement DEF Finite
    <1>9. Finite' BY <1>7, <1>8 DEF Finite
    <1>10. QED BY <1>5, <1>6, <1>9

LEMMA EgressApplyShaped ==
    ASSUME Shaped, NEW w \in Workers, NEW clone \in BOOLEAN,
           NEW recirculate \in BOOLEAN, NEW egress_spec \in Ports \cup {UNSET, DROP},
           EgressApply(w, clone, recirculate, egress_spec)
    PROVE  Shaped' /\ received' >= received
    <1> USE DEF Shaped
    <1> DEFINE packet == thread[w].packet
               new == CopiesFor(packet, MirrorTo(clone))
               sent == [packet EXCEPT !.port = EgressPort(@, egress_spec)]
               end == CASE egress_spec = DROP -> "drop"
                        [] egress_spec # DROP /\ recirculate -> "input"
                        [] OTHER -> "output"
               r == [at |-> NextStage(new), copies |-> new, packet |-> sent, end |-> end]
    <1>1. w \in Threads /\ packet \in Packet
        BY DEF EgressApply, Threads, Staged, StagedThread
    <1>2. /\ recirculate => packet.pass < MaxPasses
          /\ received + Len(new) <= MaxPackets /\ received' = received + Len(new)
          /\ thread' = [thread EXCEPT ![w] = r]
          /\ UNCHANGED <<input_buffer, output_buffer, egress_buffers, capacity,
                         mirroring_map, gone>>
        BY DEF EgressApply
    <1>3. end \in {"drop", "input", "output"} /\ (end = "input" => recirculate)
        OBVIOUS
    <1> HIDE DEF packet, end
    <1>4. sent \in Packet /\ sent.pass = packet.pass
        <2>1. EgressPort(packet.port, egress_spec) \in Ports
            BY <1>1 DEF EgressPort, Packet
        <2>2. QED BY <2>1, <1>1, PacketWith DEF Packet
    <1> HIDE DEF sent
    <1>5. Len(new) = Len(MirrorTo(clone)) /\ MirrorTo(clone) \in Seq(Ports)
        BY MirrorToOK DEF CopiesFor
    <1>6. new \in Seq(Packet) BY <1>1, <1>2, <1>5, CopiesOK DEF TypeOK
    <1> HIDE DEF new
    <1>7. r \in Thread BY <1>3, <1>4, <1>6 DEF Thread, Stages, Ends, NextStage
    <1>8. StagedThread(r) BY <1>2, <1>3, <1>4 DEF StagedThread, NextStage
    <1> HIDE DEF r
    <1>9. thread' \in [Threads -> Thread] /\ Staged' BY <1>1, <1>2, <1>7, <1>8, ThreadSet
    <1>10. received' \in 0 .. MaxPackets /\ received' >= received
        BY <1>2, <1>6, BoundsAssumption DEF TypeOK
    <1>11. TypeOK' BY <1>2, <1>9, <1>10 DEF TypeOK
    <1>12. Finite' BY <1>2 DEF Finite
    <1>13. QED BY <1>9, <1>10, <1>11, <1>12

(* The thread after the depth of the queue of its next copy is noted.        *)
LEMMA DepthIs ==
    ASSUME TypeOK, Staged, Finite, NEW t \in Threads, EnqueueDepth(t)
    PROVE  \E c \in Seq(Packet) :
              /\ Len(c) = Len(thread[t].copies)
              /\ \A i \in DOMAIN c : c[i].id = thread[t].copies[i].id
              /\ thread' = [thread EXCEPT ![t] = [thread[t] EXCEPT !.at = "push",
                                                                   !.copies = c]]
    <1> DEFINE old == thread[t].copies
               port == Head(old).port
               n == Cardinality(egress_buffers[port])
               c == [old EXCEPT ![1].enq_qdepth = n]
    <1>1. thread[t] \in Thread /\ old \in Seq(Packet) /\ old # <<>>
        BY DEF TypeOK, Staged, StagedThread, EnqueueDepth, Thread
    <1>2. old[1] \in Packet /\ Head(old) = old[1] /\ 1 \in DOMAIN old BY <1>1
    <1>3. n \in Nat
        <2>1. port \in Ports BY <1>2 DEF Packet
        <2>2. QED BY <2>1, FiniteDepth
    <1>4. thread' = [thread EXCEPT ![t].at = "push", ![t].copies[1].enq_qdepth = n]
        BY DEF EnqueueDepth
    <1> HIDE DEF n
    <1>5. thread' = [thread EXCEPT ![t] = [thread[t] EXCEPT !.at = "push", !.copies = c]]
        BY <1>1, <1>4 DEF TypeOK, Thread
    <1>6. [old[1] EXCEPT !.enq_qdepth = n] \in Packet
        BY <1>2, <1>3 DEF Packet
    <1>7. [old[1] EXCEPT !.enq_qdepth = n].id = old[1].id BY <1>2 DEF Packet
    <1>8. /\ c \in Seq(Packet) /\ Len(c) = Len(old)
          /\ \A i \in DOMAIN c : c[i].id = old[i].id
        BY <1>1, <1>2, <1>6, <1>7
    <1> HIDE DEF c
    <1>9. QED BY <1>5, <1>8

LEMMA EnqueueDepthShaped ==
    ASSUME Shaped, NEW t \in Threads, EnqueueDepth(t)
    PROVE  Shaped'
    <1> USE DEF Shaped
    <1>1. PICK c \in Seq(Packet) :
              /\ Len(c) = Len(thread[t].copies)
              /\ thread' = [thread EXCEPT ![t] = [thread[t] EXCEPT !.at = "push",
                                                                   !.copies = c]]
        BY DepthIs
    <1> DEFINE r == [thread[t] EXCEPT !.at = "push", !.copies = c]
    <1>2. /\ thread[t] \in Thread /\ StagedThread(thread[t])
          /\ thread[t].at = "depth"
        BY DEF TypeOK, Staged, EnqueueDepth
    <1>3. r \in Thread BY <1>2 DEF Thread, Stages
    <1>4. /\ r.at = "push" /\ r.copies = c /\ r.end = thread[t].end
          /\ r.packet = thread[t].packet
        BY <1>2 DEF Thread
    <1>5. c # <<>>
        <2>1. thread[t].copies \in Seq(Packet) /\ thread[t].copies # <<>>
            BY <1>2 DEF StagedThread, Thread
        <2>2. QED BY <2>1, <1>1
    <1> HIDE DEF r
    <1>6. StagedThread(r) BY <1>2, <1>4, <1>5 DEF StagedThread
    <1>7. thread' \in [Threads -> Thread] /\ Staged'
        BY <1>1, <1>3, <1>6, ThreadSet DEF r
    <1>8. TypeOK' BY <1>7 DEF TypeOK, EnqueueDepth
    <1>9. Finite' BY DEF EnqueueDepth, Finite
    <1>10. QED BY <1>7, <1>8, <1>9
(* The push of a copy: the thread goes on with the rest of its copies.       *)
LEMMA PushIs ==
    ASSUME TypeOK, Staged, NEW t \in Threads, EnqueuePush(t)
    PROVE  LET copy == Head(thread[t].copies)
               rest == Tail(thread[t].copies)
           IN  /\ thread[t].copies \in Seq(Packet) /\ thread[t].copies # <<>>
               /\ copy \in Packet /\ rest \in Seq(Packet)
               /\ thread' = [thread EXCEPT ![t] = [thread[t] EXCEPT
                                !.at = NextStage(rest), !.copies = rest]]
               /\ \/ gone' = gone \cup {copy.id} /\ UNCHANGED egress_buffers
                  \/ /\ egress_buffers' =
                           [egress_buffers EXCEPT ![copy.port] = @ \cup {copy}]
                     /\ UNCHANGED gone
               /\ UNCHANGED <<input_buffer, output_buffer, capacity, mirroring_map,
                              received>>
    <1>1. /\ thread[t] \in Thread /\ thread[t].copies \in Seq(Packet)
          /\ thread[t].copies # <<>>
        BY DEF TypeOK, Staged, StagedThread, EnqueuePush, Thread
    <1> DEFINE copy == Head(thread[t].copies)
               rest == Tail(thread[t].copies)
    <1>2. copy \in Packet /\ rest \in Seq(Packet) BY <1>1
    <1>3. thread' = [thread EXCEPT ![t].at = NextStage(rest), ![t].copies = rest]
        BY DEF EnqueuePush
    <1>4. Push(copy.port, copy)
          /\ UNCHANGED <<input_buffer, output_buffer, capacity, mirroring_map, received>>
        BY DEF EnqueuePush
    <1> HIDE DEF copy, rest
    <1>5. thread' = [thread EXCEPT ![t] = [thread[t] EXCEPT
                        !.at = NextStage(rest), !.copies = rest]]
        BY <1>1, <1>3 DEF TypeOK, Thread
    <1>6. \/ gone' = gone \cup {copy.id} /\ UNCHANGED egress_buffers
          \/ /\ egress_buffers' = [egress_buffers EXCEPT ![copy.port] = @ \cup {copy}]
             /\ UNCHANGED gone
        BY <1>4 DEF Push, TailDrop
    <1>7. QED BY <1>1, <1>2, <1>4, <1>5, <1>6 DEF copy, rest

LEMMA EnqueuePushShaped ==
    ASSUME Shaped, NEW t \in Threads, EnqueuePush(t)
    PROVE  Shaped'
    <1> USE DEF Shaped
    <1> DEFINE copy == Head(thread[t].copies)
               rest == Tail(thread[t].copies)
               r == [thread[t] EXCEPT !.at = NextStage(rest), !.copies = rest]
    <1>1. /\ copy \in Packet /\ rest \in Seq(Packet)
          /\ thread' = [thread EXCEPT ![t] = r]
          /\ \/ gone' = gone \cup {copy.id} /\ UNCHANGED egress_buffers
             \/ /\ egress_buffers' = [egress_buffers EXCEPT ![copy.port] = @ \cup {copy}]
                /\ UNCHANGED gone
          /\ UNCHANGED <<input_buffer, output_buffer, capacity, mirroring_map, received>>
        BY PushIs
    <1>2. /\ thread[t] \in Thread /\ StagedThread(thread[t]) /\ thread[t].at = "push"
        BY DEF TypeOK, Staged, EnqueuePush
    <1> HIDE DEF copy, rest
    <1>3. r \in Thread BY <1>1, <1>2 DEF Thread, Stages, NextStage
    <1>4. /\ r.at = NextStage(rest) /\ r.copies = rest /\ r.end = thread[t].end
          /\ r.packet = thread[t].packet
        BY <1>2 DEF Thread
    <1> HIDE DEF r
    <1>5. StagedThread(r) BY <1>2, <1>4 DEF StagedThread, NextStage
    <1>6. thread' \in [Threads -> Thread] /\ Staged' BY <1>1, <1>3, <1>5, ThreadSet
    <1>7. copy.port \in Ports /\ copy.id \in Ids BY <1>1 DEF Packet
    <1>8. egress_buffers' \in [Ports -> SUBSET Packet] /\ gone' \subseteq Ids
        BY <1>1, <1>7 DEF TypeOK
    <1>9. TypeOK' BY <1>1, <1>6, <1>8 DEF TypeOK
    <1>10. Finite'
        <2>1. CASE UNCHANGED egress_buffers BY <2>1 DEF Finite
        <2>2. CASE egress_buffers' = [egress_buffers EXCEPT ![copy.port] = @ \cup {copy}]
            <3>1. IsFiniteSet(egress_buffers[copy.port] \cup {copy})
                BY <1>7, FS_AddElement DEF Finite
            <3>2. QED BY <2>2, <3>1 DEF Finite, TypeOK
        <2>3. QED BY <1>1, <2>1, <2>2
    <1>11. QED BY <1>6, <1>9, <1>10

LEMMA EndPacketShaped ==
    ASSUME Shaped, NEW t \in Threads, EndPacket(t)
    PROVE  Shaped'
    <1> USE DEF Shaped
    <1> DEFINE packet == thread[t].packet
               end == thread[t].end
    <1>1. /\ thread' = [thread EXCEPT ![t] = Idle] /\ Finish(end, packet)
          /\ UNCHANGED <<egress_buffers, capacity, mirroring_map, received>>
        BY DEF EndPacket
    <1>2. /\ end # "none" => packet \in Packet
          /\ end = "input" => packet.pass < MaxPasses
        BY DEF EndPacket, Staged, StagedThread
    <1> HIDE DEF packet, end
    <1>3. thread' \in [Threads -> Thread] /\ Staged' BY <1>1, IdleOK, ThreadSet
    <1>4. end = "input" => Fresh(packet.id, packet.pass + 1) \in Packet
        <2>1. end = "input" => packet.id \in Ids /\ packet.pass + 1 \in 0 .. MaxPasses
            BY <1>2, BoundsAssumption DEF Packet
        <2>2. QED BY <2>1, FreshOK
    <1>5. end = "drop" => packet.id \in Ids BY <1>2 DEF Packet
    <1>6. /\ input_buffer' \in Seq(Packet) /\ output_buffer' \in Seq(Packet)
          /\ gone' \subseteq Ids
        <2>1. /\ input_buffer \in Seq(Packet) /\ output_buffer \in Seq(Packet)
              /\ gone \subseteq Ids
            BY DEF TypeOK
        <2>2. CASE end = "none" BY <2>1, <2>2, <1>1 DEF Finish
        <2>3. CASE end = "drop" BY <2>1, <2>3, <1>1, <1>5 DEF Finish
        <2>4. CASE end = "input"
            <3>1. /\ input_buffer' = Append(input_buffer, Fresh(packet.id, packet.pass + 1))
                  /\ UNCHANGED <<output_buffer, gone>>
                BY <2>4, <1>1 DEF Finish
            <3>2. QED BY <3>1, <2>1, <2>4, <1>4
        <2>5. CASE end = "output" BY <2>1, <2>5, <1>1, <1>2 DEF Finish
        <2>6. QED BY <1>1, <2>2, <2>3, <2>4, <2>5 DEF Finish
    <1>7. TypeOK' BY <1>1, <1>3, <1>6 DEF TypeOK
    <1>8. Finite' BY <1>1 DEF Finite
    <1>9. QED BY <1>3, <1>7, <1>8

LEMMA TransmitShaped ==
    ASSUME Shaped, Transmit
    PROVE  Shaped'
    <1> USE DEF Shaped
    <1>1. Head(output_buffer).id \in Ids /\ Tail(output_buffer) \in Seq(Packet)
        <2>1. Head(output_buffer) \in Packet /\ Tail(output_buffer) \in Seq(Packet)
            BY DEF TypeOK, Transmit
        <2>2. QED BY <2>1 DEF Packet
    <1>2. TypeOK' BY <1>1 DEF TypeOK, Transmit
    <1>3. Staged' /\ Finite' BY DEF Transmit, Staged, Finite
    <1>4. QED BY <1>2, <1>3

LEMMA ControlShaped ==
    ASSUME Shaped,
           \/ \E port \in Ports, depth \in QueueDepths : SetEgressQueueDepth(port, depth)
           \/ \E port \in MirrorPorts \cup {NoPort} : SetMirroring(port)
    PROVE  Shaped'
    BY DepthsAssumption
    DEF Shaped, TypeOK, Staged, Finite, SetEgressQueueDepth, SetMirroring

-----------------------------------------------------------------------------
(* Places.                                                                   *)
InInput(x, id) ==
    \E i \in DOMAIN input_buffer : x = <<"input", i, 0>> /\ input_buffer[i].id = id
InOutput(x, id) ==
    \E i \in DOMAIN output_buffer : x = <<"output", i, 0>> /\ output_buffer[i].id = id
InEgress(x, id) ==
    \E p \in Ports : \E q \in egress_buffers[p] : x = <<"egress", p, q>> /\ q.id = id
InThread(x, id) == \E t \in Threads : x = <<"thread", t, 0>> /\ thread[t].packet.id = id
InCopies(x, id) ==
    \E t \in Threads : \E i \in DOMAIN thread[t].copies :
       x = <<"copy", t, i>> /\ thread[t].copies[i].id = id

Holds(x, id) == \/ InInput(x, id) \/ InOutput(x, id) \/ InEgress(x, id)
                \/ InThread(x, id) \/ InCopies(x, id)

LEMMA Kinds ==
    ASSUME NEW x, NEW id
    PROVE  /\ InInput(x, id) => x[1] = "input"
           /\ InOutput(x, id) => x[1] = "output"
           /\ InEgress(x, id) => x[1] = "egress"
           /\ InThread(x, id) => x[1] = "thread"
           /\ InCopies(x, id) => x[1] = "copy"
           /\ InInput(x, id)' => x[1] = "input"
           /\ InOutput(x, id)' => x[1] = "output"
           /\ InEgress(x, id)' => x[1] = "egress"
           /\ InThread(x, id)' => x[1] = "thread"
           /\ InCopies(x, id)' => x[1] = "copy"
    BY DEF InInput, InOutput, InEgress, InThread, InCopies

(* The parts that a step leaves alone.                                       *)
LEMMA PartsFrame ==
    ASSUME NEW x, NEW id
    PROVE  /\ UNCHANGED input_buffer => (InInput(x, id)' <=> InInput(x, id))
           /\ UNCHANGED output_buffer => (InOutput(x, id)' <=> InOutput(x, id))
           /\ UNCHANGED egress_buffers => (InEgress(x, id)' <=> InEgress(x, id))
    BY DEF InInput, InOutput, InEgress

LEMMA PlacesAre ==
    ASSUME NEW id
    PROVE  /\ \A x : x \in Places(id) <=> Holds(x, id)
           /\ \A x : x \in Places(id)' <=> Holds(x, id)'
    <1>1. ASSUME NEW x
          PROVE  x \in Places(id) <=> Holds(x, id)
        <2>1. x \in InputPlaces(id) <=> \E i \in DOMAIN input_buffer :
                             x = <<"input", i, 0>> /\ input_buffer[i].id = id
            BY DEF InSeq, InputPlaces
        <2>2. x \in OutputPlaces(id) <=> \E i \in DOMAIN output_buffer :
                             x = <<"output", i, 0>> /\ output_buffer[i].id = id
            BY DEF InSeq, OutputPlaces
        <2>3. x \in EgressPlaces(id) <=> \E p \in Ports : \E q \in egress_buffers[p] :
                             x = <<"egress", p, q>> /\ q.id = id
            BY DEF EgressPlaces
        <2>4. x \in ThreadPlaces(id) <=> \E t \in Threads :
                             x = <<"thread", t, 0>> /\ thread[t].packet.id = id
            BY DEF ThreadPlaces
        <2>5. x \in CopyPlaces(id) <=> \E t \in Threads : \E i \in DOMAIN thread[t].copies :
                             x = <<"copy", t, i>> /\ thread[t].copies[i].id = id
            BY DEF InSeq, CopyPlaces
        <2>6. QED BY <2>1, <2>2, <2>3, <2>4, <2>5 
            DEF Holds, Places, InInput, InOutput, InEgress, InThread, InCopies
    <1>2. ASSUME NEW x
          PROVE  x \in Places(id)' <=> Holds(x, id)'
        <2>1. x \in InputPlaces(id)' <=> \E i \in DOMAIN input_buffer' :
                              x = <<"input", i, 0>> /\ input_buffer'[i].id = id
            BY DEF InSeq, InputPlaces
        <2>2. x \in OutputPlaces(id)' <=> \E i \in DOMAIN output_buffer' :
                              x = <<"output", i, 0>> /\ output_buffer'[i].id = id
            BY DEF InSeq, OutputPlaces
        <2>3. x \in EgressPlaces(id)' <=> \E p \in Ports : \E q \in egress_buffers'[p] :
                              x = <<"egress", p, q>> /\ q.id = id
            BY DEF EgressPlaces
        <2>4. x \in ThreadPlaces(id)' <=> \E t \in Threads :
                              x = <<"thread", t, 0>> /\ thread'[t].packet.id = id
            BY DEF ThreadPlaces
        <2>5. x \in CopyPlaces(id)' <=> \E t \in Threads : \E i \in DOMAIN thread'[t].copies :
                              x = <<"copy", t, i>> /\ thread'[t].copies[i].id = id
            BY DEF InSeq, CopyPlaces
        <2>6. QED BY <2>1, <2>2, <2>3, <2>4, <2>5 
            DEF Holds, Places, InInput, InOutput, InEgress, InThread, InCopies
    <1>3. QED BY <1>1, <1>2

(* A packet that is in one place stays in one place, one in none in none.    *)
Single(S) == \E x \in S : S = {x}
Kept(id) == /\ Places(id) = {} => Places(id)' = {}
            /\ Single(Places(id)) => Single(Places(id)')

LEMMA IngressPopKeeps ==
    ASSUME TypeOK, Staged, IngressPop, NEW id \in Ids
    PROVE  Kept(id)
    <1> DEFINE to(x) == IF x = <<"input", 1, 0>> THEN <<"thread", Ingress, 0>>
                        ELSE IF x[1] = "input" THEN <<"input", x[2] - 1, 0>> ELSE x
    <1>1. /\ input_buffer \in Seq(Packet) /\ input_buffer # <<>>
          /\ input_buffer' = Tail(input_buffer)
          /\ UNCHANGED <<output_buffer, egress_buffers>>
        BY DEF TypeOK, IngressPop
    <1>2. /\ DOMAIN input_buffer = 1 .. Len(input_buffer) /\ Len(input_buffer) \in Nat \ {0}
          /\ DOMAIN input_buffer' = 1 .. Len(input_buffer) - 1
          /\ \A i \in 1 .. Len(input_buffer) - 1 : input_buffer'[i] = input_buffer[i + 1]
        BY <1>1
    <1>3. /\ Ingress \in Threads /\ thread[Ingress].packet.id = 0
          /\ thread[Ingress].copies = <<>>
        BY DEF IngressPop, Threads, Staged, StagedThread, Idle, NoPacket
    <1>4. /\ thread'[Ingress].packet = input_buffer[1] /\ thread'[Ingress].copies = <<>>
          /\ \A t \in Threads : t # Ingress => thread'[t] = thread[t]
        <2>1. Head(input_buffer) \in Packet /\ Head(input_buffer) = input_buffer[1] BY <1>1
        <2>2. thread' = [thread EXCEPT ![Ingress] =
                    [Idle EXCEPT !.at = "apply", !.packet = Head(input_buffer)]]
            BY DEF IngressPop
        <2>3. QED BY <2>1, <2>2, <1>3, TakesOK DEF TypeOK
    <1>5. id # 0 BY DEF Ids
    <1>6. ASSUME NEW x, Holds(x, id) PROVE Holds(to(x), id)'
        <2>1. CASE InInput(x, id)
            <3>1. PICK i \in DOMAIN input_buffer :
                     x = <<"input", i, 0>> /\ input_buffer[i].id = id
                BY <2>1 DEF InInput
            <3>2. CASE i = 1
                <4>1. to(x) = <<"thread", Ingress, 0>> BY <3>1, <3>2
                <4>2. InThread(to(x), id)' BY <4>1, <3>1, <3>2, <1>3, <1>4 DEF InThread
                <4>3. QED BY <4>2 DEF Holds
            <3>3. CASE i # 1
                <4>1. to(x) = <<"input", i - 1, 0>> BY <3>1, <3>3
                <4>2. i - 1 \in DOMAIN input_buffer' /\ input_buffer'[i - 1] = input_buffer[i]
                    BY <3>3, <1>2
                <4>3. InInput(to(x), id)' BY <4>1, <4>2, <3>1 DEF InInput
                <4>4. QED BY <4>3 DEF Holds
            <3>4. QED BY <3>2, <3>3
        <2>2. CASE ~InInput(x, id)
            <3>1. to(x) = x BY <2>2, <1>6, Kinds DEF Holds
            <3>2. InThread(x, id) => InThread(x, id)' BY <1>3, <1>4, <1>5 DEF InThread
            <3>3. InCopies(x, id) => InCopies(x, id)' BY <1>3, <1>4 DEF InCopies
            <3> HIDE DEF to
            <3>4. QED BY <3>1, <3>2, <3>3, <2>2, <1>1, <1>6, PartsFrame DEF Holds
        <2>3. QED BY <2>1, <2>2
    <1>7. ASSUME NEW y, Holds(y, id)' PROVE \E x : Holds(x, id) /\ y = to(x)
        <2>1. CASE InInput(y, id)'
            <3>1. PICK i \in DOMAIN input_buffer' :
                     y = <<"input", i, 0>> /\ input_buffer'[i].id = id
                BY <2>1 DEF InInput
            <3> DEFINE x == <<"input", i + 1, 0>>
            <3>2. i + 1 \in DOMAIN input_buffer /\ input_buffer'[i] = input_buffer[i + 1]
                BY <1>2
            <3>3. InInput(x, id) BY <3>1, <3>2 DEF InInput
            <3>4. y = to(x) BY <3>1, <1>2
            <3>5. QED BY <3>3, <3>4 DEF Holds
        <2>2. CASE y = <<"thread", Ingress, 0>>
            <3>1. input_buffer[1].id = id BY <1>4, <1>7, <2>2 DEF Holds, InThread, InInput, InOutput, InEgress, InCopies
            <3>2. InInput(<<"input", 1, 0>>, id) BY <3>1, <1>2 DEF InInput
            <3>3. QED BY <3>2, <2>2 DEF Holds
        <2>3. CASE ~InInput(y, id)' /\ y # <<"thread", Ingress, 0>>
            <3>1. to(y) = y BY <2>3, <1>7, Kinds DEF Holds
            <3>2. InThread(y, id)' => InThread(y, id) BY <1>4, <2>3 DEF InThread
            <3>3. InCopies(y, id)' => InCopies(y, id) BY <1>4 DEF InCopies
            <3> HIDE DEF to
            <3>4. QED BY <3>1, <3>2, <3>3, <2>3, <1>1, <1>7, PartsFrame DEF Holds
        <2>4. QED BY <2>1, <2>2, <2>3
    <1> HIDE DEF to
    <1>8. QED BY <1>6, <1>7, PlacesAre DEF Kept, Single

(* What a thread that changes holds, and what a push adds to a buffer.       *)
LEMMA ThreadParts ==
    ASSUME NEW t \in Threads, \A u \in Threads : u # t => thread'[u] = thread[u],
           NEW x, NEW id
    PROVE  /\ InThread(x, id)' <=> \/ x # <<"thread", t, 0>> /\ InThread(x, id)
                                   \/ x = <<"thread", t, 0>> /\ thread'[t].packet.id = id
           /\ InCopies(x, id)' <=> \/ x[2] # t /\ InCopies(x, id)
                                   \/ \E i \in DOMAIN thread'[t].copies :
                                         /\ x = <<"copy", t, i>>
                                         /\ thread'[t].copies[i].id = id
    <1>1. InThread(x, id)' <=> \/ x # <<"thread", t, 0>> /\ InThread(x, id)
                               \/ x = <<"thread", t, 0>> /\ thread'[t].packet.id = id
        BY DEF InThread
    <1>2. InCopies(x, id)' <=> \/ x[2] # t /\ InCopies(x, id)
                               \/ \E i \in DOMAIN thread'[t].copies :
                                     x = <<"copy", t, i>> /\ thread'[t].copies[i].id = id
        <2>1. InCopies(x, id)' <=> \E u \in Threads : \E i \in DOMAIN thread'[u].copies :
                                      x = <<"copy", u, i>> /\ thread'[u].copies[i].id = id
            BY DEF InCopies
        <2>2. InCopies(x, id) <=> \E u \in Threads : \E i \in DOMAIN thread[u].copies :
                                     x = <<"copy", u, i>> /\ thread[u].copies[i].id = id
            BY DEF InCopies
        <2>3. QED BY <2>1, <2>2
    <1>3. QED BY <1>1, <1>2

LEMMA NoCopies ==
    ASSUME NEW t \in Threads, thread[t].copies = <<>>, NEW x, NEW id, InCopies(x, id)
    PROVE  x[2] # t
    BY DEF InCopies

LEMMA AppendedPart ==
    ASSUME TypeOK, NEW q, NEW x, NEW id
    PROVE  /\ input_buffer' = Append(input_buffer, q) =>
                 (InInput(x, id)' <=> \/ InInput(x, id)
                                      \/ /\ x = <<"input", Len(input_buffer) + 1, 0>>
                                         /\ q.id = id)
           /\ output_buffer' = Append(output_buffer, q) =>
                 (InOutput(x, id)' <=> \/ InOutput(x, id)
                                       \/ /\ x = <<"output", Len(output_buffer) + 1, 0>>
                                          /\ q.id = id)
    <1>1. ASSUME NEW s \in Seq(Packet)
          PROVE  LET a == Append(s, q) IN
                 /\ DOMAIN s = 1 .. Len(s) /\ Len(s) \in Nat
                 /\ DOMAIN a = 1 .. Len(s) + 1
                 /\ DOMAIN a = DOMAIN s \cup {Len(s) + 1}
                 /\ a[Len(s) + 1] = q /\ \A i \in DOMAIN s : a[i] = s[i]
        <2>1. /\ DOMAIN Append(s, q) = 1 .. Len(s) + 1 /\ DOMAIN s = 1 .. Len(s)
              /\ Len(s) \in Nat /\ Append(s, q)[Len(s) + 1] = q
              /\ \A i \in 1 .. Len(s) : Append(s, q)[i] = s[i]
            OBVIOUS
        <2>2. QED BY <2>1
    <1>2. input_buffer \in Seq(Packet) /\ output_buffer \in Seq(Packet) BY DEF TypeOK
    <1>3. input_buffer' = Append(input_buffer, q) =>
                 (InInput(x, id)' <=> \/ InInput(x, id)
                                      \/ /\ x = <<"input", Len(input_buffer) + 1, 0>>
                                         /\ q.id = id)
        BY <1>1, <1>2 DEF InInput
    <1>4. output_buffer' = Append(output_buffer, q) =>
                 (InOutput(x, id)' <=> \/ InOutput(x, id)
                                       \/ /\ x = <<"output", Len(output_buffer) + 1, 0>>
                                          /\ q.id = id)
        BY <1>1, <1>2 DEF InOutput
    <1>5. QED BY <1>3, <1>4

LEMMA ReceiveKeeps ==
    ASSUME TypeOK, Receive, NEW id \in Ids
    PROVE  /\ id # received + 1 => Places(id)' = Places(id)
           /\ id = received + 1 /\ Places(id) = {} => Single(Places(id)')
    <1> DEFINE q == Fresh(received + 1, 0)
               b == <<"input", Len(input_buffer) + 1, 0>>
    <1>1. /\ input_buffer' = Append(input_buffer, q)
          /\ UNCHANGED <<output_buffer, egress_buffers, thread>>
        BY DEF Receive
    <1>2. q.id = received + 1 BY DEF Fresh
    <1> HIDE DEF q
    <1>3. \A x : InInput(x, id)' <=> InInput(x, id) \/ (x = b /\ q.id = id)
        BY <1>1, AppendedPart
    <1>4. \A x : /\ InOutput(x, id)' <=> InOutput(x, id)
                 /\ InEgress(x, id)' <=> InEgress(x, id)
                 /\ InThread(x, id)' <=> InThread(x, id)
                 /\ InCopies(x, id)' <=> InCopies(x, id)
        BY <1>1 DEF InOutput, InEgress, InThread, InCopies
    <1>5. \A x : Holds(x, id)' <=> Holds(x, id) \/ (x = b /\ q.id = id)
        BY <1>3, <1>4 DEF Holds
    <1> HIDE DEF b
    <1>6. \A x : x \in Places(id)' <=> x \in Places(id) \/ (x = b /\ q.id = id)
        BY <1>5, PlacesAre
    <1>7. QED BY <1>2, <1>6 DEF Single

LEMMA IngressApplyKeeps ==
    ASSUME Shaped, NEW clone \in BOOLEAN, NEW resubmit \in BOOLEAN, NEW mgid \in Nat,
           NEW egress_spec \in Ports \cup {DROP},
           IngressApply(clone, resubmit, mgid, egress_spec), NEW id \in Ids
    PROVE  /\ id <= received => Kept(id)
           /\ id > received /\ Places(id) = {} =>
                 IF id <= received' THEN Single(Places(id)') ELSE Places(id)' = {}
    <1> USE DEF Shaped
    <1> DEFINE packet == thread[Ingress].packet
               plan == IngressPlan(clone, resubmit, mgid, egress_spec)
               new == CopiesFor(packet, plan.copies)
               self == [packet EXCEPT !.port = egress_spec]
               copies == IF plan.end = "none" THEN Append(new, self) ELSE new
               rest == IF plan.end = "none" THEN NoPacket ELSE packet
               r == [at |-> NextStage(copies), packet |-> rest,
                     copies |-> copies, end |-> plan.end]
               n == Len(plan.copies)
    <1>1. /\ Ingress \in Threads /\ packet \in Packet
          /\ thread[Ingress].copies = <<>>
        BY DEF IngressApply, Threads, TypeOK, Staged, StagedThread
    <1>2. /\ plan.copies \in Seq(Ports)
          /\ plan.end = "none" => egress_spec \in Ports
        BY MirrorToOK, ReplicateOK DEF IngressPlan
    <1>3. /\ received + Len(new) <= MaxPackets /\ received' = received + Len(new)
          /\ thread' = [thread EXCEPT ![Ingress] = r]
          /\ UNCHANGED <<input_buffer, output_buffer, egress_buffers>>
        BY DEF IngressApply
    <1>4. received \in Nat /\ MaxPackets \in Nat /\ n \in Nat
        BY <1>2, BoundsAssumption DEF TypeOK
    <1> HIDE DEF packet, plan
    <1>5. Len(new) = n BY <1>2 DEF CopiesFor
    <1>6. /\ new \in Seq(Packet) /\ \A i \in 1 .. n : new[i].id = received + i
        BY <1>1, <1>2, <1>3, <1>4, <1>5, CopiesOK
    <1>7. plan.end = "none" => self \in Packet /\ self.id = packet.id
        BY <1>1, <1>2 DEF Packet
    <1> HIDE DEF new, self
    <1>8. /\ \A i \in 1 .. n : i \in DOMAIN copies /\ copies[i].id = received + i
          /\ plan.end = "none" => n + 1 \in DOMAIN copies /\ copies[n + 1].id = packet.id
          /\ \A i \in DOMAIN copies : i \in 1 .. n \/ (plan.end = "none" /\ i = n + 1)
        <2>1. CASE plan.end = "none"
            <3>1. copies = Append(new, self) BY <2>1
            <3>2. /\ DOMAIN copies = 1 .. n + 1 /\ copies[n + 1] = self
                  /\ \A i \in 1 .. n : copies[i] = new[i]
                BY <3>1, <2>1, <1>4, <1>5, <1>6, <1>7
            <3> HIDE DEF copies
            <3>3. QED BY <3>2, <2>1, <1>4, <1>6, <1>7
        <2>2. CASE plan.end # "none"
            <3>1. copies = new /\ DOMAIN copies = 1 .. n BY <2>2, <1>5, <1>6
            <3> HIDE DEF copies
            <3>2. QED BY <3>1, <2>2, <1>6
        <2>3. QED BY <2>1, <2>2
    <1>9. /\ plan.end = "none" => rest.id = 0
          /\ plan.end # "none" => rest.id = packet.id
        BY DEF NoPacket
    <1>10. r.packet = rest /\ r.copies = copies OBVIOUS
    <1> HIDE DEF copies, rest
    <1> DEFINE a == <<"thread", Ingress, 0>>
               b(i) == <<"copy", Ingress, i>>
    <1> HIDE DEF r
    <1>11. ASSUME NEW x
           PROVE  /\ InThread(x, id)' <=> \/ x # a /\ InThread(x, id)
                                          \/ x = a /\ rest.id = id
                  /\ InCopies(x, id)' <=> \/ InCopies(x, id)
                                          \/ \E i \in DOMAIN copies :
                                                x = b(i) /\ copies[i].id = id
        <2>1. InCopies(x, id) => x[2] # Ingress BY <1>1, NoCopies
        <2>2. /\ InThread(x, id)' <=> \/ x # a /\ InThread(x, id)
                                      \/ x = a /\ r.packet.id = id
              /\ InCopies(x, id)' <=> \/ x[2] # Ingress /\ InCopies(x, id)
                                      \/ \E i \in DOMAIN r.copies :
                                            x = b(i) /\ r.copies[i].id = id
            <3>1. /\ thread'[Ingress] = r
                  /\ \A u \in Threads : u # Ingress => thread'[u] = thread[u]
                BY <1>1, <1>3 DEF TypeOK
            <3>2. QED BY <3>1, <1>1, ThreadParts
        <2> HIDE DEF a, b
        <2>3. QED BY <2>1, <2>2, <1>10
    <1>12. InThread(a, id) <=> packet.id = id BY <1>1 DEF InThread, packet
    <1>13. \A x : Holds(x, id)' <=> \/ x # a /\ Holds(x, id)
                                    \/ x = a /\ rest.id = id
                                    \/ \E i \in DOMAIN copies : x = b(i) /\ copies[i].id = id
        <2>1. \A x : /\ InInput(x, id)' <=> InInput(x, id)
                     /\ InOutput(x, id)' <=> InOutput(x, id)
                     /\ InEgress(x, id)' <=> InEgress(x, id)
            BY <1>3, PartsFrame
        <2>2. /\ ~InInput(a, id) /\ ~InOutput(a, id) /\ ~InEgress(a, id)
              /\ ~InCopies(a, id)
            BY DEF InInput, InOutput, InEgress, InCopies
        <2> HIDE DEF a, b
        <2>3. QED BY <2>1, <2>2, <1>11 DEF Holds
    <1>14. Holds(a, id) <=> packet.id = id
        BY <1>12 DEF Holds, InInput, InOutput, InEgress, InCopies
    <1>15. \A i, j : b(i) = b(j) => i = j OBVIOUS
    <1>16. packet.id \in Ids BY <1>1 DEF Packet
    <1>17. id \in Nat \ {0} BY <1>4 DEF Ids
    <1> HIDE DEF a, b
    <1>18. ASSUME id <= received PROVE Kept(id)
        <2>1. \A i \in 1 .. n : copies[i].id # id BY <1>8, <1>18, <1>4, <1>17
        <2>2. CASE plan.end = "none"
            <3>1. \A x : Holds(x, id)' <=> \/ x # a /\ Holds(x, id)
                                           \/ x = b(n + 1) /\ Holds(a, id)
                BY <2>1, <2>2, <1>8, <1>9, <1>13, <1>14, <1>17
            <3>2. \A x : x \in Places(id)' <=> \/ x # a /\ x \in Places(id)
                                               \/ x = b(n + 1) /\ a \in Places(id)
                BY <3>1, PlacesAre
            <3>3. /\ Places(id) = {} => Places(id)' = {}
                  /\ Single(Places(id)) => Single(Places(id)')
                BY <3>2 DEF Single
            <3>4. QED BY <3>3 DEF Kept
        <2>3. CASE plan.end # "none"
            <3>1. \A x : Holds(x, id)' <=> Holds(x, id)
                BY <2>1, <2>3, <1>8, <1>9, <1>13, <1>14
            <3>2. Places(id)' = Places(id) BY <3>1, PlacesAre
            <3>3. QED BY <3>2 DEF Kept
        <2>4. QED BY <2>2, <2>3
    <1>19. ASSUME id > received, Places(id) = {}
           PROVE  IF id <= received' THEN Single(Places(id)') ELSE Places(id)' = {}
        <2>1. \A x : ~Holds(x, id) BY <1>19, PlacesAre
        <2>2. packet.id # id BY <2>1, <1>14
        <2>3. \A x : Holds(x, id)' <=> \E i \in 1 .. n : x = b(i) /\ received + i = id
            BY <2>1, <2>2, <1>8, <1>9, <1>13, <1>17
        <2>4. \A x : x \in Places(id)' <=> \E i \in 1 .. n : x = b(i) /\ received + i = id
            BY <2>3, PlacesAre
        <2>5. CASE id <= received'
            <3>1. id - received \in 1 .. n BY <2>5, <1>3, <1>4, <1>5, <1>17, <1>19
            <3>2. \A i \in 1 .. n : received + i = id <=> i = id - received
                BY <1>4, <1>17
            <3>3. \A x : x \in Places(id)' <=> x = b(id - received) BY <3>1, <3>2, <2>4
            <3>4. QED BY <3>3, <2>5 DEF Single
        <2>6. CASE ~(id <= received')
            <3>1. \A i \in 1 .. n : received + i # id
                BY <2>6, <1>3, <1>4, <1>5, <1>17
            <3>2. QED BY <3>1, <2>4, <2>6
        <2>7. QED BY <2>5, <2>6
    <1>20. QED BY <1>18, <1>19
LEMMA EgressPopKeeps ==
    ASSUME TypeOK, Staged, NEW w \in Workers, EgressPop(w), NEW id \in Ids
    PROVE  Kept(id)
    <1>1. PICK port \in Ports : \E packet \in egress_buffers[port] :
             /\ egress_buffers' = [egress_buffers EXCEPT ![port] = @ \ {packet}]
             /\ thread' = [thread EXCEPT ![w] =
                             [Idle EXCEPT !.at = "apply", !.packet = packet]]
        BY DEF EgressPop
    <1>2. PICK packet \in egress_buffers[port] :
             /\ egress_buffers' = [egress_buffers EXCEPT ![port] = @ \ {packet}]
             /\ thread' = [thread EXCEPT ![w] =
                             [Idle EXCEPT !.at = "apply", !.packet = packet]]
        BY <1>1
    <1>3. /\ w \in Threads /\ thread[w].packet.id = 0 /\ thread[w].copies = <<>>
          /\ UNCHANGED <<input_buffer, output_buffer>>
        BY DEF EgressPop, Threads, Staged, StagedThread, Idle, NoPacket
    <1>4. /\ thread'[w].packet = packet /\ thread'[w].copies = <<>>
          /\ \A u \in Threads : u # w => thread'[u] = thread[u]
        <2>1. packet \in Packet BY DEF TypeOK
        <2>2. QED BY <2>1, <1>2, <1>3, TakesOK DEF TypeOK
    <1> DEFINE a == <<"egress", port, packet>>
               b == <<"thread", w, 0>>
    <1>5. ASSUME NEW x PROVE InEgress(x, id)' <=> InEgress(x, id) /\ x # a
        <2>1. \A p \in Ports : egress_buffers'[p] =
                 IF p = port THEN egress_buffers[p] \ {packet} ELSE egress_buffers[p]
            BY <1>2 DEF TypeOK
        <2>2. ASSUME InEgress(x, id)' PROVE InEgress(x, id) /\ x # a
            <3>1. PICK p \in Ports : \E q \in egress_buffers'[p] :
                     x = <<"egress", p, q>> /\ q.id = id
                BY <2>2 DEF InEgress
            <3>2. PICK q \in egress_buffers'[p] : x = <<"egress", p, q>> /\ q.id = id
                BY <3>1
            <3>3. q \in egress_buffers[p] /\ ~(p = port /\ q = packet) BY <2>1, <3>2
            <3>4. QED BY <3>2, <3>3 DEF InEgress
        <2>3. ASSUME InEgress(x, id), x # a PROVE InEgress(x, id)'
            <3>1. PICK p \in Ports : \E q \in egress_buffers[p] :
                     x = <<"egress", p, q>> /\ q.id = id
                BY <2>3 DEF InEgress
            <3>2. PICK q \in egress_buffers[p] : x = <<"egress", p, q>> /\ q.id = id
                BY <3>1
            <3>3. q \in egress_buffers'[p] BY <2>1, <2>3, <3>2
            <3>4. QED BY <3>2, <3>3 DEF InEgress
        <2>4. QED BY <2>2, <2>3
    <1>6. ASSUME NEW x
          PROVE  /\ InThread(x, id)' <=> InThread(x, id) \/ (x = b /\ packet.id = id)
                 /\ InCopies(x, id)' <=> InCopies(x, id)
        <2>1. /\ InThread(x, id)' <=> \/ x # b /\ InThread(x, id)
                                      \/ x = b /\ thread'[w].packet.id = id
              /\ InCopies(x, id)' <=> \/ x[2] # w /\ InCopies(x, id)
                                      \/ \E i \in DOMAIN thread'[w].copies :
                                            /\ x = <<"copy", w, i>>
                                            /\ thread'[w].copies[i].id = id
            BY <1>3, <1>4, ThreadParts
        <2>2. ~InThread(b, id) BY <1>3 DEF InThread, Ids
        <2>3. InCopies(x, id) => x[2] # w BY <1>3, NoCopies
        <2> HIDE DEF b
        <2>4. QED BY <2>1, <2>2, <2>3, <1>4
    <1>7. \A x : /\ InInput(x, id)' <=> InInput(x, id)
                 /\ InOutput(x, id)' <=> InOutput(x, id)
        BY <1>3, PartsFrame
    <1>8. /\ ~InInput(a, id) /\ ~InOutput(a, id) /\ ~InThread(a, id) /\ ~InCopies(a, id)
          /\ InEgress(a, id) <=> packet.id = id
        BY DEF InInput, InOutput, InThread, InCopies, InEgress
    <1> HIDE DEF a, b
    <1>9. \A x : Holds(x, id)' <=> \/ x # a /\ Holds(x, id)
                                   \/ x = b /\ Holds(a, id)
        BY <1>5, <1>6, <1>7, <1>8 DEF Holds
    <1>10. \A x : x \in Places(id)' <=> \/ x # a /\ x \in Places(id)
                                        \/ x = b /\ a \in Places(id)
        BY <1>9, PlacesAre
    <1>11. /\ Places(id) = {} => Places(id)' = {}
           /\ Single(Places(id)) => Single(Places(id)')
        BY <1>10 DEF Single
    <1>12. QED BY <1>11 DEF Kept

LEMMA EgressApplyKeeps ==
    ASSUME Shaped, NEW w \in Workers, NEW clone \in BOOLEAN,
           NEW recirculate \in BOOLEAN, NEW egress_spec \in Ports \cup {UNSET, DROP},
           EgressApply(w, clone, recirculate, egress_spec), NEW id \in Ids
    PROVE  /\ id <= received => Kept(id)
           /\ id > received /\ Places(id) = {} =>
                 IF id <= received' THEN Single(Places(id)') ELSE Places(id)' = {}
    <1> USE DEF Shaped
    <1> DEFINE packet == thread[w].packet
               new == CopiesFor(packet, MirrorTo(clone))
               n == Len(MirrorTo(clone))
    <1>1. /\ w \in Threads /\ packet \in Packet /\ thread[w].copies = <<>>
        BY DEF EgressApply, Threads, Staged, StagedThread
    <1>2. /\ received + Len(new) <= MaxPackets /\ received' = received + Len(new)
          /\ UNCHANGED <<input_buffer, output_buffer, egress_buffers>>
        BY DEF EgressApply
    <1>3. /\ thread'[w].packet = [packet EXCEPT !.port = EgressPort(@, egress_spec)]
          /\ thread'[w].copies = new
          /\ \A u \in Threads : u # w => thread'[u] = thread[u]
        BY <1>1 DEF EgressApply, TypeOK
    <1>4. thread'[w].packet.id = packet.id BY <1>1, <1>3 DEF Packet
    <1>5. received \in Nat /\ MaxPackets \in Nat /\ n \in Nat
          /\ MirrorTo(clone) \in Seq(Ports)
        BY MirrorToOK, BoundsAssumption DEF TypeOK
    <1>6. Len(new) = n BY <1>5 DEF CopiesFor
    <1> HIDE DEF packet
    <1>7. /\ new \in Seq(Packet) /\ \A i \in 1 .. n : new[i].id = received + i
        BY <1>1, <1>2, <1>5, <1>6, CopiesOK
    <1>8. DOMAIN new = 1 .. n BY <1>6, <1>7
    <1> HIDE DEF new, n
    <1> DEFINE b(i) == <<"copy", w, i>>
    <1>9. ASSUME NEW x
          PROVE  /\ InThread(x, id)' <=> InThread(x, id)
                 /\ InCopies(x, id)' <=> \/ InCopies(x, id)
                                         \/ \E i \in 1 .. n :
                                               x = b(i) /\ received + i = id
        <2>1. /\ InThread(x, id)' <=> \/ x # <<"thread", w, 0>> /\ InThread(x, id)
                                      \/ /\ x = <<"thread", w, 0>>
                                         /\ thread'[w].packet.id = id
              /\ InCopies(x, id)' <=> \/ x[2] # w /\ InCopies(x, id)
                                      \/ \E i \in DOMAIN thread'[w].copies :
                                            x = b(i) /\ thread'[w].copies[i].id = id
            <3>1. \A u \in Threads : u # w => thread'[u] = thread[u] BY <1>3
            <3>2. QED BY <3>1, <1>1, ThreadParts
        <2>2. InThread(<<"thread", w, 0>>, id) <=> packet.id = id
            BY <1>1 DEF InThread, packet
        <2>3. InCopies(x, id) => x[2] # w BY <1>1, NoCopies
        <2> HIDE DEF b
        <2>4. InThread(x, id)' <=> InThread(x, id) BY <2>1, <2>2, <1>4
        <2>5. InCopies(x, id)' <=> \/ InCopies(x, id)
                                   \/ \E i \in 1 .. n : x = b(i) /\ received + i = id
            BY <2>1, <2>3, <1>3, <1>7, <1>8
        <2>6. QED BY <2>4, <2>5
    <1>10. \A x : /\ InInput(x, id)' <=> InInput(x, id)
                  /\ InOutput(x, id)' <=> InOutput(x, id)
                  /\ InEgress(x, id)' <=> InEgress(x, id)
        BY <1>2, PartsFrame
    <1>11. \A x : x \in Places(id)' <=> \/ x \in Places(id)
                                        \/ \E i \in 1 .. n :
                                              x = b(i) /\ received + i = id
        <2> HIDE DEF b
        <2>1. \A x : Holds(x, id)' <=> \/ Holds(x, id)
                                       \/ \E i \in 1 .. n : x = b(i) /\ received + i = id
            BY <1>9, <1>10 DEF Holds
        <2>2. QED BY <2>1, PlacesAre
    <1>12. id \in Nat \ {0} BY <1>5 DEF Ids
    <1> HIDE DEF b
    <1>13. ASSUME id <= received PROVE Kept(id)
        <2>1. \A i \in 1 .. n : received + i # id BY <1>5, <1>12, <1>13
        <2>2. Places(id)' = Places(id) BY <2>1, <1>11
        <2>3. QED BY <2>2 DEF Kept
    <1>14. ASSUME id > received, Places(id) = {}
           PROVE  IF id <= received' THEN Single(Places(id)') ELSE Places(id)' = {}
        <2>1. \A x : x \in Places(id)' <=> \E i \in 1 .. n : x = b(i) /\ received + i = id
            BY <1>11, <1>14
        <2>2. CASE id <= received'
            <3>1. id - received \in 1 .. n BY <2>2, <1>2, <1>5, <1>6, <1>12, <1>14
            <3>2. \A i \in 1 .. n : received + i = id <=> i = id - received
                BY <1>5, <1>12
            <3>3. \A x : x \in Places(id)' <=> x = b(id - received) BY <3>1, <3>2, <2>1
            <3>4. QED BY <3>3, <2>2 DEF Single
        <2>3. CASE ~(id <= received')
            <3>1. \A i \in 1 .. n : received + i # id
                BY <2>3, <1>2, <1>5, <1>6, <1>12
            <3>2. QED BY <3>1, <2>1, <2>3
        <2>4. QED BY <2>2, <2>3
    <1>15. QED BY <1>13, <1>14

LEMMA EnqueueDepthKeeps ==
    ASSUME Shaped, NEW t \in Threads, EnqueueDepth(t), NEW id
    PROVE  Places(id)' = Places(id)
    <1> USE DEF Shaped
    <1>1. PICK c \in Seq(Packet) :
              /\ Len(c) = Len(thread[t].copies)
              /\ \A i \in DOMAIN c : c[i].id = thread[t].copies[i].id
              /\ thread' = [thread EXCEPT ![t] = [thread[t] EXCEPT !.at = "push",
                                                                   !.copies = c]]
        BY DepthIs
    <1>2. /\ thread'[t].packet = thread[t].packet /\ thread'[t].copies = c
          /\ \A u \in Threads : u # t => thread'[u] = thread[u]
        BY <1>1 DEF TypeOK, Thread
    <1>3. DOMAIN c = DOMAIN thread[t].copies
        BY <1>1 DEF TypeOK, Thread
    <1>4. ASSUME NEW x
          PROVE  /\ InThread(x, id)' <=> InThread(x, id)
                 /\ InCopies(x, id)' <=> InCopies(x, id)
        <2>1. \A u \in Threads : /\ thread'[u].packet = thread[u].packet
                                 /\ DOMAIN thread'[u].copies = DOMAIN thread[u].copies
                                 /\ \A i \in DOMAIN thread[u].copies :
                                       thread'[u].copies[i].id = thread[u].copies[i].id
            BY <1>1, <1>2, <1>3
        <2>2. QED BY <2>1 DEF InThread, InCopies
    <1>5. \A x : /\ InInput(x, id)' <=> InInput(x, id)
                 /\ InOutput(x, id)' <=> InOutput(x, id)
                 /\ InEgress(x, id)' <=> InEgress(x, id)
        BY PartsFrame DEF EnqueueDepth
    <1>6. \A x : Holds(x, id)' <=> Holds(x, id) BY <1>4, <1>5 DEF Holds
    <1>7. \A x : x \in Places(id)' <=> x \in Places(id) BY <1>6, PlacesAre
    <1>8. QED BY <1>7
(* The push drops the copy or puts it in a queue; the copies after it move   *)
(* up.                                                                       *)
LEMMA EnqueuePushKeeps ==
    ASSUME Shaped, NEW t \in Threads, EnqueuePush(t), NEW id \in Ids
    PROVE  LET copy == Head(thread[t].copies) IN
           /\ <<"copy", t, 1>> \in Places(copy.id)
           /\ \/ UNCHANGED gone /\ Kept(id)
              \/ /\ gone' = gone \cup {copy.id}
                 /\ id # copy.id => Kept(id)
                 /\ id = copy.id /\ Single(Places(id)) => Places(id)' = {}
    <1> USE DEF Shaped
    <1> DEFINE c == thread[t].copies
               copy == Head(c)
               rest == Tail(c)
               drop == gone' = gone \cup {copy.id} /\ UNCHANGED egress_buffers
               push == /\ egress_buffers' =
                             [egress_buffers EXCEPT ![copy.port] = @ \cup {copy}]
                       /\ UNCHANGED gone
               r == [thread[t] EXCEPT !.at = NextStage(rest), !.copies = rest]
    <1>1. /\ c \in Seq(Packet) /\ c # <<>> /\ copy \in Packet /\ rest \in Seq(Packet)
          /\ thread' = [thread EXCEPT ![t] = r] /\ (drop \/ push)
          /\ UNCHANGED <<input_buffer, output_buffer>>
        BY PushIs
    <1>2. /\ thread'[t].packet = thread[t].packet /\ thread'[t].copies = rest
          /\ \A u \in Threads : u # t => thread'[u] = thread[u]
        <2>1. thread[t] \in Thread BY DEF TypeOK
        <2>2. r.packet = thread[t].packet /\ r.copies = rest BY <2>1 DEF Thread
        <2> HIDE DEF r
        <2>3. QED BY <2>2, <1>1 DEF TypeOK
    <1>3. /\ Len(c) \in Nat \ {0} /\ DOMAIN c = 1 .. Len(c) /\ copy = c[1]
          /\ DOMAIN rest = 1 .. Len(c) - 1
          /\ \A i \in 1 .. Len(c) - 1 : rest[i] = c[i + 1]
        BY <1>1
    <1>4. copy.port \in Ports BY <1>1 DEF Packet
    <1> HIDE DEF r
    <1> DEFINE at(i) == <<"copy", t, i>>
               b == <<"egress", copy.port, copy>>
    <1>5. ASSUME NEW i \in 1 .. Len(c), NEW k PROVE InCopies(at(i), k) <=> c[i].id = k
        BY <1>3 DEF InCopies
    <1>6. ASSUME NEW x, NEW k, InCopies(x, k), x[2] = t
          PROVE  \E i \in 1 .. Len(c) : x = at(i) /\ c[i].id = k
        BY <1>3, <1>6 DEF InCopies
    <1>7. ASSUME NEW x
          PROVE  /\ InThread(x, id)' <=> InThread(x, id)
                 /\ InCopies(x, id)' <=> \/ x[2] # t /\ InCopies(x, id)
                                         \/ \E i \in 1 .. Len(c) - 1 :
                                               x = at(i) /\ c[i + 1].id = id
        <2>1. \A u \in Threads : u # t => thread'[u] = thread[u] BY <1>2
        <2>2. /\ InThread(x, id)' <=> \/ x # <<"thread", t, 0>> /\ InThread(x, id)
                                      \/ /\ x = <<"thread", t, 0>>
                                         /\ thread'[t].packet.id = id
              /\ InCopies(x, id)' <=> \/ x[2] # t /\ InCopies(x, id)
                                      \/ \E i \in DOMAIN thread'[t].copies :
                                            x = at(i) /\ thread'[t].copies[i].id = id
            BY <2>1, ThreadParts
        <2>3. InThread(<<"thread", t, 0>>, id) <=> thread[t].packet.id = id
            BY DEF InThread
        <2>4. InThread(x, id)' <=> InThread(x, id) BY <2>2, <2>3, <1>2
        <2> HIDE DEF at, c, rest
        <2>5. InCopies(x, id)' <=> \/ x[2] # t /\ InCopies(x, id)
                                   \/ \E i \in 1 .. Len(c) - 1 :
                                         x = at(i) /\ c[i + 1].id = id
            BY <2>2, <1>2, <1>3
        <2>6. QED BY <2>4, <2>5
    <1>8. /\ \A x : /\ InInput(x, id)' <=> InInput(x, id)
                    /\ InOutput(x, id)' <=> InOutput(x, id)
          /\ drop => \A x : InEgress(x, id)' <=> InEgress(x, id)
        BY <1>1, PartsFrame
    <1>9. ASSUME push, NEW x
          PROVE  InEgress(x, id)' <=> InEgress(x, id) \/ (x = b /\ copy.id = id)
        <2> HIDE DEF copy
        <2>1. \A p \in Ports : egress_buffers'[p] =
                 IF p = copy.port THEN egress_buffers[p] \cup {copy} ELSE egress_buffers[p]
            BY <1>4, <1>9 DEF TypeOK
        <2>2. ASSUME InEgress(x, id)' PROVE InEgress(x, id) \/ (x = b /\ copy.id = id)
            <3>1. PICK p \in Ports : \E q \in egress_buffers'[p] :
                     x = <<"egress", p, q>> /\ q.id = id
                BY <2>2 DEF InEgress
            <3>2. PICK q \in egress_buffers'[p] : x = <<"egress", p, q>> /\ q.id = id
                BY <3>1
            <3>3. q \in egress_buffers[p] \/ (p = copy.port /\ q = copy) BY <2>1, <3>2
            <3>4. QED BY <3>2, <3>3 DEF InEgress
        <2>3. ASSUME InEgress(x, id) \/ (x = b /\ copy.id = id) PROVE InEgress(x, id)'
            <3>1. InEgress(x, id) => InEgress(x, id)' BY <2>1 DEF InEgress
            <3>2. x = b /\ copy.id = id => InEgress(x, id)'
                BY <2>1, <1>4 DEF InEgress
            <3>3. QED BY <3>1, <3>2, <2>3
        <2>4. QED BY <2>2, <2>3
    <1>10. at(1) \in Places(copy.id)
        BY <1>3, <1>5, PlacesAre DEF Holds
    <1>11. \A x, k : /\ InInput(x, k) \/ InOutput(x, k) \/ InEgress(x, k) \/ InThread(x, k)
                           => x[1] # "copy"
                     /\ InCopies(x, k) => x[1] = "copy"
        BY Kinds
    <1>12. \A i : at(i)[1] = "copy" /\ at(i)[2] = t /\ at(i)[3] = i OBVIOUS
    <1> DEFINE to(x) == IF x = at(1) THEN b
                        ELSE IF x[1] = "copy" /\ x[2] = t THEN at(x[3] - 1) ELSE x
    <1>13. ASSUME NEW x, Holds(x, id), push \/ copy.id # id
           PROVE  \E y : y = to(x) /\ Holds(y, id)'
        <2> HIDE DEF at, b, c, rest, copy
        <2>1. CASE InCopies(x, id) /\ x[2] = t
            <3>1. PICK i \in 1 .. Len(c) : x = at(i) /\ c[i].id = id BY <2>1, <1>6
            <3>2. CASE i = 1
                <4>1. PICK y : y = b OBVIOUS
                <4>2. to(x) = y /\ copy.id = id BY <4>1, <3>1, <3>2, <1>3
                <4>3. InEgress(y, id)' BY <4>1, <4>2, <1>9, <1>13
                <4>4. QED BY <4>2, <4>3 DEF Holds
            <3>3. CASE i # 1
                <4>1. PICK y : y = at(i - 1) OBVIOUS
                <4>2. to(x) = y BY <4>1, <3>1, <3>3, <1>12
                <4>3. i - 1 \in 1 .. Len(c) - 1 /\ (i - 1) + 1 = i BY <3>3, <1>3
                <4>4. InCopies(y, id)' BY <4>1, <4>3, <3>1, <1>7
                <4>5. QED BY <4>2, <4>4 DEF Holds
            <3>4. QED BY <3>2, <3>3
        <2>2. CASE ~(InCopies(x, id) /\ x[2] = t)
            <3>1. to(x) = x BY <2>2, <1>11, <1>12, <1>13 DEF Holds
            <3>2. CASE InEgress(x, id)
                <4>1. InEgress(x, id)' BY <3>2, <1>1, <1>8, <1>9
                <4>2. QED BY <3>1, <4>1 DEF Holds
            <3>3. CASE ~InEgress(x, id)
                <4>1. Holds(x, id)' BY <3>3, <2>2, <1>7, <1>8, <1>13 DEF Holds
                <4>2. QED BY <3>1, <4>1
            <3>4. QED BY <3>2, <3>3
        <2>3. QED BY <2>1, <2>2
    <1>14. ASSUME NEW y, Holds(y, id)'
           PROVE  \E x : Holds(x, id) /\ (y = to(x) /\ (push \/ x # at(1)))
        <2> HIDE DEF at, b, c, rest, copy
        <2>1. CASE \E i \in 1 .. Len(c) - 1 : y = at(i) /\ c[i + 1].id = id
            <3>1. PICK i \in 1 .. Len(c) - 1 : y = at(i) /\ c[i + 1].id = id BY <2>1
            <3>2. i + 1 \in 1 .. Len(c) /\ i + 1 # 1 /\ (i + 1) - 1 = i BY <1>3
            <3>3. InCopies(at(i + 1), id) BY <3>1, <3>2, <1>5
            <3>4. y = to(at(i + 1)) /\ at(i + 1) # at(1) BY <3>1, <3>2, <1>12
            <3>5. QED BY <3>3, <3>4 DEF Holds
        <2>2. CASE push /\ y = b /\ copy.id = id
            <3>1. InCopies(at(1), id) BY <2>2, <1>3, <1>5
            <3>2. QED BY <3>1, <2>2 DEF Holds
        <2>3. CASE Holds(y, id) /\ ~(y[1] = "copy" /\ y[2] = t)
            <3>1. to(y) = y /\ y # at(1) BY <2>3, <1>12
            <3>2. QED BY <3>1, <2>3
        <2>4. \/ \E i \in 1 .. Len(c) - 1 : y = at(i) /\ c[i + 1].id = id
              \/ push /\ y = b /\ copy.id = id
              \/ Holds(y, id) /\ ~(y[1] = "copy" /\ y[2] = t)
            BY <1>1, <1>7, <1>8, <1>9, <1>11, <1>14 DEF Holds
        <2>5. QED BY <2>1, <2>2, <2>3, <2>4
    <1> HIDE DEF to, at, b, push
    <1>15. push \/ copy.id # id => Kept(id)
        BY <1>13, <1>14, PlacesAre DEF Kept, Single
    <1>16. drop /\ ~push /\ copy.id = id /\ Single(Places(id)) => Places(id)' = {}
        BY <1>10, <1>14, PlacesAre DEF Single
    <1>17. QED BY <1>1, <1>10, <1>15, <1>16 DEF at, push

LEMMA EndPacketKeeps ==
    ASSUME Shaped, NEW t \in Threads, EndPacket(t), NEW id \in Ids
    PROVE  LET packet == thread[t].packet IN
           \/ UNCHANGED gone /\ Kept(id)
           \/ /\ gone' = gone \cup {packet.id}
              /\ <<"thread", t, 0>> \in Places(packet.id)
              /\ id # packet.id => Kept(id)
              /\ id = packet.id /\ Single(Places(id)) => Places(id)' = {}
    <1> USE DEF Shaped
    <1> DEFINE packet == thread[t].packet
               a == <<"thread", t, 0>>
    <1>1. /\ thread'[t] = Idle /\ \A u \in Threads : u # t => thread'[u] = thread[u]
          /\ Finish(thread[t].end, packet) /\ UNCHANGED egress_buffers
        BY DEF EndPacket, TypeOK
    <1>2. /\ thread[t].copies = <<>>
          /\ thread[t].end = "none" => packet.id = 0
        BY DEF EndPacket, Staged, StagedThread, NoPacket
    <1>3. Idle.packet.id = 0 /\ Idle.copies = <<>> BY DEF Idle, NoPacket
    <1>4. id # 0 BY DEF Ids
    <1>5. ASSUME NEW x
          PROVE  /\ InThread(x, id)' <=> x # a /\ InThread(x, id)
                 /\ InCopies(x, id)' <=> InCopies(x, id)
                 /\ InEgress(x, id)' <=> InEgress(x, id)
        <2>1. \A u \in Threads : u # t => thread'[u] = thread[u] BY <1>1
        <2>2. /\ InThread(x, id)' <=> \/ x # a /\ InThread(x, id)
                                      \/ x = a /\ thread'[t].packet.id = id
              /\ InCopies(x, id)' <=> \/ x[2] # t /\ InCopies(x, id)
                                      \/ \E i \in DOMAIN thread'[t].copies :
                                            /\ x = <<"copy", t, i>>
                                            /\ thread'[t].copies[i].id = id
            BY <2>1, ThreadParts
        <2>3. InCopies(x, id) => x[2] # t BY <1>2, NoCopies
        <2>4. DOMAIN thread'[t].copies = {} BY <1>1, <1>3
        <2> HIDE DEF a
        <2>5. QED BY <2>2, <2>3, <2>4, <1>1, <1>3, <1>4, PartsFrame
    <1>6. ASSUME NEW k
          PROVE  /\ ~InInput(a, k) /\ ~InOutput(a, k) /\ ~InEgress(a, k) /\ ~InCopies(a, k)
                 /\ InThread(a, k) <=> packet.id = k
        BY DEF InInput, InOutput, InThread, InCopies, InEgress
    <1>7. ASSUME NEW k PROVE a \in Places(k) <=> packet.id = k
        BY <1>6, PlacesAre DEF Holds
    <1> HIDE DEF a, packet
    <1>8. CASE thread[t].end \in {"none", "drop"}
        <2>1. UNCHANGED <<input_buffer, output_buffer>> BY <1>1, <1>8 DEF Finish
        <2>2. \A x : /\ InInput(x, id)' <=> InInput(x, id)
                     /\ InOutput(x, id)' <=> InOutput(x, id)
            BY <2>1, PartsFrame
        <2>3. \A x : Holds(x, id)' <=> x # a /\ Holds(x, id)
            BY <2>2, <1>5, <1>6 DEF Holds
        <2>4. \A x : x \in Places(id)' <=> x # a /\ x \in Places(id)
            BY <2>3, PlacesAre
        <2>5. id # packet.id => Kept(id)
            <3>1. id # packet.id => Places(id)' = Places(id) BY <2>4, <1>7
            <3>2. QED BY <3>1 DEF Kept
        <2>6. id = packet.id /\ Single(Places(id)) => Places(id)' = {}
            BY <2>4, <1>7 DEF Single
        <2>7. CASE thread[t].end = "none"
            <3>1. UNCHANGED gone BY <2>7, <1>1 DEF Finish
            <3>2. QED BY <3>1, <2>5, <2>7, <1>2, <1>4 DEF packet
        <2>8. CASE thread[t].end = "drop"
            <3>1. gone' = gone \cup {packet.id} BY <2>8, <1>1 DEF Finish
            <3>2. QED BY <3>1, <2>5, <2>6, <1>7 DEF packet, a
        <2>9. QED BY <1>8, <2>7, <2>8
    <1>9. CASE thread[t].end \in {"input", "output"}
        <2>1. PICK b : b = IF thread[t].end = "input"
                           THEN <<"input", Len(input_buffer) + 1, 0>>
                           ELSE <<"output", Len(output_buffer) + 1, 0>>
            OBVIOUS
        <2>2. \A x : InInput(x, id)' \/ InOutput(x, id)' <=>
                        \/ InInput(x, id) \/ InOutput(x, id)
                        \/ x = b /\ packet.id = id
            <3>1. CASE thread[t].end = "input"
                <4> DEFINE q == Fresh(packet.id, packet.pass + 1)
                <4>1. input_buffer' = Append(input_buffer, q) /\ UNCHANGED output_buffer
                    BY <3>1, <1>1 DEF Finish
                <4>2. q.id = packet.id BY DEF Fresh
                <4> HIDE DEF q
                <4>3. b = <<"input", Len(input_buffer) + 1, 0>> BY <2>1, <3>1
                <4>4. \A x : InInput(x, id)' <=> InInput(x, id) \/ (x = b /\ q.id = id)
                    BY <4>1, <4>3, AppendedPart
                <4>5. \A x : InOutput(x, id)' <=> InOutput(x, id) BY <4>1, PartsFrame
                <4>6. QED BY <4>2, <4>4, <4>5
            <3>2. CASE thread[t].end = "output"
                <4>1. output_buffer' = Append(output_buffer, packet) /\ UNCHANGED input_buffer
                    BY <3>2, <1>1 DEF Finish
                <4>2. b = <<"output", Len(output_buffer) + 1, 0>> BY <2>1, <3>2
                <4>3. \A x : InOutput(x, id)' <=> InOutput(x, id) \/ (x = b /\ packet.id = id)
                    BY <4>1, <4>2, AppendedPart
                <4>4. \A x : InInput(x, id)' <=> InInput(x, id) BY <4>1, PartsFrame
                <4>5. QED BY <4>3, <4>4
            <3>3. QED BY <1>9, <3>1, <3>2
        <2>3. \A x : Holds(x, id)' <=> \/ x # a /\ Holds(x, id)
                                       \/ x = b /\ packet.id = id
            BY <2>2, <1>5, <1>6 DEF Holds
        <2>4. \A x : x \in Places(id)' <=> \/ x # a /\ x \in Places(id)
                                           \/ x = b /\ a \in Places(id)
            BY <2>3, <1>7, PlacesAre
        <2>5. /\ Places(id) = {} => Places(id)' = {}
              /\ Single(Places(id)) => Single(Places(id)')
            BY <2>4 DEF Single
        <2>6. UNCHANGED gone BY <1>1, <1>9 DEF Finish
        <2>7. QED BY <2>5, <2>6 DEF Kept
    <1>10. QED BY <1>1, <1>8, <1>9 DEF Finish

LEMMA TransmitKeeps ==
    ASSUME TypeOK, Transmit, NEW id \in Ids
    PROVE  LET head == Head(output_buffer) IN
           /\ <<"output", 1, 0>> \in Places(head.id)
           /\ id # head.id => Kept(id)
           /\ id = head.id /\ Single(Places(id)) => Places(id)' = {}
    <1> DEFINE head == Head(output_buffer)
               n == Len(output_buffer)
               a == <<"output", 1, 0>>
               to(x) == IF x[1] = "output" THEN <<"output", x[2] - 1, 0>> ELSE x
    <1>1. /\ output_buffer \in Seq(Packet) /\ output_buffer # <<>>
          /\ output_buffer' = Tail(output_buffer)
          /\ UNCHANGED <<input_buffer, egress_buffers, thread>>
        BY DEF TypeOK, Transmit
    <1>2. /\ DOMAIN output_buffer = 1 .. n /\ n \in Nat \ {0} /\ head = output_buffer[1]
          /\ DOMAIN output_buffer' = 1 .. n - 1
          /\ \A i \in 1 .. n - 1 : output_buffer'[i] = output_buffer[i + 1]
        BY <1>1
    <1>3. \A x : /\ InInput(x, id)' <=> InInput(x, id)
                 /\ InEgress(x, id)' <=> InEgress(x, id)
                 /\ InThread(x, id)' <=> InThread(x, id)
                 /\ InCopies(x, id)' <=> InCopies(x, id)
        BY <1>1 DEF InInput, InEgress, InThread, InCopies
    <1>4. a \in Places(head.id)
        <2>1. InOutput(a, head.id) BY <1>2 DEF InOutput
        <2>2. QED BY <2>1, PlacesAre DEF Holds
    <1>5. ASSUME NEW x, Holds(x, id), head.id # id PROVE Holds(to(x), id)'
        <2>1. CASE InOutput(x, id)
            <3>1. PICK i \in 1 .. n : x = <<"output", i, 0>> /\ output_buffer[i].id = id
                BY <2>1, <1>2 DEF InOutput
            <3>2. i - 1 \in 1 .. n - 1 /\ output_buffer'[i - 1] = output_buffer[i]
                BY <3>1, <1>2, <1>5
            <3>3. to(x) = <<"output", i - 1, 0>> BY <3>1
            <3>4. InOutput(to(x), id)' BY <3>1, <3>2, <3>3, <1>2 DEF InOutput
            <3>5. QED BY <3>4 DEF Holds
        <2>2. CASE ~InOutput(x, id)
            <3>1. to(x) = x BY <2>2, <1>5, Kinds DEF Holds
            <3> HIDE DEF to
            <3>2. QED BY <3>1, <2>2, <1>3, <1>5 DEF Holds
        <2>3. QED BY <2>1, <2>2
    <1>6. ASSUME NEW y, Holds(y, id)' PROVE \E x : Holds(x, id) /\ y = to(x) /\ x # a
        <2>1. CASE InOutput(y, id)'
            <3>1. PICK i \in 1 .. n - 1 : y = <<"output", i, 0>> /\ output_buffer'[i].id = id
                BY <2>1, <1>2 DEF InOutput
            <3> DEFINE x == <<"output", i + 1, 0>>
            <3>2. i + 1 \in 1 .. n /\ output_buffer'[i] = output_buffer[i + 1] BY <1>2
            <3>3. InOutput(x, id) BY <3>1, <3>2, <1>2 DEF InOutput
            <3>4. y = to(x) /\ x # a BY <3>1, <1>2
            <3>5. QED BY <3>3, <3>4 DEF Holds
        <2>2. CASE ~InOutput(y, id)'
            <3>1. to(y) = y /\ y # a BY <2>2, <1>6, Kinds DEF Holds
            <3> HIDE DEF to
            <3>2. QED BY <3>1, <2>2, <1>3, <1>6 DEF Holds
        <2>3. QED BY <2>1, <2>2
    <1> HIDE DEF to
    <1>7. id # head.id => Kept(id)
        BY <1>5, <1>6, PlacesAre DEF Kept, Single
    <1>8. id = head.id /\ Single(Places(id)) => Places(id)' = {}
        BY <1>4, <1>6, PlacesAre DEF Single
    <1>9. QED BY <1>4, <1>7, <1>8

LEMMA ControlKeeps ==
    ASSUME UNCHANGED <<input_buffer, output_buffer, egress_buffers, thread>>, NEW id
    PROVE  Places(id)' = Places(id)
    BY DEF Places, InputPlaces, OutputPlaces, EgressPlaces, ThreadPlaces, CopyPlaces, InSeq

-----------------------------------------------------------------------------
(* The counting of packets: what a step does to the places, received and    *)
(* gone, in the three forms steps take.                                      *)
Counted == Gone /\ NoPacketLostOrDuplicated

(* Steps that move packets.                                                  *)
LEMMA Moves ==
    ASSUME TypeOK, Counted, UNCHANGED <<received, gone>>,
           \A id \in Ids : Kept(id)
    PROVE  Counted'
    BY DEF Counted, Gone, NoPacketLostOrDuplicated, Kept, Single

(* Steps that drop or transmit packet k.                                     *)
LEMMA Drops ==
    ASSUME TypeOK, Counted, UNCHANGED received, NEW k \in Ids,
           gone' = gone \cup {k}, Places(k) # {},
           \A id \in Ids : id # k => Kept(id),
           Single(Places(k)) => Places(k)' = {}
    PROVE  Counted'
    <1>1. k <= received /\ k \notin gone /\ Single(Places(k))
        BY DEF Counted, NoPacketLostOrDuplicated, Single
    <1>2. Gone' BY <1>1 DEF Counted, Gone
    <1>3. NoPacketLostOrDuplicated'
        <2>1. SUFFICES ASSUME NEW id \in Ids
                       PROVE  IF id <= received /\ id \notin gone'
                              THEN Single(Places(id)')
                              ELSE Places(id)' = {}
            BY DEF NoPacketLostOrDuplicated, Single
        <2>2. CASE id = k BY <2>2, <1>1
        <2>3. CASE id # k
            <3>1. IF id <= received /\ id \notin gone
                  THEN Single(Places(id)) ELSE Places(id) = {}
                BY DEF Counted, NoPacketLostOrDuplicated, Single
            <3>2. Kept(id) BY <2>3
            <3>3. QED BY <2>3, <3>1, <3>2 DEF Kept
        <2>4. QED BY <2>2, <2>3
    <1>4. QED BY <1>2, <1>3 DEF Counted

(* Steps that make packets.                                                  *)
LEMMA Makes ==
    ASSUME TypeOK, TypeOK', Counted, received' >= received, UNCHANGED gone,
           \A id \in Ids : id <= received => Kept(id),
           \A id \in Ids : id > received /\ Places(id) = {} =>
              IF id <= received' THEN Single(Places(id)') ELSE Places(id)' = {}
    PROVE  Counted'
    <1>1. received \in Nat /\ received' \in Nat /\ Ids \subseteq Nat /\ gone \subseteq Ids
        BY BoundsAssumption DEF TypeOK, Ids
    <1>2. Gone' BY <1>1 DEF Counted, Gone
    <1>3. NoPacketLostOrDuplicated'
        <2>1. SUFFICES ASSUME NEW id \in Ids
                       PROVE  IF id <= received' /\ id \notin gone
                              THEN Single(Places(id)')
                              ELSE Places(id)' = {}
            BY DEF NoPacketLostOrDuplicated, Single
        <2>2. IF id <= received /\ id \notin gone
              THEN Single(Places(id)) ELSE Places(id) = {}
            BY DEF Counted, NoPacketLostOrDuplicated, Single
        <2>3. CASE id <= received
            <3>1. Kept(id) BY <2>3
            <3>2. id <= received' BY <2>3, <1>1
            <3>3. QED BY <2>2, <2>3, <3>1, <3>2 DEF Kept
        <2>4. CASE id > received
            <3>1. ~(id <= received) /\ id \notin gone BY <2>4, <1>1 DEF Counted, Gone
            <3>2. Places(id) = {} BY <2>2, <3>1
            <3>3. IF id <= received' THEN Single(Places(id)') ELSE Places(id)' = {}
                BY <2>4, <3>2
            <3>4. QED BY <3>1, <3>3
        <2>5. QED BY <2>3, <2>4, <1>1
    <1>4. QED BY <1>2, <1>3 DEF Counted
-----------------------------------------------------------------------------
(* Every action.                                                             *)
LEMMA InvIs == /\ Inv <=> Shaped /\ Counted
               /\ Inv' <=> Shaped' /\ Counted'
    BY DEF Inv, Shaped, Counted

LEMMA KeptSame == \A id : Places(id)' = Places(id) => Kept(id)
    BY DEF Kept

LEMMA ReceiveInv ==
    ASSUME Inv, Receive
    PROVE  Inv'
    <1>1. Shaped /\ Counted /\ TypeOK BY InvIs DEF Shaped
    <1>2. Shaped' /\ TypeOK' BY <1>1, ReceiveShaped DEF Shaped
    <1>3. received \in Nat /\ received' = received + 1 /\ UNCHANGED gone
        BY <1>1, BoundsAssumption DEF TypeOK, Receive
    <1>4. ASSUME NEW id \in Ids
          PROVE  /\ id <= received => Kept(id)
                 /\ id > received /\ Places(id) = {} =>
                       IF id <= received' THEN Single(Places(id)') ELSE Places(id)' = {}
        <2>1. /\ id # received + 1 => Places(id)' = Places(id)
              /\ id = received + 1 /\ Places(id) = {} => Single(Places(id)')
            BY <1>1, ReceiveKeeps
        <2>2. id \in Nat BY DEF Ids
        <2>3. id <= received => Kept(id) BY <2>1, <2>2, <1>3, KeptSame
        <2>4. CASE id = received + 1 BY <2>1, <2>3, <2>4, <1>3
        <2>5. CASE id # received + 1
            <3>1. id > received => ~(id <= received') BY <2>2, <2>5, <1>3
            <3>2. QED BY <2>1, <2>3, <2>5, <3>1
        <2>6. QED BY <2>4, <2>5
    <1>5. received' >= received BY <1>3
    <1>6. Counted' BY <1>1, <1>2, <1>3, <1>4, <1>5, Makes
    <1>7. QED BY <1>2, <1>6, InvIs

LEMMA IngressStepInv ==
    ASSUME Inv, IngressStep
    PROVE  Inv'
    <1>1. Shaped /\ Counted /\ TypeOK /\ Staged BY InvIs DEF Shaped
    <1>2. CASE IngressPop
        <2>1. Shaped' BY <1>1, <1>2, IngressPopShaped
        <2>2. \A id \in Ids : Kept(id) BY <1>1, <1>2, IngressPopKeeps
        <2>3. UNCHANGED <<received, gone>> BY <1>2 DEF IngressPop
        <2>4. QED BY <1>1, <2>1, <2>2, <2>3, Moves, InvIs
    <1>3. ASSUME NEW clone \in BOOLEAN, NEW resubmit \in {Resubmits, FALSE},
                 NEW mgid \in 0 .. Len(McastGroups) + 1,
                 NEW egress_spec \in Ports \cup {DROP},
                 IngressApply(clone, resubmit, mgid, egress_spec)
          PROVE  Inv'
        <2>1. resubmit \in BOOLEAN BY UsesAssumption
        <2>2. mgid \in Nat OBVIOUS
        <2>3. Shaped' /\ TypeOK' /\ received' >= received
            BY <1>1, <1>3, <2>1, <2>2, IngressApplyShaped DEF Shaped
        <2>4. \A id \in Ids :
                 /\ id <= received => Kept(id)
                 /\ id > received /\ Places(id) = {} =>
                       IF id <= received' THEN Single(Places(id)') ELSE Places(id)' = {}
            BY <1>1, <1>3, <2>1, <2>2, IngressApplyKeeps
        <2>5. UNCHANGED gone BY <1>3 DEF IngressApply
        <2>6. QED BY <1>1, <2>3, <2>4, <2>5, Makes, InvIs
    <1>4. QED BY <1>2, <1>3 DEF IngressStep

LEMMA EgressStepInv ==
    ASSUME Inv, NEW w \in Workers, EgressStep(w)
    PROVE  Inv'
    <1>1. Shaped /\ Counted /\ TypeOK /\ Staged BY InvIs DEF Shaped
    <1>2. CASE EgressPop(w)
        <2>1. Shaped' BY <1>1, <1>2, EgressPopShaped
        <2>2. \A id \in Ids : Kept(id) BY <1>1, <1>2, EgressPopKeeps
        <2>3. UNCHANGED <<received, gone>> BY <1>2 DEF EgressPop
        <2>4. QED BY <1>1, <2>1, <2>2, <2>3, Moves, InvIs
    <1>3. ASSUME NEW clone \in BOOLEAN, NEW recirculate \in {Recirculates, FALSE},
                 NEW egress_spec \in Ports \cup {UNSET, DROP},
                 EgressApply(w, clone, recirculate, egress_spec)
          PROVE  Inv'
        <2>1. recirculate \in BOOLEAN BY UsesAssumption
        <2>2. Shaped' /\ TypeOK' /\ received' >= received
            BY <1>1, <1>3, <2>1, EgressApplyShaped DEF Shaped
        <2>3. \A id \in Ids :
                 /\ id <= received => Kept(id)
                 /\ id > received /\ Places(id) = {} =>
                       IF id <= received' THEN Single(Places(id)') ELSE Places(id)' = {}
            BY <1>1, <1>3, <2>1, EgressApplyKeeps
        <2>4. UNCHANGED gone BY <1>3 DEF EgressApply
        <2>5. QED BY <1>1, <2>2, <2>3, <2>4, Makes, InvIs
    <1>4. QED BY <1>2, <1>3 DEF EgressStep

LEMMA ThreadStepInv ==
    ASSUME Inv, NEW t \in Threads, ThreadStep(t)
    PROVE  Inv'
    <1>1. Shaped /\ Counted /\ TypeOK /\ Staged BY InvIs DEF Shaped
    <1>2. CASE EnqueueDepth(t)
        <2>1. Shaped' BY <1>1, <1>2, EnqueueDepthShaped
        <2>2. \A id \in Ids : Kept(id) BY <1>1, <1>2, EnqueueDepthKeeps, KeptSame
        <2>3. UNCHANGED <<received, gone>> BY <1>2 DEF EnqueueDepth
        <2>4. QED BY <1>1, <2>1, <2>2, <2>3, Moves, InvIs
    <1>3. CASE EnqueuePush(t)
        <2> DEFINE copy == Head(thread[t].copies)
        <2>1. Shaped' BY <1>1, <1>3, EnqueuePushShaped
        <2>2. UNCHANGED received BY <1>3 DEF EnqueuePush
        <2>3. copy.id \in Ids
            <3>1. copy \in Packet BY <1>1, <1>3, PushIs
            <3>2. QED BY <3>1 DEF Packet
        <2>4. ASSUME NEW id \in Ids
              PROVE  /\ <<"copy", t, 1>> \in Places(copy.id)
                     /\ \/ UNCHANGED gone /\ Kept(id)
                        \/ /\ gone' = gone \cup {copy.id}
                           /\ id # copy.id => Kept(id)
                           /\ id = copy.id /\ Single(Places(id)) => Places(id)' = {}
            BY <1>1, <1>3, EnqueuePushKeeps
        <2> HIDE DEF copy
        <2>5. CASE \A id \in Ids : Kept(id) /\ UNCHANGED gone
            <3>1. UNCHANGED <<received, gone>> BY <2>2, <2>3, <2>5
            <3>2. QED BY <1>1, <2>1, <2>5, <3>1, Moves, InvIs
        <2>6. CASE ~\A id \in Ids : Kept(id) /\ UNCHANGED gone
            <3>1. Places(copy.id) # {} BY <2>3, <2>4
            <3>2. copy.id \notin gone
                BY <1>1, <2>3, <3>1 DEF Counted, NoPacketLostOrDuplicated
            <3>3. gone' = gone \cup {copy.id} BY <2>4, <2>6
            <3>4. \A id \in Ids : /\ id # copy.id => Kept(id)
                                  /\ id = copy.id /\ Single(Places(id)) => Places(id)' = {}
                BY <2>4, <3>2, <3>3
            <3>5. PICK k \in Ids : k = copy.id BY <2>3
            <3>6. /\ gone' = gone \cup {k} /\ Places(k) # {}
                  /\ \A id \in Ids : id # k => Kept(id)
                  /\ Single(Places(k)) => Places(k)' = {}
                BY <3>1, <3>3, <3>4, <3>5
            <3>7. QED BY <1>1, <2>1, <2>2, <3>6, Drops, InvIs
        <2>7. QED BY <2>5, <2>6
    <1>4. CASE EndPacket(t)
        <2>1. Shaped' BY <1>1, <1>4, EndPacketShaped
        <2>2. UNCHANGED received BY <1>4 DEF EndPacket
        <2> DEFINE packet == thread[t].packet
        <2>3. ASSUME NEW id \in Ids
              PROVE  \/ UNCHANGED gone /\ Kept(id)
                     \/ /\ gone' = gone \cup {packet.id}
                        /\ <<"thread", t, 0>> \in Places(packet.id)
                        /\ id # packet.id => Kept(id)
                        /\ id = packet.id /\ Single(Places(id)) => Places(id)' = {}
            BY <1>1, <1>4, EndPacketKeeps
        <2>4. packet.id \in Ids \cup {0} /\ 0 \notin Ids
            BY <1>1 DEF TypeOK, Thread, Packet, NoPacket, Ids
        <2> HIDE DEF packet
        <2>5. CASE UNCHANGED gone /\ \A id \in Ids : Kept(id)
            BY <1>1, <2>1, <2>2, <2>5, Moves, InvIs
        <2>6. CASE ~(UNCHANGED gone /\ \A id \in Ids : Kept(id)) /\ Ids # {}
            <3>1. /\ gone' = gone \cup {packet.id}
                  /\ <<"thread", t, 0>> \in Places(packet.id)
                BY <2>3, <2>6
            <3>2. packet.id \in Ids BY <1>1, <2>1, <2>4, <3>1 DEF Shaped, TypeOK
            <3>3. packet.id \notin gone
                BY <1>1, <3>1, <3>2 DEF Counted, NoPacketLostOrDuplicated
            <3>4. \A id \in Ids : /\ id # packet.id => Kept(id)
                                  /\ id = packet.id /\ Single(Places(id)) => Places(id)' = {}
                BY <2>3, <3>1, <3>3
            <3>5. PICK k \in Ids : k = packet.id BY <3>2
            <3>6. /\ gone' = gone \cup {k} /\ Places(k) # {}
                  /\ \A id \in Ids : id # k => Kept(id)
                  /\ Single(Places(k)) => Places(k)' = {}
                BY <3>1, <3>4, <3>5
            <3>7. QED BY <1>1, <2>1, <2>2, <3>6, Drops, InvIs
        <2>7. CASE Ids = {}
            <3>1. gone = {} /\ gone' = {} BY <1>1, <2>1, <2>7 DEF Shaped, TypeOK
            <3>2. QED BY <1>1, <2>1, <2>2, <2>7, <3>1, Moves, InvIs
        <2>8. QED BY <2>5, <2>6, <2>7
    <1>5. QED BY <1>2, <1>3, <1>4 DEF ThreadStep

LEMMA TransmitInv ==
    ASSUME Inv, Transmit
    PROVE  Inv'
    <1>1. Shaped /\ Counted /\ TypeOK BY InvIs DEF Shaped
    <1>2. Shaped' BY <1>1, TransmitShaped
    <1> DEFINE head == Head(output_buffer)
    <1>3. head.id \in Ids
        <2>1. head \in Packet BY <1>1 DEF TypeOK, Transmit
        <2>2. QED BY <2>1 DEF Packet
    <1>4. \A id \in Ids :
             /\ <<"output", 1, 0>> \in Places(head.id)
             /\ id # head.id => Kept(id)
             /\ id = head.id /\ Single(Places(id)) => Places(id)' = {}
        BY <1>1, TransmitKeeps
    <1>5. gone' = gone \cup {head.id} /\ UNCHANGED received BY DEF Transmit
    <1> HIDE DEF head
    <1>6. PICK k \in Ids : k = head.id BY <1>3
    <1>7. /\ gone' = gone \cup {k} /\ Places(k) # {}
          /\ \A id \in Ids : id # k => Kept(id)
          /\ Single(Places(k)) => Places(k)' = {}
        BY <1>4, <1>5, <1>6
    <1>8. QED BY <1>1, <1>2, <1>5, <1>7, Drops, InvIs

LEMMA ControlInv ==
    ASSUME Inv,
           \/ \E port \in Ports, depth \in QueueDepths : SetEgressQueueDepth(port, depth)
           \/ \E port \in MirrorPorts \cup {NoPort} : SetMirroring(port)
    PROVE  Inv'
    <1>1. Shaped /\ Counted /\ TypeOK BY InvIs DEF Shaped
    <1>2. Shaped' BY <1>1, ControlShaped
    <1>3. /\ UNCHANGED <<input_buffer, output_buffer, egress_buffers, thread>>
          /\ UNCHANGED <<received, gone>>
        BY DEF SetEgressQueueDepth, SetMirroring
    <1>4. \A id \in Ids : Kept(id) BY <1>3, ControlKeeps, KeptSame
    <1>5. QED BY <1>1, <1>2, <1>3, <1>4, Moves, InvIs

LEMMA StutterInv ==
    ASSUME Inv, UNCHANGED vars
    PROVE  Inv'
    <1>1. Shaped /\ Counted /\ TypeOK BY InvIs DEF Shaped
    <1>2. /\ UNCHANGED <<input_buffer, output_buffer, egress_buffers, thread>>
          /\ UNCHANGED <<received, gone, capacity, mirroring_map>>
        BY DEF vars
    <1>3. Shaped' BY <1>1, <1>2 DEF Shaped, TypeOK, Staged, Finite
    <1>4. \A id \in Ids : Kept(id) BY <1>2, ControlKeeps, KeptSame
    <1>5. QED BY <1>1, <1>2, <1>3, <1>4, Moves, InvIs

LEMMA InitInv == Init => Inv
    <1> SUFFICES ASSUME Init PROVE Inv OBVIOUS
    <1>1. TypeOK
        BY DepthsAssumption, BoundsAssumption, IdleOK DEF Init, TypeOK
    <1>2. Staged BY IdleOK DEF Init, Staged
    <1>3. Finite BY FS_EmptySet DEF Init, Finite
    <1>4. ASSUME NEW id \in Ids PROVE Places(id) = {}
        <2>1. \A t \in Threads : thread[t].copies = <<>> /\ thread[t].packet.id = 0
            BY DEF Init, Idle, NoPacket
        <2>2. 0 \notin Ids BY DEF Ids
        <2>3. \A x : ~InThread(x, id) /\ ~InCopies(x, id)
            BY <2>1, <2>2 DEF InThread, InCopies
        <2>4. \A x : ~InInput(x, id) /\ ~InOutput(x, id) /\ ~InEgress(x, id)
            BY DEF Init, InInput, InOutput, InEgress
        <2>5. QED BY <2>3, <2>4, PlacesAre DEF Holds
    <1>5. \A id \in Ids : ~(id <= received) BY DEF Init, Ids
    <1>6. NoPacketLostOrDuplicated BY <1>4, <1>5 DEF NoPacketLostOrDuplicated
    <1>7. Gone BY DEF Init, Gone
    <1>8. QED BY <1>1, <1>2, <1>3, <1>6, <1>7 DEF Inv

-----------------------------------------------------------------------------
(* In every state of the switch, for any number of ports, egress threads,    *)
(* packets and any queue capacities, a thread holds what its stage says, and *)
(* every packet is in the one place it should be in.                         *)
THEOREM InvCorrect == Spec => []Inv
    <1>1. Init => Inv BY InitInv
    <1>2. Inv /\ [Next]_vars => Inv'
        <2> SUFFICES ASSUME Inv, [Next]_vars PROVE Inv' OBVIOUS
        <2>1. CASE Receive BY <2>1, ReceiveInv
        <2>2. CASE IngressStep BY <2>2, IngressStepInv
        <2>3. ASSUME NEW w \in Workers, EgressStep(w) PROVE Inv' BY <2>3, EgressStepInv
        <2>4. ASSUME NEW t \in Threads, ThreadStep(t) PROVE Inv' BY <2>4, ThreadStepInv
        <2>5. CASE Transmit BY <2>5, TransmitInv
        <2>6. CASE \/ \E port \in Ports, depth \in QueueDepths :
                         SetEgressQueueDepth(port, depth)
                   \/ \E port \in MirrorPorts \cup {NoPort} : SetMirroring(port)
            BY <2>6, ControlInv
        <2>7. CASE UNCHANGED vars BY <2>7, StutterInv
        <2>8. QED BY <2>1, <2>2, <2>3, <2>4, <2>5, <2>6, <2>7 DEF Next
    <1>3. QED BY <1>1, <1>2, PTL DEF Spec

(* The variables of the packet path keep their types: the queues hold        *)
(* packets, a thread is at one of its stages, and received never passes the  *)
(* bound.                                                                    *)
THEOREM TypeCorrect == Spec => []TypeOK
    <1>1. Inv => TypeOK BY DEF Inv
    <1>2. QED BY <1>1, InvCorrect, PTL

(* No step of receive(), ingress_thread(), egress_thread() or                *)
(* transmit_thread(), in any interleaving, loses a packet, clone or replica  *)
(* without a drop or makes two of it, however often it is resubmitted or     *)
(* recirculated and whichever queue is full.                                 *)
THEOREM PacketsCorrect == Spec => []NoPacketLostOrDuplicated
    <1>1. Inv => NoPacketLostOrDuplicated BY DEF Inv
    <1>2. QED BY <1>1, InvCorrect, PTL
=============================================================================
