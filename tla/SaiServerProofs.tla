--------------------------- MODULE SaiServerProofs ---------------------------
(***************************************************************************)
(* Proofs about SaiServer.  A table entry is right because of what the     *)
(* objects say of each other: which ids are in use, who refers to whom,    *)
(* and what is given once.  References and Listed are those facts; with    *)
(* TypeOK and the shape of the record of tables they make the three        *)
(* properties of the tables inductive.                                     *)
(***************************************************************************)
EXTENDS SaiServer, TLAPS

Fields == {"ingress_lag", "port_PVID", "port_mode",
           "subport_ingress_interface_type", "bridge_id_1d", "bridge_id_1q",
           "egress_set_vlan", "egress_br_port_to_if", "lag_hash", "egress_lag",
           "fdb", "ingress_vlan_filtering", "egress_vlan_filtering",
           "egress_vlan_tag"}

Shape == DOMAIN tables = Fields

(* What refers to what, and what at most one object has.                     *)
References ==
    /\ DOMAIN ports \cap lags = {}
    /\ \A p, q \in DOMAIN ports : ports[p].hw_port = ports[q].hw_port => p = q
    /\ \A m \in DOMAIN lag_members : /\ lag_members[m].port_id \in DOMAIN ports
                                     /\ lag_members[m].lag_id \in lags
    /\ \A m, n \in DOMAIN lag_members :
          lag_members[m].port_id = lag_members[n].port_id => m = n
    /\ \A b \in DOMAIN bridge_ports :
          bridge_ports[b].port_id \in DOMAIN ports \cup lags
    /\ \A m \in DOMAIN vlan_members :
          vlan_members[m].bridge_port_id \in DOMAIN bridge_ports
    /\ \A m, n \in DOMAIN vlan_members :
          /\ vlan_members[m].bridge_port_id = vlan_members[n].bridge_port_id
          /\ vlan_members[m].vid = vlan_members[n].vid
          => m = n

(* The shared list names every LAG member once and nothing else, so that     *)
(* list.remove() finds its argument and the first of the list is a member.   *)
Listed ==
    /\ \A m \in DOMAIN lag_members : \E k \in DOMAIN lag_list : lag_list[k] = m
    /\ \A k \in DOMAIN lag_list : lag_list[k] \in DOMAIN lag_members
    /\ \A j, k \in DOMAIN lag_list : lag_list[j] = lag_list[k] => j = k

Inv == /\ TypeOK /\ Shape /\ References /\ Listed
       /\ VlanFilterExact /\ BridgePortEgress /\ LaneAttributed
-----------------------------------------------------------------------------
(* What the dictionary operators of the server do.                           *)
LEMMA PutIs ==
    ASSUME NEW d, NEW k, NEW v
    PROVE  /\ DOMAIN Put(d, k, v) = DOMAIN d \cup {k}
           /\ Put(d, k, v)[k] = v
           /\ \A i \in DOMAIN d : i # k => Put(d, k, v)[i] = d[i]
    BY DEF Put

LEMMA RemoveIs ==
    ASSUME NEW d, NEW k
    PROVE  /\ DOMAIN RemoveTableEntry(d, k) = DOMAIN d \ {k}
           /\ \A i \in DOMAIN d \ {k} : RemoveTableEntry(d, k)[i] = d[i]
    BY DEF RemoveTableEntry

LEMMA AddIs ==
    ASSUME NEW d, NEW k, NEW v
    PROVE  /\ DOMAIN AddTable(d, k, v) = DOMAIN d \cup {k}
           /\ k \notin DOMAIN d => AddTable(d, k, v)[k] = v
           /\ \A i \in DOMAIN d : AddTable(d, k, v)[i] = d[i]
    BY DEF AddTable, Put

LEMMA RenewIs ==
    ASSUME NEW d, NEW k, NEW v
    PROVE  /\ DOMAIN Renew(d, k, v) = DOMAIN d \cup {k}
           /\ Renew(d, k, v)[k] = v
           /\ \A i \in DOMAIN d : i # k => Renew(d, k, v)[i] = d[i]
    <1> DEFINE r == RemoveTableEntry(d, k)
    <1>1. DOMAIN r = DOMAIN d \ {k} /\ \A i \in DOMAIN d \ {k} : r[i] = d[i]
        BY RemoveIs
    <1>2. /\ DOMAIN AddTable(r, k, v) = DOMAIN r \cup {k}
          /\ k \notin DOMAIN r => AddTable(r, k, v)[k] = v
          /\ \A i \in DOMAIN r : AddTable(r, k, v)[i] = r[i]
        BY AddIs
    <1>3. QED BY <1>1, <1>2 DEF Renew

(* They keep a dictionary a dictionary.                                      *)
LEMMA DictKept ==
    ASSUME NEW d, NEW K, NEW V, Dict(d, K, V), NEW k
    PROVE  /\ Dict(RemoveTableEntry(d, k), K, V)
           /\ \A v \in V : k \in K => /\ Dict(Put(d, k, v), K, V)
                                      /\ Dict(AddTable(d, k, v), K, V)
                                      /\ Dict(Renew(d, k, v), K, V)
    <1>1. Dict(RemoveTableEntry(d, k), K, V) BY DEF Dict, RemoveTableEntry
    <1>2. ASSUME NEW v \in V, k \in K
          PROVE  /\ Dict(Put(d, k, v), K, V)
                 /\ Dict(AddTable(d, k, v), K, V)
                 /\ Dict(Renew(d, k, v), K, V)
        <2>1. Dict(Put(d, k, v), K, V) BY <1>2 DEF Dict, Put
        <2>2. Dict(AddTable(d, k, v), K, V) BY <1>2 DEF Dict, AddTable, Put
        <2>3. Dict(Renew(d, k, v), K, V) 
            BY <1>2 DEF Dict, Renew, AddTable, Put, RemoveTableEntry
        <2>4. QED BY <2>1, <2>2, <2>3
    <1>3. QED BY <1>1, <1>2

LEMMA NewIndexIs == ASSUME NEW used, NEW i, NewIndex(used, i) PROVE i \notin used
    BY DEF NewIndex

(* list.remove() on a list without duplicates.                               *)
LEMMA RemovedIs ==
    ASSUME NEW S, NEW s \in Seq(S), NEW m, NEW t, Removed(s, m, t),
           \A j, k \in DOMAIN s : s[j] = s[k] => j = k
    PROVE  /\ t \in Seq(S)
           /\ \A k \in DOMAIN t : t[k] # m /\ \E j \in DOMAIN s : s[j] = t[k]
           /\ \A j \in DOMAIN s : s[j] # m => \E k \in DOMAIN t : t[k] = s[j]
           /\ \A j, k \in DOMAIN t : t[j] = t[k] => j = k
    <1>1. PICK k \in DOMAIN s :
             /\ s[k] = m
             /\ t = SubSeq(s, 1, k - 1) \o SubSeq(s, k + 1, Len(s))
        BY DEF Removed
    <1>2. k \in 1 .. Len(s) /\ Len(s) \in Nat OBVIOUS
    <1> DEFINE a == SubSeq(s, 1, k - 1)
               b == SubSeq(s, k + 1, Len(s))
    <1>3. /\ a \in Seq(S) /\ Len(a) = k - 1 /\ \A i \in 1 .. k - 1 : a[i] = s[i]
        BY <1>2
    <1>4. /\ b \in Seq(S) /\ Len(b) = Len(s) - k
          /\ \A i \in 1 .. Len(s) - k : b[i] = s[k + i]
        BY <1>2
    <1>5. /\ t \in Seq(S) /\ DOMAIN t = 1 .. Len(s) - 1
          /\ \A i \in 1 .. Len(s) - 1 : t[i] = IF i < k THEN s[i] ELSE s[i + 1]
        <2> HIDE DEF a, b
        <2>1. t = a \o b BY <1>1 DEF a, b
        <2>2. t \in Seq(S) /\ Len(t) = Len(s) - 1 BY <2>1, <1>2, <1>3, <1>4
        <2>3. \A i \in 1 .. Len(s) - 1 :
                 t[i] = IF i <= k - 1 THEN a[i] ELSE b[i - (k - 1)]
            BY <2>1, <1>2, <1>3, <1>4
        <2>4. ASSUME NEW i \in 1 .. Len(s) - 1
              PROVE  t[i] = IF i < k THEN s[i] ELSE s[i + 1]
            <3>1. CASE i < k BY <3>1, <2>3, <1>2, <1>3
            <3>2. CASE ~(i < k)
                <4>1. t[i] = b[i - (k - 1)] BY <3>2, <2>3, <1>2
                <4>2. i - (k - 1) \in 1 .. Len(s) - k /\ k + (i - (k - 1)) = i + 1
                    BY <3>2, <1>2
                <4>3. QED BY <4>1, <4>2, <1>4, <3>2
            <3>3. QED BY <3>1, <3>2
        <2>5. QED BY <2>2, <2>4
    <1>6. ASSUME NEW i \in DOMAIN t
          PROVE  t[i] # m /\ \E j \in DOMAIN s : s[j] = t[i]
        <2> DEFINE j == IF i < k THEN i ELSE i + 1
        <2>1. i \in 1 .. Len(s) - 1 /\ t[i] = s[j] BY <1>5
        <2>2. j \in DOMAIN s /\ j # k BY <2>1, <1>2
        <2>3. QED BY <2>1, <2>2, <1>1
    <1>7. ASSUME NEW j \in DOMAIN s, s[j] # m
          PROVE  \E i \in DOMAIN t : t[i] = s[j]
        <2> DEFINE i == IF j < k THEN j ELSE j - 1
        <2>1. j \in 1 .. Len(s) /\ j # k BY <1>1, <1>7
        <2>2. i \in 1 .. Len(s) - 1 BY <2>1, <1>2
        <2>3. (IF i < k THEN i ELSE i + 1) = j BY <2>1, <1>2
        <2>4. t[i] = s[j] BY <2>2, <2>3, <1>5
        <2>5. QED BY <2>2, <2>4, <1>5
    <1>8. ASSUME NEW i \in DOMAIN t, NEW j \in DOMAIN t, t[i] = t[j]
          PROVE  i = j
        <2> DEFINE o(x) == IF x < k THEN x ELSE x + 1
        <2>1. i \in 1 .. Len(s) - 1 /\ j \in 1 .. Len(s) - 1 BY <1>5
        <2>2. t[i] = s[o(i)] /\ t[j] = s[o(j)] BY <2>1, <1>5
        <2>3. o(i) \in DOMAIN s /\ o(j) \in DOMAIN s BY <2>1, <1>2
        <2>4. o(i) = o(j) BY <2>2, <2>3, <1>8
        <2>5. QED BY <2>1, <2>4, <1>2
    <1>9. QED BY <1>5, <1>6, <1>7, <1>8-----------------------------------------------------------------------------
(* Which entries each operation writes.                                      *)
Same(F) == \A f \in Fields \ F : tables'[f] = tables[f]

LEMMA CreatePortWrites ==
    ASSUME Shape, NEW p, NEW hw, NEW vid, NEW mode, CreatePort(p, hw, vid, mode)
    PROVE  /\ Shape' /\ Same({"port_PVID", "port_mode", "ingress_lag"})
           /\ tables'.port_PVID = IF vid = NoVid THEN tables.port_PVID
                                  ELSE AddTable(tables.port_PVID, p, vid)
           /\ tables'.port_mode = AddTable(tables.port_mode, p, mode)
           /\ tables'.ingress_lag = AddTable(tables.ingress_lag, hw, <<0, p>>)
    BY DEF CreatePort, Shape, Fields, Same

LEMMA RemovePortWrites ==
    ASSUME Shape, NEW p, RemovePort(p)
    PROVE  /\ Shape' /\ Same({"port_PVID", "ingress_lag"})
           /\ tables'.port_PVID = RemoveTableEntry(tables.port_PVID, p)
           /\ tables'.ingress_lag =
                 RemoveTableEntry(tables.ingress_lag, ports[p].hw_port)
    BY DEF RemovePort, Shape, Fields, Same

LEMMA CreateLagMemberWrites ==
    ASSUME Shape, NEW m, NEW p, NEW l, CreateLagMember(m, p, l)
    PROVE  /\ Shape'
           /\ Same({"ingress_lag", "lag_hash", "egress_lag", "port_PVID", "port_mode"})
           /\ tables'.ingress_lag =
                 Renew(tables.ingress_lag, ports[p].hw_port, <<1, l>>)
           /\ tables'.lag_hash = Renew(tables.lag_hash, l, Len(lag_list'))
           /\ tables'.egress_lag =
                 AddTable(tables.egress_lag, <<l, m>>, ports[p].hw_port)
           /\ tables'.port_PVID = Renew(tables.port_PVID, l, ports[p].pvid)
           /\ tables'.port_mode = Renew(tables.port_mode, l, ports[p].bind_mode)
    BY DEF CreateLagMember, LaneToLag, Shape, Fields, Same

LEMMA CreateBridgePortWrites ==
    ASSUME Shape, NEW i, NEW p, NEW vid, NEW type, NEW bridge,
           CreateBridgePort(i, p, vid, type, bridge)
    PROVE  /\ Shape'
           /\ Same({"bridge_id_1d", "egress_set_vlan", "bridge_id_1q",
                    "egress_br_port_to_if", "subport_ingress_interface_type"})
           /\ type = "SUB_PORT" =>
                 /\ tables'.bridge_id_1d = Renew(tables.bridge_id_1d, i, bridge)
                 /\ tables'.egress_set_vlan = Renew(tables.egress_set_vlan, i, vid)
                 /\ tables'.bridge_id_1q = tables.bridge_id_1q
           /\ type # "SUB_PORT" =>
                 /\ tables'.bridge_id_1d = tables.bridge_id_1d
                 /\ tables'.egress_set_vlan = tables.egress_set_vlan
                 /\ tables'.bridge_id_1q =
                       AddTable(RemoveTableEntry(tables.bridge_id_1q, i), vid, bridge)
           /\ tables'.egress_br_port_to_if =
                 Renew(tables.egress_br_port_to_if, i, OutIf(p))
           /\ tables'.subport_ingress_interface_type \in
                 {tables.subport_ingress_interface_type,
                  AddTable(tables.subport_ingress_interface_type, <<p, vid>>,
                           <<L2IfType(type), i>>)}
    <1> DEFINE w == WithBridgeId(i, vid, type, bridge)
               t == [w EXCEPT !.egress_br_port_to_if = SetEgressIf(@, i, p)]
               u == [t EXCEPT !.subport_ingress_interface_type =
                       AddTable(@, <<p, vid>>, <<L2IfType(type), i>>)]
    <1>1. tables' \in {t, u} BY DEF CreateBridgePort
    <1>2. /\ DOMAIN w = Fields
          /\ \A f \in Fields \ {"bridge_id_1d", "egress_set_vlan", "bridge_id_1q"} :
                w[f] = tables[f]
          /\ type = "SUB_PORT" =>
                /\ w.bridge_id_1d = Renew(tables.bridge_id_1d, i, bridge)
                /\ w.egress_set_vlan = Renew(tables.egress_set_vlan, i, vid)
                /\ w.bridge_id_1q = tables.bridge_id_1q
          /\ type # "SUB_PORT" =>
                /\ w.bridge_id_1d = tables.bridge_id_1d
                /\ w.egress_set_vlan = tables.egress_set_vlan
                /\ w.bridge_id_1q =
                      AddTable(RemoveTableEntry(tables.bridge_id_1q, i), vid, bridge)
        BY DEF WithBridgeId, Shape, Fields
    <1> HIDE DEF w
    <1>3. /\ DOMAIN t = Fields
          /\ \A f \in Fields \ {"egress_br_port_to_if"} : t[f] = w[f]
          /\ t.egress_br_port_to_if = Renew(tables.egress_br_port_to_if, i, OutIf(p))
        BY <1>2 DEF Fields, SetEgressIf
    <1> HIDE DEF t
    <1>4. /\ DOMAIN u = Fields
          /\ \A f \in Fields \ {"subport_ingress_interface_type"} : u[f] = t[f]
          /\ u.subport_ingress_interface_type =
                AddTable(t.subport_ingress_interface_type, <<p, vid>>,
                         <<L2IfType(type), i>>)
        BY <1>3 DEF Fields
    <1> HIDE DEF u
    <1>5. CASE tables' = t BY <1>5, <1>2, <1>3 DEF Shape, Same, Fields
    <1>6. CASE tables' = u BY <1>6, <1>2, <1>3, <1>4 DEF Shape, Same, Fields
    <1>7. QED BY <1>1, <1>5, <1>6

LEMMA RemoveBridgePortWrites ==
    ASSUME Shape, NEW i, RemoveBridgePort(i)
    PROVE  /\ Shape'
           /\ Same({"bridge_id_1d", "egress_set_vlan", "egress_br_port_to_if"})
           /\ \E k : tables'.bridge_id_1d = RemoveTableEntry(tables.bridge_id_1d, k)
           /\ tables'.egress_set_vlan \in
                 {tables.egress_set_vlan, RemoveTableEntry(tables.egress_set_vlan, i)}
           /\ tables'.egress_br_port_to_if =
                 RemoveTableEntry(tables.egress_br_port_to_if, i)
    <1>1. tables'.bridge_id_1d = RemoveTableEntry(tables.bridge_id_1d,
             IF bridge_ports[i].type = "SUB_PORT" THEN i ELSE bridge_ports[i].vlan_id)
        BY DEF RemoveBridgePort, Shape, Fields
    <1>2. QED BY <1>1 DEF RemoveBridgePort, Shape, Fields, Same

LEMMA CreateVlanMemberWrites ==
    ASSUME Shape, NEW m, NEW v, NEW b, NEW tagging, CreateVlanMember(m, v, b, tagging)
    PROVE  /\ Shape'
           /\ Same({"egress_vlan_tag", "egress_vlan_filtering", "ingress_vlan_filtering"})
           /\ tables'.egress_vlan_tag =
                 tables.egress_vlan_tag \cup {TagKey(b, vlans[v], tagging)}
           /\ tables'.egress_vlan_filtering =
                 tables.egress_vlan_filtering \cup {<<b, vlans[v]>>}
           /\ tables'.ingress_vlan_filtering =
                 tables.ingress_vlan_filtering \cup {<<b, vlans[v]>>}
    BY DEF CreateVlanMember, Shape, Fields, Same

LEMMA RemoveVlanMemberWrites ==
    ASSUME Shape, NEW m, RemoveVlanMember(m)
    PROVE  LET pair == <<vlan_members[m].bridge_port_id, vlan_members[m].vid>> IN
           /\ Shape'
           /\ Same({"egress_vlan_tag", "egress_vlan_filtering", "ingress_vlan_filtering"})
           /\ tables'.egress_vlan_tag \subseteq tables.egress_vlan_tag
           /\ tables'.egress_vlan_filtering = tables.egress_vlan_filtering \ {pair}
           /\ tables'.ingress_vlan_filtering = tables.ingress_vlan_filtering \ {pair}
    <1> DEFINE b == vlan_members[m].bridge_port_id
               u == Unfiltered(b, vlan_members[m].vid)
    <1>1. /\ DOMAIN u = Fields
          /\ \A f \in Fields \ {"egress_vlan_filtering", "ingress_vlan_filtering"} :
                u[f] = tables[f]
          /\ u.egress_vlan_filtering =
                tables.egress_vlan_filtering \ {<<b, vlan_members[m].vid>>}
          /\ u.ingress_vlan_filtering =
                tables.ingress_vlan_filtering \ {<<b, vlan_members[m].vid>>}
        BY DEF Unfiltered, Shape, Fields
    <1>2. \/ tables' = u
          \/ \E T : tables' = [u EXCEPT !.egress_vlan_tag = @ \ T]
        BY DEF RemoveVlanMember
    <1> HIDE DEF u
    <1>3. CASE tables' = u BY <1>1, <1>3 DEF Shape, Same, Fields
    <1>4. CASE \E T : tables' = [u EXCEPT !.egress_vlan_tag = @ \ T]
        BY <1>1, <1>4 DEF Shape, Same, Fields
    <1>5. QED BY <1>2, <1>3, <1>4

LEMMA FdbWrites ==
    ASSUME Shape, NEW mac, NEW bridge, NEW b,
           CreateFdbEntry(mac, bridge, b) \/ DeleteFdbEntry(mac, bridge)
    PROVE  /\ Shape' /\ Same({"fdb"})
           /\ CreateFdbEntry(mac, bridge, b) =>
                 tables'.fdb = AddTable(tables.fdb, <<mac, bridge>>, b)
           /\ DeleteFdbEntry(mac, bridge) =>
                 tables'.fdb = RemoveTableEntry(tables.fdb, <<mac, bridge>>)
    BY DEF CreateFdbEntry, DeleteFdbEntry, Shape, Fields, Same-----------------------------------------------------------------------------
(* Types.                                                                    *)
LEMMA OutIfType ==
    ASSUME TypeOK, NEW p \in DOMAIN ports \cup lags
    PROVE  OutIf(p) \in (Ids \cup HwPorts) \X {0, 1}
    <1>1. CASE p \in lags BY <1>1 DEF OutIf, TypeOK
    <1>2. CASE p \notin lags
        <2>1. ports[p].hw_port \in HwPorts BY <1>2 DEF TypeOK, Dict, Port
        <2>2. QED BY <1>2, <2>1 DEF OutIf
    <1>3. QED BY <1>1, <1>2

LEMMA CreatePortTypes ==
    ASSUME TypeOK, Shape, NEW p \in Ids, NEW hw \in HwPorts, NEW vid \in PortVids,
           NEW mode \in BindModes, CreatePort(p, hw, vid, mode)
    PROVE  TypeOK'
    <1>1. Dict(ports', Ids, Port)
        <2>1. [hw_port |-> hw, bind_mode |-> mode,
               pvid |-> IF vid = NoVid THEN 1 ELSE vid] \in Port
            BY VidsAssumption, ModesAssumption DEF Port
        <2>2. QED BY <2>1, DictKept DEF TypeOK, CreatePort
    <1>2. Dict(tables'.port_PVID, Ids, Vids \cup {1})
        <2>1. Dict(tables.port_PVID, Ids, Vids \cup {1}) BY DEF TypeOK, TablesOK
        <2>2. vid # NoVid => Dict(AddTable(tables.port_PVID, p, vid), Ids, Vids \cup {1})
            <3>1. vid # NoVid => vid \in Vids \cup {1} BY VidsAssumption
            <3>2. QED BY <3>1, <2>1, DictKept
        <2>3. QED BY <2>1, <2>2, CreatePortWrites
    <1>3. Dict(tables'.port_mode, Ids, Modes)
        <2>1. mode \in Modes BY ModesAssumption
        <2>2. Dict(tables.port_mode, Ids, Modes) BY DEF TypeOK, TablesOK
        <2>3. Dict(AddTable(tables.port_mode, p, mode), Ids, Modes)
            BY <2>1, <2>2, DictKept
        <2>4. QED BY <2>3, CreatePortWrites
    <1>4. Dict(tables'.ingress_lag, HwPorts, {0, 1} \X Ids)
        <2>1. <<0, p>> \in {0, 1} \X Ids OBVIOUS
        <2>2. QED BY <2>1, CreatePortWrites, DictKept DEF TypeOK, TablesOK
    <1>5. Same({"port_PVID", "port_mode", "ingress_lag"}) BY CreatePortWrites
    <1>6. QED
        BY <1>1, <1>2, <1>3, <1>4, <1>5 DEF TypeOK, TablesOK, CreatePort, Same, Fields

LEMMA RemovePortTypes ==
    ASSUME TypeOK, Shape, NEW p \in Ids, RemovePort(p)
    PROVE  TypeOK'
    <1>1. Dict(ports', Ids, Port) BY DictKept DEF TypeOK, RemovePort
    <1>2. Dict(tables'.port_PVID, Ids, Vids \cup {1})
        BY RemovePortWrites, DictKept DEF TypeOK, TablesOK
    <1>3. Dict(tables'.ingress_lag, HwPorts, {0, 1} \X Ids)
        BY RemovePortWrites, DictKept DEF TypeOK, TablesOK
    <1>4. Same({"port_PVID", "ingress_lag"}) BY RemovePortWrites
    <1>5. QED BY <1>1, <1>2, <1>3, <1>4 DEF TypeOK, TablesOK, RemovePort, Same, Fields

LEMMA LagTypes ==
    ASSUME TypeOK, NEW l \in Ids, CreateLag(l) \/ RemoveLag(l)
    PROVE  TypeOK'
    BY DEF TypeOK, TablesOK, CreateLag, RemoveLag

LEMMA CreateLagMemberTypes ==
    ASSUME TypeOK, Shape, NEW m \in MemberIds, NEW p \in Ids, NEW l \in Ids,
           CreateLagMember(m, p, l)
    PROVE  TypeOK'
    <1>1. Dict(lag_members', MemberIds, LagMember)
        <2>1. [port_id |-> p, lag_id |-> l] \in LagMember BY DEF LagMember
        <2>2. QED BY <2>1, DictKept DEF TypeOK, CreateLagMember
    <1>2. lag_list' \in Seq(MemberIds) /\ Len(lag_list') \in Nat
        BY DEF TypeOK, CreateLagMember
    <1>3. /\ ports[p].hw_port \in HwPorts /\ ports[p].pvid \in Vids \cup {1}
          /\ ports[p].bind_mode \in Modes
        BY DEF TypeOK, Dict, Port, CreateLagMember
    <1>4. Dict(tables'.ingress_lag, HwPorts, {0, 1} \X Ids)
        <2>1. <<1, l>> \in {0, 1} \X Ids OBVIOUS
        <2>2. Dict(tables.ingress_lag, HwPorts, {0, 1} \X Ids) BY DEF TypeOK, TablesOK
        <2>3. Dict(Renew(tables.ingress_lag, ports[p].hw_port, <<1, l>>),
                   HwPorts, {0, 1} \X Ids)
            BY <2>1, <2>2, <1>3, DictKept
        <2>4. tables'.ingress_lag =
                 Renew(tables.ingress_lag, ports[p].hw_port, <<1, l>>)
            BY DEF CreateLagMember, LaneToLag, Shape, Fields
        <2>5. QED BY <2>3, <2>4
    <1>5. Dict(tables'.lag_hash, Ids, Nat)
        <2>1. Dict(tables.lag_hash, Ids, Nat) BY DEF TypeOK, TablesOK
        <2>2. Dict(Renew(tables.lag_hash, l, Len(lag_list')), Ids, Nat)
            BY <2>1, <1>2, DictKept
        <2>3. QED BY <2>2, CreateLagMemberWrites
    <1>6. Dict(tables'.egress_lag, Ids \X MemberIds, HwPorts)
        <2>1. <<l, m>> \in Ids \X MemberIds OBVIOUS
        <2>2. Dict(tables.egress_lag, Ids \X MemberIds, HwPorts)
            BY DEF TypeOK, TablesOK
        <2>3. Dict(AddTable(tables.egress_lag, <<l, m>>, ports[p].hw_port),
                   Ids \X MemberIds, HwPorts)
            BY <2>1, <2>2, <1>3, DictKept
        <2>4. QED BY <2>3, CreateLagMemberWrites
    <1>7. Dict(tables'.port_PVID, Ids, Vids \cup {1})
        <2>1. Dict(tables.port_PVID, Ids, Vids \cup {1}) BY DEF TypeOK, TablesOK
        <2>2. Dict(Renew(tables.port_PVID, l, ports[p].pvid), Ids, Vids \cup {1})
            BY <2>1, <1>3, DictKept
        <2>3. QED BY <2>2, CreateLagMemberWrites
    <1>8. Dict(tables'.port_mode, Ids, Modes)
        <2>1. Dict(tables.port_mode, Ids, Modes) BY DEF TypeOK, TablesOK
        <2>2. Dict(Renew(tables.port_mode, l, ports[p].bind_mode), Ids, Modes)
            BY <2>1, <1>3, DictKept
        <2>3. QED BY <2>2, CreateLagMemberWrites
    <1>9. Same({"ingress_lag", "lag_hash", "egress_lag", "port_PVID", "port_mode"})
        BY CreateLagMemberWrites
    <1>10. QED
        BY <1>1, <1>2, <1>4, <1>5, <1>6, <1>7, <1>8, <1>9
        DEF TypeOK, TablesOK, CreateLagMember, Same, Fields

LEMMA RemoveLagMemberTypes ==
    ASSUME TypeOK, Listed, NEW m \in MemberIds, RemoveLagMember(m)
    PROVE  TypeOK'
    <1>1. Dict(lag_members', MemberIds, LagMember)
        BY DictKept DEF TypeOK, RemoveLagMember
    <1>2. lag_list' \in Seq(MemberIds)
        BY RemovedIs DEF TypeOK, RemoveLagMember, Listed
    <1>3. QED BY <1>1, <1>2 DEF TypeOK, TablesOK, RemoveLagMember

LEMMA BridgeTypes ==
    ASSUME TypeOK, NEW b \in BridgeIds, CreateBridge(b) \/ RemoveBridge(b)
    PROVE  TypeOK'
    BY DEF TypeOK, TablesOK, CreateBridge, RemoveBridge

LEMMA CreateBridgePortTypes ==
    ASSUME TypeOK, Shape, NEW i \in Ids, NEW p \in Ids, NEW vid \in Vids,
           NEW type \in Modes, NEW bridge \in BridgeIds,
           CreateBridgePort(i, p, vid, type, bridge)
    PROVE  TypeOK'
    <1>1. Dict(bridge_ports', Ids, BridgePort)
        <2>1. [port_id |-> p, vlan_id |-> vid, type |-> type] \in BridgePort
            BY DEF BridgePort
        <2>2. QED BY <2>1, DictKept DEF TypeOK, CreateBridgePort
    <1>2. Dict(tables'.bridge_id_1d, Ids, BridgeIds)
        <2>1. Dict(tables.bridge_id_1d, Ids, BridgeIds) BY DEF TypeOK, TablesOK
        <2>2. Dict(Renew(tables.bridge_id_1d, i, bridge), Ids, BridgeIds)
            BY <2>1, DictKept
        <2>3. QED BY <2>1, <2>2, CreateBridgePortWrites
    <1>3. Dict(tables'.egress_set_vlan, Ids, Vids)
        <2>1. Dict(tables.egress_set_vlan, Ids, Vids) BY DEF TypeOK, TablesOK
        <2>2. Dict(Renew(tables.egress_set_vlan, i, vid), Ids, Vids)
            BY <2>1, DictKept
        <2>3. QED BY <2>1, <2>2, CreateBridgePortWrites
    <1>4. Dict(tables'.bridge_id_1q, Vids, BridgeIds)
        <2>1. Dict(tables.bridge_id_1q, Vids, BridgeIds) BY DEF TypeOK, TablesOK
        <2>2. Dict(RemoveTableEntry(tables.bridge_id_1q, i), Vids, BridgeIds)
            BY <2>1, DictKept
        <2>3. Dict(AddTable(RemoveTableEntry(tables.bridge_id_1q, i), vid, bridge),
                   Vids, BridgeIds)
            BY <2>2, DictKept
        <2>4. QED BY <2>1, <2>3, CreateBridgePortWrites
    <1>5. Dict(tables'.egress_br_port_to_if, Ids \cup HwPorts,
               (Ids \cup HwPorts) \X {0, 1})
        <2>1. OutIf(p) \in (Ids \cup HwPorts) \X {0, 1}
            BY OutIfType DEF CreateBridgePort
        <2>2. Dict(tables.egress_br_port_to_if, Ids \cup HwPorts,
                   (Ids \cup HwPorts) \X {0, 1})
            BY DEF TypeOK, TablesOK
        <2>3. Dict(Renew(tables.egress_br_port_to_if, i, OutIf(p)), Ids \cup HwPorts,
                   (Ids \cup HwPorts) \X {0, 1})
            <3>1. i \in Ids \cup HwPorts OBVIOUS
            <3>2. QED BY <3>1, <2>1, <2>2, DictKept
        <2>4. QED BY <2>3, CreateBridgePortWrites
    <1>6. Dict(tables'.subport_ingress_interface_type, Ids \X Vids, {2, 3} \X Ids)
        <2>1. <<p, vid>> \in Ids \X Vids /\ <<L2IfType(type), i>> \in {2, 3} \X Ids
            BY DEF L2IfType
        <2>2. Dict(tables.subport_ingress_interface_type, Ids \X Vids, {2, 3} \X Ids)
            BY DEF TypeOK, TablesOK
        <2>3. Dict(AddTable(tables.subport_ingress_interface_type, <<p, vid>>,
                            <<L2IfType(type), i>>), Ids \X Vids, {2, 3} \X Ids)
            BY <2>1, <2>2, DictKept
        <2>4. QED BY <2>2, <2>3, CreateBridgePortWrites
    <1>7. Same({"bridge_id_1d", "egress_set_vlan", "bridge_id_1q",
                "egress_br_port_to_if", "subport_ingress_interface_type"})
        BY CreateBridgePortWrites
    <1>8. QED
        BY <1>1, <1>2, <1>3, <1>4, <1>5, <1>6, <1>7
        DEF TypeOK, TablesOK, CreateBridgePort, Same, Fields

LEMMA RemoveBridgePortTypes ==
    ASSUME TypeOK, Shape, NEW i \in Ids, RemoveBridgePort(i)
    PROVE  TypeOK'
    <1>1. Dict(bridge_ports', Ids, BridgePort)
        BY DictKept DEF TypeOK, RemoveBridgePort
    <1>2. Dict(tables'.bridge_id_1d, Ids, BridgeIds)
        BY RemoveBridgePortWrites, DictKept DEF TypeOK, TablesOK
    <1>3. Dict(tables'.egress_set_vlan, Ids, Vids)
        BY RemoveBridgePortWrites, DictKept DEF TypeOK, TablesOK
    <1>4. Dict(tables'.egress_br_port_to_if, Ids \cup HwPorts,
               (Ids \cup HwPorts) \X {0, 1})
        BY RemoveBridgePortWrites, DictKept DEF TypeOK, TablesOK
    <1>5. Same({"bridge_id_1d", "egress_set_vlan", "egress_br_port_to_if"})
        BY RemoveBridgePortWrites
    <1>6. QED
        BY <1>1, <1>2, <1>3, <1>4, <1>5
        DEF TypeOK, TablesOK, RemoveBridgePort, Same, Fields

LEMMA FdbTypes ==
    ASSUME TypeOK, Shape, NEW mac \in Macs, NEW bridge \in BridgeIds, NEW b,
           \/ b \in Ids /\ CreateFdbEntry(mac, bridge, b)
           \/ DeleteFdbEntry(mac, bridge)
    PROVE  TypeOK'
    <1>1. Dict(tables'.fdb, Macs \X BridgeIds, Ids)
        <2>1. <<mac, bridge>> \in Macs \X BridgeIds OBVIOUS
        <2>2. Dict(tables.fdb, Macs \X BridgeIds, Ids) BY DEF TypeOK, TablesOK
        <2>3. /\ b \in Ids =>
                    Dict(AddTable(tables.fdb, <<mac, bridge>>, b), Macs \X BridgeIds, Ids)
              /\ Dict(RemoveTableEntry(tables.fdb, <<mac, bridge>>),
                      Macs \X BridgeIds, Ids)
            BY <2>1, <2>2, DictKept
        <2>4. QED BY <2>3, FdbWrites
    <1>2. Same({"fdb"}) BY FdbWrites
    <1>3. QED
        BY <1>1, <1>2
        DEF TypeOK, TablesOK, CreateFdbEntry, DeleteFdbEntry, Same, Fields

LEMMA VlanTypes ==
    ASSUME TypeOK, NEW v \in BridgeIds, NEW vid,
           (vid \in Vids /\ CreateVlan(v, vid)) \/ DeleteVlan(v)
    PROVE  TypeOK'
    <1>1. Dict(vlans', BridgeIds, Vids) BY DictKept DEF TypeOK, CreateVlan, DeleteVlan
    <1>2. QED BY <1>1 DEF TypeOK, TablesOK, CreateVlan, DeleteVlan

LEMMA CreateVlanMemberTypes ==
    ASSUME TypeOK, Shape, References, NEW m \in MemberIds, NEW v \in BridgeIds,
           NEW b \in Ids, NEW tagging \in Tagging, CreateVlanMember(m, v, b, tagging)
    PROVE  TypeOK'
    <1>1. vlans[v] \in Vids BY DEF TypeOK, Dict, CreateVlanMember
    <1>2. Dict(vlan_members', MemberIds, VlanMember)
        <2>1. [bridge_port_id |-> b, vid |-> vlans[v], tagging_mode |-> tagging]
                 \in VlanMember
            BY <1>1 DEF VlanMember
        <2>2. QED BY <2>1, DictKept DEF TypeOK, CreateVlanMember
    <1>3. TagKey(b, vlans[v], tagging) \in (Ids \cup HwPorts) \X Vids \X {0, 1}
        <2>1. bridge_ports[b].port_id \in DOMAIN ports \cup lags
            BY DEF References, CreateVlanMember
        <2>2. OutIf(bridge_ports[b].port_id)[1] \in Ids \cup HwPorts
            BY <2>1, OutIfType
        <2>3. QED BY <1>1, <2>2 DEF TagKey
    <1>4. <<b, vlans[v]>> \in (Ids \cup HwPorts) \X (Vids \cup {1}) BY <1>1
    <1>5. Same({"egress_vlan_tag", "egress_vlan_filtering", "ingress_vlan_filtering"})
        BY CreateVlanMemberWrites
    <1>6. /\ tables'.ingress_vlan_filtering \subseteq (Ids \cup HwPorts) \X (Vids \cup {1})
          /\ tables'.egress_vlan_filtering \subseteq (Ids \cup HwPorts) \X (Vids \cup {1})
          /\ tables'.egress_vlan_tag \subseteq (Ids \cup HwPorts) \X Vids \X {0, 1}
        BY <1>3, <1>4, CreateVlanMemberWrites DEF TypeOK, TablesOK
    <1>7. QED
        BY <1>2, <1>5, <1>6 DEF TypeOK, TablesOK, CreateVlanMember, Same, Fields

LEMMA RemoveVlanMemberTypes ==
    ASSUME TypeOK, Shape, NEW m \in MemberIds, RemoveVlanMember(m)
    PROVE  TypeOK'
    <1>1. Dict(vlan_members', MemberIds, VlanMember)
        BY DictKept DEF TypeOK, RemoveVlanMember
    <1>2. Same({"egress_vlan_tag", "egress_vlan_filtering", "ingress_vlan_filtering"})
        BY RemoveVlanMemberWrites
    <1>3. /\ tables'.ingress_vlan_filtering \subseteq (Ids \cup HwPorts) \X (Vids \cup {1})
          /\ tables'.egress_vlan_filtering \subseteq (Ids \cup HwPorts) \X (Vids \cup {1})
          /\ tables'.egress_vlan_tag \subseteq (Ids \cup HwPorts) \X Vids \X {0, 1}
        BY RemoveVlanMemberWrites DEF TypeOK, TablesOK
    <1>4. QED
        BY <1>1, <1>2, <1>3 DEF TypeOK, TablesOK, RemoveVlanMember, Same, Fields-----------------------------------------------------------------------------
(* Every operation preserves the invariant.  First the frames: what each     *)
(* part depends on.                                                          *)
Objects == <<ports, lags, lag_members, bridge_ports, vlan_members, lag_list>>

LEMMA ObjectsFrame ==
    ASSUME References, Listed, UNCHANGED Objects
    PROVE  References' /\ Listed'
    BY DEF References, Listed, Objects

LEMMA FilterFrame ==
    ASSUME VlanFilterExact,
           UNCHANGED <<lags, bridge_ports, vlan_members,
                       tables.ingress_vlan_filtering, tables.egress_vlan_filtering>>
    PROVE  VlanFilterExact'
    BY DEF VlanFilterExact

LEMMA EgressFrame ==
    ASSUME BridgePortEgress,
           UNCHANGED <<ports, lags, bridge_ports, tables.egress_br_port_to_if,
                       tables.egress_set_vlan>>
    PROVE  BridgePortEgress'
    BY DEF BridgePortEgress, OutIf

LEMMA LaneFrame ==
    ASSUME LaneAttributed, UNCHANGED <<ports, lags, lag_members, tables.ingress_lag>>
    PROVE  LaneAttributed'
    BY DEF LaneAttributed
LEMMA CreatePortKeeps ==
    ASSUME Inv, NEW p \in Ids, NEW hw \in HwPorts, NEW vid \in PortVids,
           NEW mode \in BindModes, CreatePort(p, hw, vid, mode)
    PROVE  Inv'
    <1> USE DEF Inv
    <1>1. TypeOK' BY CreatePortTypes
    <1>2. Shape' /\ Same({"port_PVID", "port_mode", "ingress_lag"})
        BY CreatePortWrites
    <1>3. p \notin DOMAIN ports \cup lags BY NewIndexIs DEF CreatePort, NewPortOrLag
    <1>4. /\ DOMAIN ports' = DOMAIN ports \cup {p}
          /\ \A q \in DOMAIN ports : ports'[q] = ports[q]
          /\ ports'[p].hw_port = hw
          /\ UNCHANGED <<lags, lag_members, bridge_ports, vlan_members, lag_list>>
          /\ \A q \in DOMAIN ports : ports[q].hw_port # hw
        BY <1>3 DEF CreatePort, Put
    <1>5. References' /\ Listed' BY <1>3, <1>4 DEF References, Listed
    <1>6. VlanFilterExact' BY <1>2, <1>4, FilterFrame DEF Same, Fields
    <1>7. BridgePortEgress'
        <2>1. UNCHANGED <<tables.egress_br_port_to_if, tables.egress_set_vlan>>
            BY <1>2 DEF Same, Fields
        <2>2. ASSUME NEW i \in DOMAIN bridge_ports
              PROVE  OutIf(bridge_ports[i].port_id)' = OutIf(bridge_ports[i].port_id)
            <3>1. bridge_ports[i].port_id \in DOMAIN ports \cup lags BY DEF References
            <3>2. QED BY <3>1, <1>3, <1>4 DEF OutIf
        <2>3. QED BY <2>1, <2>2, <1>4 DEF BridgePortEgress
    <1>8. LaneAttributed'
        <2>1. tables'.ingress_lag = AddTable(tables.ingress_lag, hw, <<0, p>>)
            BY CreatePortWrites
        <2>2. /\ DOMAIN tables'.ingress_lag = DOMAIN tables.ingress_lag \cup {hw}
              /\ \A h \in DOMAIN tables.ingress_lag :
                    tables'.ingress_lag[h] = tables.ingress_lag[h]
              /\ hw \notin DOMAIN tables.ingress_lag => tables'.ingress_lag[hw] = <<0, p>>
            BY <2>1 DEF AddTable, Put
        <2>3. QED BY <2>2, <1>3, <1>4 DEF LaneAttributed, References
    <1>9. QED BY <1>1, <1>2, <1>5, <1>6, <1>7, <1>8

LEMMA RemovePortKeeps ==
    ASSUME Inv, NEW p \in Ids, RemovePort(p)
    PROVE  Inv'
    <1> USE DEF Inv
    <1>1. TypeOK' BY RemovePortTypes
    <1>2. Shape' /\ Same({"port_PVID", "ingress_lag"}) BY RemovePortWrites
    <1>3. /\ p \in DOMAIN ports
          /\ \A b \in DOMAIN bridge_ports : bridge_ports[b].port_id # p
          /\ \A m \in DOMAIN lag_members : lag_members[m].port_id # p
        BY DEF RemovePort, InBridge, InLag
    <1>4. /\ DOMAIN ports' = DOMAIN ports \ {p}
          /\ \A q \in DOMAIN ports \ {p} : ports'[q] = ports[q]
          /\ UNCHANGED <<lags, lag_members, bridge_ports, vlan_members, lag_list>>
        BY DEF RemovePort, RemoveTableEntry
    <1>5. References' /\ Listed' BY <1>3, <1>4 DEF References, Listed
    <1>6. VlanFilterExact' BY <1>2, <1>4, FilterFrame DEF Same, Fields
    <1>7. BridgePortEgress'
        <2>1. UNCHANGED <<tables.egress_br_port_to_if, tables.egress_set_vlan>>
            BY <1>2 DEF Same, Fields
        <2>2. ASSUME NEW i \in DOMAIN bridge_ports
              PROVE  OutIf(bridge_ports[i].port_id)' = OutIf(bridge_ports[i].port_id)
            <3>1. bridge_ports[i].port_id \in DOMAIN ports \cup lags BY DEF References
            <3>2. QED BY <3>1, <1>3, <1>4 DEF OutIf
        <2>3. QED BY <2>1, <2>2, <1>4 DEF BridgePortEgress
    <1>8. LaneAttributed'
        <2>1. tables'.ingress_lag =
                 RemoveTableEntry(tables.ingress_lag, ports[p].hw_port)
            BY RemovePortWrites
        <2>2. /\ DOMAIN tables'.ingress_lag =
                    DOMAIN tables.ingress_lag \ {ports[p].hw_port}
              /\ \A h \in DOMAIN tables'.ingress_lag :
                    tables'.ingress_lag[h] = tables.ingress_lag[h]
            BY <2>1 DEF RemoveTableEntry
        <2>3. QED BY <2>2, <1>3, <1>4 DEF LaneAttributed, References
    <1>9. QED BY <1>1, <1>2, <1>5, <1>6, <1>7, <1>8

LEMMA LagKeeps ==
    ASSUME Inv, NEW l \in Ids, CreateLag(l) \/ RemoveLag(l)
    PROVE  Inv'
    <1> USE DEF Inv
    <1>1. TypeOK' BY LagTypes
    <1>2. UNCHANGED <<ports, lag_members, bridge_ports, vlan_members, lag_list, tables>>
        BY DEF CreateLag, RemoveLag
    <1>3. CASE CreateLag(l)
        <2>1. l \notin DOMAIN ports \cup lags /\ lags' = lags \cup {l}
            BY <1>3, NewIndexIs DEF CreateLag, NewPortOrLag
        <2>2. References' /\ Listed' BY <2>1, <1>2 DEF References, Listed
        <2>3. VlanFilterExact' BY <2>1, <1>2 DEF VlanFilterExact
        <2>4. BridgePortEgress' BY <2>1, <1>2 DEF BridgePortEgress, OutIf, References
        <2>5. LaneAttributed' BY <2>1, <1>2 DEF LaneAttributed
        <2>6. QED BY <1>1, <1>2, <2>2, <2>3, <2>4, <2>5 DEF Shape
    <1>4. CASE RemoveLag(l)
        <2>1. /\ lags' = lags \ {l}
              /\ \A b \in DOMAIN bridge_ports : bridge_ports[b].port_id # l
              /\ \A m \in DOMAIN lag_members : lag_members[m].lag_id # l
            BY <1>4 DEF RemoveLag, InBridge
        <2>2. References' /\ Listed' BY <2>1, <1>2 DEF References, Listed
        <2>3. VlanFilterExact' BY <2>1, <1>2 DEF VlanFilterExact, References
        <2>4. BridgePortEgress' BY <2>1, <1>2 DEF BridgePortEgress, OutIf
        <2>5. LaneAttributed' BY <2>1, <1>2 DEF LaneAttributed
        <2>6. QED BY <1>1, <1>2, <2>2, <2>3, <2>4, <2>5 DEF Shape
    <1>5. QED BY <1>3, <1>4
LEMMA CreateLagMemberKeeps ==
    ASSUME Inv, NEW m \in MemberIds, NEW p \in Ids, NEW l \in Ids,
           CreateLagMember(m, p, l)
    PROVE  Inv'
    <1> USE DEF Inv
    <1>1. TypeOK' BY CreateLagMemberTypes
    <1>2. Shape' /\ Same({"ingress_lag", "lag_hash", "egress_lag", "port_PVID",
                          "port_mode"})
        BY CreateLagMemberWrites
    <1>3. /\ p \in DOMAIN ports /\ l \in lags /\ m \notin DOMAIN lag_members
          /\ \A n \in DOMAIN lag_members : lag_members[n].port_id # p
        BY NewIndexIs DEF CreateLagMember, InLag
    <1>4. /\ DOMAIN lag_members' = DOMAIN lag_members \cup {m}
          /\ \A n \in DOMAIN lag_members : lag_members'[n] = lag_members[n]
          /\ lag_members'[m].port_id = p /\ lag_members'[m].lag_id = l
          /\ UNCHANGED <<ports, lags, bridge_ports, vlan_members>>
          /\ lag_list' = Append(lag_list, m)
        BY <1>3 DEF CreateLagMember, Put
    <1>5. References' BY <1>3, <1>4 DEF References
    <1>6. Listed'
        <2>1. /\ lag_list \in Seq(MemberIds) BY DEF TypeOK
        <2>2. /\ DOMAIN lag_list = 1 .. Len(lag_list) /\ Len(lag_list) \in Nat
              /\ DOMAIN lag_list' = 1 .. Len(lag_list) + 1
              /\ \A k \in DOMAIN lag_list : lag_list'[k] = lag_list[k]
              /\ lag_list'[Len(lag_list) + 1] = m
            BY <2>1, <1>4
        <2>3. DOMAIN lag_list' = DOMAIN lag_list \cup {Len(lag_list) + 1}
            BY <2>2
        <2>4. QED BY <2>2, <2>3, <1>3, <1>4 DEF Listed
    <1>7. VlanFilterExact' BY <1>2, <1>4, FilterFrame DEF Same, Fields
    <1>8. BridgePortEgress' BY <1>2, <1>4, EgressFrame DEF Same, Fields
    <1>9. LaneAttributed'
        <2> DEFINE hw == ports[p].hw_port
        <2>1. tables'.ingress_lag = Renew(tables.ingress_lag, hw, <<1, l>>)
            BY DEF CreateLagMember, LaneToLag, Shape, Fields
        <2>2. /\ DOMAIN tables'.ingress_lag = DOMAIN tables.ingress_lag \cup {hw}
              /\ \A h \in DOMAIN tables.ingress_lag :
                    h # hw => tables'.ingress_lag[h] = tables.ingress_lag[h]
              /\ tables'.ingress_lag[hw] = <<1, l>>
            BY <2>1 DEF Renew, AddTable, Put, RemoveTableEntry
        <2> HIDE DEF hw
        <2>3. ASSUME NEW n \in DOMAIN lag_members'
              PROVE  LET h == ports'[lag_members'[n].port_id].hw_port IN
                     /\ h \in DOMAIN tables'.ingress_lag
                     /\ tables'.ingress_lag[h] = <<1, lag_members'[n].lag_id>>
            <3>1. CASE n = m BY <3>1, <2>2, <1>4 DEF hw
            <3>2. CASE n # m
                <4>1. /\ n \in DOMAIN lag_members /\ lag_members[n].port_id # p
                      /\ lag_members[n].port_id \in DOMAIN ports
                    BY <3>2, <1>3, <1>4 DEF References
                <4>2. ports[lag_members[n].port_id].hw_port # hw
                    BY <4>1, <1>3 DEF hw, References
                <4>3. QED BY <4>1, <4>2, <2>2, <1>4 DEF LaneAttributed
            <3>3. QED BY <3>1, <3>2
        <2>4. \A h \in DOMAIN tables'.ingress_lag :
                 tables'.ingress_lag[h][1] = 0 =>
                    /\ tables'.ingress_lag[h][2] \in DOMAIN ports'
                    /\ ports'[tables'.ingress_lag[h][2]].hw_port = h
            BY <2>2, <1>4 DEF LaneAttributed
        <2>5. QED BY <2>3, <2>4, <1>4 DEF LaneAttributed
    <1>10. QED BY <1>1, <1>2, <1>5, <1>6, <1>7, <1>8, <1>9

LEMMA RemoveLagMemberKeeps ==
    ASSUME Inv, NEW m \in MemberIds, RemoveLagMember(m)
    PROVE  Inv'
    <1> USE DEF Inv
    <1>1. TypeOK' BY RemoveLagMemberTypes
    <1>2. /\ DOMAIN lag_members' = DOMAIN lag_members \ {m}
          /\ \A n \in DOMAIN lag_members \ {m} : lag_members'[n] = lag_members[n]
          /\ UNCHANGED <<ports, lags, bridge_ports, vlan_members, tables>>
        BY DEF RemoveLagMember, RemoveTableEntry
    <1>3. References' BY <1>2 DEF References
    <1>4. Listed'
        <2>1. /\ \A k \in DOMAIN lag_list' :
                    /\ lag_list'[k] # m
                    /\ \E j \in DOMAIN lag_list : lag_list[j] = lag_list'[k]
              /\ \A j \in DOMAIN lag_list :
                    lag_list[j] # m => \E k \in DOMAIN lag_list' : lag_list'[k] = lag_list[j]
              /\ \A j, k \in DOMAIN lag_list' : lag_list'[j] = lag_list'[k] => j = k
            BY RemovedIs DEF TypeOK, Listed, RemoveLagMember
        <2>2. QED BY <2>1, <1>2 DEF Listed
    <1>5. VlanFilterExact' BY <1>2, FilterFrame
    <1>6. BridgePortEgress' BY <1>2, EgressFrame
    <1>7. LaneAttributed' BY <1>2 DEF LaneAttributed
    <1>8. QED BY <1>1, <1>2, <1>3, <1>4, <1>5, <1>6, <1>7 DEF Shape

LEMMA BridgeKeeps ==
    ASSUME Inv, NEW b \in BridgeIds, CreateBridge(b) \/ RemoveBridge(b)
    PROVE  Inv'
    <1> USE DEF Inv
    <1>1. TypeOK' BY BridgeTypes
    <1>2. UNCHANGED Objects /\ UNCHANGED tables
        BY DEF CreateBridge, RemoveBridge, Objects
    <1>3. References' /\ Listed' BY <1>2, ObjectsFrame
    <1>4. VlanFilterExact' BY <1>2, FilterFrame DEF Objects
    <1>5. BridgePortEgress' BY <1>2, EgressFrame DEF Objects
    <1>6. LaneAttributed' BY <1>2, LaneFrame DEF Objects
    <1>7. QED BY <1>1, <1>2, <1>3, <1>4, <1>5, <1>6 DEF Shape

LEMMA VlanKeeps ==
    ASSUME Inv, NEW v \in BridgeIds, NEW vid,
           (vid \in Vids /\ CreateVlan(v, vid)) \/ DeleteVlan(v)
    PROVE  Inv'
    <1> USE DEF Inv
    <1>1. TypeOK' BY VlanTypes
    <1>2. UNCHANGED Objects /\ UNCHANGED tables
        BY DEF CreateVlan, DeleteVlan, Objects
    <1>3. References' /\ Listed' BY <1>2, ObjectsFrame
    <1>4. VlanFilterExact' BY <1>2, FilterFrame DEF Objects
    <1>5. BridgePortEgress' BY <1>2, EgressFrame DEF Objects
    <1>6. LaneAttributed' BY <1>2, LaneFrame DEF Objects
    <1>7. QED BY <1>1, <1>2, <1>3, <1>4, <1>5, <1>6 DEF Shape

LEMMA FdbKeeps ==
    ASSUME Inv, NEW mac \in Macs, NEW bridge \in BridgeIds, NEW b,
           \/ b \in Ids /\ CreateFdbEntry(mac, bridge, b)
           \/ DeleteFdbEntry(mac, bridge)
    PROVE  Inv'
    <1> USE DEF Inv
    <1>1. TypeOK' BY FdbTypes
    <1>2. Shape' /\ Same({"fdb"}) BY FdbWrites
    <1>3. UNCHANGED Objects BY DEF CreateFdbEntry, DeleteFdbEntry, Objects
    <1>4. References' /\ Listed' BY <1>3, ObjectsFrame
    <1>5. VlanFilterExact' BY <1>2, <1>3, FilterFrame DEF Objects, Same, Fields
    <1>6. BridgePortEgress' BY <1>2, <1>3, EgressFrame DEF Objects, Same, Fields
    <1>7. LaneAttributed' BY <1>2, <1>3, LaneFrame DEF Objects, Same, Fields
    <1>8. QED BY <1>1, <1>2, <1>4, <1>5, <1>6, <1>7
LEMMA CreateBridgePortKeeps ==
    ASSUME Inv, NEW i \in Ids, NEW p \in Ids, NEW vid \in Vids, NEW type \in Modes,
           NEW bridge \in BridgeIds, CreateBridgePort(i, p, vid, type, bridge)
    PROVE  Inv'
    <1> USE DEF Inv
    <1>1. TypeOK' BY CreateBridgePortTypes
    <1>2. Shape' /\ Same({"bridge_id_1d", "egress_set_vlan", "bridge_id_1q",
                          "egress_br_port_to_if", "subport_ingress_interface_type"})
        BY CreateBridgePortWrites
    <1>3. p \in DOMAIN ports \cup lags /\ i \notin DOMAIN bridge_ports
        BY NewIndexIs DEF CreateBridgePort
    <1>4. /\ DOMAIN bridge_ports' = DOMAIN bridge_ports \cup {i}
          /\ \A b \in DOMAIN bridge_ports : bridge_ports'[b] = bridge_ports[b]
          /\ bridge_ports'[i] = [port_id |-> p, vlan_id |-> vid, type |-> type]
          /\ UNCHANGED <<ports, lags, lag_members, vlan_members, lag_list>>
        BY <1>3 DEF CreateBridgePort, Put
    <1>5. References' /\ Listed' BY <1>3, <1>4 DEF References, Listed
    <1>6. VlanFilterExact'
        <2>1. UNCHANGED <<tables.ingress_vlan_filtering, tables.egress_vlan_filtering>>
            BY <1>2 DEF Same, Fields
        <2>2. \A m \in DOMAIN vlan_members :
                 bridge_ports'[vlan_members[m].bridge_port_id] =
                    bridge_ports[vlan_members[m].bridge_port_id]
            BY <1>4 DEF References
        <2>3. QED BY <2>1, <2>2, <1>4 DEF VlanFilterExact
    <1>7. BridgePortEgress'
        <2> DEFINE if == tables.egress_br_port_to_if
                   sv == tables.egress_set_vlan
        <2>1. tables'.egress_br_port_to_if = Renew(if, i, OutIf(p))
            BY CreateBridgePortWrites
        <2> HIDE DEF sv
        <2>1a. type = "SUB_PORT" => tables'.egress_set_vlan = Renew(sv, i, vid)
            BY CreateBridgePortWrites DEF sv
        <2>1b. type # "SUB_PORT" => tables'.egress_set_vlan = sv
            BY DEF sv, CreateBridgePort, WithBridgeId, Shape, Fields
        <2>2. /\ DOMAIN tables'.egress_br_port_to_if = DOMAIN if \cup {i}
              /\ tables'.egress_br_port_to_if[i] = OutIf(p)
              /\ \A b \in DOMAIN if : b # i => tables'.egress_br_port_to_if[b] = if[b]
            BY <2>1 DEF Renew, AddTable, Put, RemoveTableEntry
        <2>3. /\ DOMAIN sv \subseteq DOMAIN tables'.egress_set_vlan
              /\ type = "SUB_PORT" => /\ i \in DOMAIN tables'.egress_set_vlan
                                      /\ tables'.egress_set_vlan[i] = vid
              /\ \A b \in DOMAIN sv : b # i => tables'.egress_set_vlan[b] = sv[b]
            BY <2>1a, <2>1b DEF Renew, AddTable, Put, RemoveTableEntry
        <2>4. \A q : OutIf(q)' = OutIf(q) BY <1>4 DEF OutIf
        <2>5. ASSUME NEW b \in DOMAIN bridge_ports'
              PROVE  /\ b \in DOMAIN tables'.egress_br_port_to_if
                     /\ tables'.egress_br_port_to_if[b] = OutIf(bridge_ports'[b].port_id)
                     /\ bridge_ports'[b].type = "SUB_PORT" =>
                           /\ b \in DOMAIN tables'.egress_set_vlan
                           /\ tables'.egress_set_vlan[b] = bridge_ports'[b].vlan_id
            <3>1. CASE b = i BY <3>1, <1>4, <2>2, <2>3
            <3>2. CASE b # i
                <4>1. b \in DOMAIN bridge_ports /\ bridge_ports'[b] = bridge_ports[b]
                    BY <3>2, <1>4
                <4>2. QED BY <4>1, <3>2, <2>2, <2>3 DEF BridgePortEgress, sv
            <3>3. QED BY <3>1, <3>2
        <2>6. QED BY <2>4, <2>5 DEF BridgePortEgress
    <1>8. LaneAttributed' BY <1>2, <1>4, LaneFrame DEF Same, Fields
    <1>9. QED BY <1>1, <1>2, <1>5, <1>6, <1>7, <1>8

LEMMA RemoveBridgePortKeeps ==
    ASSUME Inv, NEW i \in Ids, RemoveBridgePort(i)
    PROVE  Inv'
    <1> USE DEF Inv
    <1>1. TypeOK' BY RemoveBridgePortTypes
    <1>2. Shape' /\ Same({"bridge_id_1d", "egress_set_vlan", "egress_br_port_to_if"})
        BY RemoveBridgePortWrites
    <1>3. /\ DOMAIN bridge_ports' = DOMAIN bridge_ports \ {i}
          /\ \A b \in DOMAIN bridge_ports \ {i} : bridge_ports'[b] = bridge_ports[b]
          /\ UNCHANGED <<ports, lags, lag_members, vlan_members, lag_list>>
          /\ \A m \in DOMAIN vlan_members : vlan_members[m].bridge_port_id # i
        BY DEF RemoveBridgePort, RemoveTableEntry
    <1>4. References' /\ Listed' BY <1>3 DEF References, Listed
    <1>5. VlanFilterExact'
        <2>1. UNCHANGED <<tables.ingress_vlan_filtering, tables.egress_vlan_filtering>>
            BY <1>2 DEF Same, Fields
        <2>2. \A m \in DOMAIN vlan_members :
                 bridge_ports'[vlan_members[m].bridge_port_id] =
                    bridge_ports[vlan_members[m].bridge_port_id]
            BY <1>3 DEF References
        <2>3. QED BY <2>1, <2>2, <1>3 DEF VlanFilterExact
    <1>6. BridgePortEgress'
        <2> DEFINE if == tables.egress_br_port_to_if
                   sv == tables.egress_set_vlan
        <2>1. /\ tables'.egress_br_port_to_if = RemoveTableEntry(if, i)
              /\ tables'.egress_set_vlan \in {sv, RemoveTableEntry(sv, i)}
            BY RemoveBridgePortWrites
        <2>2. /\ DOMAIN tables'.egress_br_port_to_if = DOMAIN if \ {i}
              /\ \A b \in DOMAIN if \ {i} : tables'.egress_br_port_to_if[b] = if[b]
            BY <2>1 DEF RemoveTableEntry
        <2>3. \A b \in DOMAIN sv \ {i} : /\ b \in DOMAIN tables'.egress_set_vlan
                                         /\ tables'.egress_set_vlan[b] = sv[b]
            BY <2>1 DEF RemoveTableEntry
        <2>4. \A q : OutIf(q)' = OutIf(q) BY <1>3 DEF OutIf
        <2>5. QED BY <2>2, <2>3, <2>4, <1>3 DEF BridgePortEgress
    <1>7. LaneAttributed' BY <1>2, <1>3, LaneFrame DEF Same, Fields
    <1>8. QED BY <1>1, <1>2, <1>4, <1>5, <1>6, <1>7

LEMMA CreateVlanMemberKeeps ==
    ASSUME Inv, NEW m \in MemberIds, NEW v \in BridgeIds, NEW b \in Ids,
           NEW tagging \in Tagging, CreateVlanMember(m, v, b, tagging)
    PROVE  Inv'
    <1> USE DEF Inv
    <1>1. TypeOK' BY CreateVlanMemberTypes
    <1>2. /\ Shape'
          /\ Same({"egress_vlan_tag", "egress_vlan_filtering", "ingress_vlan_filtering"})
        BY CreateVlanMemberWrites
    <1>3. /\ m \notin DOMAIN vlan_members /\ b \in DOMAIN bridge_ports
          /\ \A n \in DOMAIN vlan_members :
                ~ /\ vlan_members[n].bridge_port_id = b
                  /\ vlan_members[n].vid = vlans[v]
        BY NewIndexIs DEF CreateVlanMember, Members
    <1>4. /\ DOMAIN vlan_members' = DOMAIN vlan_members \cup {m}
          /\ \A n \in DOMAIN vlan_members : vlan_members'[n] = vlan_members[n]
          /\ vlan_members'[m].bridge_port_id = b /\ vlan_members'[m].vid = vlans[v]
          /\ UNCHANGED <<ports, lags, lag_members, bridge_ports, lag_list>>
        BY <1>3 DEF CreateVlanMember, Put
    <1>5. References' /\ Listed' BY <1>3, <1>4 DEF References, Listed
    <1>6. VlanFilterExact'
        <2>1. /\ tables'.egress_vlan_filtering =
                    tables.egress_vlan_filtering \cup {<<b, vlans[v]>>}
              /\ tables'.ingress_vlan_filtering =
                    tables.ingress_vlan_filtering \cup {<<b, vlans[v]>>}
            BY CreateVlanMemberWrites
        <2> DEFINE pair(n) == <<vlan_members[n].bridge_port_id, vlan_members[n].vid>>
                   pairs == {pair(n) : n \in DOMAIN vlan_members}
        <2>2. {<<vlan_members'[n].bridge_port_id, vlan_members'[n].vid>> :
                 n \in DOMAIN vlan_members'} = pairs \cup {<<b, vlans[v]>>}
            BY <1>4
        <2>3. QED BY <2>1, <2>2, <1>4 DEF VlanFilterExact, DefaultIngress, DefaultEgress
    <1>7. BridgePortEgress' BY <1>2, <1>4, EgressFrame DEF Same, Fields
    <1>8. LaneAttributed' BY <1>2, <1>4, LaneFrame DEF Same, Fields
    <1>9. QED BY <1>1, <1>2, <1>5, <1>6, <1>7, <1>8

LEMMA RemoveVlanMemberKeeps ==
    ASSUME Inv, NEW m \in MemberIds, RemoveVlanMember(m)
    PROVE  Inv'
    <1> USE DEF Inv
    <1>1. TypeOK' BY RemoveVlanMemberTypes
    <1> DEFINE pair(n) == <<vlan_members[n].bridge_port_id, vlan_members[n].vid>>
               lagged == bridge_ports[vlan_members[m].bridge_port_id].port_id \in lags
    <1>2. /\ Shape'
          /\ Same({"egress_vlan_tag", "egress_vlan_filtering", "ingress_vlan_filtering"})
          /\ tables'.egress_vlan_filtering = tables.egress_vlan_filtering \ {pair(m)}
          /\ tables'.ingress_vlan_filtering = tables.ingress_vlan_filtering \ {pair(m)}
        BY RemoveVlanMemberWrites
    <1>3. /\ m \in DOMAIN vlan_members
          /\ lagged => UNCHANGED vlan_members
          /\ ~lagged => vlan_members' = RemoveTableEntry(vlan_members, m)
          /\ UNCHANGED <<ports, lags, lag_members, bridge_ports, lag_list>>
        BY DEF RemoveVlanMember
    <1>4. /\ DOMAIN vlan_members' = IF lagged THEN DOMAIN vlan_members
                                    ELSE DOMAIN vlan_members \ {m}
          /\ \A n \in DOMAIN vlan_members' : vlan_members'[n] = vlan_members[n]
        BY <1>3 DEF RemoveTableEntry
    <1>5. References' /\ Listed' BY <1>3, <1>4 DEF References, Listed
    <1>6. VlanFilterExact'
        <2>1. \A n \in DOMAIN vlan_members : n # m => pair(n) # pair(m)
            BY <1>3 DEF References
        <2>2. ASSUME NEW n \in DOMAIN vlan_members',
                     bridge_ports'[vlan_members'[n].bridge_port_id].port_id \notin lags'
              PROVE  /\ pair(n) \in tables'.ingress_vlan_filtering
                     /\ pair(n) \in tables'.egress_vlan_filtering
            <3>1. n \in DOMAIN vlan_members /\ n # m
                BY <2>2, <1>3, <1>4
            <3>2. QED BY <3>1, <2>1, <2>2, <1>2, <1>3, <1>4 DEF VlanFilterExact
        <2>3. /\ tables'.ingress_vlan_filtering \subseteq
                    {pair(n) : n \in DOMAIN vlan_members'} \cup DefaultIngress
              /\ tables'.egress_vlan_filtering \subseteq
                    {pair(n) : n \in DOMAIN vlan_members'} \cup DefaultEgress
            BY <1>2, <1>4 DEF VlanFilterExact
        <2>4. {<<vlan_members'[n].bridge_port_id, vlan_members'[n].vid>> :
                 n \in DOMAIN vlan_members'} = {pair(n) : n \in DOMAIN vlan_members'}
            BY <1>4
        <2>5. QED BY <2>2, <2>3, <2>4, <1>4
            DEF VlanFilterExact, DefaultIngress, DefaultEgress
    <1>7. BridgePortEgress' BY <1>2, <1>3, EgressFrame DEF Same, Fields
    <1>8. LaneAttributed' BY <1>2, <1>3, LaneFrame DEF Same, Fields
    <1>9. QED BY <1>1, <1>2, <1>5, <1>6, <1>7, <1>8

-----------------------------------------------------------------------------
LEMMA InitInv == Init => Inv
    <1> SUFFICES ASSUME Init PROVE Inv OBVIOUS
    <1>1. Shape BY DEF Init, Shape, Fields
    <1>2. TypeOK
        <2>1. \A K, V : Dict(<<>>, K, V) BY DEF Dict
        <2>2. Dict([p \in HwPorts |-> <<p, 0>>], Ids \cup HwPorts,
                   (Ids \cup HwPorts) \X {0, 1})
            BY DEF Dict
        <2>3. DefaultIngress \subseteq (Ids \cup HwPorts) \X (Vids \cup {1})
            BY DEF DefaultIngress
        <2>4. DefaultEgress \subseteq (Ids \cup HwPorts) \X (Vids \cup {1})
            BY HwPortsAssumption DEF DefaultEgress
        <2>5. TablesOK BY <2>1, <2>2, <2>3, <2>4 DEF Init, TablesOK
        <2>6. QED BY <2>1, <2>5 DEF Init, TypeOK
    <1>3. References /\ Listed BY DEF Init, References, Listed
    <1>4. VlanFilterExact /\ BridgePortEgress /\ LaneAttributed
        BY DEF Init, VlanFilterExact, BridgePortEgress, LaneAttributed
    <1>5. QED BY <1>1, <1>2, <1>3, <1>4 DEF Inv

LEMMA NextInv == Inv /\ [Next]_vars => Inv'
    <1> SUFFICES ASSUME Inv, [Next]_vars PROVE Inv' OBVIOUS
    <1>1. CASE PortNext
        BY <1>1, CreatePortKeeps, RemovePortKeeps, LagKeeps, CreateLagMemberKeeps,
           RemoveLagMemberKeeps DEF PortNext
    <1>2. CASE BridgeNext
        <2>1. CASE \E b \in BridgeIds : CreateBridge(b) \/ RemoveBridge(b)
            BY <2>1, BridgeKeeps
        <2>2. CASE \E i, p \in Ids, bridge \in BridgeIds, vid \in Vids, type \in Modes :
                      CreateBridgePort(i, p, vid, type, bridge)
            BY <2>2, CreateBridgePortKeeps
        <2>3. CASE \E i \in Ids : RemoveBridgePort(i) BY <2>3, RemoveBridgePortKeeps
        <2>4. CASE \E mac \in Macs, bridge \in BridgeIds, b \in Ids :
                      CreateFdbEntry(mac, bridge, b)
            BY <2>4, FdbKeeps
        <2>5. CASE \E mac \in Macs, bridge \in BridgeIds : DeleteFdbEntry(mac, bridge)
            BY <2>5, FdbKeeps
        <2>6. QED BY <1>2, <2>1, <2>2, <2>3, <2>4, <2>5 DEF BridgeNext
    <1>3. CASE VlanNext
        <2>1. CASE \E v \in BridgeIds, vid \in Vids : CreateVlan(v, vid)
            BY <2>1, VlanKeeps
        <2>2. CASE \E v \in BridgeIds : DeleteVlan(v) BY <2>2, VlanKeeps
        <2>3. CASE \E m \in MemberIds, v \in BridgeIds, b \in Ids, tagging \in Tagging :
                      CreateVlanMember(m, v, b, tagging)
            BY <2>3, CreateVlanMemberKeeps
        <2>4. CASE \E m \in MemberIds : RemoveVlanMember(m)
            BY <2>4, RemoveVlanMemberKeeps
        <2>5. QED BY <1>3, <2>1, <2>2, <2>3, <2>4 DEF VlanNext
    <1>4. CASE UNCHANGED vars
        BY <1>4 DEF vars, Inv, TypeOK, TablesOK, Shape, References, Listed,
                    VlanFilterExact, BridgePortEgress, OutIf, LaneAttributed
    <1>5. QED BY <1>1, <1>2, <1>3, <1>4 DEF Next

(* After any sequence of calls of SaiHandler, also of ones that stop         *)
(* half-way, objects and table entries agree.                                *)
THEOREM InvCorrect == Spec => []Inv
    BY InitInv, NextInv, PTL DEF Spec

(* Whatever calls the server gets, objects and table entries have their      *)
(* types: no entry names a lane, id or VLAN that cannot exist.               *)
THEOREM TypeCorrect == Spec => []TypeOK
    <1>1. Inv => TypeOK BY DEF Inv
    <1>2. QED BY <1>1, InvCorrect, PTL
(* VLANs stay isolated: in every reachable state of a server with any number *)
(* of ports, LAGs, bridge ports and VLANs, the filter entries are those of   *)
(* the members and of the default configuration, however ids are used again  *)
(* (sai_thrift_create_vlan_member, sai_thrift_remove_vlan_member).           *)
THEOREM VlanFilterCorrect == Spec => []VlanFilterExact
    <1>1. Inv => VlanFilterExact BY DEF Inv
    <1>2. QED BY <1>1, InvCorrect, PTL

(* A bridge port sends from its own lane or LAG, and with its own VLAN: an   *)
(* entry left by the previous owner of the id, or by the default             *)
(* configuration, never survives sai_thrift_create_bridge_port.              *)
THEOREM EgressCorrect == Spec => []BridgePortEgress
    <1>1. Inv => BridgePortEgress BY DEF Inv
    <1>2. QED BY <1>1, InvCorrect, PTL

(* A lane's packets are those of the LAG it is a member of, and never those  *)
(* of a port that has another lane, although sai_thrift_remove_lag_member    *)
(* leaves table_ingress_lag as it is.                                        *)
THEOREM LaneCorrect == Spec => []LaneAttributed
    <1>1. Inv => LaneAttributed BY DEF Inv
    <1>2. QED BY <1>1, InvCorrect, PTL

(* The list that all LAGs share names each LAG member once, and every        *)
(* reference is to an object that exists: list.remove() finds the member,    *)
(* and the bind mode that sai_thrift_create_bridge_port reads of a LAG is    *)
(* that of a port.                                                           *)
THEOREM ObjectsCorrect == Spec => [](References /\ Listed)
    <1>1. Inv => References /\ Listed BY DEF Inv
    <1>2. QED BY <1>1, InvCorrect, PTL
=============================================================================
