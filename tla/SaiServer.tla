------------------------------ MODULE SaiServer ------------------------------
(***************************************************************************)
(* The SAI server, targets/P4-SAI/Sai-Tests/switch_sai_server.py: SAI      *)
(* objects, and the entries they put in the tables of the switch, which    *)
(* are all that packets see.                                               *)
(*                                                                         *)
(* The server has one thread: a call is one step.  An error of a table     *)
(* operation is only printed, so that adding an entry that exists and      *)
(* removing one that does not change nothing; an exception ends a call in  *)
(* the middle and leaves what it did.  The client refers to objects that   *)
(* exist, removes none that others refer to, gives a port lane and a       *)
(* bridge port's port and VLAN once, puts no LAG member in a bridge, and   *)
(* gives every port a bind mode.                                           *)
(***************************************************************************)
EXTENDS Integers, Sequences

CONSTANTS
    HwPorts,    \* hw_port_list
    Ids,        \* bound on the ids of ports, LAGs and bridge ports
    MemberIds,  \* bound on the ids of members of LAGs and VLANs
    BridgeIds,  \* bound on the ids of bridges and VLANs
    Vids,       \* VLAN ids
    PortVids,   \* SAI_PORT_ATTR_PORT_VLAN_ID, NoVid if not among the attributes
    BindModes,  \* SAI_PORT_ATTR_BIND_MODE
    Tagging,    \* SAI_VLAN_MEMBER_ATTR_VLAN_TAGGING_MODE
    Macs        \* addresses of FDB entries

NoVid == 0
Modes == {"PORT", "SUB_PORT"}    \* bind modes, and types of bridge ports

ASSUME IdsAssumption == Ids \cup MemberIds \cup BridgeIds \subseteq Nat
ASSUME HwPortsAssumption == HwPorts \subseteq Nat /\ 0 \in HwPorts
ASSUME VidsAssumption == Vids \subseteq Nat \ {0} /\ PortVids \subseteq Vids \cup {NoVid}
ASSUME ModesAssumption ==
    BindModes \subseteq Modes /\ Tagging \subseteq {"UNTAGGED", "TAGGED", "PRIORITY_TAGGED"}

VARIABLES
    ports, lags, lag_members, bridge_ids, bridge_ports, vlans, vlan_members,
    lag_list,   \* Lag_obj.lag_members: the default argument, one for all LAGs
    tables      \* the entries of each table

vars == <<ports, lags, lag_members, bridge_ids, bridge_ports, vlans,
          vlan_members, lag_list, tables>>

Port == [hw_port : HwPorts, pvid : Vids \cup {1}, bind_mode : Modes]
LagMember == [port_id : Ids, lag_id : Ids]
BridgePort == [port_id : Ids, vlan_id : Vids, type : Modes]
VlanMember == [bridge_port_id : Ids, vid : Vids, tagging_mode : Tagging]

(* A dictionary from some of K to V.                                         *)
Dict(d, K, V) == DOMAIN d \subseteq K /\ \A k \in DOMAIN d : d[k] \in V

(* table_..._vlan_filtering and table_egress_vlan_tag are sets of keys: what *)
(* the action does follows from the key.                                     *)
TablesOK ==
    /\ Dict(tables.ingress_lag, HwPorts, {0, 1} \X Ids)
    /\ Dict(tables.port_PVID, Ids, Vids \cup {1})
    /\ Dict(tables.port_mode, Ids, Modes)
    /\ Dict(tables.subport_ingress_interface_type, Ids \X Vids, {2, 3} \X Ids)
    /\ Dict(tables.bridge_id_1d, Ids, BridgeIds)
    /\ Dict(tables.bridge_id_1q, Vids, BridgeIds)
    /\ Dict(tables.egress_set_vlan, Ids, Vids)
    /\ Dict(tables.egress_br_port_to_if, Ids \cup HwPorts, (Ids \cup HwPorts) \X {0, 1})
    /\ Dict(tables.lag_hash, Ids, Nat)
    /\ Dict(tables.egress_lag, Ids \X MemberIds, HwPorts)
    /\ Dict(tables.fdb, Macs \X BridgeIds, Ids)
    /\ tables.ingress_vlan_filtering \subseteq (Ids \cup HwPorts) \X (Vids \cup {1})
    /\ tables.egress_vlan_filtering \subseteq (Ids \cup HwPorts) \X (Vids \cup {1})
    /\ tables.egress_vlan_tag \subseteq (Ids \cup HwPorts) \X Vids \X {0, 1}

TypeOK ==
    /\ Dict(ports, Ids, Port)
    /\ lags \subseteq Ids
    /\ Dict(lag_members, MemberIds, LagMember)
    /\ bridge_ids \subseteq BridgeIds
    /\ Dict(bridge_ports, Ids, BridgePort)
    /\ Dict(vlans, BridgeIds, Vids)
    /\ Dict(vlan_members, MemberIds, VlanMember)
    /\ lag_list \in Seq(MemberIds)
    /\ TablesOK

(* The filter entries of p4src/DefaultConfig.txt.                            *)
DefaultIngress == {<<p, 1>> : p \in HwPorts}
DefaultEgress == {<<0, 1>>}

(* No objects, and the switch as p4src/DefaultConfig.txt leaves it.          *)
Init ==
    /\ ports = <<>> /\ lags = {} /\ lag_members = <<>> /\ bridge_ids = {}
    /\ bridge_ports = <<>> /\ vlans = <<>> /\ vlan_members = <<>>
    /\ lag_list = <<>>
    /\ tables = [ingress_lag |-> <<>>, port_PVID |-> <<>>, port_mode |-> <<>>,
                 subport_ingress_interface_type |-> <<>>,
                 bridge_id_1d |-> <<>>, bridge_id_1q |-> <<>>,
                 egress_set_vlan |-> <<>>, lag_hash |-> <<>>,
                 egress_lag |-> <<>>, fdb |-> <<>>, egress_vlan_tag |-> {},
                 egress_br_port_to_if |-> [p \in HwPorts |-> <<p, 0>>],
                 ingress_vlan_filtering |-> DefaultIngress,
                 egress_vlan_filtering |-> DefaultEgress]

-----------------------------------------------------------------------------
Put(d, k, v) == [i \in DOMAIN d \cup {k} |-> IF i = k THEN v ELSE d[i]]

(* AddTable() and RemoveTableEntry(), and the second followed by the first.  *)
AddTable(t, k, v) == IF k \in DOMAIN t THEN t ELSE Put(t, k, v)
RemoveTableEntry(t, k) == [i \in DOMAIN t \ {k} |-> t[i]]
Renew(t, k, v) == AddTable(RemoveTableEntry(t, k), k, v)

(* GetNewIndex(): the least index not in a list.                             *)
NewIndex(used, i) == i \notin used /\ \A j \in 0 .. i - 1 : j \in used

(* CreateNewItem() for ports and LAGs, each forbidden the ids of the other,  *)
(* after a form without forbidden_list.                                      *)
NewInOneList(i) == NewIndex(DOMAIN ports, i) \/ NewIndex(lags, i)
NewPortOrLag(i) == NewIndex(DOMAIN ports \cup lags, i)

-----------------------------------------------------------------------------
InBridge(p) == \E b \in DOMAIN bridge_ports : bridge_ports[b].port_id = p
InLag(p) == \E m \in DOMAIN lag_members : lag_members[m].port_id = p

CreatePort(p, hw, vid, mode) ==
    /\ \A q \in DOMAIN ports : ports[q].hw_port # hw
    /\ NewPortOrLag(p)
    /\ ports' = Put(ports, p, [hw_port |-> hw, bind_mode |-> mode,
                               pvid |-> IF vid = NoVid THEN 1 ELSE vid])
    /\ tables' = [tables EXCEPT
                    !.port_PVID = IF vid = NoVid THEN @ ELSE AddTable(@, p, vid),
                    !.port_mode = AddTable(@, p, mode),
                    !.ingress_lag = AddTable(@, hw, <<0, p>>)]
    /\ UNCHANGED <<lags, lag_members, bridge_ids, bridge_ports, vlans,
                   vlan_members, lag_list>>

(* The entry of table_port_mode stays.                                       *)
RemovePort(p) ==
    /\ p \in DOMAIN ports /\ ~InBridge(p) /\ ~InLag(p)
    /\ ports' = RemoveTableEntry(ports, p)
    /\ tables' = [tables EXCEPT
                    !.ingress_lag = RemoveTableEntry(@, ports[p].hw_port),
                    !.port_PVID = RemoveTableEntry(@, p)]
    /\ UNCHANGED <<lags, lag_members, bridge_ids, bridge_ports, vlans,
                   vlan_members, lag_list>>

CreateLag(l) ==
    /\ NewPortOrLag(l)
    /\ lags' = lags \cup {l}
    /\ UNCHANGED <<ports, lag_members, bridge_ids, bridge_ports, vlans,
                   vlan_members, lag_list, tables>>

(* The entries its members have left stay.                                   *)
RemoveLag(l) ==
    /\ l \in lags /\ ~InBridge(l)
    /\ \A m \in DOMAIN lag_members : lag_members[m].lag_id # l
    /\ lags' = lags \ {l}
    /\ UNCHANGED <<ports, lag_members, bridge_ids, bridge_ports, vlans,
                   vlan_members, lag_list, tables>>

(* table_ingress_lag, whose entry for the lane is replaced; and a form that  *)
(* only tries to add one.                                                    *)
AddLaneToLag(t, hw, l) == AddTable(t, hw, <<1, l>>)
LaneToLag(t, hw, l) == Renew(t, hw, <<1, l>>)

CreateLagMember(m, p, l) ==
    LET hw == ports[p].hw_port IN
    /\ p \in DOMAIN ports /\ l \in lags /\ ~InBridge(p) /\ ~InLag(p)
    /\ NewIndex(DOMAIN lag_members, m)
    /\ lag_members' = Put(lag_members, m, [port_id |-> p, lag_id |-> l])
    /\ lag_list' = Append(lag_list, m)
    /\ tables' = [tables EXCEPT
                    !.ingress_lag = LaneToLag(@, hw, l),
                    !.lag_hash = Renew(@, l, Len(lag_list')),
                    !.egress_lag = AddTable(@, <<l, m>>, hw),
                    !.port_PVID = Renew(@, l, ports[p].pvid),
                    !.port_mode = Renew(@, l, ports[p].bind_mode)]
    /\ UNCHANGED <<ports, lags, bridge_ids, bridge_ports, vlans, vlan_members>>

(* list.remove(): the first m goes.                                          *)
Removed(list, m, rest) ==
    \E k \in DOMAIN list :
       /\ list[k] = m /\ \A j \in 1 .. k - 1 : list[j] # m
       /\ rest = SubSeq(list, 1, k - 1) \o SubSeq(list, k + 1, Len(list))

(* No table is touched.                                                      *)
RemoveLagMember(m) ==
    /\ m \in DOMAIN lag_members
    /\ lag_members' = RemoveTableEntry(lag_members, m)
    /\ Removed(lag_list, m, lag_list')
    /\ UNCHANGED <<ports, lags, bridge_ids, bridge_ports, vlans, vlan_members,
                   tables>>

-----------------------------------------------------------------------------
CreateBridge(b) ==
    /\ NewIndex(bridge_ids, b)
    /\ bridge_ids' = bridge_ids \cup {b}
    /\ UNCHANGED <<ports, lags, lag_members, bridge_ports, vlans, vlan_members,
                   lag_list, tables>>

RemoveBridge(b) ==
    /\ b \in bridge_ids /\ \A k \in DOMAIN tables.fdb : k[2] # b
    /\ bridge_ids' = bridge_ids \ {b}
    /\ UNCHANGED <<ports, lags, lag_members, bridge_ports, vlans, vlan_members,
                   lag_list, tables>>

(* The interface a port or a LAG is for egress.                              *)
OutIf(p) == IF p \in lags THEN <<p, 1>> ELSE <<ports[p].hw_port, 0>>

(* table_egress_br_port_to_if, whose entry is replaced; and a form that only *)
(* tries to add one.                                                         *)
AddEgressIf(t, i, p) == AddTable(t, i, OutIf(p))
SetEgressIf(t, i, p) == Renew(t, i, OutIf(p))

(* l2_if_type, and one with the wrong constants (L2_ROUTER_TYPE is 1).       *)
RouterType(type) == IF type = "SUB_PORT" THEN 1 ELSE 2
L2IfType(type) == IF type = "SUB_PORT" THEN 2 ELSE 3

(* The bind mode of a LAG is that of the first member in the list.           *)
BindMode(p) ==
    IF p \in lags THEN ports[lag_members[lag_list[1]].port_id].bind_mode
    ELSE ports[p].bind_mode

(* The tables of the bridge ids: for a .1Q port, the entry that is removed   *)
(* is that of the VLAN whose number is the bridge port's.                    *)
WithBridgeId(i, vid, type, bridge) ==
    IF type = "SUB_PORT"
    THEN [tables EXCEPT !.bridge_id_1d = Renew(@, i, bridge),
                        !.egress_set_vlan = Renew(@, i, vid)]
    ELSE [tables EXCEPT
            !.bridge_id_1q = AddTable(RemoveTableEntry(@, i), vid, bridge)]

(* A LAG while no LAG has members ends the call with an IndexError before    *)
(* the last table.  Outside SUB_PORT mode the entry for that table lacks a   *)
(* parameter and is refused.                                                 *)
CreateBridgePort(i, p, vid, type, bridge) ==
    LET t == [WithBridgeId(i, vid, type, bridge) EXCEPT
                !.egress_br_port_to_if = SetEgressIf(@, i, p)]
        raises == p \in lags /\ lag_list = <<>>
    IN  /\ p \in DOMAIN ports \cup lags /\ ~InLag(p) /\ bridge \in bridge_ids
        /\ \A b \in DOMAIN bridge_ports :
              bridge_ports[b].port_id = p => bridge_ports[b].vlan_id # vid
        /\ NewIndex(DOMAIN bridge_ports, i)
        /\ bridge_ports' = Put(bridge_ports, i,
                               [port_id |-> p, vlan_id |-> vid, type |-> type])
        /\ tables' = IF raises \/ BindMode(p) # "SUB_PORT" THEN t
                     ELSE [t EXCEPT !.subport_ingress_interface_type =
                             AddTable(@, <<p, vid>>, <<L2IfType(type), i>>)]
        /\ UNCHANGED <<ports, lags, lag_members, bridge_ids, vlans,
                       vlan_members, lag_list>>

(* The entry of a .1Q port is looked for in the table of the .1D ports, that *)
(* of the interface in a table that is not there.                            *)
RemoveBridgePort(i) ==
    LET b == bridge_ports[i] IN
    /\ i \in DOMAIN bridge_ports
    /\ \A m \in DOMAIN vlan_members : vlan_members[m].bridge_port_id # i
    /\ \A k \in DOMAIN tables.fdb : tables.fdb[k] # i
    /\ bridge_ports' = RemoveTableEntry(bridge_ports, i)
    /\ tables' = [tables EXCEPT
          !.bridge_id_1d =
              RemoveTableEntry(@, IF b.type = "SUB_PORT" THEN i ELSE b.vlan_id),
          !.egress_set_vlan =
              IF b.type = "SUB_PORT" THEN RemoveTableEntry(@, i) ELSE @,
          !.egress_br_port_to_if = RemoveTableEntry(@, i)]
    /\ UNCHANGED <<ports, lags, lag_members, bridge_ids, vlans, vlan_members,
                   lag_list>>

-----------------------------------------------------------------------------
(* The test for an id that is in use raises as soon as there is any VLAN.    *)
CreateVlan(v, vid) ==
    /\ DOMAIN vlans = {}
    /\ NewIndex(DOMAIN vlans, v)
    /\ vlans' = Put(vlans, v, vid)
    /\ UNCHANGED <<ports, lags, lag_members, bridge_ids, bridge_ports,
                   vlan_members, lag_list, tables>>

Members(vid) == {m \in DOMAIN vlan_members : vlan_members[m].vid = vid}

DeleteVlan(v) ==
    /\ v \in DOMAIN vlans /\ Members(vlans[v]) = {}
    /\ vlans' = RemoveTableEntry(vlans, v)
    /\ UNCHANGED <<ports, lags, lag_members, bridge_ids, bridge_ports,
                   vlan_members, lag_list, tables>>

(* The key of table_egress_vlan_tag; both tagged modes have the same.        *)
TagKey(b, vid, tagging) ==
    <<OutIf(bridge_ports[b].port_id)[1], vid, IF tagging = "UNTAGGED" THEN 1 ELSE 0>>

CreateVlanMember(m, v, b, tagging) ==
    LET vid == vlans[v] IN
    /\ v \in DOMAIN vlans /\ b \in DOMAIN bridge_ports
    /\ \A n \in Members(vid) : vlan_members[n].bridge_port_id # b
    /\ NewIndex(DOMAIN vlan_members, m)
    /\ vlan_members' = Put(vlan_members, m, [bridge_port_id |-> b, vid |-> vid,
                                             tagging_mode |-> tagging])
    /\ tables' = [tables EXCEPT
                    !.egress_vlan_tag = @ \cup {TagKey(b, vid, tagging)},
                    !.egress_vlan_filtering = @ \cup {<<b, vid>>},
                    !.ingress_vlan_filtering = @ \cup {<<b, vid>>}]
    /\ UNCHANGED <<ports, lags, lag_members, bridge_ids, bridge_ports, vlans,
                   lag_list>>

(* The tables without the filter entries of a member; the first form leaves  *)
(* the one for egress.                                                       *)
IngressUnfiltered(b, vid) ==
    [tables EXCEPT !.ingress_vlan_filtering = @ \ {<<b, vid>>}]
Unfiltered(b, vid) ==
    [tables EXCEPT !.ingress_vlan_filtering = @ \ {<<b, vid>>},
                   !.egress_vlan_filtering = @ \ {<<b, vid>>}]

(* For a member that is a LAG the call ends with a KeyError, the filter      *)
(* entries removed and the member kept.                                      *)
RemoveVlanMember(m) ==
    LET n == vlan_members[m]
        b == n.bridge_port_id
    IN  /\ m \in DOMAIN vlan_members
        /\ \/ /\ bridge_ports[b].port_id \in lags
              /\ tables' = Unfiltered(b, n.vid)
              /\ UNCHANGED vlan_members
           \/ /\ bridge_ports[b].port_id \notin lags
              /\ tables' = [Unfiltered(b, n.vid) EXCEPT
                              !.egress_vlan_tag =
                                  @ \ {TagKey(b, n.vid, n.tagging_mode)}]
              /\ vlan_members' = RemoveTableEntry(vlan_members, m)
        /\ UNCHANGED <<ports, lags, lag_members, bridge_ids, bridge_ports,
                       vlans, lag_list>>

(* A static entry that forwards; other kinds add nothing.                    *)
CreateFdbEntry(mac, bridge, b) ==
    /\ bridge \in bridge_ids /\ b \in DOMAIN bridge_ports
    /\ tables' = [tables EXCEPT !.fdb = AddTable(@, <<mac, bridge>>, b)]
    /\ UNCHANGED <<ports, lags, lag_members, bridge_ids, bridge_ports, vlans,
                   vlan_members, lag_list>>

DeleteFdbEntry(mac, bridge) ==
    /\ <<mac, bridge>> \in DOMAIN tables.fdb
    /\ tables' = [tables EXCEPT !.fdb = RemoveTableEntry(@, <<mac, bridge>>)]
    /\ UNCHANGED <<ports, lags, lag_members, bridge_ids, bridge_ports, vlans,
                   vlan_members, lag_list>>

PortNext ==
    \/ \E i \in Ids :
          \/ \E hw \in HwPorts, vid \in PortVids, mode \in BindModes :
                CreatePort(i, hw, vid, mode)
          \/ RemovePort(i)
          \/ CreateLag(i) \/ RemoveLag(i)
    \/ \E m \in MemberIds :
          \/ \E p, l \in Ids : CreateLagMember(m, p, l)
          \/ RemoveLagMember(m)

BridgeNext ==
    \/ \E b \in BridgeIds : CreateBridge(b) \/ RemoveBridge(b)
    \/ \E i \in Ids :
          \/ \E p \in Ids, bridge \in BridgeIds, vid \in Vids, type \in Modes :
                CreateBridgePort(i, p, vid, type, bridge)
          \/ RemoveBridgePort(i)
    \/ \E mac \in Macs, bridge \in BridgeIds :
          \/ \E b \in Ids : CreateFdbEntry(mac, bridge, b)
          \/ DeleteFdbEntry(mac, bridge)

VlanNext ==
    \/ \E v \in BridgeIds : \/ \E vid \in Vids : CreateVlan(v, vid)
                            \/ DeleteVlan(v)
    \/ \E m \in MemberIds :
          \/ \E v \in BridgeIds, b \in Ids, tagging \in Tagging :
                CreateVlanMember(m, v, b, tagging)
          \/ RemoveVlanMember(m)

Next == PortNext \/ BridgeNext \/ VlanNext

Spec == Init /\ [][Next]_vars

-----------------------------------------------------------------------------
(* A VLAN member's bridge port passes the filters of its VLAN in both        *)
(* directions, unless it is a LAG (whose removal stops half-way), and no     *)
(* other bridge port passes, however ids are used again: VLANs are isolated. *)
VlanFilterExact ==
    LET pair(m) == <<vlan_members[m].bridge_port_id, vlan_members[m].vid>>
        pairs == {pair(m) : m \in DOMAIN vlan_members}
    IN  /\ \A m \in DOMAIN vlan_members :
              bridge_ports[vlan_members[m].bridge_port_id].port_id \notin lags =>
                 /\ pair(m) \in tables.ingress_vlan_filtering
                 /\ pair(m) \in tables.egress_vlan_filtering
        /\ tables.ingress_vlan_filtering \subseteq pairs \cup DefaultIngress
        /\ tables.egress_vlan_filtering \subseteq pairs \cup DefaultEgress

(* Packets for a bridge port leave from the lane or the LAG of its port, and *)
(* with its VLAN if it is a .1D port, also when its id had another owner or  *)
(* an entry of the default configuration.                                    *)
BridgePortEgress ==
    \A i \in DOMAIN bridge_ports :
       LET b == bridge_ports[i] IN
       /\ i \in DOMAIN tables.egress_br_port_to_if
       /\ tables.egress_br_port_to_if[i] = OutIf(b.port_id)
       /\ b.type = "SUB_PORT" => /\ i \in DOMAIN tables.egress_set_vlan
                                 /\ tables.egress_set_vlan[i] = b.vlan_id

(* Packets from the lane of a LAG member are those of its LAG, packets from  *)
(* another lane are never those of a port with another lane, and ports and   *)
(* LAGs, which share the tables, share no id.                                *)
LaneAttributed ==
    /\ DOMAIN ports \cap lags = {}
    /\ \A m \in DOMAIN lag_members :
          LET hw == ports[lag_members[m].port_id].hw_port IN
          /\ hw \in DOMAIN tables.ingress_lag
          /\ tables.ingress_lag[hw] = <<1, lag_members[m].lag_id>>
    /\ \A hw \in DOMAIN tables.ingress_lag :
          tables.ingress_lag[hw][1] = 0 =>
             /\ tables.ingress_lag[hw][2] \in DOMAIN ports
             /\ ports[tables.ingress_lag[hw][2]].hw_port = hw
=============================================================================
