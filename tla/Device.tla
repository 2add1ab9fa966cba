------------------------------ MODULE Device ------------------------------
(***************************************************************************)
(* One htsim Device with its ports, its matcher, its connection endpoints *)
(* and its counters (src/htsim/network.cc).                                *)
(*                                                                         *)
(* The matcher is the Matcher module's state and operators; a device step *)
(* that consults or updates it does so in the same step, as the code does *)
(* within one call.  Everything the device hands to a collaborator is     *)
(* recorded in a history: packets handed to an output port's handler      *)
(* (`sent`), packets handed to a connection endpoint (`delivered`),       *)
(* packets shown to an observer (`observed`) and SSCP replies handed to   *)
(* the replies handler (`replies`).  A failed CHECK or LOG(FATAL) aborts  *)
(* the simulation: `fatal` records why and no step follows.              *)
(*                                                                         *)
(* Port numbers are integers; the largest, Wild, is both the wildcard     *)
(* sentinel of the matcher and the loopback port (kLoopbackPortNum =      *)
(* DevicePortNumber::Max()).  A five-tuple is a record; the matcher sees   *)
(* its first TupleLen fields in tree-level order (MatchTuple).  Byte      *)
(* counts are left out: a data packet has size 1, an SSCP message size 0. *)
(***************************************************************************)
EXTENDS Matcher, Functions

CONSTANTS
  DeviceIP,          \* ip_address_
  IPs,               \* the addresses packets carry (DeviceIP among them)
  UDP, TCP, OtherProto,
  L4Ports,           \* access-layer ports packets carry
  MaxL4Port,         \* std::numeric_limits<uint16_t>::max()
  Flows,             \* five-tuples of data packets arriving from the network
  Messages,          \* SSCP messages arriving for this device
  Handlers,          \* the outgoing handlers (queues) ports may be connected to
  Observers,         \* the PacketObservers that may be added
  HasRepliesHandler, \* replies_handler_ != nullptr
  DieOnFailToMatch,  \* die_on_fail_to_match_
  MaxTTL,            \* largest TTL an arriving packet carries
  NoMsg,             \* what a data packet carries instead of an SSCP message
  MaxPackets         \* bound: packets_seen

NoTxId == 0                \* SSCPMessage::kNoTxId
NoHandler == "null"
NoObserver == "null"
NoFatal == "none"
Loopback == Wild           \* kLoopbackPortNum

PortNumbers == Ports \cup {Loopback}
FiveTuples == [src : IPs, dst : IPs, proto : {UDP, TCP, OtherProto},
               sport : L4Ports \cup {MaxL4Port}, dport : L4Ports \cup {MaxL4Port}]

\* FiveTuple::Reverse().
Reverse5(ft) == [src |-> ft.dst, dst |-> ft.src, proto |-> ft.proto,
                 sport |-> ft.dport, dport |-> ft.sport]

\* The fields the matcher's tree reads, in level order after port and tag.
FieldOrder == <<"dst", "src", "proto", "sport", "dport">>
MatchTuple(ft) == [i \in 1..TupleLen |-> ft[FieldOrder[i]]]

Packet == [ft : FiveTuples, size : {0, 1}, tag : Tags, ttl : 0..MaxTTL,
           pref_drop : BOOLEAN, msg : Messages \cup {NoMsg}]

EndpointKinds == {"udp_sink", "tcp_sink", "udp_source", "tcp_source"}

VARIABLES
  ports,        \* port_number_to_port_: number -> [handler, internal]
  connections,  \* connections_: five-tuple -> endpoint kind
  dstats,       \* stats_: the packet counters
  ie_observer,  \* internal_external_observer_
  ei_observer,  \* external_internal_observer_
  retx,         \* TCP sources registered with the network's retransmit timer
  sent,         \* history: [port, handler, pkt] handed to SendPacketOut
  delivered,    \* history: [conn, pkt] handed to an endpoint
  observed,     \* history: [observer, pkt] passed to ObservePacket
  replies,      \* history: replies handed to replies_handler_
  fatal         \* why the simulation aborted, NoFatal while it runs

dvars == <<ports, connections, dstats, ie_observer, ei_observer, retx,
           sent, delivered, observed, replies, fatal>>
allvars == <<vars, dvars>>

-----------------------------------------------------------------------------
(* Ports                                                                   *)

NewPort == [handler |-> NoHandler, internal |-> FALSE]

\* DeviceInterface::FindOrCreatePort: an existing port is kept as it is.
FindOrCreatePort(ps, n) == IF n \in DOMAIN ps THEN ps ELSE ps @@ (n :> NewPort)

\* Mutant: Connect overwrites whatever handler is set.
ConnectFailsNever(ps, n, h) == FALSE

\* Port::Connect: a no-op for the handler already set, a CHECK failure if
\* another one is set.
ConnectFails(ps, n, h) == ps[n].handler \notin {h, NoHandler}

\* Port::SendPacketOut dereferences out_handler_ unchecked.
SendFails(ps, n) == ps[n].handler = NoHandler

\* The device's side of Network::AddLink(queue, pipe, ...) as the link's
\* source: the port is found or created, marked, and connected to the queue.
AddLinkSrc(n, h, internal) ==
  LET ps == FindOrCreatePort(ports, n)
  IN /\ fatal = NoFatal
     /\ ports' = [ps EXCEPT ![n].internal = internal,
                            ![n].handler = IF ConnectFails(ps, n, h) THEN @ ELSE h]
     /\ fatal' = IF ConnectFails(ps, n, h) THEN "connect_twice" ELSE NoFatal
     /\ UNCHANGED <<vars, connections, dstats, ie_observer, ei_observer, retx,
                    sent, delivered, observed, replies>>

\* The device's side of Network::AddLink as the link's destination: the
\* pipe delivers into the port, whose own out_handler_ is left as it is.
AddLinkDst(n, internal) ==
  /\ fatal = NoFatal
  /\ ports' = [FindOrCreatePort(ports, n) EXCEPT ![n].internal = internal]
  /\ UNCHANGED <<vars, connections, dstats, ie_observer, ei_observer, retx,
                 sent, delivered, observed, replies, fatal>>

\* Port::Reconnect: CHECKs that the port is connected, then replaces.
Reconnect(n, h) ==
  /\ fatal = NoFatal
  /\ n \in DOMAIN ports
  /\ IF ports[n].handler = NoHandler
     THEN fatal' = "reconnect_unconnected" /\ UNCHANGED ports
     ELSE ports' = [ports EXCEPT ![n].handler = h] /\ UNCHANGED fatal
  /\ UNCHANGED <<vars, connections, dstats, ie_observer, ei_observer, retx,
                 sent, delivered, observed, replies>>

\* DeviceInterface::NextAvailablePort: the least unused number below Max.
NextAvailablePort ==
  LET free == Ports \ DOMAIN ports
  IN /\ fatal = NoFatal
     /\ IF free = {} THEN fatal' = "out_of_port_numbers" /\ UNCHANGED ports
        ELSE ports' = ports @@ ((CHOOSE n \in free : \A m \in free : n <= m) :> NewPort)
             /\ UNCHANGED fatal
     /\ UNCHANGED <<vars, connections, dstats, ie_observer, ei_observer, retx,
                    sent, delivered, observed, replies>>

\* AddInternalExternalObserver / AddExternalInternalObserver: a second,
\* different observer fails the CHECK.
AddObserver(o, ie) ==
  LET cur == IF ie THEN ie_observer ELSE ei_observer
  IN /\ fatal = NoFatal
     /\ IF cur \notin {NoObserver, o}
        THEN fatal' = "second_observer" /\ UNCHANGED <<ie_observer, ei_observer>>
        ELSE /\ fatal' = NoFatal
             /\ ie_observer' = IF ie THEN o ELSE ie_observer
             /\ ei_observer' = IF ie THEN ei_observer ELSE o
     /\ UNCHANGED <<vars, ports, connections, dstats, retx, sent, delivered,
                    observed, replies>>

-----------------------------------------------------------------------------
(* Endpoints                                                               *)

\* PickSrcPortOrDie: the first source port 1, 2, ... below the uint16
\* maximum whose tuple has no endpoint; 0 when every one is taken.
PickSrcPort(dst, dport, proto) ==
  LET Tup(i) == [src |-> DeviceIP, dst |-> dst, proto |-> proto,
                 sport |-> i, dport |-> dport]
      free == { i \in 1..(MaxL4Port - 1) : Tup(i) \notin DOMAIN connections }
  IN IF free = {} THEN 0 ELSE CHOOSE i \in free : \A j \in free : i <= j

\* Mutant: the TCP source is registered with the tuple PrepareTuple built
\* before PickSrcPortOrDie filled in the source port.
AddGeneratorRegisterUnpicked(dst, dport, tcp) ==
  LET proto == IF tcp THEN TCP ELSE UDP
      i == PickSrcPort(dst, dport, proto)
      tup == [src |-> DeviceIP, dst |-> dst, proto |-> proto, sport |-> i, dport |-> dport]
      unpicked == [tup EXCEPT !.sport = MaxL4Port]
  IN /\ fatal = NoFatal
     /\ IF i = 0
        THEN fatal' = "out_of_src_ports" /\ UNCHANGED <<ports, connections, retx>>
        ELSE /\ fatal' = NoFatal
             /\ ports' = FindOrCreatePort(ports, Loopback)
             /\ connections' = connections @@
                                 (tup :> IF tcp THEN "tcp_source" ELSE "udp_source")
             /\ retx' = IF tcp THEN retx \cup {unpicked} ELSE retx
     /\ UNCHANGED <<vars, dstats, ie_observer, ei_observer, sent, delivered,
                    observed, replies>>

\* AddUDPGenerator / AddTCPGenerator: PrepareTuple, the loopback port
\* (GetLoopbackPort), a source endpoint keyed by the tuple, and for TCP
\* the registration with the retransmit timer.
AddGenerator(dst, dport, tcp) ==
  LET proto == IF tcp THEN TCP ELSE UDP
      i == PickSrcPort(dst, dport, proto)
      tup == [src |-> DeviceIP, dst |-> dst, proto |-> proto, sport |-> i, dport |-> dport]
  IN /\ fatal = NoFatal
     /\ IF i = 0
        THEN fatal' = "out_of_src_ports" /\ UNCHANGED <<ports, connections, retx>>
        ELSE /\ fatal' = NoFatal
             /\ ports' = FindOrCreatePort(ports, Loopback)
             /\ connections' = connections @@
                                 (tup :> IF tcp THEN "tcp_source" ELSE "udp_source")
             /\ retx' = IF tcp THEN retx \cup {tup} ELSE retx
     /\ UNCHANGED <<vars, dstats, ie_observer, ei_observer, sent, delivered,
                    observed, replies>>

-----------------------------------------------------------------------------
(* Packet handling                                                         *)

\* Matcher::PopulateSSCPStats: the per-action counters of every owned rule.
StatsSnapshot ==
  [k \in { k \in Keys : all_rules[k] # NoRule } |-> rules[all_rules[k]].pkts]

\* Device::HandlePacket for an SSCP message (size 0): an add-or-update is
\* applied to the matcher and acknowledged when it carries a transaction
\* id and there is a replies handler; a stats request is answered from the
\* matcher, a CHECK failure without a replies handler; other types are
\* ignored.  st is stats_ as ingress left it.
HandleSSCP(m, st) ==
  \/ /\ m.type = "add"
     /\ AddRule(m.key, m.acts)
     /\ dstats' = [st EXCEPT !.route_updates_seen = @ + 1]
     /\ replies' = IF m.tx # NoTxId /\ HasRepliesHandler
                   THEN Append(replies, [type |-> "ack", to |-> m.from, tx |-> m.tx])
                   ELSE replies
     /\ UNCHANGED <<fatal, connections, delivered>>
  \/ /\ m.type = "stats"
     /\ dstats' = st
     /\ IF HasRepliesHandler
        THEN replies' = Append(replies, [type |-> "stats", to |-> m.from,
                                         stats |-> StatsSnapshot])
             /\ UNCHANGED fatal
        ELSE fatal' = "stats_request_without_replies_handler" /\ UNCHANGED replies
     /\ UNCHANGED <<vars, connections, delivered>>
  \/ /\ m.type \notin {"add", "stats"}
     /\ dstats' = st
     /\ UNCHANGED <<vars, fatal, replies, connections, delivered>>

\* The key of a locally delivered packet's endpoint: outgoing_tuple.
FlowKey(pkt) == Reverse5(pkt.ft)

\* Device::HandlePacket for a data packet: the endpoint keyed by the
\* reversed five-tuple gets it; without one, a UDP or TCP sink is created
\* for it (on the loopback port) first; any other protocol is fatal.
HandleData(pkt, st) ==
  LET out == FlowKey(pkt)
      kind == IF pkt.ft.proto = UDP THEN "udp_sink" ELSE "tcp_sink"
  IN /\ dstats' = st
     /\ \/ /\ out \in DOMAIN connections
           /\ delivered' = Append(delivered, [conn |-> out, pkt |-> pkt])
           /\ UNCHANGED <<fatal, ports, connections>>
        \/ /\ out \notin DOMAIN connections
           /\ pkt.ft.proto \in {UDP, TCP}
           /\ ports' = FindOrCreatePort(ports, Loopback)
           /\ connections' = connections @@ (out :> kind)
           /\ delivered' = Append(delivered, [conn |-> out, pkt |-> pkt])
           /\ UNCHANGED fatal
        \/ /\ out \notin DOMAIN connections
           /\ pkt.ft.proto \notin {UDP, TCP}
           /\ fatal' = "unknown_proto"
           /\ UNCHANGED <<ports, connections, delivered>>
     /\ UNCHANGED <<vars, replies>>

\* Device::HandlePacketWithAction: tag rewrite, preferential-drop mark, TTL
\* decrement (fatal when it reaches zero), the output port (CHECKed to
\* exist), the observer for a boundary crossing, then SendPacketOut.
HandlePacketWithAction(in, pkt, act) ==
  LET p == [pkt EXCEPT !.tag = IF act.tag # NullTag THEN act.tag ELSE @,
                       !.pref_drop = @ \/ act.pref_drop,
                       !.ttl = @ - 1]
      outp == act.out
      crossing == IF outp \notin DOMAIN ports THEN NoObserver
                  ELSE IF ports[in].internal /\ ~ports[outp].internal THEN ie_observer
                  ELSE IF ~ports[in].internal /\ ports[outp].internal THEN ei_observer
                  ELSE NoObserver
  IN CASE p.ttl = 0 -> fatal' = "ttl_exceeded" /\ UNCHANGED <<observed, sent>>
       [] outp \notin DOMAIN ports -> fatal' = "unknown_output_port"
                                      /\ UNCHANGED <<observed, sent>>
       [] OTHER ->
            /\ observed' = IF crossing = NoObserver THEN observed
                           ELSE Append(observed, [observer |-> crossing, pkt |-> p])
            /\ IF SendFails(ports, outp)
               THEN fatal' = "null_out_handler" /\ UNCHANGED sent
               ELSE /\ sent' = Append(sent, [port |-> outp, handler |-> ports[outp].handler,
                                             pkt |-> p])
                    /\ UNCHANGED fatal

\* Mutant: a miss is dropped without being counted.
MissStatsDropped(st) == st

\* The counters a dropped, unmatched packet updates.
MissStats(st) == [st EXCEPT !.packets_failed_to_match = @ + 1]

\* Device::HandlePacketFromPort: count the packet; deliver it locally when
\* it is addressed to the device; otherwise ask the matcher (which CHECKs
\* that the input port is not the wildcard number), count and drop a miss
\* (fatal with die_on_fail_to_match_), and forward a hit.
HandlePacketFromPort(in, pkt) ==
  LET st == [dstats EXCEPT !.packets_seen = @ + 1]
      local == [st EXCEPT !.packets_for_localhost = @ + 1]
      hit == Lookup(in, pkt.tag, MatchTuple(pkt.ft))
  IN /\ fatal = NoFatal
     /\ dstats.packets_seen < MaxPackets
     /\ \/ /\ pkt.ft.dst = DeviceIP
           /\ IF pkt.size = 0 THEN HandleSSCP(pkt.msg, local) /\ UNCHANGED ports
              ELSE HandleData(pkt, local)
           /\ UNCHANGED <<ie_observer, ei_observer, retx, sent, observed>>
        \/ /\ pkt.ft.dst # DeviceIP
           /\ in = Wild
           /\ dstats' = st
           /\ fatal' = "wild_input_port"
           /\ UNCHANGED <<vars, ports, connections, ie_observer, ei_observer, retx,
                          sent, delivered, observed, replies>>
        \/ /\ pkt.ft.dst # DeviceIP
           /\ in # Wild
           /\ hit.action = NoRule
           /\ dstats' = MissStats(st)
           /\ fatal' = IF DieOnFailToMatch THEN "failed_to_match" ELSE NoFatal
           /\ UNCHANGED <<vars, ports, connections, ie_observer, ei_observer, retx,
                          sent, delivered, observed, replies>>
        \/ /\ pkt.ft.dst # DeviceIP
           /\ in # Wild
           /\ hit.action # NoRule
           /\ rules[hit.rule].pkts[hit.action] < MaxMatched
           /\ rules' = UpdateStats(rules, hit.rule, hit.action)
           /\ dstats' = st
           /\ HandlePacketWithAction(in, pkt, rules[hit.rule].actions[hit.action])
           /\ UNCHANGED <<all_rules, tree, next_rule, ports, connections, ie_observer,
                          ei_observer, retx, delivered, replies>>

\* A packet arriving from a pipe at a port of the device: a data packet of
\* one of the Flows, or an SSCP message addressed to the device.
DataPackets ==
  [ft : Flows, size : {1}, tag : Tags, ttl : 1..MaxTTL, pref_drop : {FALSE},
   msg : {NoMsg}]
SSCPPacket(m) ==
  [ft |-> [src |-> m.from, dst |-> DeviceIP, proto |-> OtherProto,
           sport |-> MaxL4Port, dport |-> MaxL4Port],
   size |-> 0, tag |-> CHOOSE t \in Tags : TRUE, ttl |-> MaxTTL,
   pref_drop |-> FALSE, msg |-> m]

ReceiveFromPipe(in, pkt) ==
  /\ in \in DOMAIN ports \ {Loopback}
  /\ HandlePacketFromPort(in, pkt)

\* An endpoint other than a UDP sink (a source, or a TCP sink sending an
\* ACK) injects a packet of its flow through the loopback port.
EndpointSend(c, tag) ==
  /\ c \in DOMAIN connections
  /\ connections[c] # "udp_sink"
  /\ HandlePacketFromPort(Loopback, [ft |-> c, size |-> 1, tag |-> tag, ttl |-> MaxTTL,
                                     pref_drop |-> FALSE, msg |-> NoMsg])

-----------------------------------------------------------------------------

\* Device::Device: no ports, endpoints or observers; counters at zero.
DeviceInit ==
  /\ Init
  /\ ports = <<>>
  /\ connections = <<>>
  /\ dstats = [packets_seen |-> 0, packets_for_localhost |-> 0,
               packets_failed_to_match |-> 0, route_updates_seen |-> 0]
  /\ ie_observer = NoObserver /\ ei_observer = NoObserver
  /\ retx = {}
  /\ sent = <<>> /\ delivered = <<>> /\ observed = <<>> /\ replies = <<>>
  /\ fatal = NoFatal

DeviceNext ==
  \/ \E n \in Ports, h \in Handlers, b \in BOOLEAN : AddLinkSrc(n, h, b)
  \/ \E n \in Ports, b \in BOOLEAN : AddLinkDst(n, b)
  \/ \E n \in Ports, h \in Handlers : Reconnect(n, h)
  \/ NextAvailablePort
  \/ \E o \in Observers, b \in BOOLEAN : AddObserver(o, b)
  \/ \E d \in IPs \ {DeviceIP}, dp \in L4Ports, b \in BOOLEAN : AddGenerator(d, dp, b)
  \/ \E n \in PortNumbers, pkt \in DataPackets : ReceiveFromPipe(n, pkt)
  \/ \E n \in PortNumbers, m \in Messages : ReceiveFromPipe(n, SSCPPacket(m))
  \/ \E c \in DOMAIN connections, t \in Tags : EndpointSend(c, t)

DeviceSpec == DeviceInit /\ [][DeviceNext]_allvars

-----------------------------------------------------------------------------
(* Properties                                                              *)

DeviceTypeOK ==
  /\ TypeOK
  /\ DOMAIN ports \subseteq PortNumbers
  /\ \A n \in DOMAIN ports : ports[n] \in [handler : Handlers \cup {NoHandler},
                                              internal : BOOLEAN]
  /\ DOMAIN connections \subseteq FiveTuples
  /\ \A c \in DOMAIN connections : connections[c] \in EndpointKinds
  /\ dstats \in [packets_seen : 0..MaxPackets, packets_for_localhost : 0..MaxPackets,
                 packets_failed_to_match : 0..MaxPackets, route_updates_seen : 0..MaxPackets]
  /\ ie_observer \in Observers \cup {NoObserver}
  /\ ei_observer \in Observers \cup {NoObserver}
  /\ retx \subseteq DOMAIN connections
  /\ sent \in Seq([port : Ports, handler : Handlers, pkt : Packet])
  /\ delivered \in Seq([conn : FiveTuples, pkt : Packet])
  /\ observed \in Seq([observer : Observers, pkt : Packet])

\* Packets counted by all the actions of every rule the matcher has owned,
\* replaced and deleted rules included.
MatchedTotal ==
  FoldFunction(LAMBDA r, acc : acc + FoldFunction(LAMBDA n, a : n + a, 0, r.pkts),
               0, rules)

\* HandlePacketFromPort puts every packet it counts in packets_seen into
\* exactly one class: addressed to the device, failed to match, or counted
\* by the action of the rule that matched it -- across rule replacement
\* and deletion by SSCP messages, which drop the old rule's counters from
\* the matcher but not from this sum.
CountersConserved ==
  fatal = NoFatal =>
    dstats.packets_seen = dstats.packets_for_localhost
                          + dstats.packets_failed_to_match + MatchedTotal

\* Spec, section 4.5: once a port's out_handler_ is set, only Reconnect
\* replaces it; a second Connect (AddLink from the same source port) with
\* another handler dies instead of silently re-routing the port.
HandlerChangesOnlyByReconnect ==
  [][\A n \in DOMAIN ports :
       /\ ports[n].handler # NoHandler
       /\ ports'[n].handler # ports[n].handler
       => \E h \in Handlers : Reconnect(n, h)]_allvars

\* Spec, section 6 and glossary: the loopback port injects locally
\* produced packets.  Such a packet addressed to another device is looked
\* up by the matcher, which CHECKs that the input port is not the wildcard
\* number -- the same number as the loopback port.
LoopbackIngressNeverFatal == fatal # "wild_input_port"

\* Spec, section 4.6: forwarding to a port the device does not have is a
\* CHECK failure; a port it has is handed the packet.  Port::SendPacketOut
\* calls out_handler_ unchecked, and a port that is only the destination
\* of links is never connected.
ForwardOnlyToConnectedPorts == fatal # "null_out_handler"
====
