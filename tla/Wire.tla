-------------------------------- MODULE Wire --------------------------------
(***************************************************************************)
(* Endpoints that talk through datagram adapters of one kind: a server     *)
(* that listens on a port, of any address as tcp_udp -l and tcp_ipv4 -l    *)
(* set it up, or of its own as lab7 does behind an Ethernet interface, and *)
(* clients that were given its address.                                    *)
(* The network loses, duplicates, reorders and delays packets, changes one *)
(* byte of one, and cuts one short where packets can be cut.  The          *)
(* TCPConnection above an adapter may write any of a few segments at any   *)
(* time; a server that listens has nothing to write.                       *)
(***************************************************************************)
EXTENDS Adapters

CONSTANTS Kinds,        \* kinds of adapter
          Clients,      \* a function from kinds to sets of clients
          Changes,      \* what may be added to a damaged byte, modulo 256
          MaxWrites,    \* bound: segments written, for each kind
          MaxTime       \* bound: units of time that pass on a TAP device

ASSUME WireConstants ==
    /\ Kinds \subseteq {"udp", "tun", "tap"}
    /\ \A k \in Kinds : Clients[k] \subseteq {"a", "b", "c"}
    /\ Changes \subseteq 1 .. 255 /\ (\A k \in Kinds : MaxWrites[k] \in Nat) /\ MaxTime \in Nat

IP(n) == <<10, 0, 0, n>>
ServerAt == Address(IP(9), 1234)
ClientAt == [a |-> Address(IP(2), 7001), b |-> Address(IP(2), 7002), c |-> Address(IP(3), 7001)]
EthernetOf(n) == IF n = "server" THEN <<2, 0, 0, 0, 0, 9>> ELSE <<2, 0, 0, 0, 0, 2>>

\* Where a node's packets come from.
AddressOf(n) == IF n = "server" THEN ServerAt ELSE ClientAt[n]

\* A server of tcp_udp and tcp_ipv4 has the address 0, and learns the one it is
\* called by; one of lab7 was bound to its own.
AnyAddress(port) == Address(Zeros(4), port)
ServerSource(kind) == IF kind = "tap" THEN ServerAt ELSE AnyAddress(ServerAt.port)
ServerAdapter(kind) ==
    Adapter(kind, ServerSource(kind), AnyAddress(0), TRUE,
            NewInterface(EthernetOf("server"), ServerAt.ip), IP(2))

\* A client of tcp_udp has no source, and its segments carry port 0; the others
\* draw a port.  An interface has the next hop that its socket was given.
ClientSource(kind, n) == IF kind = "udp" THEN AnyAddress(0) ELSE ClientAt[n]
ClientInterface(n) == NewInterface(EthernetOf(n), ClientAt[n].ip)
ClientAdapter(kind, n) ==
    Adapter(kind, ClientSource(kind, n), ServerAt, FALSE, ClientInterface(n), ServerAt.ip)

\* The segments a connection writes; the header's ports are set by the adapter.
SegmentWith(syn, rst, ack, payload) ==
    [header |-> [sport |-> 0, dport |-> 0, seqno |-> <<255, 255, 0, 7>>, ackno |-> <<0, 128, 1, 254>>,
                 doff |-> 5, urg |-> FALSE, ack |-> ack, psh |-> FALSE, rst |-> rst, syn |-> syn,
                 fin |-> FALSE, win |-> 64000, cksum |-> 0, uptr |-> 0],
     payload |-> payload]
Segments == {SegmentWith(TRUE, FALSE, FALSE, <<>>), SegmentWith(FALSE, FALSE, TRUE, <<104, 105, 0>>),
             SegmentWith(FALSE, TRUE, FALSE, <<>>)}

VARIABLES adapter,    \* the adapter of each node
          air,        \* the packets under way, [by, for, bytes] each
          written,    \* history: the segments each node's connection has written
          heard       \* history: the segments each node's connection was given, [by, seg] each

vars == <<adapter, air, written, heard>>

Nodes == DOMAIN adapter
Kind == adapter["server"].kind

Packets(n, for, frames) == {[by |-> n, for |-> for, bytes |-> frames[k]] : k \in DOMAIN frames}

\* The empty frame that a new Ethernet adapter writes first is for no one.
Init ==
    \E kind \in Kinds :
        /\ adapter = [n \in Clients[kind] \cup {"server"} |->
                        IF n = "server" THEN ServerAdapter(kind) ELSE ClientAdapter(kind, n)]
        /\ air = {}
        /\ written = [n \in DOMAIN adapter |-> {}]
        /\ heard = [n \in DOMAIN adapter |-> {}]

\* SegmentOut of TCPSpongeSocket: a connection's segment goes to the adapter.
WriteSegment(n, seg) ==
    /\ ~adapter[n].listening
    /\ seg \notin written[n] /\ FoldFunction(LAMBDA s, c : Cardinality(s) + c, 0, written) < MaxWrites[Kind]
    /\ LET w == Write(adapter[n], seg)
       IN  /\ adapter' = [adapter EXCEPT ![n] = w.adapter]
           /\ air' = air \cup Packets(n, adapter[n].destination, w.frames)
    /\ written' = [written EXCEPT ![n] = @ \cup {seg}]
    /\ UNCHANGED heard

\* A datagram socket is given what is sent to it; a TUN or TAP device sees all.
Reaches(m, n) == n # m.by /\ (Kind = "udp" => m.for = AddressOf(n))

\* What may arrive of a packet.  A frame damaged on an Ethernet is dropped by
\* its check sequence: there the damage is done before, to a datagram.
Protected == IF Kind = "tap" THEN ETHERNET_LENGTH ELSE 0
Changed(bytes) ==
    {[bytes EXCEPT ![k] = (@ + d) % 256] : k \in Protected + 1 .. Len(bytes), d \in Changes}
Cut(bytes) == IF Kind = "udp" THEN {} ELSE {SubSeq(bytes, 1, k) : k \in Protected .. Len(bytes) - 1}
IsTCP(m) == Kind = "tap" => EthernetFrame_parse(m.bytes).header.type = TYPE_IPv4
Damaged(m, n) ==
    IF m.for = AddressOf(n) /\ IsTCP(m) THEN Changed(m.bytes) \cup Cut(m.bytes) ELSE {}

HandedUp(n, by, r) ==
    /\ adapter' = [adapter EXCEPT ![n] = r.adapter]
    /\ heard' = [heard EXCEPT ![n] = @ \cup {[by |-> by, seg |-> r.segs[k]] : k \in DOMAIN r.segs}]

ReadBytes(n, m, left, bytes, drop) ==
    LET r == Lossy_read(Read(adapter[n], AddressOf(m.by), bytes), drop)
    IN  /\ HandedUp(n, m.by, r)
        /\ air' = left \cup Packets(n, AddressOf(m.by), r.frames)
        /\ UNCHANGED written

\* The packet stays in the air if it is duplicated.
ReadPacket(n, m) ==
    /\ Reaches(m, n)
    /\ \E left \in {air, air \ {m}}, drop \in IF Kind = "tap" THEN {FALSE} ELSE BOOLEAN :
          ReadBytes(n, m, left, m.bytes, drop)

ReadDamaged(n, m) ==
    /\ Reaches(m, n)
    /\ \E bytes \in Damaged(m, n) : ReadBytes(n, m, air \ {m}, bytes, FALSE)

Lose(m) == air' = air \ {m} /\ UNCHANGED <<adapter, written, heard>>

TickAdapters ==
    /\ Kind = "tap" /\ adapter["server"].interface.current_time < MaxTime
    /\ adapter' = [n \in Nodes |-> send_pending(Ticking(adapter[n], 1))]
    /\ air' = air \cup UNION {Packets(n, adapter[n].destination, Pending(Ticking(adapter[n], 1))) : n \in Nodes}
    /\ UNCHANGED <<written, heard>>

Next ==
    \/ \E n \in Nodes, seg \in Segments : WriteSegment(n, seg)
    \/ \E m \in air : (\E n \in Nodes : ReadPacket(n, m) \/ ReadDamaged(n, m)) \/ Lose(m)
    \/ TickAdapters

Spec == Init /\ [][Next]_vars

-----------------------------------------------------------------------------
SameSegment(s, t) == TCPHeader_eq(s.header, t.header) /\ s.payload = t.payload

(***************************************************************************)
(* A connection is given only segments that its peer's connection wrote,   *)
(* unchanged: a packet with one byte changed on the way, in any of its     *)
(* headers, or cut short, is not taken for another, although the results   *)
(* of the header parsers and the checksum of the IPv4 header are not       *)
(* looked at (tcp_segment.cc:12-23, ipv4_datagram.cc:11-21,                *)
(* ethernet_frame.cc:11-17).                                               *)
(***************************************************************************)
Intact ==
    \A n \in Nodes : \A h \in heard[n] : \E s \in written[h.by] : SameSegment(h.seg, s)

(***************************************************************************)
(* A server serves one peer: from the SYN that binds its adapter on, no    *)
(* segment of another client reaches the connection, also when that SYN is *)
(* then dropped by the lossy adapter (fd_adapter.cc:21-46,                 *)
(* tcp_over_ip.cc:26-71, lossy_fd_adapter.hh:42-48).                       *)
(***************************************************************************)
OnePeer ==
    /\ \A n \in Nodes : \A h \in heard[n] :
          ~adapter[n].listening /\ AddressOf(h.by) = adapter[n].destination
    /\ \A h \in heard["server"] : \E s \in written[h.by] : s.header.syn

(***************************************************************************)
(* What two endpoints that are bound to each other write for each other,   *)
(* and no one damages, is accepted as it was written: the server answers   *)
(* from the address it was called by, the checksum is right for every      *)
(* header and payload, and both find the ports and the addresses they      *)
(* look for (tcp_over_ip.cc:55-59, 75-90, fd_adapter.cc:50-54,             *)
(* tcp_segment.cc:30-45, ipv4_datagram.cc:23-41).                          *)
(***************************************************************************)
HearsFrom(n, by) ==
    /\ by # n /\ ~adapter[by].listening /\ adapter[by].destination = AddressOf(n)
    /\ IF adapter[n].listening THEN \A s \in written[by] : MayBind(s)
       ELSE adapter[n].destination = AddressOf(by)
UndamagedAccepted ==
    \A m \in air, n \in Nodes :
        HearsFrom(n, m.by) /\ IsTCP(m) =>
            \E s \in written[m.by], k \in {1} \cap DOMAIN Read(adapter[n], AddressOf(m.by), m.bytes).segs :
                SameSegment(Read(adapter[n], AddressOf(m.by), m.bytes).segs[k], s)
=============================================================================
