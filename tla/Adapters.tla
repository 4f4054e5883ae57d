------------------------------ MODULE Adapters ------------------------------
(***************************************************************************)
(* The datagram adapters of libsponge/tcp_helpers: what stands between a   *)
(* TCPConnection and the network.  fd_adapter.{hh,cc} (TCP in UDP),        *)
(* tcp_over_ip.cc (TCP in IPv4), tuntap_adapter.{hh,cc} (IPv4 on a TUN     *)
(* device, or in Ethernet on a TAP device) and lossy_fd_adapter.hh.        *)
(*                                                                         *)
(* An adapter is a record of the configuration, the listening flag and,    *)
(* for Ethernet, the interface and the next hop.  An Address is its        *)
(* numeric IP address and its port; Address's conversions to and from      *)
(* text, which unwrap_tcp_in_ip goes through, do not change either.        *)
(*                                                                         *)
(* A read is given as the adapter after it and the segments it returns (a  *)
(* sequence of at most one), a write or a tick as the adapter after it and *)
(* the packets given to the device.                                        *)
(***************************************************************************)
EXTENDS Packets, NetworkInterface

Address(ip, port) == [ip |-> ip, port |-> port]

Adapter(kind, source, destination, listening, interface, next_hop) ==
    [kind |-> kind, source |-> source, destination |-> destination, listening |-> listening,
     interface |-> interface, next_hop |-> next_hop]

\* config_mutable().destination = ..., set_listening(false)
BindTo(a, source, destination) ==
    [a EXCEPT !.source = source, !.destination = destination, !.listening = FALSE]

MayBind(seg) == seg.header.syn /\ ~seg.header.rst

Nothing(a) == [adapter |-> a, segs |-> <<>>]
Segment(a, seg) == [adapter |-> a, segs |-> <<[header |-> seg.header, payload |-> seg.payload]>>]

-----------------------------------------------------------------------------
\* TCPOverUDPSocketAdapter.  from is the source address recv() gives.
UDP_accept(a, from, seg) ==
    IF seg.result # "NoError" THEN Nothing(a)
    ELSE IF ~a.listening THEN Segment(a, seg)
    ELSE IF MayBind(seg) THEN Segment(BindTo(a, a.source, from), seg)
    ELSE Nothing(a)

UDP_read(a, from, bytes) ==
    IF ~a.listening /\ from # a.destination THEN Nothing(a)
    ELSE UDP_accept(a, from, TCPSegment_parse(bytes, 0))

SetPorts(a, seg) ==
    [seg EXCEPT !.header.sport = a.source.port, !.header.dport = a.destination.port]

UDP_write(a, seg) == TCPSegment_serialize(SetPorts(a, seg), 0)

-----------------------------------------------------------------------------
\* TCPOverIPv4Adapter
ForUs(a, ip) ==
    /\ a.listening \/ (ip.dst = a.source.ip /\ ip.src = a.destination.ip)
    /\ ip.proto = PROTO_TCP

\* Wrong variant: the adapter goes on answering from the address it was bound to.
Accepting_keeps_source(a, ip, seg) ==
    IF ~a.listening THEN a
    ELSE BindTo(a, a.source, Address(ip.src, seg.header.sport))

\* The adapter that has heard seg.
Accepting(a, ip, seg) ==
    IF ~a.listening THEN a
    ELSE BindTo(a, Address(ip.dst, a.source.port), Address(ip.src, seg.header.sport))

\* Wrong variant: the source port is not looked at.
Unwrapped_any_port(a, ip, seg) ==
    IF seg.result # "NoError" \/ seg.header.dport # a.source.port \/ (a.listening /\ ~MayBind(seg))
    THEN Nothing(a)
    ELSE Segment(Accepting(a, ip, seg), seg)

Unwrapped(a, ip, seg) ==
    IF \/ seg.result # "NoError"
       \/ seg.header.dport # a.source.port
       \/ a.listening /\ ~MayBind(seg)
       \/ ~a.listening /\ seg.header.sport # a.destination.port
    THEN Nothing(a)
    ELSE Segment(Accepting(a, ip, seg), seg)

unwrap_tcp_in_ip(a, dgram) ==
    IF ~ForUs(a, dgram.header) THEN Nothing(a)
    ELSE Unwrapped(a, dgram.header,
                   TCPSegment_parse(concatenate(dgram.payload), pseudo_cksum(dgram.header)))

WrapIn(header, seg) ==
    [header |-> header, payload |-> TCPSegment_serialize(seg, pseudo_cksum(header))]
wrap_tcp_in_ip(a, seg) ==
    WrapIn([IPv4Defaults EXCEPT !.src = a.source.ip, !.dst = a.destination.ip,
                                !.len = IPv4_LENGTH + seg.header.doff * 4 + Len(seg.payload)],
           SetPorts(a, seg))

-----------------------------------------------------------------------------
\* TCPOverIPv4OverTunFdAdapter
TunParsed(a, dgram) == IF dgram.result # "NoError" THEN Nothing(a) ELSE unwrap_tcp_in_ip(a, dgram)
Tun_read(a, bytes) == TunParsed(a, IPv4Datagram_parse(bytes))
Tun_write(a, seg) == IPv4Datagram_serialize(wrap_tcp_in_ip(a, seg))

-----------------------------------------------------------------------------
\* TCPOverIPv4OverEthernetAdapter.  The interface's frames carry datagrams and
\* ARP messages; these are the bytes of one, and the frame of some bytes.
PayloadOf(frame) ==
    IF frame.type = "IPv4" THEN IPv4Datagram_serialize(frame.payload)
    ELSE <<ARPMessage_serialize(
             [opcode |-> OPCODE[frame.payload.opcode],
              sender_ethernet_address |-> frame.payload.sender_ethernet_address,
              sender_ip_address |-> frame.payload.sender_ip_address,
              target_ethernet_address |->
                  IF frame.payload.opcode = "REPLY" THEN frame.dst ELSE Zeros(6),
              target_ip_address |-> frame.payload.target_ip_address])>>
FrameBytes(frame) ==
    EthernetFrame_serialize([dst |-> frame.dst, src |-> frame.src,
                             type |-> IF frame.type = "IPv4" THEN TYPE_IPv4 ELSE TYPE_ARP],
                            PayloadOf(frame))

InterfaceFrame(header, type, payload) ==
    [dst |-> header.dst, src |-> header.src, type |-> type, payload |-> payload,
     valid |-> type # "other" /\ payload.result = "NoError"]
ARPPayload(m) ==
    IF m.result # "NoError" THEN m
    ELSE [result |-> m.result] @@
         ArpMessage(IF m.opcode = OPCODE.REQUEST THEN "REQUEST" ELSE "REPLY",
                    m.sender_ethernet_address, m.sender_ip_address, m.target_ip_address)
FrameOf(frame) ==
    CASE frame.header.type = TYPE_IPv4 ->
            InterfaceFrame(frame.header, "IPv4", IPv4Datagram_parse(frame.payload))
      [] frame.header.type = TYPE_ARP ->
            InterfaceFrame(frame.header, "ARP", ARPPayload(ARPMessage_parse(frame.payload)))
      [] OTHER -> InterfaceFrame(frame.header, "other", <<>>)

\* send_pending: every frame of the interface goes to the device.
send_pending(a) == [a EXCEPT !.interface.frames_out = <<>>]
Pending(a) ==
    [k \in DOMAIN a.interface.frames_out |-> concatenate(FrameBytes(a.interface.frames_out[k]))]

GivenFrame(a, frame) == [a EXCEPT !.interface = recv_frame(@, frame)]
UnwrapReceived(a, dgrams) == IF dgrams = <<>> THEN Nothing(a) ELSE unwrap_tcp_in_ip(a, dgrams[1])
ReadFrame(a, frame) ==
    [frames |-> Pending(GivenFrame(a, frame))]
    @@ UnwrapReceived(send_pending(GivenFrame(a, frame)), Received(a.interface, frame))
Ethernet_read(a, bytes) == ReadFrame(a, FrameOf(EthernetFrame_parse(bytes)))

Sending(a, seg) ==
    [a EXCEPT !.interface = send_datagram(@, wrap_tcp_in_ip(a, seg), a.next_hop)]
Ticking(a, ms) == [a EXCEPT !.interface = NetworkInterface_tick(@, ms)]

-----------------------------------------------------------------------------
\* An adapter of any kind: read and write, and the packets for the device.
\* The datagram devices take a packet whole.
Read(a, from, bytes) ==
    CASE a.kind = "udp" -> [frames |-> <<>>] @@ UDP_read(a, from, bytes)
      [] a.kind = "tun" -> [frames |-> <<>>] @@ Tun_read(a, bytes)
      [] a.kind = "tap" -> Ethernet_read(a, bytes)

After(a) == IF a.kind = "tap" THEN [adapter |-> send_pending(a), frames |-> Pending(a)]
            ELSE [adapter |-> a, frames |-> <<>>]
Write(a, seg) ==
    CASE a.kind = "udp" -> [adapter |-> a, frames |-> <<concatenate(UDP_write(a, seg))>>]
      [] a.kind = "tun" -> [adapter |-> a, frames |-> <<concatenate(Tun_write(a, seg))>>]
      [] a.kind = "tap" -> After(Sending(a, seg))

\* LossyFdAdapter::read: the adapter has read, and may have bound itself, when
\* the segment is dropped.
Lossy_read(r, should_drop) == IF should_drop THEN [r EXCEPT !.segs = <<>>] ELSE r
=============================================================================
