------------------------------ MODULE Packets -------------------------------
(***************************************************************************)
(* The packet formats of libsponge/tcp_helpers: tcp_header and tcp_segment,*)
(* ipv4_header and ipv4_datagram, ethernet_header and ethernet_frame, and  *)
(* arp_message.  Addresses and sequence numbers are sequences of bytes.    *)
(***************************************************************************)
EXTENDS NetParser

TCP_LENGTH == 20
IPv4_LENGTH == 20
ETHERNET_LENGTH == 14
ARP_LENGTH == 28
PROTO_TCP == 6
TYPE_IPv4 == 2048      \* 0x800
TYPE_ARP == 2054       \* 0x806
TYPE_ETHERNET == 1

Bit(byte, k) == (byte \div 2 ^ k) % 2 = 1
BitIf(b, k) == IF b THEN 2 ^ k ELSE 0

-----------------------------------------------------------------------------
\* TCPHeader
TCPHeaderOf(f) ==
    [sport |-> Num(f[1]), dport |-> Num(f[2]), seqno |-> f[3], ackno |-> f[4],
     doff |-> Num(f[5]) \div 16,
     urg |-> Bit(f[6][1], 5), ack |-> Bit(f[6][1], 4), psh |-> Bit(f[6][1], 3),
     rst |-> Bit(f[6][1], 2), syn |-> Bit(f[6][1], 1), fin |-> Bit(f[6][1], 0),
     win |-> Num(f[7]), cksum |-> Num(f[8]), uptr |-> Num(f[9])]

SkipOptions(p, h) ==
    [header |-> h, p |-> IF h.doff < 5 THEN p ELSE remove_prefix(p, h.doff * 4 - TCP_LENGTH)]
ParsedTCP(p) == SkipOptions(p, TCPHeaderOf(p.fields))
TCPHeader_parse(p) == ParsedTCP(ParseInts(p, <<2, 2, 4, 4, 1, 1, 2, 2, 2>>))

TCPFlags(h) ==
    BitIf(h.urg, 5) + BitIf(h.ack, 4) + BitIf(h.psh, 3)
    + BitIf(h.rst, 2) + BitIf(h.syn, 1) + BitIf(h.fin, 0)

\* The header with 20 bytes of fields, and zeros up to the size it gives.
TCPHeader_serialize(h) ==
    u16(h.sport) \o u16(h.dport) \o h.seqno \o h.ackno \o u8(h.doff * 16) \o u8(TCPFlags(h))
    \o u16(h.win) \o u16(h.cksum) \o u16(h.uptr) \o Zeros(4 * h.doff - TCP_LENGTH)

\* operator== leaves the ports and the checksum out.
TCPHeader_eq(g, h) ==
    [g EXCEPT !.sport = 0, !.dport = 0, !.cksum = 0] = [h EXCEPT !.sport = 0, !.dport = 0, !.cksum = 0]

\* TCPSegment: what the header's parse returns is not looked at, only the
\* parser's own error is.
ParsedSegment(t) == [result |-> t.p.error, header |-> t.header, payload |-> t.p.buffer]

TCPSegment_parse(buffer, datagram_layer_checksum) ==
    IF value(add(InternetChecksum(datagram_layer_checksum), buffer)) # 0
    THEN [result |-> "BadChecksum"]
    ELSE ParsedSegment(TCPHeader_parse(Parser(buffer)))

TCPSegment_serialize(seg, datagram_layer_checksum) ==
    LET zeroed == [seg.header EXCEPT !.cksum = 0]
        check == add(add(InternetChecksum(datagram_layer_checksum),
                         TCPHeader_serialize(zeroed)), seg.payload)
    IN  <<TCPHeader_serialize([zeroed EXCEPT !.cksum = value(check)]), seg.payload>>

-----------------------------------------------------------------------------
\* IPv4Header, with its defaults
IPv4Defaults ==
    [ver |-> 4, hlen |-> IPv4_LENGTH \div 4, tos |-> 0, len |-> 0, id |-> 0, df |-> TRUE,
     mf |-> FALSE, offset |-> 0, ttl |-> 128, proto |-> PROTO_TCP, cksum |-> 0,
     src |-> Zeros(4), dst |-> Zeros(4)]

IPv4HeaderOf(f) ==
    [ver |-> f[1][1] \div 16, hlen |-> f[1][1] % 16, tos |-> f[2][1], len |-> Num(f[3]),
     id |-> Num(f[4]), df |-> Bit(f[5][1], 6), mf |-> Bit(f[5][1], 5),
     offset |-> Num(f[5]) % 8192, ttl |-> f[6][1], proto |-> f[7][1], cksum |-> Num(f[8]),
     src |-> f[9], dst |-> f[10]]

\* The options are skipped only when the header passes the checks before that.
HeaderChecks(h, data_size) ==
    data_size >= 4 * h.hlen /\ h.ver = 4 /\ h.hlen >= 5 /\ data_size = h.len
SkipIPOptions(p, h, data_size) ==
    [header |-> h,
     p |-> IF HeaderChecks(h, data_size) THEN remove_prefix(p, h.hlen * 4 - IPv4_LENGTH) ELSE p]
ParsedIPv4(p, data_size) == SkipIPOptions(p, IPv4HeaderOf(p.fields), data_size)

\* IPv4Header::parse: the header and the parser it leaves.  What it returns,
\* the header's own checksum included, is used by none of its callers.
IPv4Header_parse(p) ==
    IF Len(p.buffer) < IPv4_LENGTH THEN [header |-> IPv4Defaults, p |-> p]
    ELSE ParsedIPv4(ParseInts(p, <<1, 1, 2, 2, 2, 1, 1, 2, 4, 4>>), Len(p.buffer))

IPv4Header_serialize(h) ==
    u8(h.ver * 16 + h.hlen) \o u8(h.tos) \o u16(h.len) \o u16(h.id)
    \o u16(BitIf(h.df, 14) + BitIf(h.mf, 13) + h.offset) \o u8(h.ttl) \o u8(h.proto)
    \o u16(h.cksum) \o h.src \o h.dst \o Zeros(4 * h.hlen - IPv4_LENGTH)

payload_length(h) == (h.len - 4 * h.hlen) % 65536

pseudo_cksum(h) ==
    Num(SubSeq(h.src, 1, 2)) + Num(SubSeq(h.src, 3, 4)) + Num(SubSeq(h.dst, 1, 2))
    + Num(SubSeq(h.dst, 3, 4)) + h.proto + payload_length(h)

\* IPv4Datagram.  Its payload is a BufferList.
\* Wrong variant: the length of the payload is not compared.
ParsedDatagram_any_length(t) ==
    [result |-> t.p.error, header |-> t.header, payload |-> <<t.p.buffer>>]

ParsedDatagram(t) ==
    [result |-> IF Len(t.p.buffer) # payload_length(t.header) THEN "PacketTooShort" ELSE t.p.error,
     header |-> t.header, payload |-> <<t.p.buffer>>]
IPv4Datagram_parse(buffer) == ParsedDatagram(IPv4Header_parse(Parser(buffer)))

IPv4Datagram_serialize(dgram) ==
    LET zeroed == [dgram.header EXCEPT !.cksum = 0]
        check == add(InternetChecksum(0), IPv4Header_serialize(zeroed))
    IN  <<IPv4Header_serialize([zeroed EXCEPT !.cksum = value(check)])>> \o dgram.payload

-----------------------------------------------------------------------------
\* EthernetHeader and EthernetFrame.  Of a frame that is too short nothing is
\* read: its header is all zeros.
EthernetHeaderOf(f) == [dst |-> f[1], src |-> f[2], type |-> Num(f[3])]
ParsedFrame(p) == [header |-> EthernetHeaderOf(p.fields), payload |-> p.buffer]
EthernetFrame_parse(buffer) ==
    IF Len(buffer) < ETHERNET_LENGTH
    THEN [header |-> [dst |-> Zeros(6), src |-> Zeros(6), type |-> 0], payload |-> buffer]
    ELSE ParsedFrame(ParseInts(Parser(buffer), <<6, 6, 2>>))

EthernetFrame_serialize(header, payload) ==
    <<header.dst \o header.src \o u16(header.type)>> \o payload

-----------------------------------------------------------------------------
\* ARPMessage
OPCODE == [REQUEST |-> 1, REPLY |-> 2]

supported(f) ==
    /\ Num(f[1]) = TYPE_ETHERNET /\ Num(f[2]) = TYPE_IPv4
    /\ Num(f[3]) = 6 /\ Num(f[4]) = 4
    /\ Num(f[5]) \in {OPCODE.REQUEST, OPCODE.REPLY}

ParsedARP(p) ==
    IF ~supported(p.fields) THEN [result |-> "Unsupported"]
    ELSE [result |-> p.error, opcode |-> Num(p.fields[5]),
          sender_ethernet_address |-> p.fields[6], sender_ip_address |-> p.fields[7],
          target_ethernet_address |-> p.fields[8], target_ip_address |-> p.fields[9]]
ARPMessage_parse(buffer) ==
    IF Len(buffer) < ARP_LENGTH THEN [result |-> "PacketTooShort"]
    ELSE ParsedARP(ParseInts(Parser(buffer), <<2, 2, 1, 1, 2, 6, 4, 6, 4>>))

ARPMessage_serialize(m) ==
    u16(TYPE_ETHERNET) \o u16(TYPE_IPv4) \o u8(6) \o u8(4) \o u16(m.opcode)
    \o m.sender_ethernet_address \o m.sender_ip_address
    \o m.target_ethernet_address \o m.target_ip_address
=============================================================================
