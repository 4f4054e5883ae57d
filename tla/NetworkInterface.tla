-------------------------- MODULE NetworkInterface --------------------------
(***************************************************************************)
(* libsponge/network_interface.{hh,cc}: an interface between IP and        *)
(* Ethernet.  It keeps the ARP cache, holds the datagrams whose next hop   *)
(* has no known Ethernet address, and asks for it with ARP requests.       *)
(*                                                                         *)
(* An interface is a record.  _arp_cache and _arp_request_timeouts are     *)
(* functions whose domains are the keys of the maps.  A frame carries a    *)
(* datagram or an ARP message; valid is whether its payload parses.        *)
(***************************************************************************)
EXTENDS Integers, Sequences, Functions, SeqFilter

CONSTANTS ETHERNET_BROADCAST,
          REQUEST_TIMEOUT,    \* the 5000 of network_interface.cc:48
          CACHE_TIMEOUT       \* the 30000 of network_interface.cc:137

ASSUME InterfaceConstants == REQUEST_TIMEOUT \in Nat /\ CACHE_TIMEOUT \in Nat

NewInterface(ethernet_address, ip_address) ==
    [ethernet_address |-> ethernet_address, ip_address |-> ip_address, frames_out |-> <<>>,
     arp_cache |-> [a \in {} |-> 0], pending_datagrams |-> <<>>,
     arp_request_timeouts |-> [a \in {} |-> 0], current_time |-> 0]

ArpMessage(opcode, sender_eth, sender_ip, target_ip) ==
    [opcode |-> opcode, sender_ethernet_address |-> sender_eth,
     sender_ip_address |-> sender_ip, target_ip_address |-> target_ip]

_make_frame(i, dst, type, payload) ==
    [dst |-> dst, src |-> i.ethernet_address, type |-> type, payload |-> payload, valid |-> TRUE]

EmitFrame(i, dst, type, payload) ==
    [i EXCEPT !.frames_out = Append(@, _make_frame(i, dst, type, payload))]

\* map[key] = value
Put(map, key, value) == [a \in DOMAIN map \cup {key} |-> IF a = key THEN value ELSE map[a]]
Drop(map, keys) == Restrict(map, DOMAIN map \ keys)

\* No request for ip is outstanding, or it is too old.
MustAsk(i, ip) ==
    \/ ip \notin DOMAIN i.arp_request_timeouts
    \/ i.current_time - i.arp_request_timeouts[ip] > REQUEST_TIMEOUT

Ask(i, ip) ==
    [EmitFrame(i, ETHERNET_BROADCAST, "ARP",
               ArpMessage("REQUEST", i.ethernet_address, i.ip_address, ip))
        EXCEPT !.arp_request_timeouts = Put(@, ip, i.current_time)]

send_datagram(i, dgram, next_hop) ==
    IF next_hop \in DOMAIN i.arp_cache
    THEN EmitFrame(i, i.arp_cache[next_hop].eth, "IPv4", dgram)
    ELSE LET asked == IF MustAsk(i, next_hop) THEN Ask(i, next_hop) ELSE i
         IN  [asked EXCEPT !.pending_datagrams = Append(@, [ip |-> next_hop, dgram |-> dgram])]

WaitingOn(i, ip) == {p \in Range(i.pending_datagrams) : p.ip = ip}

\* Wrong variant: only the first waiting datagram is sent.
_send_pending_datagrams_first(i, ip) ==
    LET waiting == Only(i.pending_datagrams, WaitingOn(i, ip))
    IN  IF waiting = <<>> THEN i
        ELSE [EmitFrame(i, i.arp_cache[ip].eth, "IPv4", Head(waiting).dgram)
                EXCEPT !.pending_datagrams = Only(@, Range(@) \ {Head(waiting)})]

\* Send the datagrams that wait for ip, in their order, and keep the others.
_send_pending_datagrams(i, ip) ==
    LET waiting == Only(i.pending_datagrams, WaitingOn(i, ip))
        frames == [k \in DOMAIN waiting |->
                     _make_frame(i, i.arp_cache[ip].eth, "IPv4", waiting[k].dgram)]
    IN  [i EXCEPT !.frames_out = @ \o frames,
                  !.pending_datagrams = Only(@, Range(@) \ WaitingOn(i, ip))]

Learn(i, ip, eth) ==
    [i EXCEPT !.arp_cache = Put(@, ip, [eth |-> eth, time |-> i.current_time]),
              !.arp_request_timeouts = Drop(@, {ip})]

ReplyIfAsked(i, msg) ==
    IF msg.opcode = "REQUEST" /\ msg.target_ip_address = i.ip_address
    THEN EmitFrame(i, msg.sender_ethernet_address, "ARP",
                   ArpMessage("REPLY", i.ethernet_address, i.ip_address, msg.sender_ip_address))
    ELSE i

Accepts(i, frame, type) ==
    /\ frame.dst \in {i.ethernet_address, ETHERNET_BROADCAST}
    /\ frame.type = type /\ frame.valid

\* Wrong variant: only a reply sends what waits.
recv_frame_waits_for_reply(i, frame) ==
    LET msg == frame.payload
        ip == msg.sender_ip_address
        learned == Learn(i, ip, msg.sender_ethernet_address)
    IN  IF ~Accepts(i, frame, "ARP") THEN i
        ELSE IF msg.opcode = "REQUEST" THEN ReplyIfAsked(learned, msg)
        ELSE _send_pending_datagrams(learned, ip)

\* recv_frame: what it does to the interface, and the datagram it returns.
recv_frame(i, frame) ==
    LET msg == frame.payload
        ip == msg.sender_ip_address
    IN  IF Accepts(i, frame, "ARP")
        THEN ReplyIfAsked(
                _send_pending_datagrams(Learn(i, ip, msg.sender_ethernet_address), ip), msg)
        ELSE i
Received(i, frame) == IF Accepts(i, frame, "IPv4") THEN <<frame.payload>> ELSE <<>>

\* Wrong variant: entries do not expire.
_remove_expired_cache_not(i) == i

_remove_expired_cache(i) ==
    [i EXCEPT !.arp_cache =
        Restrict(@, {a \in DOMAIN @ : i.current_time - @[a].time <= CACHE_TIMEOUT})]

NetworkInterface_tick(i, ms) == _remove_expired_cache([i EXCEPT !.current_time = @ + ms])
=============================================================================
