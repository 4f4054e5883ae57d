---------------------------- MODULE InterfaceSpec ----------------------------
(***************************************************************************)
(* A NetworkInterface, the customer that hands it datagrams, a clock, and  *)
(* neighbours whose ARP messages arrive whenever they like: late, twice,   *)
(* never, unasked, for somebody else, or with a new Ethernet address.      *)
(***************************************************************************)
EXTENDS NetworkInterface

CONSTANTS Neighbour,      \* IP addresses of the neighbours
          NeighbourEth,   \* Ethernet addresses they may have
          MaxTime,        \* bound: how long the run lasts
          MaxSent         \* bound: datagrams handed over

ASSUME InterfaceAssumption == MaxTime \in Nat /\ MaxSent \in Nat

Me == [eth |-> "me", ip |-> "my_ip"]

VARIABLES ni,
          handed,       \* history: the datagrams handed over, with their next hop
          wire,         \* history: the IPv4 frames sent, [dgram, eth] each
          asked,        \* history: when each neighbour was asked for since it was
                        \* last heard of
          heard         \* history: the last mapping each neighbour has sent, and when

vars == <<ni, handed, wire, asked, heard>>

Init ==
    /\ ni = NewInterface(Me.eth, Me.ip)
    /\ handed = <<>>
    /\ wire = <<>>
    /\ asked = [a \in Neighbour |-> <<>>]
    /\ heard = [a \in {} |-> 0]

\* The datagrams among the frames of a call, with the addresses they go to.
Emitted(i) ==
    LET frames == Only(i.frames_out, {f \in Range(i.frames_out) : f.type = "IPv4"})
    IN  [k \in DOMAIN frames |-> [dgram |-> frames[k].payload, eth |-> frames[k].dst]]

\* The owner takes the frames after each call.
Out(i) == ni' = [i EXCEPT !.frames_out = <<>>] /\ wire' = wire \o Emitted(i)

Requests(i) ==
    {f.payload.target_ip_address : f \in {g \in Range(i.frames_out) :
        g.type = "ARP" /\ g.payload.opcode = "REQUEST"}}

\* The datagrams are numbered in the order in which they are handed over.
Send(hop) ==
    LET dgram == Len(handed) + 1
        i == send_datagram(ni, dgram, hop)
    IN  /\ dgram <= MaxSent
        /\ Out(i)
        /\ handed' = Append(handed, hop)
        /\ asked' = [a \in Neighbour |-> IF a \in Requests(i)
                                         THEN Append(asked[a], ni.current_time) ELSE asked[a]]
        /\ UNCHANGED heard

Hear(ip, eth, opcode, target, dst, valid) ==
    LET frame == [dst |-> dst, src |-> eth, type |-> "ARP", valid |-> valid,
                  payload |-> ArpMessage(opcode, eth, ip, target)]
        known == valid /\ dst \in {Me.eth, ETHERNET_BROADCAST}
    IN  /\ Out(recv_frame(ni, frame))
        /\ asked' = IF known THEN [asked EXCEPT ![ip] = <<>>] ELSE asked
        /\ heard' = IF known THEN Put(heard, ip, [eth |-> eth, time |-> ni.current_time]) ELSE heard
        /\ UNCHANGED handed

Tick ==
    /\ ni.current_time < MaxTime
    /\ Out(NetworkInterface_tick(ni, 1))
    /\ UNCHANGED <<handed, asked, heard>>

Next ==
    \/ \E hop \in Neighbour : Send(hop)
    \/ \E ip \in Neighbour, eth \in NeighbourEth, opcode \in {"REQUEST", "REPLY"},
          target \in {Me.ip, "other_ip"}, dst \in {Me.eth, ETHERNET_BROADCAST, "other"},
          valid \in BOOLEAN : Hear(ip, eth, opcode, target, dst, valid)
    \/ Tick

Spec == Init /\ [][Next]_vars

-----------------------------------------------------------------------------
Dgrams(q) == [k \in DOMAIN q |-> q[k].dgram]
DgramsFor(hop) == {d \in DOMAIN handed : handed[d] = hop}
SentTo(hop) == Only(Dgrams(wire), DgramsFor(hop))
WaitingFor(hop) == Dgrams(Only(ni.pending_datagrams, WaitingOn(ni, hop)))
HandedFor(hop) == Only([k \in DOMAIN handed |-> k], DgramsFor(hop))

(***************************************************************************)
(* No datagram is lost, sent twice or overtaken by a later one for the     *)
(* same next hop, whenever its address is learned or forgotten: what was   *)
(* sent to a hop, followed by what waits for it, is what was handed over   *)
(* for it (network_interface.cc:34-68, 145-156).                           *)
(***************************************************************************)
FifoPerHop == \A hop \in Neighbour : SentTo(hop) \o WaitingFor(hop) = HandedFor(hop)

(***************************************************************************)
(* A neighbour that has not been heard of is asked for again only when     *)
(* more than the request timeout has passed (network_interface.cc:46-64).  *)
(***************************************************************************)
RequestsSpaced ==
    \A a \in Neighbour : \A k \in 2 .. Len(asked[a]) :
        asked[a][k] - asked[a][k - 1] > REQUEST_TIMEOUT

(***************************************************************************)
(* A datagram waits only for a hop that is not in the cache and that has   *)
(* been asked for: none is forgotten in the queue while its address is     *)
(* known (network_interface.cc:39-66, 103-109).  And the requests are      *)
(* spaced.                                                                 *)
(***************************************************************************)
WaitingIsAskedFor ==
    /\ \A k \in DOMAIN ni.pending_datagrams :
          /\ ni.pending_datagrams[k].ip \notin DOMAIN ni.arp_cache
          /\ asked[ni.pending_datagrams[k].ip] # <<>>
    /\ RequestsSpaced

(***************************************************************************)
(* What is in the cache was announced last, and no longer ago than the     *)
(* cache timeout (network_interface.cc:93-101, 135-143).                   *)
(***************************************************************************)
CacheIsFresh ==
    \A a \in DOMAIN ni.arp_cache :
        /\ a \in DOMAIN heard /\ ni.arp_cache[a] = heard[a]
        /\ ni.current_time - ni.arp_cache[a].time <= CACHE_TIMEOUT

(***************************************************************************)
(* A datagram goes to the Ethernet address its next hop has announced      *)
(* last, and the announcement is no older than the cache timeout           *)
(* (network_interface.cc:39-43, 93-101, 135-143).                          *)
(***************************************************************************)
FreshAddress ==
    [][\A k \in Len(wire) + 1 .. Len(wire') :
         LET last == heard'[handed'[wire'[k].dgram]]
         IN  /\ wire'[k].eth = last.eth
             /\ ni'.current_time - last.time <= CACHE_TIMEOUT]_vars
=============================================================================
