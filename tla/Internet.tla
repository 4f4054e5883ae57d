------------------------------ MODULE Internet ------------------------------
(***************************************************************************)
(* Two routers on one Ethernet, each with a host on an Ethernet of its     *)
(* own, as apps/network_simulator.cc connects its hosts to a router.  The  *)
(* routers are each other's default route, so a datagram for an address    *)
(* that does not exist goes back and forth until its TTL is used up.       *)
(* Routes may be added while datagrams are under way.                      *)
(*                                                                         *)
(* A host is a node with one interface and no routes.  The wire takes one  *)
(* frame at a time from an interface to all the others of the Ethernet.    *)
(***************************************************************************)
EXTENDS Router

CONSTANTS ExtraRoutes,    \* routes that may be added, [router, route] each
          Ttls,           \* the TTLs a host sends with
          MaxDatagrams    \* bound: datagrams the hosts send

ASSUME InternetAssumption == Ttls \subseteq 0 .. 255 /\ MaxDatagrams \in Nat

Hosts == {"h1", "h2"}
Routers == {"r1", "r2"}
Nodes == Hosts \cup Routers

HostAddress == [h1 |-> 1, h2 |-> 3]
Gateway == [h1 |-> 0, h2 |-> 2]
Unknown == 7

\* The ports of one Ethernet, <<node, interface number>> each.
Links == {{<<"h1", 1>>, <<"r1", 1>>}, {<<"h2", 1>>, <<"r2", 1>>}, {<<"r1", 2>>, <<"r2", 2>>}}
Ports == UNION Links
LinkOf(p) == CHOOSE l \in Links : p \in l

HostNode(h) == add_interface(NewRouter, NewAsyncInterface(h, HostAddress[h]))

RouterNode(eth, inside, outside, other) ==
    LET bare == add_interface(add_interface(NewRouter,
                    NewAsyncInterface(eth[1], inside)), NewAsyncInterface(eth[2], outside))
    IN  add_route(add_route(bare, Route(0, 0, other, 2)), Route(inside, 2, NO_HOP, 1))

VARIABLES net,       \* the nodes
          sent,      \* history: the datagrams the hosts have sent, [src, dst, ttl] each
          got        \* history: the datagrams each host has taken, in order

vars == <<net, sent, got>>

Init ==
    /\ net = [n \in Nodes |->
                CASE n \in Hosts -> HostNode(n)
                  [] n = "r1" -> RouterNode(<<"r1_in", "r1_out">>, 0, 4, 5)
                  [] n = "r2" -> RouterNode(<<"r2_in", "r2_out">>, 2, 5, 4)]
    /\ sent = <<>>
    /\ got = [h \in Hosts |-> <<>>]

\* Host::send_to
send_to(h, dst, ttl) ==
    LET dgram == [id |-> Len(sent) + 1, dst |-> dst, ttl |-> ttl]
    IN  /\ Len(sent) < MaxDatagrams
        /\ sent' = Append(sent, [src |-> h, dst |-> dst, ttl |-> ttl])
        /\ net' = [net EXCEPT ![h].interfaces[1].ni = send_datagram(@, dgram, Gateway[h])]
        /\ UNCHANGED got

FramesOut(p) == net[p[1]].interfaces[p[2]].ni.frames_out

\* The wire: external.
Carry(p) ==
    /\ FramesOut(p) # <<>>
    /\ LET frame == Head(FramesOut(p))
           After(q, a) == IF q = p THEN [a EXCEPT !.ni.frames_out = Tail(@)]
                          ELSE IF q \in LinkOf(p) THEN Async_recv_frame(a, frame) ELSE a
       IN  net' = [n \in Nodes |-> [net[n] EXCEPT !.interfaces =
                     [k \in DOMAIN @ |-> After(<<n, k>>, @[k])]]]
    /\ UNCHANGED <<sent, got>>

HasDatagrams(n) ==
    \E k \in DOMAIN net[n].interfaces : net[n].interfaces[k].datagrams_out # <<>>

RouteAll(r) ==
    /\ HasDatagrams(r)
    /\ net' = [net EXCEPT ![r] = route(@)]
    /\ UNCHANGED <<sent, got>>

\* Host::check, without the comparison with what is expected.
check(h) ==
    /\ HasDatagrams(h)
    /\ got' = [got EXCEPT ![h] = @ \o net[h].interfaces[1].datagrams_out]
    /\ net' = [net EXCEPT ![h].interfaces[1].datagrams_out = <<>>]
    /\ UNCHANGED sent

AddRoute(r, new) ==
    /\ new \notin Range(net[r].routes)
    /\ net' = [net EXCEPT ![r] = add_route(@, new)]
    /\ UNCHANGED <<sent, got>>

Next ==
    \/ \E h \in Hosts, dst \in Range(HostAddress) \cup {Unknown}, ttl \in Ttls :
          send_to(h, dst, ttl)
    \/ \E p \in Ports : Carry(p)
    \/ \E r \in Routers : RouteAll(r)
    \/ \E h \in Hosts : check(h)
    \/ \E e \in ExtraRoutes : AddRoute(e.router, e.route)

Spec == Init /\ [][Next]_vars

-----------------------------------------------------------------------------
\* The datagrams that an interface holds, wherever it holds them.
Held(a) ==
    [k \in DOMAIN a.ni.pending_datagrams |-> a.ni.pending_datagrams[k].dgram]
    \o LET ip == SelectSeq(a.ni.frames_out, LAMBDA f : f.type = "IPv4")
       IN  [k \in DOMAIN ip |-> ip[k].payload]
    \o a.datagrams_out
Copies(id) ==
    LET Count(s) == Len(SelectSeq(s, LAMBDA d : d.id = id))
        At(p) == Count(Held(net[p[1]].interfaces[p[2]]))
    IN  FoldFunction(+, 0, [p \in Ports |-> At(p)]) + Count(got["h1"]) + Count(got["h2"])

(***************************************************************************)
(* A datagram is never copied, though frames reach every interface of an   *)
(* Ethernet and datagrams wait in queues while routes change, and it is    *)
(* taken by the host it is addressed to and by no other                    *)
(* (router.cc:33-77, network_interface.cc:71-127).                         *)
(***************************************************************************)
OneCopyToItsHost ==
    /\ \A id \in DOMAIN sent : Copies(id) <= 1
    /\ \A h \in Hosts : \A k \in DOMAIN got[h] : got[h][k].dst = HostAddress[h]

(***************************************************************************)
(* The route that the loop of route_one_datagram picks matches, no other   *)
(* matching route is longer, and of the longest it is the one that was     *)
(* added first; it picks none only if none matches (router.cc:42-51).      *)
(***************************************************************************)
InPrefix(rt, dst) ==
    LET size == 2 ^ (ADDRESS_BITS - rt.prefix_length)
    IN  dst \div size = rt.route_prefix \div size
LongestPrefixMatch ==
    \A r \in Routers, dst \in Address :
        LET routes == net[r].routes
            fits == {k \in DOMAIN routes : InPrefix(routes[k], dst)}
            best == {k \in fits : \A j \in fits :
                        \/ routes[j].prefix_length < routes[k].prefix_length
                        \/ routes[j].prefix_length = routes[k].prefix_length /\ j >= k}
        IN  best_match(routes, dst) = (IF fits = {} THEN <<>>
                                       ELSE <<routes[CHOOSE k \in best : TRUE]>>)

Quiet ==
    \A p \in Ports :
        FramesOut(p) = <<>> /\ net[p[1]].interfaces[p[2]].datagrams_out = <<>>

(***************************************************************************)
(* The network comes to rest, also when the routes form a loop: the TTL    *)
(* takes every datagram out of it (router.cc:35-37, 55).                   *)
(***************************************************************************)
ComesToRest == <>[]Quiet

(***************************************************************************)
(* As long as no route is added, a datagram for a host arrives if its TTL  *)
(* is larger than the number of routers on its way, however its next hops  *)
(* come to be known (router.cc:54-64, network_interface.cc:34-156).        *)
(***************************************************************************)
RoutersBetween(a, b) == IF a = b THEN 1 ELSE 2
Arrives ==
    \A id \in 1 .. MaxDatagrams, h \in Hosts :
        (/\ id \in DOMAIN sent
         /\ sent[id].dst = HostAddress[h]
         /\ sent[id].src # h
         /\ sent[id].ttl > RoutersBetween(sent[id].src, h))
        ~> \/ \E k \in DOMAIN got[h] : got[h][k].id = id
           \/ \E r \in Routers : Len(net[r].routes) > 2
=============================================================================
