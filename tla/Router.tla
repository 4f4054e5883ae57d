------------------------------- MODULE Router -------------------------------
(***************************************************************************)
(* libsponge/router.{hh,cc}: longest-prefix-match routing between          *)
(* AsyncNetworkInterfaces, which are NetworkInterfaces with a queue of     *)
(* received datagrams.  An address is a number of ADDRESS_BITS bits, the   *)
(* 32 of the code; a datagram is a record with fields dst and ttl.         *)
(***************************************************************************)
EXTENDS NetworkInterface, SequencesExt

CONSTANTS ADDRESS_BITS,
          NO_HOP             \* the empty optional<Address>

ASSUME RouterConstants == ADDRESS_BITS \in Nat \ {0} /\ NO_HOP \notin Nat

Address == 0 .. 2 ^ ADDRESS_BITS - 1

NewAsyncInterface(ethernet_address, ip_address) ==
    [ni |-> NewInterface(ethernet_address, ip_address), datagrams_out |-> <<>>]

Async_recv_frame(a, frame) ==
    [ni |-> recv_frame(a.ni, frame), datagrams_out |-> a.datagrams_out \o Received(a.ni, frame)]

NewRouter == [routes |-> <<>>, interfaces |-> <<>>]

add_interface(r, interface) == [r EXCEPT !.interfaces = Append(@, interface)]

Route(route_prefix, prefix_length, next_hop, interface_num) ==
    [route_prefix |-> route_prefix, prefix_length |-> prefix_length,
     next_hop |-> next_hop, interface_num |-> interface_num]

add_route(r, route) == [r EXCEPT !.routes = Append(@, route)]

\* Wrong variant: a shift by the full width, which leaves the mask all ones.
Masked_shifts_by_width(a, prefix_length) ==
    a - (a % 2 ^ ((ADDRESS_BITS - prefix_length) % ADDRESS_BITS))

Masked(a, prefix_length) ==
    IF prefix_length # 0 THEN a - (a % 2 ^ (ADDRESS_BITS - prefix_length)) ELSE 0

Matches(route, dst) ==
    Masked(dst, route.prefix_length) = Masked(route.route_prefix, route.prefix_length)

\* Wrong variant: of two routes of one length the later wins.
best_match_last(routes, dst) ==
    LET Better(best, route) ==
          IF Matches(route, dst)
             /\ (best = <<>> \/ route.prefix_length >= best[1].prefix_length)
          THEN <<route>> ELSE best
    IN  FoldLeft(Better, <<>>, routes)

\* The loop over _routes: <<>> is _routes.end().
best_match(routes, dst) ==
    LET Better(best, route) ==
          IF Matches(route, dst)
             /\ (best = <<>> \/ route.prefix_length > best[1].prefix_length)
          THEN <<route>> ELSE best
    IN  FoldLeft(Better, <<>>, routes)

\* Wrong variant: the TTL is left alone.
Forward_keeps_ttl(r, route, dgram) ==
    LET hop == IF route.next_hop # NO_HOP THEN route.next_hop ELSE dgram.dst
    IN  [r EXCEPT !.interfaces[route.interface_num].ni = send_datagram(@, dgram, hop)]

\* --ttl on a uint8_t.
Forward(r, route, dgram) ==
    LET hop == IF route.next_hop # NO_HOP THEN route.next_hop ELSE dgram.dst
    IN  [r EXCEPT !.interfaces[route.interface_num].ni =
            send_datagram(@, [dgram EXCEPT !.ttl = (@ - 1) % 256], hop)]

route_one_datagram(r, dgram) ==
    LET best == best_match(r.routes, dgram.dst)
    IN  IF dgram.ttl <= 1 \/ best = <<>> THEN r ELSE Forward(r, best[1], dgram)

\* Wrong variant: the queues are not emptied.
route_keeps_queues(r) ==
    FoldLeft(LAMBDA q, a : FoldLeft(route_one_datagram, q, a.datagrams_out), r, r.interfaces)

\* Every queue in turn; routing one datagram adds to none of them.
route(r) ==
    LET routed == FoldLeft(LAMBDA q, a : FoldLeft(route_one_datagram, q, a.datagrams_out),
                           r, r.interfaces)
    IN  [routed EXCEPT !.interfaces =
            [n \in DOMAIN @ |-> [@[n] EXCEPT !.datagrams_out = <<>>]]]
=============================================================================
