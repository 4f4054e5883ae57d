-------------------------- MODULE InterfaceProofs --------------------------
(***************************************************************************)
(* The interface's promises for every set of neighbours, every pair of     *)
(* timeouts and every schedule of calls: requests are spaced, the cache    *)
(* holds only what was announced last and in time, datagrams go there, in  *)
(* their order and once, and none waits for a hop that was not asked for.  *)
(*                                                                         *)
(* None of this is inductive.  QInv adds Recorded (the interface remembers *)
(* exactly the neighbours it asked for and has not heard of since, each    *)
(* with the time of the last request) and what is known of the queue: no   *)
(* datagram in it is for a hop in the cache.                               *)
(***************************************************************************)
EXTENDS InterfaceSpec, Lemmas

\* An interface with the given queues and tables at the given time.
Interface(frames, cache, pending, timeouts, now) ==
    [ethernet_address |-> Me.eth, ip_address |-> Me.ip, frames_out |-> frames,
     arp_cache |-> cache, pending_datagrams |-> pending,
     arp_request_timeouts |-> timeouts, current_time |-> now]
IsInterface(i) ==
    i = Interface(i.frames_out, i.arp_cache, i.pending_datagrams, i.arp_request_timeouts, i.current_time)
HasTables(i, cache, timeouts, now) ==
    /\ IsInterface(i) /\ i.arp_cache = cache
    /\ i.arp_request_timeouts = timeouts /\ i.current_time = now

\* A map from some neighbours.
MapTo(map, S) ==
    /\ DOMAIN map \subseteq Neighbour
    /\ map = [a \in DOMAIN map |-> map[a]]
    /\ \A a \in DOMAIN map : map[a] \in S
Mapping == [eth : NeighbourEth, time : Nat]

Types ==
    /\ IsInterface(ni) /\ ni.frames_out = <<>> /\ ni.current_time \in Nat
    /\ MapTo(ni.arp_cache, Mapping)
    /\ MapTo(ni.arp_request_timeouts, Nat)
    /\ asked \in [Neighbour -> Seq(Nat)]
    /\ MapTo(heard, Mapping)

Recorded ==
    \A a \in Neighbour :
        /\ a \in DOMAIN ni.arp_request_timeouts <=> asked[a] # <<>>
        /\ asked[a] # <<>> => asked[a][Len(asked[a])] = ni.arp_request_timeouts[a]

IInv == Types /\ Recorded /\ RequestsSpaced /\ CacheIsFresh

-----------------------------------------------------------------------------
(* What the methods do to the tables.                                      *)

LEMMA OneFrame ==
    ASSUME NEW f
    PROVE  Append(<<>>, f) = <<f>> /\ Range(<<f>>) = {f}
<1>1. Append(<<>>, f) = <<f>>
  OBVIOUS
<1>2. DOMAIN <<f>> = {1} /\ <<f>>[1] = f
  OBVIOUS
<1> QED
  BY <1>1, <1>2 DEF Range

LEMMA NoFrame == Range(<<>>) = {}
  BY DEF Range

\* The datagrams among no frame, and among one.
LEMMA EmittedNone ==
    ASSUME NEW i, i.frames_out = <<>>
    PROVE  Emitted(i) = <<>>
<1> DEFINE o == Only(i.frames_out, {f \in Range(i.frames_out) : f.type = "IPv4"})
           x == [k \in DOMAIN o |-> [dgram |-> o[k].payload, eth |-> o[k].dst]]
<1>1. o = <<>>
  BY OnlyEmpty
<1>2. Emitted(i) = x
  BY DEF Emitted
<1> HIDE DEF o
<1>3. x = <<>>
  BY <1>1
<1> QED
  BY <1>2, <1>3

LEMMA EmittedOne ==
    ASSUME NEW i, NEW f, i.frames_out = <<f>>
    PROVE  Emitted(i) = IF f.type = "IPv4" THEN <<[dgram |-> f.payload, eth |-> f.dst]>> ELSE <<>>
<1> DEFINE S == {g \in Range(i.frames_out) : g.type = "IPv4"}
           o == Only(i.frames_out, S)
           x == [k \in DOMAIN o |-> [dgram |-> o[k].payload, eth |-> o[k].dst]]
<1>0. Emitted(i) = x
  BY DEF Emitted
<1>1. S = IF f.type = "IPv4" THEN {f} ELSE {}
  BY OneFrame
<1>2. <<f>> \in Seq({f})
  OBVIOUS
<1>3. CASE f.type = "IPv4"
  <2>1. S = {f}
    BY <1>1, <1>3
  <2> HIDE DEF S
  <2>2. o = <<f>>
    BY <1>2, <2>1, OnlyAll, Zenon
  <2> HIDE DEF o
  <2>3. x = <<[dgram |-> f.payload, eth |-> f.dst]>>
    BY <2>2
  <2> QED
    BY <1>0, <1>3, <2>3
<1>4. CASE f.type # "IPv4"
  <2>1. S = {}
    BY <1>1, <1>4
  <2> HIDE DEF S
  <2>2. o = <<>>
    BY <1>2, <2>1, OnlyNone, Zenon
  <2> HIDE DEF o
  <2>3. x = <<>>
    BY <2>2
  <2> QED
    BY <1>0, <1>4, <2>3
<1> QED
  BY <1>3, <1>4

\* The datagrams among frames that all carry one, and with another frame after them.
LEMMA EmittedAll ==
    ASSUME NEW i, i.frames_out \in Seq(Range(i.frames_out)),
           \A f \in Range(i.frames_out) : f.type = "IPv4"
    PROVE  Emitted(i) = [k \in DOMAIN i.frames_out |->
                           [dgram |-> i.frames_out[k].payload, eth |-> i.frames_out[k].dst]]
<1> DEFINE S == {f \in Range(i.frames_out) : f.type = "IPv4"}
           o == Only(i.frames_out, S)
<1>1. Range(i.frames_out) \subseteq S
  OBVIOUS
<1>2. Emitted(i) = [k \in DOMAIN o |-> [dgram |-> o[k].payload, eth |-> o[k].dst]]
  BY DEF Emitted
<1> HIDE DEF S
<1>3. o = i.frames_out
  BY <1>1, OnlyAll
<1> QED
  BY <1>2, <1>3

LEMMA EmittedAppend ==
    ASSUME NEW i, NEW j, NEW f, i.frames_out \in Seq(Range(i.frames_out)),
           j.frames_out = Append(i.frames_out, f), f.type # "IPv4"
    PROVE  Emitted(j) = Emitted(i)
<1> DEFINE q == i.frames_out
           r == j.frames_out
           T == Range(q) \cup {f}
           S(s) == {g \in Range(s) : g.type = "IPv4"}
<1>1. q \in Seq(T) /\ f \in T
  OBVIOUS
<1>2. Range(r) = T
  <2>1. q \in Seq(Range(q)) /\ r = Append(q, f)
    OBVIOUS
  <2> HIDE DEF q, r
  <2>2. DOMAIN q = 1 .. Len(q) /\ Len(q) \in Nat
    BY <2>1
  <2>3. /\ DOMAIN r = 1 .. Len(q) + 1 /\ r[Len(q) + 1] = f
        /\ \A k \in 1 .. Len(q) : r[k] = q[k]
    BY <2>1
  <2> QED
    BY <2>2, <2>3 DEF Range
<1>3. S(r) = S(q)
  BY <1>2
<1>4. Only(r, S(q)) = Only(q, S(q))
  <2>1. f \notin S(q)
    OBVIOUS
  <2> HIDE DEF S, T, q
  <2>2. r = Append(q, f)
    BY DEF q
  <2> HIDE DEF r
  <2> QED
    BY <1>1, <2>1, <2>2, OnlyAppend
<1>5. Only(r, S(r)) = Only(q, S(q))
  BY <1>3, <1>4, Zenon
<1> HIDE DEF q, r, S
<1>6. /\ Emitted(j) = [k \in DOMAIN Only(r, S(r)) |->
                        [dgram |-> Only(r, S(r))[k].payload, eth |-> Only(r, S(r))[k].dst]]
      /\ Emitted(i) = [k \in DOMAIN Only(q, S(q)) |->
                        [dgram |-> Only(q, S(q))[k].payload, eth |-> Only(q, S(q))[k].dst]]
  BY DEF Emitted, q, r, S
<1> QED
  BY <1>5, <1>6, Zenon

\* The fields of a record, and of one with a field changed.
LEMMA InterfaceFields ==
    ASSUME NEW f, NEW c, NEW p, NEW t, NEW m
    PROVE  /\ Interface(f, c, p, t, m).ethernet_address = Me.eth
           /\ Interface(f, c, p, t, m).ip_address = Me.ip
           /\ Interface(f, c, p, t, m).frames_out = f
           /\ Interface(f, c, p, t, m).arp_cache = c
           /\ Interface(f, c, p, t, m).pending_datagrams = p
           /\ Interface(f, c, p, t, m).arp_request_timeouts = t
           /\ Interface(f, c, p, t, m).current_time = m
           /\ HasTables(Interface(f, c, p, t, m), c, t, m)
  BY DEF Interface, IsInterface, HasTables

LEMMA InterfaceUpdates ==
    ASSUME NEW f, NEW c, NEW p, NEW t, NEW m, NEW x
    PROVE  /\ [Interface(f, c, p, t, m) EXCEPT !.frames_out = x] = Interface(x, c, p, t, m)
           /\ [Interface(f, c, p, t, m) EXCEPT !.arp_cache = x] = Interface(f, x, p, t, m)
           /\ [Interface(f, c, p, t, m) EXCEPT !.pending_datagrams = x] = Interface(f, c, x, t, m)
           /\ [Interface(f, c, p, t, m) EXCEPT !.arp_request_timeouts = x] = Interface(f, c, p, x, m)
           /\ [Interface(f, c, p, t, m) EXCEPT !.current_time = x] = Interface(f, c, p, t, x)
  BY DEF Interface

\* send_datagram asks at most for the next hop, and notes when.
Asks(i, hop) == hop \notin DOMAIN i.arp_cache /\ MustAsk(i, hop)

LEMMA SendTables ==
    ASSUME NEW c, NEW p, NEW t, NEW m, NEW dgram, NEW hop
    PROVE  LET i == Interface(<<>>, c, p, t, m)
               j == send_datagram(i, dgram, hop)
           IN  /\ HasTables(j, c, IF Asks(i, hop) THEN Put(t, hop, m) ELSE t, m)
               /\ Requests(j) = IF Asks(i, hop) THEN {hop} ELSE {}
               /\ hop \in DOMAIN c => /\ Emitted(j) = <<[dgram |-> dgram, eth |-> c[hop].eth]>>
                                      /\ j.pending_datagrams = p
               /\ hop \notin DOMAIN c =>
                    /\ Emitted(j) = <<>>
                    /\ j.pending_datagrams = Append(p, [ip |-> hop, dgram |-> dgram])
<1> DEFINE I == Interface(<<>>, c, p, t, m)
           Waits == [ip |-> hop, dgram |-> dgram]
           J == send_datagram(I, dgram, hop)
<1>0. /\ I.arp_cache = c /\ I.frames_out = <<>> /\ I.pending_datagrams = p
      /\ I.arp_request_timeouts = t /\ I.current_time = m
  BY InterfaceFields
<1>1. CASE hop \in DOMAIN c
  <2> DEFINE F == _make_frame(I, c[hop].eth, "IPv4", dgram)
  <2>1. F.type = "IPv4" /\ F.payload = dgram /\ F.dst = c[hop].eth
    BY DEF _make_frame
  <2> HIDE DEF F
  <2>2. J = [I EXCEPT !.frames_out = Append(<<>>, F)]
    BY <1>0, <1>1 DEF send_datagram, EmitFrame, F
  <2>3. J = Interface(<<F>>, c, p, t, m)
    BY <2>2, InterfaceUpdates, OneFrame
  <2>4. Requests(J) = {}
    BY <2>1, <2>3, InterfaceFields, OneFrame DEF Requests
  <2>5. ~Asks(I, hop)
    BY <1>0, <1>1 DEF Asks
  <2>6. J.frames_out = <<F>> /\ J.pending_datagrams = p
    BY <2>3, InterfaceFields
  <2>7. Emitted(J) = <<[dgram |-> dgram, eth |-> c[hop].eth]>>
    BY <2>1, <2>6, EmittedOne
  <2>8. HasTables(J, c, t, m)
    BY <2>3, InterfaceFields
  <2> QED
    BY <1>1, <2>4, <2>5, <2>6, <2>7, <2>8
<1>2. CASE Asks(I, hop)
  <2> DEFINE F == _make_frame(I, ETHERNET_BROADCAST, "ARP",
                              ArpMessage("REQUEST", I.ethernet_address, I.ip_address, hop))
  <2>1. F.type = "ARP" /\ F.payload.opcode = "REQUEST" /\ F.payload.target_ip_address = hop
    BY DEF _make_frame, ArpMessage
  <2>2. hop \notin DOMAIN c /\ MustAsk(I, hop)
    BY <1>0, <1>2 DEF Asks
  <2> HIDE DEF F
  <2>3. Ask(I, hop) = Interface(<<F>>, c, p, Put(t, hop, m), m)
    <3>1. EmitFrame(I, ETHERNET_BROADCAST, "ARP",
                    ArpMessage("REQUEST", I.ethernet_address, I.ip_address, hop))
            = [I EXCEPT !.frames_out = Append(<<>>, F)]
      BY <1>0 DEF EmitFrame, F
    <3>2. [I EXCEPT !.frames_out = Append(<<>>, F)] = Interface(<<F>>, c, p, t, m)
      BY InterfaceUpdates, OneFrame
    <3>3. Ask(I, hop) = [Interface(<<F>>, c, p, t, m) EXCEPT
                            !.arp_request_timeouts = Put(t, hop, m)]
      BY <1>0, <3>1, <3>2, InterfaceFields DEF Ask
    <3> QED
      BY <3>3 DEF Interface
  <2>4. J = Interface(<<F>>, c, Append(p, Waits), Put(t, hop, m), m)
    <3>1. J = [Ask(I, hop) EXCEPT !.pending_datagrams = Append(@, Waits)]
      BY <1>0, <2>2 DEF send_datagram
    <3>2. Ask(I, hop).pending_datagrams = p
      BY <2>3, InterfaceFields
    <3>3. J = [Interface(<<F>>, c, p, Put(t, hop, m), m) EXCEPT !.pending_datagrams = Append(p, Waits)]
      BY <3>1, <3>2, <2>3
    <3> HIDE DEF J, Waits
    <3> QED
      BY <3>3, Zenon DEF Interface
  <2>5. Requests(J) = {hop}
    BY <2>1, <2>4, InterfaceFields, OneFrame DEF Requests
  <2>6. J.frames_out = <<F>> /\ J.pending_datagrams = Append(p, Waits)
    <3> HIDE DEF J, Waits
    <3> QED
      BY <2>4 DEF Interface
  <2>7. Emitted(J) = <<>>
    BY <2>1, <2>6, EmittedOne
  <2>8. HasTables(J, c, Put(t, hop, m), m)
    BY <2>4, InterfaceFields
  <2> QED
    BY <1>2, <2>2, <2>5, <2>6, <2>7, <2>8
<1>3. CASE hop \notin DOMAIN c /\ ~MustAsk(I, hop)
  <2>1. J = [I EXCEPT !.pending_datagrams = Append(p, Waits)]
    BY <1>0, <1>3 DEF send_datagram
  <2>2. J = Interface(<<>>, c, Append(p, Waits), t, m)
    <3> HIDE DEF J, Waits
    <3> QED
      BY <2>1, Zenon DEF Interface
  <2>3. Requests(J) = {}
    BY <2>2, InterfaceFields, NoFrame DEF Requests
  <2>4. ~Asks(I, hop)
    BY <1>3 DEF Asks
  <2>5. J.frames_out = <<>> /\ J.pending_datagrams = Append(p, Waits)
    <3> HIDE DEF J, Waits
    <3> QED
      BY <2>2 DEF Interface
  <2>6. Emitted(J) = <<>>
    BY <2>5, EmittedNone
  <2>7. HasTables(J, c, t, m)
    BY <2>2, InterfaceFields
  <2> QED
    BY <1>3, <2>3, <2>4, <2>5, <2>6, <2>7
<1> QED
  BY <1>0, <1>1, <1>2, <1>3 DEF Asks

\* recv_frame learns the sender's mapping, forgets that it was asked for, and sends
\* what waits for it.
On(p, ip) == {q \in Range(p) : q.ip = ip}

Rest(p, ip) == Only(p, Range(p) \ On(p, ip))

\* The frames for the datagrams of the queue p that wait for ip.
SentOn(p, ip, eth) ==
    LET waiting == Only(p, On(p, ip))
    IN  [k \in DOMAIN waiting |-> [dgram |-> waiting[k].dgram, eth |-> eth]]

Flushed(j, c, p, t, m, ip) ==
    /\ HasTables(j, c, t, m)
    /\ j.pending_datagrams = Rest(p, ip)
    /\ j.frames_out \in Seq(Range(j.frames_out))
    /\ Emitted(j) = SentOn(p, ip, c[ip].eth)

LEMMA PendingTables ==
    ASSUME NEW c, NEW T, NEW p \in Seq(T), NEW t, NEW m, NEW ip
    PROVE  Flushed(_send_pending_datagrams(Interface(<<>>, c, p, t, m), ip), c, p, t, m, ip)
<1> DEFINE I == Interface(<<>>, c, p, t, m)
           W == Only(p, On(p, ip))
           Frames == [k \in DOMAIN W |-> _make_frame(I, c[ip].eth, "IPv4", W[k].dgram)]
           Y == Only(p, Range(p) \ On(p, ip))
           J == _send_pending_datagrams(I, ip)
<1>0. I.frames_out = <<>> /\ I.pending_datagrams = p /\ I.arp_cache = c
  BY InterfaceFields
<1>1. WaitingOn(I, ip) = On(p, ip)
  BY <1>0 DEF WaitingOn, On
<1>2. J = [I EXCEPT !.frames_out = <<>> \o Frames, !.pending_datagrams = Y]
  <2> HIDE DEF I
  <2> QED
    BY <1>0, <1>1 DEF _send_pending_datagrams
<1>3. W \in Seq(T)
  <2>1. W \in Seq(T \cap On(p, ip))
    BY OnlyType
  <2> QED
    BY <2>1
<1>4. ASSUME NEW k \in DOMAIN W
      PROVE  /\ Frames[k].type = "IPv4" /\ Frames[k].payload = W[k].dgram
             /\ Frames[k].dst = c[ip].eth
  BY DEF _make_frame
<1>5. Frames \in Seq(Range(Frames)) /\ DOMAIN Frames = DOMAIN W
  <2> HIDE DEF W
  <2> DEFINE F(k) == _make_frame(I, c[ip].eth, "IPv4", W[k].dgram)
  <2>1. DOMAIN W = 1 .. Len(W) /\ Len(W) \in Nat
    BY <1>3
  <2> HIDE DEF F
  <2>2. Frames = [k \in 1 .. Len(W) |-> F(k)]
    BY <2>1 DEF F
  <2> HIDE DEF Frames
  <2> QED
    BY <2>1, <2>2 DEF Range
<1>6. \A g \in Range(Frames) : g.type = "IPv4"
  BY <1>4 DEF Range
<1> HIDE DEF Y, Frames
<1>7. <<>> \o Frames = Frames
  BY <1>5
<1>8. J = Interface(Frames, c, Y, t, m)
  <2> HIDE DEF J
  <2> QED
    BY <1>2, <1>7, Zenon DEF Interface
<1>9. HasTables(J, c, t, m) /\ J.pending_datagrams = Y /\ J.frames_out = Frames
  <2> HIDE DEF J
  <2> QED
    BY <1>8, InterfaceFields
<1>10. Emitted(J) = SentOn(p, ip, c[ip].eth)
  <2> HIDE DEF J, W
  <2>1. Emitted(J) = [k \in DOMAIN Frames |-> [dgram |-> Frames[k].payload, eth |-> Frames[k].dst]]
    BY <1>5, <1>6, <1>9, EmittedAll
  <2>2. Emitted(J) = [k \in DOMAIN W |-> [dgram |-> W[k].dgram, eth |-> c[ip].eth]]
    BY <1>4, <1>5, <2>1
  <2> QED
    BY <2>2 DEF SentOn, W
<1> HIDE DEF J
<1>11. J.frames_out \in Seq(Range(J.frames_out))
  BY <1>5, <1>9
<1>12. Flushed(J, c, p, t, m, ip)
  BY <1>9, <1>10, <1>11 DEF Flushed, Y, Rest
<1> QED
  BY <1>12 DEF J

LEMMA ReplyTables ==
    ASSUME NEW i, NEW c, NEW t, NEW m, HasTables(i, c, t, m), NEW msg,
           i.frames_out \in Seq(Range(i.frames_out))
    PROVE  /\ HasTables(ReplyIfAsked(i, msg), c, t, m)
           /\ ReplyIfAsked(i, msg).pending_datagrams = i.pending_datagrams
           /\ Emitted(ReplyIfAsked(i, msg)) = Emitted(i)
<1> DEFINE f == _make_frame(i, msg.sender_ethernet_address, "ARP",
                  ArpMessage("REPLY", i.ethernet_address, i.ip_address, msg.sender_ip_address))
           X == Append(i.frames_out, f)
           J == ReplyIfAsked(i, msg)
<1>1. J = i \/ J = [i EXCEPT !.frames_out = X]
  BY DEF ReplyIfAsked, EmitFrame
<1>2. i = Interface(i.frames_out, c, i.pending_datagrams, t, m)
  BY DEF HasTables, IsInterface
<1>3. f.type = "ARP"
  BY DEF _make_frame
<1> HIDE DEF J, f
<1>4. CASE J = i
  BY <1>4 DEF J
<1>5. CASE J = [i EXCEPT !.frames_out = X]
  <2>1. J = Interface(X, c, i.pending_datagrams, t, m)
    <3> HIDE DEF X
    <3> QED
      BY <1>2, <1>5 DEF Interface
  <2>2. HasTables(J, c, t, m) /\ J.pending_datagrams = i.pending_datagrams /\ J.frames_out = X
    <3> HIDE DEF X
    <3> QED
      BY <2>1, InterfaceFields
  <2>3. Emitted(J) = Emitted(i)
    BY <1>3, <2>2, EmittedAppend
  <2> QED
    BY <2>2, <2>3 DEF J
<1> QED
  BY <1>1, <1>4, <1>5

\* What recv_frame makes of an interface, when it takes the message or not.
Heard(j, c, p, t, m, takes, ip, eth) ==
    /\ HasTables(j, IF takes THEN Put(c, ip, [eth |-> eth, time |-> m]) ELSE c,
                 IF takes THEN Drop(t, {ip}) ELSE t, m)
    /\ j.pending_datagrams = IF takes THEN Rest(p, ip) ELSE p
    /\ Emitted(j) = IF takes THEN SentOn(p, ip, eth) ELSE <<>>

LEMMA RecvTables ==
    ASSUME NEW c, NEW W, NEW p \in Seq(W), NEW t, NEW m, NEW frame
    PROVE  LET i == Interface(<<>>, c, p, t, m)
           IN  Heard(recv_frame(i, frame), c, p, t, m, Accepts(i, frame, "ARP"),
                     frame.payload.sender_ip_address, frame.payload.sender_ethernet_address)
<1> DEFINE I == Interface(<<>>, c, p, t, m)
           msg == frame.payload
           ip == msg.sender_ip_address
           eth == msg.sender_ethernet_address
           entry == [eth |-> eth, time |-> m]
           C == Put(c, ip, entry)
           T == Drop(t, {ip})
           L == Learn(I, ip, eth)
           known == Accepts(I, frame, "ARP")
           S == _send_pending_datagrams(L, ip)
           J == recv_frame(I, frame)
<1>1. CASE known
  <2>1. L = [I EXCEPT !.arp_cache = C, !.arp_request_timeouts = T]
    <3>1. I.arp_cache = c /\ I.arp_request_timeouts = t /\ I.current_time = m
      BY InterfaceFields
    <3> HIDE DEF I
    <3> QED
      BY <3>1 DEF Learn
  <2>2. L = Interface(<<>>, C, p, T, m)
    <3> HIDE DEF L, C, T
    <3> QED
      BY <2>1, Zenon DEF Interface
  <2>3. C[ip].eth = eth
    <3>1. C[ip] = entry
      BY DEF Put
    <3> HIDE DEF C
    <3> QED
      BY <3>1
  <2>4. /\ HasTables(S, C, T, m) /\ S.pending_datagrams = Rest(p, ip)
        /\ S.frames_out \in Seq(Range(S.frames_out)) /\ Emitted(S) = SentOn(p, ip, C[ip].eth)
    <3>1. Flushed(_send_pending_datagrams(Interface(<<>>, C, p, T, m), ip), C, p, T, m, ip)
      <4> HIDE DEF C, T, ip
      <4> QED
        BY PendingTables
    <3>2. Flushed(S, C, p, T, m, ip)
      BY <2>2, <3>1
    <3> HIDE DEF C, T, ip, S
    <3> QED
      BY <3>2 DEF Flushed
  <2>5. J = ReplyIfAsked(S, msg)
    BY <1>1 DEF recv_frame
  <2> HIDE DEF S, C, T, msg
  <2>6. /\ HasTables(J, C, T, m) /\ J.pending_datagrams = S.pending_datagrams
        /\ Emitted(J) = Emitted(S)
    BY <2>4, <2>5, ReplyTables
  <2> HIDE DEF J, known
  <2>7. /\ HasTables(J, IF known THEN C ELSE c, IF known THEN T ELSE t, m)
        /\ J.pending_datagrams = IF known THEN Rest(p, ip) ELSE p
        /\ Emitted(J) = IF known THEN SentOn(p, ip, eth) ELSE <<>>
    BY <1>1, <2>3, <2>4, <2>6
  <2> QED
    BY <2>7 DEF J, known, C, T, msg, Heard
<1>2. CASE ~known
  <2>1. J = I
    BY <1>2 DEF recv_frame
  <2>2. HasTables(I, c, t, m) /\ I.pending_datagrams = p /\ I.frames_out = <<>>
    BY InterfaceFields
  <2>3. Emitted(I) = <<>>
    <3> HIDE DEF I
    <3> QED
      BY <2>2, EmittedNone
  <2> HIDE DEF J, known, C, T
  <2>4. /\ HasTables(J, IF known THEN C ELSE c, IF known THEN T ELSE t, m)
        /\ J.pending_datagrams = IF known THEN Rest(p, ip) ELSE p
        /\ Emitted(J) = IF known THEN SentOn(p, ip, eth) ELSE <<>>
    BY <1>2, <2>1, <2>2, <2>3
  <2> QED
    BY <2>4 DEF J, known, C, T, Heard
<1> QED
  BY <1>1, <1>2

\* tick drops what has become too old.
LEMMA TickTables ==
    ASSUME NEW c, NEW p, NEW t, NEW m
    PROVE  LET j == NetworkInterface_tick(Interface(<<>>, c, p, t, m), 1)
           IN  /\ HasTables(j, Restrict(c, {a \in DOMAIN c : (m + 1) - c[a].time <= CACHE_TIMEOUT}),
                            t, m + 1)
               /\ j.pending_datagrams = p /\ Emitted(j) = <<>>
<1> DEFINE I == Interface(<<>>, c, p, t, m)
           L == [I EXCEPT !.current_time = @ + 1]
           C == Restrict(c, {a \in DOMAIN c : (m + 1) - c[a].time <= CACHE_TIMEOUT})
           J == NetworkInterface_tick(I, 1)
<1>1. L = Interface(<<>>, c, p, t, m + 1)
  BY DEF Interface
<1>2. J = [L EXCEPT !.arp_cache = C]
  <2>1. J = _remove_expired_cache(L)
    BY DEF NetworkInterface_tick
  <2>2. L.arp_cache = c /\ L.current_time = m + 1
    BY <1>1, InterfaceFields
  <2> HIDE DEF L, J
  <2> QED
    BY <2>1, <2>2 DEF _remove_expired_cache
<1> HIDE DEF J, C
<1>3. J = Interface(<<>>, C, p, t, m + 1)
  BY <1>1, <1>2, Zenon DEF Interface
<1>4. HasTables(J, C, t, m + 1) /\ J.pending_datagrams = p /\ J.frames_out = <<>>
  BY <1>3, InterfaceFields
<1>5. Emitted(J) = <<>>
  BY <1>4, EmittedNone
<1> QED
  BY <1>4, <1>5 DEF J, C

\* The owner takes the frames, and nothing else.
LEMMA OutTables ==
    ASSUME NEW i, NEW c, NEW t, NEW m, HasTables(i, c, t, m), Out(i)
    PROVE  /\ HasTables(ni', c, t, m) /\ ni'.frames_out = <<>>
           /\ ni'.pending_datagrams = i.pending_datagrams /\ wire' = wire \o Emitted(i)
<1>1. i = Interface(i.frames_out, c, i.pending_datagrams, t, m)
  BY DEF HasTables, IsInterface
<1>2. ni' = Interface(<<>>, c, i.pending_datagrams, t, m)
  BY <1>1 DEF Out, Interface
<1>3. wire' = wire \o Emitted(i)
  BY DEF Out
<1> QED
  BY <1>2, <1>3, InterfaceFields

-----------------------------------------------------------------------------
(* The queues.                                                             *)

\* The datagrams of a history H that are for hop, those that wait for one of the
\* queue p, and those on the wire w.
For(H, hop) == {d \in DOMAIN H : H[d] = hop}
Numbers(H) == [k \in DOMAIN H |-> k]
Pending(H) == {p \in [ip : Neighbour, dgram : DOMAIN H] : H[p.dgram] = p.ip}
Frame(H) == [dgram : DOMAIN H, eth : NeighbourEth]
Sent(H, w, hop) == Only(Dgrams(w), For(H, hop))
Waiting(p, hop) == Dgrams(Only(p, On(p, hop)))
Handed(H, hop) == Only(Numbers(H), For(H, hop))
FifoAt(H, w, p, hop) == Sent(H, w, hop) \o Waiting(p, hop) = Handed(H, hop)

\* The numbers of the datagrams in a queue.
LEMMA DgramsType ==
    ASSUME NEW T, NEW D, NEW q \in Seq(T), \A x \in T : x.dgram \in D
    PROVE  Dgrams(q) \in Seq(D) /\ Len(Dgrams(q)) = Len(q)
<1>1. DOMAIN q = 1 .. Len(q) /\ Len(q) \in Nat /\ \A k \in 1 .. Len(q) : q[k] \in T
  OBVIOUS
<1>2. Dgrams(q) = [k \in 1 .. Len(q) |-> q[k].dgram]
  BY <1>1 DEF Dgrams
<1>3. \A k \in 1 .. Len(q) : q[k].dgram \in D
  BY <1>1
<1> QED
  BY <1>1, <1>2, <1>3

LEMMA DgramsAppend ==
    ASSUME NEW T, NEW q \in Seq(T), NEW x \in T
    PROVE  Dgrams(Append(q, x)) = Append(Dgrams(q), x.dgram)
<1> DEFINE D == {y.dgram : y \in T}
           r == Append(q, x)
           u == Dgrams(r)
           v == Append(Dgrams(q), x.dgram)
<1>1. r \in Seq(T) /\ Len(r) = Len(q) + 1 /\ Len(q) \in Nat /\ r[Len(q) + 1] = x
  OBVIOUS
<1>2. DOMAIN q = 1 .. Len(q) /\ DOMAIN r = 1 .. Len(q) + 1 /\ \A k \in 1 .. Len(q) : r[k] = q[k]
  OBVIOUS
<1>3. x.dgram \in D /\ \A y \in T : y.dgram \in D
  OBVIOUS
<1> HIDE DEF r, D
<1>4. /\ u \in Seq(D) /\ Len(u) = Len(r)
      /\ Dgrams(q) \in Seq(D) /\ Len(Dgrams(q)) = Len(q)
  BY <1>1, <1>3, DgramsType, Zenon
<1>5. /\ \A k \in 1 .. Len(q) + 1 : u[k] = r[k].dgram
      /\ \A k \in 1 .. Len(q) : Dgrams(q)[k] = q[k].dgram
  BY <1>2 DEF Dgrams
<1>6. /\ v \in Seq(D) /\ Len(v) = Len(q) + 1 /\ v[Len(q) + 1] = x.dgram
      /\ \A k \in 1 .. Len(q) : v[k] = Dgrams(q)[k]
  BY <1>3, <1>4
<1> HIDE DEF u, v
<1>7. \A k \in 1 .. Len(q) + 1 : u[k] = v[k]
  BY <1>1, <1>2, <1>5, <1>6
<1>8. u = v
  BY <1>1, <1>4, <1>6, <1>7
<1> QED
  BY <1>8 DEF u, v, r

LEMMA DgramsConcat ==
    ASSUME NEW T, NEW q \in Seq(T), NEW r \in Seq(T)
    PROVE  Dgrams(q \o r) = Dgrams(q) \o Dgrams(r)
<1> DEFINE P == {p \in Seq(T) : Dgrams(q \o p) = Dgrams(q) \o Dgrams(p)}
           D == {y.dgram : y \in T}
<1>0. ASSUME NEW p \in Seq(T) PROVE Dgrams(p) \in Seq(D)
  <2>1. \A y \in T : y.dgram \in D
    OBVIOUS
  <2> HIDE DEF D
  <2> QED
    BY <2>1, DgramsType
<1>1. <<>> \in P
  <2>1. q \o <<>> = q /\ <<>> \in Seq(T) /\ Dgrams(<<>>) = <<>>
    BY DEF Dgrams
  <2>2. Dgrams(q) \o <<>> = Dgrams(q)
    BY <1>0
  <2> QED
    BY <2>1, <2>2, Zenon
<1>2. ASSUME NEW p \in Seq(T), NEW x \in T, p \in P PROVE Append(p, x) \in P
  <2> DEFINE u == Dgrams(q)
             v == Dgrams(p)
  <2>1. q \o p \in Seq(T) /\ Append(p, x) \in Seq(T) /\ q \o Append(p, x) = Append(q \o p, x)
    OBVIOUS
  <2>2. Dgrams(q \o p) = u \o v
    BY <1>2
  <2>3. Dgrams(Append(q \o p, x)) = Append(Dgrams(q \o p), x.dgram)
    BY <2>1, DgramsAppend, Zenon
  <2>4. Dgrams(Append(p, x)) = Append(v, x.dgram)
    BY DgramsAppend
  <2>5. u \in Seq(D) /\ v \in Seq(D) /\ x.dgram \in D
    BY <1>0
  <2> HIDE DEF u, v, D
  <2>6. u \o Append(v, x.dgram) = Append(u \o v, x.dgram)
    BY <2>5
  <2>7. Dgrams(q \o Append(p, x)) = u \o Dgrams(Append(p, x))
    BY <2>1, <2>2, <2>3, <2>4, <2>6, Zenon
  <2> QED
    BY <2>1, <2>7, Zenon DEF u
<1> HIDE DEF P
<1>3. r \in P
  BY <1>1, <1>2, SeqInd
<1> QED
  BY <1>3 DEF P

AtHop(T, hop) == {x \in T : x.ip = hop}

\* Who waits for hop, when the elements of the queue are known to be in T.
LEMMA OnTyped ==
    ASSUME NEW T, NEW p \in Seq(T), NEW hop
    PROVE  /\ Only(p, On(p, hop)) = Only(p, AtHop(T, hop))
           /\ Only(p, Range(p) \ On(p, hop)) = Only(p, T \ AtHop(T, hop))
<1> DEFINE R == Range(p)
<1>1. p \in Seq(R) /\ R \subseteq T
  BY DEF Range
<1>2. \A x \in R : x \in On(p, hop) <=> x \in AtHop(T, hop)
  BY <1>1 DEF On, AtHop
<1>3. \A x \in R : x \in R \ On(p, hop) <=> x \in T \ AtHop(T, hop)
  BY <1>1 DEF On, AtHop
<1> DEFINE A == AtHop(T, hop)
           B == T \ AtHop(T, hop)
           C == R \ On(p, hop)
<1>4. Only(p, On(p, hop)) = Only(p, A)
  <2> HIDE DEF R, A
  <2> QED
    BY <1>1, <1>2, OnlySame DEF A
<1>5. Only(p, C) = Only(p, B)
  <2> HIDE DEF R, B, C
  <2> QED
    BY <1>1, <1>3, OnlySame DEF B, C
<1> QED
  BY <1>4, <1>5

\* One datagram more is handed over.
LEMMA HandedMore ==
    ASSUME NEW H \in Seq(Neighbour), NEW hop \in Neighbour, NEW h
    PROVE  LET n == Len(H) + 1
               G == Append(H, hop)
           IN  /\ n \in For(G, h) <=> h = hop
               /\ \A d \in DOMAIN H : d \in For(G, h) <=> d \in For(H, h)
               /\ Handed(H, h) \in Seq(DOMAIN H)
               /\ Handed(G, h) = IF h = hop THEN Append(Handed(H, h), n) ELSE Handed(H, h)
<1> DEFINE n == Len(H) + 1
           G == Append(H, hop)
           N == Numbers(H)
<1>1. /\ G \in Seq(Neighbour) /\ Len(H) \in Nat /\ DOMAIN H = 1 .. Len(H) /\ DOMAIN G = 1 .. n
      /\ G[n] = hop /\ \A d \in 1 .. Len(H) : G[d] = H[d]
  OBVIOUS
<1>2. n \in For(G, h) <=> h = hop
  BY <1>1 DEF For
<1>3. \A d \in 1 .. Len(H) : d \in For(G, h) <=> d \in For(H, h)
  <2> HIDE DEF G
  <2> QED
    BY <1>1 DEF For
<1>4. N \in Seq(1 .. Len(H)) /\ N \in Seq(1 .. n) /\ Numbers(G) = Append(N, n)
  <2> HIDE DEF G
  <2>1. N = [k \in 1 .. Len(H) |-> k] /\ Numbers(G) = [k \in 1 .. Len(H) + 1 |-> k]
    BY <1>1 DEF Numbers
  <2> QED
    BY <1>1, <2>1
<1>5. Only(N, For(G, h)) = Only(N, For(H, h))
  <2> DEFINE K == 1 .. Len(H)
  <2>1. N \in Seq(K) /\ \A d \in K : d \in For(G, h) <=> d \in For(H, h)
    BY <1>3, <1>4
  <2> HIDE DEF G, N, K
  <2> QED
    BY <2>1, OnlySame
<1>6. Only(Numbers(G), For(G, h)) = IF n \in For(G, h) THEN Append(Only(N, For(G, h)), n)
                                    ELSE Only(N, For(G, h))
  <2> DEFINE K == 1 .. n
             E == For(G, h)
  <2>1. n \in K /\ N \in Seq(K) /\ Numbers(G) = Append(N, n)
    BY <1>1, <1>4
  <2> HIDE DEF G, N, n, K, E
  <2>2. Only(Append(N, n), E) = IF n \in E THEN Append(Only(N, E), n) ELSE Only(N, E)
    BY <2>1, OnlyAppend
  <2> QED
    BY <2>1, <2>2 DEF E
<1>7. Only(N, For(H, h)) \in Seq(1 .. Len(H))
  <2>1. Only(N, For(H, h)) \in Seq((1 .. Len(H)) \cap For(H, h))
    <3> HIDE DEF N
    <3> QED
      BY <1>4, OnlyType
  <2> QED
    BY <2>1
<1>8. Handed(G, h) = IF h = hop THEN Append(Handed(H, h), n) ELSE Handed(H, h)
  <2> HIDE DEF G, n
  <2> QED
    BY <1>2, <1>5, <1>6 DEF Handed
<1>9. Handed(H, h) \in Seq(DOMAIN H)
  BY <1>1, <1>7 DEF Handed
<1>10. \A d \in DOMAIN H : d \in For(G, h) <=> d \in For(H, h)
  BY <1>1, <1>3
<1> HIDE DEF G, n
<1> QED
  BY <1>2, <1>8, <1>9, <1>10 DEF G, n

\* What was sent and what waits are numbers of the history.
LEMMA QueuesType ==
    ASSUME NEW H \in Seq(Neighbour), NEW w \in Seq(Frame(H)), NEW p \in Seq(Pending(H)), NEW h
    PROVE  /\ Dgrams(w) \in Seq(DOMAIN H) /\ Sent(H, w, h) \in Seq(DOMAIN H)
           /\ Waiting(p, h) \in Seq(DOMAIN H)
<1>1. Dgrams(w) \in Seq(DOMAIN H)
  <2>1. \A x \in Frame(H) : x.dgram \in DOMAIN H
    BY DEF Frame
  <2> QED
    BY <2>1, DgramsType
<1>2. Sent(H, w, h) \in Seq(DOMAIN H)
  <2>1. Only(Dgrams(w), For(H, h)) \in Seq(DOMAIN H \cap For(H, h))
    BY <1>1, OnlyType
  <2> QED
    BY <2>1 DEF Sent
<1>3. Waiting(p, h) \in Seq(DOMAIN H)
  <2>1. Only(p, On(p, h)) \in Seq(Pending(H) \cap On(p, h))
    BY OnlyType
  <2>2. \A x \in Pending(H) \cap On(p, h) : x.dgram \in DOMAIN H
    BY DEF Pending
  <2> QED
    BY <2>1, <2>2, DgramsType DEF Waiting
<1> QED
  BY <1>1, <1>2, <1>3

\* A datagram that is handed over is sent, when nothing waits for its hop.
LEMMA FifoSend ==
    ASSUME NEW H \in Seq(Neighbour), NEW w \in Seq(Frame(H)), NEW p \in Seq(Pending(H)),
           NEW hop \in Neighbour, NEW x, x.dgram = Len(H) + 1, NEW h,
           \A k \in DOMAIN p : p[k].ip # hop, FifoAt(H, w, p, h)
    PROVE  FifoAt(Append(H, hop), Append(w, x), p, h)
<1> DEFINE n == Len(H) + 1
           G == Append(H, hop)
           v == Append(w, x)
           u == Dgrams(w)
           F == For(H, h)
           E == For(G, h)
<1>0. Sent(H, w, h) \o Waiting(p, h) = Handed(H, h)
  BY DEF FifoAt
<1>1. /\ n \in E <=> h = hop
      /\ \A d \in DOMAIN H : d \in E <=> d \in F
      /\ Handed(H, h) \in Seq(DOMAIN H)
      /\ Handed(G, h) = IF h = hop THEN Append(Handed(H, h), n) ELSE Handed(H, h)
  BY HandedMore
<1>2. u \in Seq(DOMAIN H) /\ Sent(H, w, h) \in Seq(DOMAIN H) /\ Waiting(p, h) \in Seq(DOMAIN H)
  BY QueuesType
<1>3. Dgrams(v) = Append(u, n)
  <2> DEFINE K == Frame(H) \cup {x}
  <2>1. w \in Seq(K) /\ x \in K
    OBVIOUS
  <2> HIDE DEF K
  <2> QED
    BY <2>1, DgramsAppend
<1> HIDE DEF u, E, F
<1>4. Only(u, E) = Sent(H, w, h)
  <2>1. Only(u, E) = Only(u, F)
    BY <1>1, <1>2, OnlySame
  <2> QED
    BY <2>1 DEF Sent, u, F
<1>5. Only(Append(u, n), E) = IF n \in E THEN Append(Only(u, E), n) ELSE Only(u, E)
  <2> HIDE DEF n
  <2> DEFINE K == DOMAIN H \cup {n}
  <2>1. u \in Seq(K) /\ n \in K
    BY <1>2
  <2> HIDE DEF K
  <2> QED
    BY <2>1, OnlyAppend
<1>6. Sent(G, v, h) = IF h = hop THEN Append(Sent(H, w, h), n) ELSE Sent(H, w, h)
  <2>1. Sent(G, v, h) = Only(Append(u, n), E)
    BY <1>3 DEF Sent, E
  <2> HIDE DEF n, G, v
  <2> QED
    BY <1>1, <1>4, <1>5, <2>1
<1>7. h = hop => Waiting(p, h) = <<>>
  <2> SUFFICES ASSUME h = hop PROVE Waiting(p, h) = <<>>
    OBVIOUS
  <2>1. On(p, h) = {}
    BY DEF On, Range
  <2>2. Only(p, On(p, h)) = <<>>
    BY <2>1, OnlyNone
  <2> QED
    BY <2>2 DEF Waiting, Dgrams
<1> HIDE DEF n, G, v
<1>8. Sent(G, v, h) \o Waiting(p, h) = Handed(G, h)
  <2>1. CASE h = hop
    <3> DEFINE z == Sent(H, w, h)
    <3>1. z \o <<>> = z
      BY <1>2
    <3>2. Append(z, n) \o <<>> = Append(z, n)
      <4>1. z \in Seq(DOMAIN H \cup {n})
        BY <1>2
      <4> HIDE DEF z
      <4> QED
        BY <4>1
    <3> QED
      BY <1>0, <1>1, <1>6, <1>7, <2>1, <3>1, <3>2
  <2>2. CASE h # hop
    BY <1>0, <1>1, <1>6, <2>2
  <2> QED
    BY <2>1, <2>2
<1> QED
  BY <1>8 DEF G, v, FifoAt

\* A datagram that is handed over waits.
LEMMA FifoWait ==
    ASSUME NEW H \in Seq(Neighbour), NEW w \in Seq(Frame(H)), NEW p \in Seq(Pending(H)),
           NEW hop \in Neighbour, NEW x, x.ip = hop, x.dgram = Len(H) + 1, NEW h,
           FifoAt(H, w, p, h)
    PROVE  FifoAt(Append(H, hop), w, Append(p, x), h)
<1> DEFINE n == Len(H) + 1
           G == Append(H, hop)
           r == Append(p, x)
           u == Dgrams(w)
           F == For(H, h)
           E == For(G, h)
           T == Pending(H) \cup {x}
           A == AtHop(T, h)
           o == Only(p, A)
<1>0. Sent(H, w, h) \o Waiting(p, h) = Handed(H, h)
  BY DEF FifoAt
<1>1. /\ n \in E <=> h = hop
      /\ \A d \in DOMAIN H : d \in E <=> d \in F
      /\ Handed(H, h) \in Seq(DOMAIN H)
      /\ Handed(G, h) = IF h = hop THEN Append(Handed(H, h), n) ELSE Handed(H, h)
  BY HandedMore
<1>2. u \in Seq(DOMAIN H) /\ Sent(H, w, h) \in Seq(DOMAIN H) /\ Waiting(p, h) \in Seq(DOMAIN H)
  BY QueuesType
<1>3. Sent(G, w, h) = Sent(H, w, h)
  <2> HIDE DEF u, E, F
  <2>1. Only(u, E) = Only(u, F)
    BY <1>1, <1>2, OnlySame
  <2> QED
    BY <2>1 DEF Sent, u, E, F
<1>4. p \in Seq(T) /\ x \in T /\ r \in Seq(T)
  OBVIOUS
<1>5. x \in A <=> h = hop
  BY <1>4 DEF AtHop
<1> HIDE DEF T, r
<1>6. Only(p, On(p, h)) = o /\ Only(r, On(r, h)) = Only(r, A)
  BY <1>4, OnTyped, Zenon
<1> HIDE DEF A
<1>7. Only(r, A) = IF x \in A THEN Append(o, x) ELSE o
  BY <1>4, OnlyAppend DEF r
<1>8. o \in Seq(T)
  <2>1. o \in Seq(T \cap A)
    BY <1>4, OnlyType
  <2> QED
    BY <2>1
<1> HIDE DEF o
<1>9. Dgrams(Append(o, x)) = Append(Dgrams(o), n)
  BY <1>4, <1>8, DgramsAppend
<1>10. Waiting(r, h) = IF h = hop THEN Append(Waiting(p, h), n) ELSE Waiting(p, h)
  BY <1>5, <1>6, <1>7, <1>9, Zenon DEF Waiting
<1> HIDE DEF G, n
<1>11. Sent(G, w, h) \o Waiting(r, h) = Handed(G, h)
  <2>1. CASE h = hop
    <3> DEFINE y == Sent(H, w, h)
               z == Waiting(p, h)
    <3>1. y \o Append(z, n) = Append(y \o z, n)
      <4>1. y \in Seq(DOMAIN H \cup {n}) /\ z \in Seq(DOMAIN H \cup {n})
        BY <1>2
      <4> HIDE DEF y, z
      <4> QED
        BY <4>1
    <3> QED
      BY <1>0, <1>1, <1>3, <1>10, <2>1, <3>1, Zenon
  <2>2. CASE h # hop
    BY <1>0, <1>1, <1>3, <1>10, <2>2
  <2> QED
    BY <2>1, <2>2
<1> QED
  BY <1>11 DEF G, r, FifoAt

\* The datagrams that wait for ip are sent.
LEMMA SentOnType ==
    ASSUME NEW H \in Seq(Neighbour), NEW p \in Seq(Pending(H)),
           NEW ip \in Neighbour, NEW eth \in NeighbourEth
    PROVE  /\ SentOn(p, ip, eth) \in Seq([dgram : For(H, ip), eth : {eth}])
           /\ SentOn(p, ip, eth) \in Seq(Frame(H))
           /\ Dgrams(SentOn(p, ip, eth)) = Waiting(p, ip)
           /\ Waiting(p, ip) \in Seq(For(H, ip))
<1> DEFINE W == Only(p, On(p, ip))
           A == {x \in Pending(H) : x.ip = ip}
           s == SentOn(p, ip, eth)
<1>1. W \in Seq(A)
  <2>1. W \in Seq(Pending(H) \cap On(p, ip))
    BY OnlyType
  <2>2. Pending(H) \cap On(p, ip) \subseteq A
    BY DEF On
  <2> QED
    BY <2>1, <2>2
<1>2. \A x \in A : x.dgram \in For(H, ip)
  BY DEF Pending, For
<1> HIDE DEF W, A
<1>3. Dgrams(W) \in Seq(For(H, ip))
  BY <1>1, <1>2, DgramsType
<1>4. DOMAIN W = 1 .. Len(W) /\ Len(W) \in Nat /\ \A k \in 1 .. Len(W) : W[k].dgram \in For(H, ip)
  BY <1>1, <1>2
<1>5. s = [k \in 1 .. Len(W) |-> [dgram |-> W[k].dgram, eth |-> eth]]
  BY <1>4 DEF SentOn, W
<1>6. s \in Seq([dgram : For(H, ip), eth : {eth}]) /\ s \in Seq(Frame(H))
  <2> DEFINE X == [dgram : For(H, ip), eth : {eth}]
             e(k) == [dgram |-> W[k].dgram, eth |-> eth]
  <2>1. \A k \in 1 .. Len(W) : e(k) \in X
    BY <1>4
  <2>2. X \subseteq Frame(H)
    BY DEF Frame, For
  <2> HIDE DEF X, e
  <2>3. s = [k \in 1 .. Len(W) |-> e(k)]
    BY <1>5 DEF e
  <2> HIDE DEF s
  <2>4. s \in Seq(X)
    BY <1>4, <2>1, <2>3
  <2>5. s \in Seq(Frame(H))
    BY <2>2, <2>4
  <2> QED
    BY <2>4, <2>5 DEF X
<1>7. Dgrams(s) = Dgrams(W)
  <2> HIDE DEF s
  <2>1. DOMAIN s = DOMAIN W /\ \A k \in DOMAIN W : s[k].dgram = W[k].dgram
    BY <1>4, <1>5
  <2> QED
    BY <2>1 DEF Dgrams
<1> QED
  BY <1>3, <1>6, <1>7 DEF Waiting, W

LEMMA FifoHear ==
    ASSUME NEW H \in Seq(Neighbour), NEW w \in Seq(Frame(H)), NEW p \in Seq(Pending(H)),
           NEW ip \in Neighbour, NEW eth \in NeighbourEth, NEW h,
           FifoAt(H, w, p, h)
    PROVE  FifoAt(H, w \o SentOn(p, ip, eth), Rest(p, ip), h)
<1> DEFINE s == SentOn(p, ip, eth)
           u == Dgrams(w)
           v == Waiting(p, ip)
           F == For(H, h)
           P == Pending(H)
           B == P \ AtHop(P, ip)
           A == AtHop(P, h)
           Y == Rest(p, ip)
<1>0. Sent(H, w, h) \o Waiting(p, h) = Handed(H, h)
  BY DEF FifoAt
<1>1. s \in Seq(Frame(H)) /\ Dgrams(s) = v /\ v \in Seq(For(H, ip))
  BY SentOnType, Zenon
<1>2. u \in Seq(DOMAIN H) /\ Sent(H, w, h) \in Seq(DOMAIN H) /\ Waiting(p, h) \in Seq(DOMAIN H)
  BY QueuesType
<1>3. v \in Seq(DOMAIN H)
  BY QueuesType
<1>4. Dgrams(w \o s) = u \o v
  <2> HIDE DEF s, v
  <2> QED
    BY <1>1, DgramsConcat, Zenon
<1>5. Sent(H, w \o s, h) = Sent(H, w, h) \o Only(v, F)
  <2> DEFINE K == DOMAIN H
  <2>0. u \in Seq(K) /\ v \in Seq(K)
    BY <1>2, <1>3
  <2> HIDE DEF s, u, v, F, K
  <2>1. Only(u \o v, F) = Only(u, F) \o Only(v, F)
    BY <2>0, OnlyConcat
  <2> QED
    BY <1>4, <2>1 DEF Sent, u, F
<1>6. Y = Only(p, B) /\ Only(p, On(p, h)) = Only(p, A)
  BY OnTyped, Zenon DEF Rest
<1>7. Y \in Seq(P)
  <2>1. Y \in Seq(P \cap (Range(p) \ On(p, ip)))
    BY OnlyType DEF Rest
  <2> QED
    BY <2>1
<1>8. Only(Y, On(Y, h)) = Only(p, B \cap A)
  <2>1. Only(Y, On(Y, h)) = Only(Y, A)
    <3> HIDE DEF Y
    <3> QED
      BY <1>7, OnTyped, Zenon
  <2> HIDE DEF A, B, Y
  <2>2. Only(Y, A) = Only(p, B \cap A)
    BY <1>6, OnlyOnly
  <2> QED
    BY <2>1, <2>2
<1>9. CASE h = ip
  <2>1. Only(v, F) = v
    <3> HIDE DEF v
    <3> QED
      BY <1>1, <1>9, OnlyAll
  <2>2. B \cap A = {}
    BY <1>9 DEF AtHop
  <2>3. Waiting(Y, h) = <<>>
    <3> HIDE DEF A, B, Y
    <3>1. Only(p, B \cap A) = <<>>
      BY <2>2, OnlyNone
    <3>2. Dgrams(<<>>) = <<>>
      BY DEF Dgrams
    <3> QED
      BY <1>8, <3>1, <3>2 DEF Waiting
  <2> DEFINE z == Sent(H, w, h) \o v
  <2>4. z \in Seq(DOMAIN H)
    BY <1>2, <1>3
  <2> HIDE DEF z
  <2>5. z \o <<>> = z
    BY <2>4
  <2>6. z = Handed(H, h) /\ Sent(H, w \o s, h) = z
    BY <1>0, <1>5, <1>9, <2>1 DEF z
  <2> HIDE DEF Y, s
  <2>7. Sent(H, w \o s, h) \o Waiting(Y, h) = Handed(H, h)
    BY <2>3, <2>5, <2>6
  <2> QED
    BY <2>7 DEF Y, s, FifoAt
<1>10. CASE h # ip
  <2>1. Only(v, F) = <<>>
    <3>1. For(H, ip) \cap F = {}
      BY <1>10 DEF For
    <3> HIDE DEF v, F
    <3> QED
      BY <1>1, <3>1, OnlyNone
  <2>2. Only(p, B \cap A) = Only(p, A)
    <3>1. \A x \in P : x \in B \cap A <=> x \in A
      BY <1>10 DEF AtHop
    <3> HIDE DEF A, B
    <3> QED
      BY <3>1, OnlySame
  <2>3. Waiting(Y, h) = Waiting(p, h)
    <3> HIDE DEF A, B, Y
    <3> QED
      BY <1>6, <1>8, <2>2 DEF Waiting
  <2>4. Sent(H, w, h) \o <<>> = Sent(H, w, h)
    BY <1>2
  <2> HIDE DEF Y, s
  <2>5. Sent(H, w \o s, h) \o Waiting(Y, h) = Handed(H, h)
    BY <1>0, <1>5, <2>1, <2>3, <2>4
  <2> QED
    BY <2>5 DEF Y, s, FifoAt
<1> QED
  BY <1>9, <1>10

-----------------------------------------------------------------------------
(* What a step does to the queues.                                         *)

Queued ==
    /\ handed \in Seq(Neighbour)
    /\ wire \in Seq(Frame(handed))
    /\ ni.pending_datagrams \in Seq(Pending(handed))
    /\ \A k \in DOMAIN ni.pending_datagrams :
          /\ ni.pending_datagrams[k].ip \notin DOMAIN ni.arp_cache
          /\ asked[ni.pending_datagrams[k].ip] # <<>>

QInv == IInv /\ Queued /\ FifoPerHop

LEMMA FifoMeans ==
    /\ FifoPerHop <=> \A hop \in Neighbour : FifoAt(handed, wire, ni.pending_datagrams, hop)
    /\ FifoPerHop' <=> \A hop \in Neighbour : FifoAt(handed', wire', ni'.pending_datagrams, hop)
  BY DEF FifoPerHop, FifoAt, Sent, Waiting, Handed, SentTo, WaitingFor, HandedFor, DgramsFor,
         For, Numbers, WaitingOn, On

LEMMA SendQueues ==
    ASSUME IInv, wire \in Seq(Frame(handed)), NEW hop \in Neighbour, Send(hop)
    PROVE  LET n == Len(handed) + 1
               c == ni.arp_cache
           IN  /\ handed' = Append(handed, hop) /\ heard' = heard
               /\ ni'.arp_cache = c /\ ni'.current_time = ni.current_time
               /\ hop \in DOMAIN c =>
                    /\ wire' = Append(wire, [dgram |-> n, eth |-> c[hop].eth])
                    /\ ni'.pending_datagrams = ni.pending_datagrams
               /\ hop \notin DOMAIN c =>
                    /\ wire' = wire /\ asked'[hop] # <<>>
                    /\ ni'.pending_datagrams
                         = Append(ni.pending_datagrams, [ip |-> hop, dgram |-> n])
               /\ \A a \in Neighbour : asked[a] # <<>> => asked'[a] # <<>>
<1> DEFINE c == ni.arp_cache
           p == ni.pending_datagrams
           t == ni.arp_request_timeouts
           m == ni.current_time
           n == Len(handed) + 1
           j == send_datagram(ni, n, hop)
           T == IF Asks(ni, hop) THEN Put(t, hop, m) ELSE t
           x == [dgram |-> n, eth |-> c[hop].eth]
           r == Append(p, [ip |-> hop, dgram |-> n])
<1>0. /\ ni = Interface(<<>>, c, p, t, m) /\ m \in Nat
      /\ asked \in [Neighbour -> Seq(Nat)]
  BY DEF IInv, Types, IsInterface
<1>1. /\ HasTables(j, c, T, m)
      /\ Requests(j) = IF Asks(ni, hop) THEN {hop} ELSE {}
      /\ hop \in DOMAIN c => Emitted(j) = <<x>> /\ j.pending_datagrams = p
      /\ hop \notin DOMAIN c => Emitted(j) = <<>> /\ j.pending_datagrams = r
  <2> HIDE DEF c, p, t, m, n
  <2> QED
    BY <1>0, SendTables
<1>2. /\ Out(j) /\ heard' = heard /\ handed' = Append(handed, hop)
      /\ asked' = [a \in Neighbour |-> IF a \in Requests(j) THEN Append(asked[a], m) ELSE asked[a]]
  BY DEF Send
<1> HIDE DEF c, p, t, m, n, j, T, x, r
<1>3. /\ HasTables(ni', c, T, m) /\ ni'.pending_datagrams = j.pending_datagrams
      /\ wire' = wire \o Emitted(j)
  BY <1>1, <1>2, OutTables
<1>4. ni'.arp_cache = c /\ ni'.current_time = m
  BY <1>3 DEF HasTables
<1>5. wire \o <<>> = wire /\ wire \o <<x>> = Append(wire, x)
  OBVIOUS
<1>6. ASSUME NEW a \in Neighbour
      PROVE  (asked[a] # <<>> \/ a \in Requests(j)) => asked'[a] # <<>>
  <2>1. asked[a] \in Seq(Nat)
    BY <1>0
  <2> DEFINE z == Append(asked[a], m)
  <2>2. Len(z) = Len(asked[a]) + 1 /\ Len(asked[a]) \in Nat
    BY <1>0, <2>1
  <2> HIDE DEF z
  <2>3. z # <<>>
    BY <2>2
  <2>4. asked'[a] = IF a \in Requests(j) THEN z ELSE asked[a]
    BY <1>2 DEF z
  <2> QED
    BY <2>3, <2>4
<1>7. hop \notin DOMAIN c => asked'[hop] # <<>>
  <2> SUFFICES ASSUME hop \notin DOMAIN c PROVE asked'[hop] # <<>>
    OBVIOUS
  <2>1. CASE Asks(ni, hop)
    BY <1>1, <1>6, <2>1
  <2>2. CASE ~Asks(ni, hop)
    <3>1. hop \in DOMAIN t
      BY <2>2 DEF Asks, MustAsk, c, t
    <3>2. asked[hop] # <<>>
      BY <3>1 DEF IInv, Recorded, t
    <3> QED
      BY <1>6, <3>2
  <2> QED
    BY <2>1, <2>2
<1>8. hop \in DOMAIN c => wire' = Append(wire, x) /\ ni'.pending_datagrams = p
  BY <1>1, <1>3, <1>5, Zenon
<1>9. hop \notin DOMAIN c => wire' = wire /\ ni'.pending_datagrams = r
  BY <1>1, <1>3, <1>5, Zenon
<1> QED
  BY <1>2, <1>4, <1>6, <1>7, <1>8, <1>9 DEF c, p, m, n, x, r

\* What a message does, when it is taken or not.
HearStep(ip, eth, takes) ==
    /\ handed' = handed /\ ni'.frames_out = <<>>
    /\ HasTables(ni', IF takes THEN Put(ni.arp_cache, ip, [eth |-> eth, time |-> ni.current_time])
                      ELSE ni.arp_cache,
                 IF takes THEN Drop(ni.arp_request_timeouts, {ip}) ELSE ni.arp_request_timeouts,
                 ni.current_time)
    /\ ni'.pending_datagrams = IF takes THEN Rest(ni.pending_datagrams, ip)
                               ELSE ni.pending_datagrams
    /\ wire' = IF takes THEN wire \o SentOn(ni.pending_datagrams, ip, eth) ELSE wire
    /\ asked' = IF takes THEN [asked EXCEPT ![ip] = <<>>] ELSE asked
    /\ heard' = IF takes THEN Put(heard, ip, [eth |-> eth, time |-> ni.current_time]) ELSE heard

LEMMA HearQueues ==
    ASSUME IInv, Queued, NEW ip \in Neighbour, NEW eth \in NeighbourEth, NEW opcode, NEW target,
           NEW dst, NEW valid \in BOOLEAN, Hear(ip, eth, opcode, target, dst, valid)
    PROVE  \E takes \in BOOLEAN : HearStep(ip, eth, takes)
<1> DEFINE c == ni.arp_cache
           p == ni.pending_datagrams
           t == ni.arp_request_timeouts
           m == ni.current_time
           frame == [dst |-> dst, src |-> eth, type |-> "ARP", valid |-> valid,
                     payload |-> ArpMessage(opcode, eth, ip, target)]
           known == valid /\ dst \in {Me.eth, ETHERNET_BROADCAST}
           entry == [eth |-> eth, time |-> m]
           C == IF known THEN Put(c, ip, entry) ELSE c
           T == IF known THEN Drop(t, {ip}) ELSE t
           j == recv_frame(ni, frame)
           r == IF known THEN Rest(p, ip) ELSE p
           s == IF known THEN SentOn(p, ip, eth) ELSE <<>>
<1>0. ni = Interface(<<>>, c, p, t, m) /\ p \in Seq(Pending(handed))
  BY DEF IInv, Types, IsInterface, Queued
<1>1. HasTables(j, C, T, m) /\ j.pending_datagrams = r /\ Emitted(j) = s
  <2>1. /\ frame.payload.sender_ip_address = ip
        /\ frame.payload.sender_ethernet_address = eth
        /\ frame.dst = dst /\ frame.type = "ARP" /\ frame.valid = valid
    BY DEF ArpMessage
  <2>2. ni.ethernet_address = Me.eth
    BY <1>0 DEF Interface
  <2> HIDE DEF c, p, t, m, frame
  <2>3. known = Accepts(ni, frame, "ARP")
    BY <2>1, <2>2, Zenon DEF Accepts
  <2>4. Heard(j, c, p, t, m, Accepts(ni, frame, "ARP"),
              frame.payload.sender_ip_address, frame.payload.sender_ethernet_address)
    BY <1>0, RecvTables
  <2>5. Heard(j, c, p, t, m, known, ip, eth)
    BY <2>1, <2>3, <2>4
  <2> HIDE DEF j, known
  <2> QED
    BY <2>5 DEF Heard
<1>2. /\ Out(j) /\ handed' = handed
      /\ asked' = IF known THEN [asked EXCEPT ![ip] = <<>>] ELSE asked
      /\ heard' = IF known THEN Put(heard, ip, entry) ELSE heard
  BY DEF Hear
<1> HIDE DEF C, T, m, c, p, t, j, r, s, known, entry
<1>3. /\ HasTables(ni', C, T, m) /\ ni'.frames_out = <<>> /\ ni'.pending_datagrams = r
      /\ wire' = wire \o s
  BY <1>1, <1>2, OutTables, Zenon
<1>4. wire' = IF known THEN wire \o SentOn(p, ip, eth) ELSE wire
  <2>1. wire \o <<>> = wire
    BY DEF Queued
  <2> QED
    BY <1>3, <2>1, Zenon DEF s
<1>5. HearStep(ip, eth, known)
  BY <1>2, <1>3, <1>4 DEF HearStep, C, T, r, c, p, t, m, entry
<1>6. known \in BOOLEAN
  BY DEF known
<1> QED
  BY <1>5, <1>6

-----------------------------------------------------------------------------
(* The invariant is inductive.                                             *)

LEMMA InitIInv == Init => IInv
<1> SUFFICES ASSUME Init PROVE IInv
  OBVIOUS
<1>1. ni = Interface(<<>>, [a \in {} |-> 0], <<>>, [a \in {} |-> 0], 0)
  BY DEF Init, NewInterface, Interface
<1>2. /\ IsInterface(ni) /\ ni.frames_out = <<>> /\ ni.current_time = 0
      /\ ni.arp_cache = [a \in {} |-> 0] /\ ni.arp_request_timeouts = [a \in {} |-> 0]
  BY <1>1, InterfaceFields DEF HasTables
<1>3. Types
  BY <1>2 DEF Init, Types, MapTo
<1>4. Recorded /\ RequestsSpaced /\ CacheIsFresh
  BY <1>2 DEF Init, Recorded, RequestsSpaced, CacheIsFresh
<1> QED
  BY <1>3, <1>4 DEF IInv

\* Appending to a sequence of times that is spaced.
LEMMA AppendTime ==
    ASSUME NEW s \in Seq(Nat), NEW n \in Nat,
           \A k \in 2 .. Len(s) : s[k] - s[k - 1] > REQUEST_TIMEOUT,
           s # <<>> => n - s[Len(s)] > REQUEST_TIMEOUT
    PROVE  /\ Append(s, n) \in Seq(Nat) /\ Append(s, n) # <<>>
           /\ Append(s, n)[Len(Append(s, n))] = n
           /\ \A k \in 2 .. Len(Append(s, n)) :
                 Append(s, n)[k] - Append(s, n)[k - 1] > REQUEST_TIMEOUT
<1>1. Len(Append(s, n)) = Len(s) + 1 /\ Len(s) \in Nat /\ Append(s, n) \in Seq(Nat)
  OBVIOUS
<1>2. Append(s, n)[Len(s) + 1] = n /\ \A k \in 1 .. Len(s) : Append(s, n)[k] = s[k]
  OBVIOUS
<1>3. ASSUME NEW k \in 2 .. Len(s) + 1
      PROVE  Append(s, n)[k] - Append(s, n)[k - 1] > REQUEST_TIMEOUT
  <2>1. CASE k = Len(s) + 1
    <3>1. Len(s) \in 1 .. Len(s) /\ s # <<>>
      BY <1>1, <2>1
    <3>2. Append(s, n)[k] = n /\ Append(s, n)[k - 1] = s[Len(s)]
      BY <1>1, <1>2, <2>1, <3>1
    <3> QED
      BY <3>1, <3>2
  <2>2. CASE k \in 2 .. Len(s)
    <3>1. k \in 1 .. Len(s) /\ k - 1 \in 1 .. Len(s)
      BY <1>1, <2>2
    <3> QED
      BY <1>2, <2>2, <3>1
  <2> QED
    BY <1>1, <2>1, <2>2
<1>4. Append(s, n) # <<>>
  <2> DEFINE z == Append(s, n)
  <2>1. Len(z) = Len(s) + 1 /\ Len(s) \in Nat
    BY <1>1
  <2> HIDE DEF z
  <2>2. z # <<>>
    BY <2>1
  <2> QED
    BY <2>2 DEF z
<1> QED
  BY <1>1, <1>2, <1>3, <1>4

LEMMA SendIInv ==
    ASSUME IInv, NEW hop \in Neighbour, Send(hop)
    PROVE  IInv'
<1> DEFINE c == ni.arp_cache
           p == ni.pending_datagrams
           t == ni.arp_request_timeouts
           m == ni.current_time
           d == Len(handed) + 1
           T == IF Asks(ni, hop) THEN Put(t, hop, m) ELSE t
<1>0. /\ ni = Interface(<<>>, c, p, t, m) /\ m \in Nat
      /\ MapTo(c, Mapping) /\ MapTo(t, Nat) /\ MapTo(heard, Mapping)
      /\ asked \in [Neighbour -> Seq(Nat)]
  BY DEF IInv, Types, IsInterface
<1>1. /\ HasTables(send_datagram(ni, d, hop), c, T, m)
      /\ Requests(send_datagram(ni, d, hop)) = IF Asks(ni, hop) THEN {hop} ELSE {}
  <2> HIDE DEF c, p, t, m, d
  <2> QED
    BY <1>0, SendTables, Zenon
<1>2. /\ HasTables(ni', c, T, m) /\ ni'.frames_out = <<>>
      /\ asked' = [a \in Neighbour |-> IF a = hop /\ Asks(ni, hop)
                                        THEN Append(asked[a], m) ELSE asked[a]]
      /\ heard' = heard
  <2>1. Out(send_datagram(ni, d, hop)) /\ heard' = heard
    BY DEF Send
  <2>2. asked' = [a \in Neighbour |-> IF a \in Requests(send_datagram(ni, d, hop))
                                       THEN Append(asked[a], m) ELSE asked[a]]
    BY DEF Send
  <2> HIDE DEF c, t, m, d, T
  <2> QED
    BY <1>1, <2>1, <2>2, OutTables
<1>3. /\ IsInterface(ni)' /\ ni'.arp_cache = c /\ ni'.arp_request_timeouts = T
      /\ ni'.current_time = m
  BY <1>2 DEF HasTables, IsInterface
<1>4. CacheIsFresh'
  BY <1>2, <1>3 DEF IInv, CacheIsFresh
<1>5. CASE ~Asks(ni, hop)
  <2>1. asked' = asked /\ T = t
    BY <1>0, <1>2, <1>5
  <2>2. Types'
    BY <1>0, <1>2, <1>3, <2>1 DEF Types
  <2>3. Recorded' /\ RequestsSpaced'
    BY <1>3, <2>1 DEF IInv, Recorded, RequestsSpaced
  <2> QED
    BY <1>4, <2>2, <2>3 DEF IInv
<1>6. CASE Asks(ni, hop)
  <2>1. asked[hop] # <<>> => m - asked[hop][Len(asked[hop])] > REQUEST_TIMEOUT
    BY <1>6 DEF IInv, Recorded, Asks, MustAsk
  <2>2. \A k \in 2 .. Len(asked[hop]) : asked[hop][k] - asked[hop][k - 1] > REQUEST_TIMEOUT
    BY DEF IInv, RequestsSpaced
  <2>3. asked[hop] \in Seq(Nat)
    BY <1>0
  <2> DEFINE s == Append(asked[hop], m)
  <2>4. /\ s \in Seq(Nat) /\ s # <<>> /\ s[Len(s)] = m
        /\ \A k \in 2 .. Len(s) : s[k] - s[k - 1] > REQUEST_TIMEOUT
    <3> HIDE DEF m
    <3> QED
      BY <1>0, <2>1, <2>2, <2>3, AppendTime
  <2>5. asked'[hop] = s /\ \A a \in Neighbour \ {hop} : asked'[a] = asked[a]
    BY <1>2, <1>6
  <2>6. asked' \in [Neighbour -> Seq(Nat)]
    <3> HIDE DEF s
    <3>1. \A a \in Neighbour : asked'[a] \in Seq(Nat)
      BY <1>0, <2>4, <2>5, Zenon
    <3>2. asked' = [a \in Neighbour |-> asked'[a]]
      BY <1>2
    <3> QED
      BY <3>1, <3>2
  <2>7. /\ MapTo(T, Nat) /\ DOMAIN T = DOMAIN t \cup {hop} /\ T[hop] = m
        /\ \A a \in DOMAIN t \ {hop} : T[a] = t[a]
    <3>1. T = Put(t, hop, m)
      BY <1>6
    <3> HIDE DEF t, m, T
    <3>0. MapTo(t, Nat) /\ m \in Nat
      BY <1>0
    <3>2. /\ MapTo(Put(t, hop, m), Nat)
          /\ DOMAIN Put(t, hop, m) = DOMAIN t \cup {hop}
          /\ Put(t, hop, m)[hop] = m
          /\ \A a \in DOMAIN t \ {hop} : Put(t, hop, m)[a] = t[a]
      BY <3>0 DEF Put, MapTo
    <3> QED
      BY <3>1, <3>2, Zenon
  <2> HIDE DEF T, s
  <2>8. Types'
    BY <1>0, <1>2, <1>3, <2>6, <2>7 DEF Types
  <2>9. RequestsSpaced'
    BY <2>4, <2>5, Zenon DEF IInv, RequestsSpaced
  <2>10. Recorded'
    BY <1>3, <2>4, <2>5, <2>7 DEF IInv, Recorded
  <2> QED
    BY <1>4, <2>8, <2>9, <2>10 DEF IInv
<1> QED
  BY <1>5, <1>6

LEMMA HearIInv ==
    ASSUME IInv, NEW ip \in Neighbour, NEW eth \in NeighbourEth, NEW known \in BOOLEAN,
           HearStep(ip, eth, known)
    PROVE  IInv'
<1> DEFINE c == ni.arp_cache
           t == ni.arp_request_timeouts
           m == ni.current_time
           entry == [eth |-> eth, time |-> m]
           C == IF known THEN Put(c, ip, entry) ELSE c
           T == IF known THEN Drop(t, {ip}) ELSE t
<1>0. /\ m \in Nat
      /\ MapTo(c, Mapping) /\ MapTo(t, Nat) /\ MapTo(heard, Mapping)
      /\ asked \in [Neighbour -> Seq(Nat)]
  BY DEF IInv, Types
<1>2. /\ HasTables(ni', C, T, m) /\ ni'.frames_out = <<>>
      /\ asked' = IF known THEN [asked EXCEPT ![ip] = <<>>] ELSE asked
      /\ heard' = IF known THEN Put(heard, ip, entry) ELSE heard
  BY DEF HearStep
<1>3. /\ IsInterface(ni)' /\ ni'.arp_cache = C /\ ni'.arp_request_timeouts = T
      /\ ni'.current_time = m
  BY <1>2 DEF HasTables, IsInterface
<1>5. CASE ~known
  <2>1. C = c /\ T = t /\ asked' = asked /\ heard' = heard
    BY <1>2, <1>5
  <2>2. Types'
    BY <1>0, <1>2, <1>3, <2>1 DEF Types
  <2>3. Recorded' /\ RequestsSpaced' /\ CacheIsFresh'
    BY <1>3, <2>1 DEF IInv, Recorded, RequestsSpaced, CacheIsFresh
  <2> QED
    BY <2>2, <2>3 DEF IInv
<1>6. CASE known
  <2>1. /\ C = Put(c, ip, entry) /\ T = Drop(t, {ip})
        /\ asked' = [asked EXCEPT ![ip] = <<>>] /\ heard' = Put(heard, ip, entry)
    BY <1>2, <1>6
  <2>2. entry \in Mapping /\ entry.time = m
    BY <1>0 DEF Mapping
  <2> HIDE DEF c, t, m, C, T, entry
  <2>3. /\ MapTo(C, Mapping) /\ DOMAIN C = DOMAIN c \cup {ip} /\ C[ip] = entry
        /\ \A a \in DOMAIN c \ {ip} : C[a] = c[a]
    BY <1>0, <2>1, <2>2 DEF Put, MapTo
  <2>4. /\ MapTo(heard', Mapping) /\ DOMAIN heard' = DOMAIN heard \cup {ip} /\ heard'[ip] = entry
        /\ \A a \in DOMAIN heard \ {ip} : heard'[a] = heard[a]
    BY <1>0, <2>1, <2>2 DEF Put, MapTo
  <2>5. /\ MapTo(T, Nat) /\ DOMAIN T = DOMAIN t \ {ip}
        /\ \A a \in DOMAIN T : T[a] = t[a]
    BY <1>0, <2>1 DEF Drop, Restrict, MapTo
  <2>6. /\ asked' \in [Neighbour -> Seq(Nat)] /\ asked'[ip] = <<>>
        /\ \A a \in Neighbour \ {ip} : asked'[a] = asked[a]
    BY <1>0, <2>1
  <2>7. Types'
    BY <1>0, <1>2, <1>3, <2>3, <2>4, <2>5, <2>6 DEF Types
  <2>8. RequestsSpaced'
    <3>1. RequestsSpaced
      BY DEF IInv
    <3> SUFFICES ASSUME NEW a \in Neighbour, NEW k \in 2 .. Len(asked'[a])
                 PROVE  asked'[a][k] - asked'[a][k - 1] > REQUEST_TIMEOUT
      BY DEF RequestsSpaced
    <3>2. CASE a = ip
      <4>1. Len(asked'[a]) = 0
        BY <2>6, <3>2
      <4> QED
        BY <4>1
    <3>3. CASE a # ip
      <4>1. asked'[a] = asked[a]
        BY <2>6, <3>3
      <4> QED
        BY <3>1, <4>1 DEF RequestsSpaced
    <3> QED
      BY <3>2, <3>3
  <2>9. Recorded'
    BY <1>3, <2>5, <2>6 DEF IInv, Recorded, t
  <2>10. CacheIsFresh'
    <3>1. m - entry.time <= CACHE_TIMEOUT
      BY <1>0, <2>2, InterfaceConstants
    <3>2. \A a \in DOMAIN c : a \in DOMAIN heard /\ c[a] = heard[a] /\ m - c[a].time <= CACHE_TIMEOUT
      BY DEF IInv, CacheIsFresh, c, m
    <3> QED
      BY <1>3, <2>3, <2>4, <3>1, <3>2 DEF CacheIsFresh
  <2> QED
    BY <2>7, <2>8, <2>9, <2>10 DEF IInv
<1> QED
  BY <1>5, <1>6

LEMMA TickIInv ==
    ASSUME IInv, Tick
    PROVE  IInv'
<1> DEFINE c == ni.arp_cache
           p == ni.pending_datagrams
           t == ni.arp_request_timeouts
           m == ni.current_time
           D == {a \in DOMAIN c : (m + 1) - c[a].time <= CACHE_TIMEOUT}
           C == Restrict(c, D)
<1>0. /\ ni = Interface(<<>>, c, p, t, m) /\ m \in Nat
      /\ MapTo(c, Mapping) /\ MapTo(t, Nat) /\ MapTo(heard, Mapping)
      /\ asked \in [Neighbour -> Seq(Nat)]
  BY DEF IInv, Types, IsInterface
<1>1. HasTables(ni', C, t, m + 1) /\ ni'.frames_out = <<>>
  <2>1. Out(NetworkInterface_tick(ni, 1))
    BY DEF Tick
  <2> HIDE DEF c, p, t, m
  <2>2. HasTables(NetworkInterface_tick(ni, 1), C, t, m + 1)
    BY <1>0, TickTables, Zenon
  <2> HIDE DEF C
  <2> QED
    BY <2>1, <2>2, OutTables
<1>2. /\ IsInterface(ni)' /\ ni'.arp_cache = C /\ ni'.arp_request_timeouts = t
      /\ ni'.current_time = m + 1 /\ asked' = asked /\ heard' = heard
  BY <1>1 DEF HasTables, IsInterface, Tick
<1>3. /\ MapTo(C, Mapping) /\ DOMAIN C = D
      /\ \A a \in D : C[a] = c[a]
  <2> HIDE DEF c, m
  <2> QED
    BY <1>0 DEF Restrict, MapTo
<1>4. Types'
  <2> HIDE DEF C
  <2> QED
    BY <1>0, <1>1, <1>2, <1>3 DEF Types
<1>5. Recorded' /\ RequestsSpaced'
  BY <1>2 DEF IInv, Recorded, RequestsSpaced
<1>6. CacheIsFresh'
  <2> HIDE DEF C
  <2> QED
    BY <1>2, <1>3 DEF IInv, CacheIsFresh
<1> QED
  BY <1>4, <1>5, <1>6 DEF IInv

\* The same histories, one datagram longer.
LEMMA MoreHanded ==
    ASSUME NEW H \in Seq(Neighbour), NEW hop \in Neighbour
    PROVE  LET n == Len(H) + 1
               G == Append(H, hop)
           IN  /\ G \in Seq(Neighbour) /\ G[n] = hop
               /\ Frame(H) \subseteq Frame(G) /\ Pending(H) \subseteq Pending(G)
               /\ \A eth \in NeighbourEth : [dgram |-> n, eth |-> eth] \in Frame(G)
               /\ [ip |-> hop, dgram |-> n] \in Pending(G)
<1> DEFINE n == Len(H) + 1
           G == Append(H, hop)
<1>1. /\ G \in Seq(Neighbour) /\ Len(H) \in Nat /\ DOMAIN H = 1 .. Len(H) /\ DOMAIN G = 1 .. n
      /\ n \in DOMAIN G /\ G[n] = hop /\ \A d \in 1 .. Len(H) : G[d] = H[d]
  OBVIOUS
<1> HIDE DEF G, n
<1>2. DOMAIN H \subseteq DOMAIN G
  BY <1>1 DEF n
<1>3. Frame(H) \subseteq Frame(G) /\ Pending(H) \subseteq Pending(G)
  BY <1>1, <1>2 DEF Frame, Pending
<1>4. /\ \A eth \in NeighbourEth : [dgram |-> n, eth |-> eth] \in Frame(G)
      /\ [ip |-> hop, dgram |-> n] \in Pending(G)
  BY <1>1 DEF Frame, Pending
<1> QED
  BY <1>1, <1>3, <1>4 DEF G, n

LEMMA InitQInv == Init => QInv
<1> SUFFICES ASSUME Init PROVE QInv
  OBVIOUS
<1>1. IInv
  BY InitIInv
<1>2. ni.pending_datagrams = <<>> /\ handed = <<>> /\ wire = <<>>
  BY DEF Init, NewInterface
<1>3. Queued
  <2>1. \A T : <<>> \in Seq(T)
    OBVIOUS
  <2>2. DOMAIN ni.pending_datagrams = {}
    BY <1>2
  <2> QED
    BY <1>2, <2>1, <2>2 DEF Queued
<1>4. FifoPerHop
  <2> SUFFICES ASSUME NEW hop \in Neighbour
               PROVE  SentTo(hop) \o WaitingFor(hop) = HandedFor(hop)
    BY DEF FifoPerHop
  <2>1. Dgrams(<<>>) = <<>> /\ [k \in DOMAIN handed |-> k] = <<>>
    BY <1>2 DEF Dgrams
  <2>2. SentTo(hop) = <<>> /\ WaitingFor(hop) = <<>> /\ HandedFor(hop) = <<>>
    BY <1>2, <2>1, OnlyEmpty DEF SentTo, WaitingFor, HandedFor
  <2>3. <<>> \o <<>> = <<>>
    OBVIOUS
  <2> QED
    BY <2>2, <2>3
<1> QED
  BY <1>1, <1>3, <1>4 DEF QInv

LEMMA SendQInv ==
    ASSUME QInv, NEW hop \in Neighbour, Send(hop)
    PROVE  QInv'
<1> DEFINE c == ni.arp_cache
           p == ni.pending_datagrams
           n == Len(handed) + 1
           G == Append(handed, hop)
           x == [dgram |-> n, eth |-> c[hop].eth]
           y == [ip |-> hop, dgram |-> n]
<1>1. IInv'
  BY SendIInv DEF QInv
<1>2. /\ handed \in Seq(Neighbour) /\ wire \in Seq(Frame(handed)) /\ p \in Seq(Pending(handed))
      /\ \A k \in DOMAIN p : p[k].ip \notin DOMAIN c /\ asked[p[k].ip] # <<>>
      /\ \A h \in Neighbour : FifoAt(handed, wire, p, h)
  BY FifoMeans DEF QInv, Queued
<1>3. /\ handed' = G /\ ni'.arp_cache = c
      /\ hop \in DOMAIN c => wire' = Append(wire, x) /\ ni'.pending_datagrams = p
      /\ hop \notin DOMAIN c => /\ wire' = wire /\ asked'[hop] # <<>>
                                /\ ni'.pending_datagrams = Append(p, y)
      /\ \A a \in Neighbour : asked[a] # <<>> => asked'[a] # <<>>
  BY <1>2, SendQueues DEF QInv
<1>4. /\ G \in Seq(Neighbour) /\ Frame(handed) \subseteq Frame(G) /\ Pending(handed) \subseteq Pending(G)
      /\ \A eth \in NeighbourEth : [dgram |-> n, eth |-> eth] \in Frame(G)
      /\ y \in Pending(G)
  BY <1>2, MoreHanded
<1>5. \A k \in DOMAIN p : p[k].ip \in Neighbour
  BY <1>2 DEF Pending
<1>6. wire \in Seq(Frame(G)) /\ p \in Seq(Pending(G))
  BY <1>2, <1>4
<1>7. CASE hop \in DOMAIN c
  <2>1. c[hop].eth \in NeighbourEth
    BY <1>7 DEF QInv, IInv, Types, MapTo, Mapping
  <2>2. x \in Frame(G)
    BY <1>4, <2>1
  <2> HIDE DEF G, x, c, p
  <2>3. Append(wire, x) \in Seq(Frame(G))
    BY <1>6, <2>2
  <2>4. Queued'
    BY <1>2, <1>3, <1>4, <1>5, <1>6, <1>7, <2>3, Zenon DEF Queued
  <2>5. ASSUME NEW h \in Neighbour
        PROVE  FifoAt(G, Append(wire, x), p, h)
    <3>1. \A k \in DOMAIN p : p[k].ip # hop
      BY <1>2, <1>7
    <3>2. x.dgram = Len(handed) + 1
      BY DEF x
    <3> QED
      BY <1>2, <3>1, <3>2, FifoSend DEF G
  <2>6. FifoPerHop'
    <3>1. \A h \in Neighbour : FifoAt(handed', wire', ni'.pending_datagrams, h)
      BY <1>3, <1>7, <2>5, Zenon
    <3> QED
      BY <3>1, FifoMeans
  <2> QED
    BY <1>1, <2>4, <2>6 DEF QInv
<1>8. CASE hop \notin DOMAIN c
  <2> HIDE DEF G, y, c, p
  <2> DEFINE r == Append(p, y)
  <2>1. r \in Seq(Pending(G)) /\ y.ip = hop
    BY <1>4, <1>6 DEF y
  <2>2. \A k \in DOMAIN r : r[k] = y \/ \E i \in DOMAIN p : r[k] = p[i]
    BY <1>4, <1>6
  <2>3. \A k \in DOMAIN r : r[k].ip \notin DOMAIN c /\ asked'[r[k].ip] # <<>>
    <3> HIDE DEF r
    <3> QED
      BY <1>2, <1>3, <1>5, <1>8, <2>1, <2>2, Zenon
  <2> HIDE DEF r
  <2>4. Queued'
    BY <1>3, <1>4, <1>6, <1>8, <2>1, <2>3, Zenon DEF Queued, r
  <2>5. ASSUME NEW h \in Neighbour
        PROVE  FifoAt(G, wire, r, h)
    <3>1. y.dgram = Len(handed) + 1 /\ y.ip = hop
      BY DEF y
    <3> QED
      BY <1>2, <3>1, FifoWait DEF G, r
  <2>6. FifoPerHop'
    <3>1. \A h \in Neighbour : FifoAt(handed', wire', ni'.pending_datagrams, h)
      BY <1>3, <1>8, <2>5, Zenon DEF r
    <3> QED
      BY <3>1, FifoMeans
  <2> QED
    BY <1>1, <2>4, <2>6 DEF QInv
<1> QED
  BY <1>7, <1>8

LEMMA HearQInv ==
    ASSUME QInv, NEW ip \in Neighbour, NEW eth \in NeighbourEth, NEW opcode, NEW target,
           NEW dst, NEW valid \in BOOLEAN, Hear(ip, eth, opcode, target, dst, valid)
    PROVE  QInv'
<1>0. PICK known \in BOOLEAN : HearStep(ip, eth, known)
  BY HearQueues DEF QInv
<1> DEFINE c == ni.arp_cache
           p == ni.pending_datagrams
           entry == [eth |-> eth, time |-> ni.current_time]
           r == Rest(p, ip)
           s == SentOn(p, ip, eth)
<1>1. IInv'
  BY <1>0, HearIInv DEF QInv
<1>2. /\ handed \in Seq(Neighbour) /\ wire \in Seq(Frame(handed)) /\ p \in Seq(Pending(handed))
      /\ \A k \in DOMAIN p : p[k].ip \notin DOMAIN c /\ asked[p[k].ip] # <<>>
      /\ \A h \in Neighbour : FifoAt(handed, wire, p, h)
      /\ asked \in [Neighbour -> Seq(Nat)]
  BY FifoMeans, ZenonT(30) DEF QInv, Queued, IInv, Types
<1>3. /\ handed' = handed /\ ni'.arp_cache = IF known THEN Put(c, ip, entry) ELSE c
      /\ ni'.pending_datagrams = IF known THEN r ELSE p
      /\ wire' = IF known THEN wire \o s ELSE wire
      /\ asked' = IF known THEN [asked EXCEPT ![ip] = <<>>] ELSE asked
  BY <1>0, Zenon DEF HearStep, HasTables
<1>4. CASE ~known
  <2>1. Queued'
    BY <1>2, <1>3, <1>4 DEF Queued
  <2>2. FifoPerHop'
    <3>1. \A h \in Neighbour : FifoAt(handed', wire', ni'.pending_datagrams, h)
      BY <1>2, <1>3, <1>4
    <3> QED
      BY <3>1, FifoMeans
  <2> QED
    BY <1>1, <2>1, <2>2 DEF QInv
<1>5. CASE known
  <2>1. s \in Seq(Frame(handed))
    BY <1>2, SentOnType, Zenon
  <2>2. /\ r \in Seq(Pending(handed) \cap (Range(p) \ On(p, ip)))
        /\ \A k \in 1 .. Len(r) : \E i \in 1 .. Len(p) : r[k] = p[i]
    <3> DEFINE B == Range(p) \ On(p, ip)
    <3>1. r = Only(p, B)
      BY DEF Rest
    <3> HIDE DEF r, p, B
    <3>2. Only(p, B) \in Seq(Pending(handed) \cap B)
      BY <1>2, OnlyType
    <3>3. \A k \in 1 .. Len(Only(p, B)) : \E i \in 1 .. Len(p) : Only(p, B)[k] = p[i]
      BY <1>2, OnlyFrom
    <3> QED
      BY <3>1, <3>2, <3>3, Zenon DEF B
  <2> HIDE DEF s, r, c, p, entry
  <2>3. wire \o s \in Seq(Frame(handed)) /\ r \in Seq(Pending(handed))
    BY <1>2, <2>1, <2>2
  <2>4. ASSUME NEW k \in DOMAIN r
        PROVE  r[k].ip \notin DOMAIN Put(c, ip, entry) /\ asked'[r[k].ip] # <<>>
    <3>1. r[k] \in Pending(handed) /\ r[k] \in Range(p) /\ r[k] \notin On(p, ip) /\ k \in 1 .. Len(r)
      BY <2>2
    <3>2. PICK i \in 1 .. Len(p) : r[k] = p[i]
      BY <2>2, <3>1
    <3>3. r[k].ip # ip /\ r[k].ip \in Neighbour
      BY <3>1 DEF On, Pending
    <3>4. r[k].ip \notin DOMAIN c /\ asked[r[k].ip] # <<>>
      BY <1>2, <3>2
    <3>5. DOMAIN Put(c, ip, entry) = DOMAIN c \cup {ip}
      BY DEF Put
    <3>6. asked'[r[k].ip] = asked[r[k].ip]
      BY <1>2, <1>3, <1>5, <3>3
    <3> QED
      BY <3>3, <3>4, <3>5, <3>6
  <2>5. Queued'
    BY <1>2, <1>3, <1>5, <2>3, <2>4 DEF Queued
  <2>6. ASSUME NEW h \in Neighbour
        PROVE  FifoAt(handed, wire \o s, r, h)
    BY <1>2, FifoHear DEF s, r
  <2>7. FifoPerHop'
    <3>1. \A h \in Neighbour : FifoAt(handed', wire', ni'.pending_datagrams, h)
      BY <1>3, <1>5, <2>6
    <3> QED
      BY <3>1, FifoMeans
  <2> QED
    BY <1>1, <2>5, <2>7 DEF QInv
<1> QED
  BY <1>4, <1>5

LEMMA TickQueues ==
    ASSUME QInv, Tick
    PROVE  /\ handed' = handed /\ wire' = wire /\ asked' = asked
           /\ ni'.pending_datagrams = ni.pending_datagrams
           /\ DOMAIN ni'.arp_cache \subseteq DOMAIN ni.arp_cache
<1> DEFINE c == ni.arp_cache
           p == ni.pending_datagrams
           t == ni.arp_request_timeouts
           m == ni.current_time
           C == Restrict(c, {a \in DOMAIN c : (m + 1) - c[a].time <= CACHE_TIMEOUT})
           j == NetworkInterface_tick(ni, 1)
<1>0. ni = Interface(<<>>, c, p, t, m)
  BY DEF QInv, IInv, Types, IsInterface
<1>1. HasTables(j, C, t, m + 1) /\ j.pending_datagrams = p /\ Emitted(j) = <<>>
  <2> HIDE DEF c, p, t, m
  <2> QED
    BY <1>0, TickTables
<1>2. Out(j) /\ handed' = handed /\ asked' = asked
  BY DEF Tick
<1>3. DOMAIN C \subseteq DOMAIN c
  BY DEF Restrict
<1> HIDE DEF C, j
<1>4. /\ HasTables(ni', C, t, m + 1) /\ ni'.pending_datagrams = p /\ wire' = wire \o <<>>
  BY <1>1, <1>2, OutTables, Zenon
<1>5. wire \o <<>> = wire
  BY DEF QInv, Queued
<1> QED
  BY <1>2, <1>3, <1>4, <1>5 DEF HasTables

LEMMA TickQInv ==
    ASSUME QInv, Tick
    PROVE  QInv'
<1>1. IInv'
  BY TickIInv DEF QInv
<1>2. Queued'
  BY TickQueues DEF QInv, Queued
<1>3. FifoPerHop'
  <2>1. \A h \in Neighbour : FifoAt(handed', wire', ni'.pending_datagrams, h)
    BY TickQueues, FifoMeans DEF QInv
  <2> QED
    BY <2>1, FifoMeans
<1> QED
  BY <1>1, <1>2, <1>3 DEF QInv

LEMMA NextQInv == QInv /\ [Next]_vars => QInv'
<1> SUFFICES ASSUME QInv, [Next]_vars PROVE QInv'
  OBVIOUS
<1>1. CASE \E hop \in Neighbour : Send(hop)
  BY <1>1, SendQInv
<1>2. CASE \E ip \in Neighbour, eth \in NeighbourEth, opcode \in {"REQUEST", "REPLY"},
              target \in {Me.ip, "other_ip"}, dst \in {Me.eth, ETHERNET_BROADCAST, "other"},
              valid \in BOOLEAN : Hear(ip, eth, opcode, target, dst, valid)
  BY <1>2, HearQInv
<1>3. CASE Tick
  BY <1>3, TickQInv
<1>4. CASE UNCHANGED vars
  <2>1. ni' = ni /\ asked' = asked /\ heard' = heard /\ handed' = handed /\ wire' = wire
    BY <1>4 DEF vars
  <2>2. Types'
    BY <2>1 DEF QInv, IInv, Types, IsInterface
  <2>3. Recorded' /\ RequestsSpaced' /\ CacheIsFresh'
    BY <2>1 DEF QInv, IInv, Recorded, RequestsSpaced, CacheIsFresh
  <2>4. Queued' /\ FifoPerHop'
    BY <2>1, FifoMeans DEF QInv, Queued
  <2> QED
    BY <2>2, <2>3, <2>4 DEF QInv, IInv
<1> QED
  BY <1>1, <1>2, <1>3, <1>4 DEF Next

(***************************************************************************)
(* The tables of the interface, for every set of neighbours, every pair of *)
(* timeouts and every schedule: a neighbour that stays silent is asked for *)
(* again only after more than REQUEST_TIMEOUT, and a mapping that is in    *)
(* the cache is the last one announced and no older than CACHE_TIMEOUT     *)
(* (network_interface.cc:46-64, 93-101, 135-143).                          *)
(***************************************************************************)
THEOREM InterfaceTables == Spec => [](RequestsSpaced /\ CacheIsFresh)
<1>1. QInv => RequestsSpaced /\ CacheIsFresh
  BY DEF QInv, IInv
<1> QED
  BY <1>1, InitQInv, NextQInv, PTL DEF Spec

(***************************************************************************)
(* Every datagram handed to the interface is sent once, in its order, or   *)
(* waits in its order: whatever the neighbours announce, when they do and  *)
(* however their mappings expire (network_interface.cc:34-68, 103-109,     *)
(* 145-156).                                                               *)
(***************************************************************************)
THEOREM InterfaceFifo == Spec => []FifoPerHop
<1>1. QInv => FifoPerHop
  BY DEF QInv
<1> QED
  BY <1>1, InitQInv, NextQInv, PTL DEF Spec

(***************************************************************************)
(* No datagram is forgotten in the queue: one that waits is for a hop      *)
(* whose address is not known and that has been asked for since it was     *)
(* last heard of (network_interface.cc:39-66, 103-109).                    *)
(***************************************************************************)
THEOREM InterfaceWaiting == Spec => []WaitingIsAskedFor
<1>1. QInv => WaitingIsAskedFor
  BY DEF QInv, IInv, Queued, WaitingIsAskedFor
<1> QED
  BY <1>1, InitQInv, NextQInv, PTL DEF Spec

\* What a step adds to the wire goes to the address heard last.
FreshStep ==
    \A k \in Len(wire) + 1 .. Len(wire') :
       LET last == heard'[handed'[wire'[k].dgram]]
       IN  /\ wire'[k].eth = last.eth
           /\ ni'.current_time - last.time <= CACHE_TIMEOUT

LEMMA SendFresh ==
    ASSUME QInv, NEW hop \in Neighbour, Send(hop)
    PROVE  FreshStep
<1> DEFINE c == ni.arp_cache
           n == Len(handed) + 1
           x == [dgram |-> n, eth |-> c[hop].eth]
<1>1. wire \in Seq(Frame(handed)) /\ handed \in Seq(Neighbour)
  BY DEF QInv, Queued
<1>2. /\ handed' = Append(handed, hop) /\ heard' = heard /\ ni'.current_time = ni.current_time
      /\ hop \in DOMAIN c => wire' = Append(wire, x)
      /\ hop \notin DOMAIN c => wire' = wire
  BY <1>1, SendQueues, Zenon DEF QInv
<1>3. CASE hop \in DOMAIN c
  <2>1. heard[hop] = c[hop] /\ ni.current_time - c[hop].time <= CACHE_TIMEOUT
    BY <1>3 DEF QInv, IInv, CacheIsFresh
  <2>2. handed'[n] = hop
    BY <1>1, <1>2
  <2>3. x.dgram = n /\ x.eth = c[hop].eth
    OBVIOUS
  <2> HIDE DEF x, n, c
  <2>4. wire' = Append(wire, x)
    BY <1>2, <1>3
  <2>5. Len(wire') = Len(wire) + 1 /\ Len(wire) \in Nat /\ wire'[Len(wire) + 1] = x
    BY <1>1, <2>4
  <2>6. \A k \in Len(wire) + 1 .. Len(wire') : wire'[k] = x
    BY <2>5
  <2> QED
    BY <1>2, <2>1, <2>2, <2>3, <2>6, Zenon DEF FreshStep
<1>4. CASE hop \notin DOMAIN c
  <2>1. wire' = wire /\ Len(wire) \in Nat
    BY <1>1, <1>2, <1>4
  <2>2. Len(wire) + 1 .. Len(wire') = {}
    BY <2>1
  <2> QED
    BY <2>2 DEF FreshStep
<1> QED
  BY <1>3, <1>4

LEMMA HearFresh ==
    ASSUME QInv, NEW ip \in Neighbour, NEW eth \in NeighbourEth, NEW known \in BOOLEAN,
           HearStep(ip, eth, known)
    PROVE  FreshStep
<1> DEFINE p == ni.pending_datagrams
           m == ni.current_time
           s == SentOn(p, ip, eth)
           X == [dgram : For(handed, ip), eth : {eth}]
<1>1. /\ wire \in Seq(Frame(handed)) /\ handed \in Seq(Neighbour) /\ p \in Seq(Pending(handed))
      /\ m \in Nat
  BY DEF QInv, Queued, IInv, Types
<1>2. handed' = handed /\ ni'.current_time = m
  BY DEF HearStep, HasTables
<1>3. CASE known
  <2>1. wire' = wire \o s /\ heard' = Put(heard, ip, [eth |-> eth, time |-> m])
    BY <1>3 DEF HearStep
  <2>2. s \in Seq(X)
    BY <1>1, SentOnType
  <2>3. heard'[ip].eth = eth /\ heard'[ip].time = m
    <3>1. heard'[ip] = [eth |-> eth, time |-> m]
      BY <2>1 DEF Put
    <3> QED
      BY <3>1
  <2>4. m - m <= CACHE_TIMEOUT
    BY <1>1, InterfaceConstants
  <2>5. \A x \in X : x.eth = eth /\ handed[x.dgram] = ip
    BY DEF For
  <2> HIDE DEF s, X
  <2>6. \A k \in Len(wire) + 1 .. Len(wire') : wire'[k] \in X
    <3>1. Len(wire') = Len(wire) + Len(s) /\ Len(wire) \in Nat /\ Len(s) \in Nat
      BY <1>1, <2>1, <2>2
    <3>2. \A k \in Len(wire) + 1 .. Len(wire) + Len(s) : wire'[k] = s[k - Len(wire)]
      BY <1>1, <2>1, <2>2
    <3>3. \A k \in Len(wire) + 1 .. Len(wire) + Len(s) : s[k - Len(wire)] \in X
      BY <2>2, <3>1
    <3> QED
      BY <3>1, <3>2, <3>3
  <2> QED
    BY <1>2, <2>3, <2>4, <2>5, <2>6 DEF FreshStep
<1>4. CASE ~known
  <2>1. wire' = wire /\ Len(wire) \in Nat
    BY <1>1, <1>4 DEF HearStep
  <2>2. Len(wire) + 1 .. Len(wire') = {}
    BY <2>1
  <2> QED
    BY <2>2 DEF FreshStep
<1> QED
  BY <1>3, <1>4

(***************************************************************************)
(* A datagram that goes out goes to the address its next hop has announced *)
(* last, no longer than CACHE_TIMEOUT ago, for every schedule              *)
(* (network_interface.cc:39-43, 93-101, 135-143).                          *)
(***************************************************************************)
THEOREM InterfaceAddress == Spec => FreshAddress
<1>1. QInv /\ [Next]_vars => [FreshStep]_vars
  <2> SUFFICES ASSUME QInv, Next PROVE FreshStep
    OBVIOUS
  <2>1. CASE \E hop \in Neighbour : Send(hop)
    BY <2>1, SendFresh
  <2>2. CASE \E ip \in Neighbour, eth \in NeighbourEth, opcode \in {"REQUEST", "REPLY"},
                target \in {Me.ip, "other_ip"}, dst \in {Me.eth, ETHERNET_BROADCAST, "other"},
                valid \in BOOLEAN : Hear(ip, eth, opcode, target, dst, valid)
    <3>1. PICK ip \in Neighbour, eth \in NeighbourEth, opcode \in {"REQUEST", "REPLY"},
               target \in {Me.ip, "other_ip"}, dst \in {Me.eth, ETHERNET_BROADCAST, "other"},
               valid \in BOOLEAN : Hear(ip, eth, opcode, target, dst, valid)
      BY <2>2
    <3>2. PICK known \in BOOLEAN : HearStep(ip, eth, known)
      BY <3>1, HearQueues DEF QInv
    <3> QED
      BY <3>2, HearFresh
  <2>3. CASE Tick
    <3>1. wire' = wire
      BY <2>3, TickQueues
    <3>2. Len(wire) \in Nat
      BY DEF QInv, Queued
    <3>3. Len(wire) + 1 .. Len(wire') = {}
      BY <3>1, <3>2
    <3> QED
      BY <3>3 DEF FreshStep
  <2> QED
    BY <2>1, <2>2, <2>3 DEF Next
<1>2. [][FreshStep]_vars => FreshAddress
  BY DEF FreshStep, FreshAddress
<1> QED
  BY <1>1, <1>2, InitQInv, NextQInv, PTL DEF Spec
=============================================================================
