-------------------------------- MODULE Lab7 --------------------------------
(***************************************************************************)
(* apps/lab7.cc and apps/bouncer.cc: two programs, each a host and its     *)
(* router, and between them a bouncer, which passes the frames of one      *)
(* router's Internet side on to the other.  The network thread of a        *)
(* program reads and writes one frame per rule and turn of its event loop. *)
(* A program may be stopped and started again: its Ethernet addresses and  *)
(* its UDP port are then new.                                              *)
(*                                                                         *)
(* The nodes are those of Internet, whose routers and hosts the network    *)
(* simulator runs.  frames_out of a host's interface stands for the end of *)
(* the socket pair that send_pending writes to.  A host's TCPConnection is *)
(* abstracted to the datagrams it sends.  UDP to and from the bouncer      *)
(* keeps the order; what is sent to a port nobody has any more is lost.    *)
(*                                                                         *)
(* A turn ticks the router's interfaces by 50 ms, a hundredth of the unit  *)
(* of time here, REQUEST_TIMEOUT.  The ticks of the turns that serve a     *)
(* frame are rounded down to 0, those of the idle turns are taken together.*)
(***************************************************************************)
EXTENDS Internet

CONSTANTS Runs,         \* how the nodes are run: of "simulator", "lab7"
          MaxIdle,      \* bound: units of time in which nothing is ready
          MaxStarts     \* bound: how often programs are started

ASSUME Lab7Assumption ==
    /\ Runs \subseteq {"simulator", "lab7"} /\ MaxIdle \in Nat /\ MaxStarts \in Nat
    /\ REQUEST_TIMEOUT <= CACHE_TIMEOUT

VARIABLE lab      \* [run |-> "simulator"], or the state that lab7 adds

labVars == <<vars, lab>>

HostOf == [r1 |-> "h1", r2 |-> "h2"]
RouterOf == [h1 |-> "r1", h2 |-> "r2"]
OtherRouter == [r1 |-> "r2", r2 |-> "r1"]

\* An Ethernet address drawn by the program's start number n.
Drawn(name, n) == <<name, n>>

\* The routes of program_body, in its order.
LabRouter(r, n) ==
    LET at == [r1 |-> [inside |-> 0, outside |-> 4, beyond |-> 2, via |-> 5],
               r2 |-> [inside |-> 2, outside |-> 5, beyond |-> 0, via |-> 4]][r]
        bare == add_interface(add_interface(NewRouter,
                    NewAsyncInterface(Drawn(<<r, "in">>, n), at.inside)),
                    NewAsyncInterface(Drawn(<<r, "out">>, n), at.outside))
    IN  add_route(add_route(add_route(bare, Route(at.inside, 2, NO_HOP, 1)),
                            Route(4, 2, NO_HOP, 2)),
                  Route(at.beyond, 2, at.via, 2))

\* started: the number of the start of each program, 0 before the first.
\* peer: the start number of the program at each of the bouncer's peers.
\* bound: has the server's adapter been bound?
\* since: history, each router's clock when the bouncer came to know both.
NewLab ==
    [run |-> "lab7", starts |-> 0, started |-> [r \in Routers |-> 0],
     peer |-> [r \in Routers |-> 0], bound |-> FALSE,
     at_bouncer |-> [r \in Routers |-> <<>>], inbox |-> [r \in Routers |-> <<>>],
     to_host |-> [r \in Routers |-> <<>>], idle |-> 0,
     since |-> [r \in Routers |-> 0]]

LabInit ==
    /\ net = [n \in Nodes |-> IF n \in Hosts THEN HostNode(n) ELSE LabRouter(n, 0)]
    /\ sent = <<>>
    /\ got = [h \in Hosts |-> <<>>]
    /\ lab = NewLab

\* program_body: the router and the host, and a word to the bouncer.  It is sent
\* three times, and once here: the second and the third change nothing.
Hello == <<>>
Start(r) ==
    /\ lab.starts < MaxStarts
    /\ net' = [net EXCEPT
          ![r] = LabRouter(r, lab.starts + 1),
          ![HostOf[r]] = add_interface(NewRouter,
              NewAsyncInterface(Drawn(HostOf[r], lab.starts + 1), HostAddress[HostOf[r]]))]
    /\ lab' = [lab EXCEPT !.starts = @ + 1, !.started[r] = lab.starts + 1,
                          !.bound = @ /\ r # "r2",
                          !.at_bouncer[r] = Append(@, [by |-> lab.starts + 1, frame |-> Hello]),
                          !.inbox[r] = <<>>, !.to_host[r] = <<>>]
    /\ UNCHANGED <<sent, got>>

Clock(r) == net[r].interfaces[1].ni.current_time

\* Does the bouncer know both programs?
Knows(peer) == \A r \in Routers : peer[r] = lab.started[r] /\ peer[r] # 0

\* The TCP thread of a host: a segment is sent, one unit of time after the last
\* one.  The server has no one to send to before it is called.
Sent(h) ==
    [src |-> h, dst |-> HostAddress[HostOf[OtherRouter[RouterOf[h]]]], ttl |-> 3,
     start |-> lab.starts,
     ready |-> Knows(lab.peer) /\ Clock(RouterOf[h]) - lab.since[RouterOf[h]] > CACHE_TIMEOUT]
HostSends(h) ==
    /\ lab.started[RouterOf[h]] # 0 /\ (h = "h2" => lab.bound)
    /\ Len(sent) < MaxDatagrams
    /\ sent' = Append(sent, Sent(h))
    /\ net' = [net EXCEPT ![h].interfaces[1].ni =
                 send_datagram(NetworkInterface_tick(@, 1),
                               [id |-> Len(sent) + 1, dst |-> Sent(h).dst, ttl |-> 3],
                               Gateway[h])]
    /\ UNCHANGED <<got, lab>>

\* NetworkInterfaceAdapter::read
HostReads(r) ==
    LET h == HostOf[r]
        frame == Head(lab.to_host[r])
    IN  /\ lab.to_host[r] # <<>>
        /\ net' = [net EXCEPT ![h].interfaces[1].ni = recv_frame(@, frame)]
        /\ got' = [got EXCEPT ![h] = @ \o Received(net[h].interfaces[1].ni, frame)]
        /\ lab' = [lab EXCEPT !.to_host[r] = Tail(@),
                              !.bound = @ \/ (h = "h2" /\ frame.type = "IPv4")]
        /\ UNCHANGED sent

-----------------------------------------------------------------------------
(* The network thread: w is the nodes and lab, ready what poll reported    *)

OutQueue(w, n, k) == w.net[n].interfaces[k].ni.frames_out
Rules == {"from_host", "to_host", "to_internet", "from_internet"}
Ready(w, r) ==
    {rule \in Rules :
        CASE rule = "from_host" -> OutQueue(w, HostOf[r], 1) # <<>>
          [] rule = "to_host" -> OutQueue(w, r, 1) # <<>>
          [] rule = "to_internet" -> OutQueue(w, r, 2) # <<>>
          [] rule = "from_internet" -> w.lab.inbox[r] # <<>>}

ReadyNow(r) == Ready([net |-> net, lab |-> lab], r)

\* recv_frame on one side of the router, and route().
RouterReads(w, r, k, frame) ==
    [w EXCEPT !.net[r] = route([@ EXCEPT !.interfaces[k] = Async_recv_frame(@, frame)])]

FromHost(w, r) ==
    [RouterReads(w, r, 1, Head(OutQueue(w, HostOf[r], 1)))
        EXCEPT !.net[HostOf[r]].interfaces[1].ni.frames_out = Tail(@)]
ToHost(w, r) ==
    [w EXCEPT !.lab.to_host[r] = Append(@, Head(OutQueue(w, r, 1))),
              !.net[r].interfaces[1].ni.frames_out = Tail(@)]
ToInternet(w, r) ==
    [w EXCEPT !.lab.at_bouncer[r] =
                 Append(@, [by |-> w.lab.started[r], frame |-> <<Head(OutQueue(w, r, 2))>>]),
              !.net[r].interfaces[2].ni.frames_out = Tail(@)]
FromInternet(w, r) ==
    [RouterReads(w, r, 2, Head(w.lab.inbox[r])) EXCEPT !.lab.inbox[r] = Tail(@)]

ServeRule(w, r, rule) ==
    CASE rule = "from_host" -> FromHost(w, r)
      [] rule = "to_host" -> ToHost(w, r)
      [] rule = "to_internet" -> ToInternet(w, r)
      [] rule = "from_internet" -> FromInternet(w, r)
RuleOrder == <<"from_host", "to_host", "to_internet", "from_internet">>
ServeRules(w, r, ready) ==
    FoldLeft(LAMBDA v, rule : IF rule \in ready THEN ServeRule(v, r, rule) ELSE v, w, RuleOrder)

TickRouter(router, units) ==
    [router EXCEPT !.interfaces =
        [k \in DOMAIN @ |-> [@[k] EXCEPT !.ni = NetworkInterface_tick(@, units)]]]
Started == {r \in Routers : lab.started[r] # 0}
Turn(r) ==
    /\ r \in Started /\ ReadyNow(r) # {}
    /\ LET w == ServeRules([net |-> net, lab |-> lab], r, ReadyNow(r))
       IN  net' = [w.net EXCEPT ![r] = TickRouter(@, 0)] /\ lab' = w.lab
    /\ UNCHANGED <<sent, got>>

\* Nothing is under way: wait_next_event times out in every network thread.
Busy ==
    \E r \in Routers :
        \/ lab.to_host[r] # <<>> \/ lab.at_bouncer[r] # <<>>
        \/ r \in Started /\ ReadyNow(r) # {}
Idle ==
    /\ ~Busy /\ lab.idle < MaxIdle
    /\ net' = [n \in Nodes |-> IF n \in Started THEN TickRouter(net[n], 1) ELSE net[n]]
    /\ lab' = [lab EXCEPT !.idle = @ + 1]
    /\ UNCHANGED <<sent, got>>

\* A rule of the bouncer: the peer's address is learned or replaced, and what
\* it sent goes to the other peer, if there is one and if it is not empty.
Bounced(r, m, peer) ==
    lab' = [lab EXCEPT
        !.at_bouncer[r] = Tail(@), !.peer = peer,
        !.inbox[OtherRouter[r]] =
            IF peer[OtherRouter[r]] \in {lab.started[OtherRouter[r]]} \ {0}
            THEN @ \o m.frame ELSE @,
        !.since = IF Knows(peer) /\ ~Knows(lab.peer)
                  THEN [q \in Routers |-> Clock(q)] ELSE @]
Bounce(r) ==
    /\ lab.at_bouncer[r] # <<>>
    /\ Bounced(r, Head(lab.at_bouncer[r]), [lab.peer EXCEPT ![r] = Head(lab.at_bouncer[r]).by])
    /\ UNCHANGED <<net, sent, got>>

LabNext ==
    \/ \E r \in Routers : Start(r) \/ HostReads(r) \/ Turn(r) \/ Bounce(r)
    \/ \E h \in Hosts : HostSends(h)
    \/ Idle

-----------------------------------------------------------------------------
(* Both ways to run the nodes                                              *)

NetInit ==
    \/ "simulator" \in Runs /\ Init /\ lab = [run |-> "simulator"]
    \/ "lab7" \in Runs /\ LabInit
NetNext ==
    \/ lab.run = "simulator" /\ Next /\ UNCHANGED lab
    \/ lab.run = "lab7" /\ LabNext

(***************************************************************************)
(* Something is done as long as there is something to do: the loop of      *)
(* Network::simulate exchanges frames and calls route() every time round,  *)
(* and the event loops of lab7 and of the bouncer serve what is ready.     *)
(* This is weak fairness of that work taken together, with its enabling    *)
(* condition written out.                                                  *)
(***************************************************************************)
WorkLeft == IF lab.run = "simulator" THEN ~Quiet ELSE Busy
Worked ==
    /\ sent' = sent
    /\ IF lab.run = "simulator" THEN \A r \in Routers : net'[r].routes = net[r].routes
       ELSE lab'.starts = lab.starts /\ lab'.idle = lab.idle
NetSpec ==
    /\ NetInit /\ [][NetNext]_labVars
    /\ []<>~WorkLeft \/ []<><<Worked>>_labVars

(***************************************************************************)
(* In the simulator a datagram arrives (Internet!Arrives).                 *)
(***************************************************************************)
SimulatorArrives == lab.run = "simulator" => Arrives

(***************************************************************************)
(* lab7 recovers from whatever was lost when a program was not running yet *)
(* or was started again: the requests that the bouncer had nobody to give  *)
(* to, the datagrams that wait for their answer and the Ethernet addresses *)
(* of the program that is gone.  What a host sends once these are older    *)
(* than the cache timeout arrives, unless a program is started again:      *)
(* NetworkInterface::tick repeats no request, it is send_datagram that     *)
(* does (network_interface.cc:41-57, 130-145, lab7.cc:194-263,             *)
(* bouncer.cc:30-52).                                                      *)
(***************************************************************************)
GetsThrough ==
    \A id \in 1 .. MaxDatagrams, h \in Hosts :
        LET Current == lab.run = "lab7" /\ id \in DOMAIN sent /\ sent[id].start = lab.starts
        IN  (Current /\ sent[id].dst = HostAddress[h] /\ sent[id].ready)
            ~> (~Current \/ \E k \in DOMAIN got[h] : got[h][k].id = id)
=============================================================================
