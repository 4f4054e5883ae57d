# Sponge in TLA+

Sponge is a user-space TCP/IP stack in C++: a TCP endpoint built from small
classes (`libsponge/`), an Ethernet interface with ARP, a router, a socket that
runs the endpoint in a thread, and programs that use them (`apps/`). This
directory models the stack in TLA+, checks the models with TLC on small
instances and proves, with TLAPS and for every instance, the safety properties of
the components: sequence numbers, byte stream, reassembler, receiver, sender and
network interface.
`PROJECT.json` lists components, runs, mutants, the map from definitions to
source lines, findings, hazards and theorems. Paths below are relative to the
repository; file names without a directory are in `libsponge/`.

## 1. The system

| Component | State | Operations | Interacts with |
|---|---|---|---|
| `wrapping_integers` | none | `wrap`, `unwrap`, `+`, `-` | receiver, sender |
| `byte_stream` | buffer, counters, end and error flags | `write`, `peek_output`, `pop_output`, `read`, `end_input`, `set_error` | every stream owner |
| `stream_reassembler` | map of stored segments, first unassembled index, eof index, output stream | `push_substring` (truncate, merge, assemble) | receiver |
| `tcp_receiver` | ISN, SYN and FIN flags, reassembler | `segment_received`, `ackno`, `window_size` | connection |
| `tcp_sender` | outgoing stream, next number, last ackno, window, outstanding queue, timer, backoff | `fill_window`, `ack_received`, `tick`, `send_empty_segment` | connection |
| `tcp_connection` | receiver, sender, queue of segments, linger flag, time since last segment, active flag | `segment_received`, `write`, `tick`, `end_input_stream`, `connect`, destructor | socket, network |
| `tcp_helpers/tcp_sponge_socket` | a connection, a thread, a socket pair, shutdown and abort flags | `connect`, `listen_and_accept`, four rules, `wait_until_closed`, destructor | owner, adapter |
| `util/eventloop` | rules | `wait_next_event` | the two threads |
| the adapters | addresses, listening flag, for Ethernet an interface | `read`, `write`, `tick` | socket, network |
| headers, segments, datagrams, frames, `util/parser` | none | bytes to fields and back, checksums | adapters |
| `network_interface` | ARP cache, waiting datagrams, times of requests, clock, frames to send | `send_datagram`, `recv_frame`, `tick` | router, hosts |
| `router` | routes, interfaces with queues of datagrams | `add_interface`, `add_route`, `route` | interfaces |
| `apps/` | two bounded streams; a network thread; peers of a bouncer | stream copy, lab7, bouncer, benchmark, simulator | all of the above |

What makes the code hard to test: unsigned subtractions at the edge of a window;
sequence numbers that wrap while segments are in flight; segments lost,
repeated and reordered between two endpoints that also time out; FIN against
missing bytes, closed windows and lingering; two threads around one socket
pair, each with an event loop that acts on what poll(2) said a while ago; ARP
answers that come late or never; programs that start again; routes that form a
loop. `PROJECT.json` has each hazard at its line.

## 2. Modules

A component is a module of operators (a record and its methods, under the
source's names), a module that puts it in an environment (variables, actions,
properties), and, where something is proved, a module of proofs. Operators
introduced as "Wrong variant" are plausible bugs; replacing the operator they
precede by one of them violates the property named in `PROJECT.json`.

| Modules | Component |
|---|---|
| `WrappingIntegers`, `SeqnoWindow`, `SeqnoWindowProofs` | `wrap` and `unwrap`; a checkpoint that moves while a number is in flight |
| `ByteStream`, `ByteStreamSpec`, `ByteStreamProofs` | the stream under any order of calls |
| `StreamReassembler`, `ReassemblerSpec`, `Reassembly`, `ReassemblerLemmas`, `ReassemblerProofs` | the map of segments; `Reassembly` is the abstract reassembler, a set of known indices |
| `TCPSegment` | the fields of a segment that the endpoint branches on |
| `TCPReceiver`, `ReceiverSpec`, `ReceiverProofs` | the receiver and a peer that cuts and repeats one stream |
| `TCPSender`, `SenderSpec`, `SenderProofs` | the sender, its application, a clock, and a peer with a moving window |
| `TCPConnection`, `TCPState`, `TCPPair`, `MCTCPPair` | an endpoint and the summary of its state; two endpoints, their applications and the network |
| `Benchmark`, `MCBenchmark` | `apps/tcp_benchmark.cc`, which drives such a pair in one loop |
| `EventLoop`, `SocketPair`, `TCPSpongeSocket` | one call of `wait_next_event`; the pair of descriptors; the socket and its thread |
| `StreamCopy`, `Program`, `MCProgram` | `bidirectional_stream_copy` and `main`; the whole program with its two threads, and a peer |
| `NetParser`, `Packets`, `Adapters` | integers and checksums in bytes; headers, segments, datagrams, frames, ARP messages; the adapters |
| `Wire`, `MCWire` | a server and its clients behind adapters, and a network that damages packets |
| `NetworkInterface`, `SeqFilter`, `InterfaceSpec`, `InterfaceProofs` | the interface, and neighbours whose ARP messages come at any time; `SeqFilter` is the loop that takes some elements out of a queue |
| `Router`, `Internet` | the router; two routers and two hosts as in `apps/network_simulator.cc` |
| `Lab7`, `MCInternet` | the same nodes run by `apps/lab7.cc` twice and `apps/bouncer.cc` |
| `Lemmas` | no component: what several proofs rest on (induction, loops, `unwrap`, `read`, `write`) |

Composition: `TCPReceiver` extends the reassembler, which extends the stream;
`TCPConnection` extends receiver and sender; `TCPPair` holds two connections,
`TCPSpongeSocket` one, with the event loop and the pair; `StreamCopy` adds the
owner's event loop, `Program` a peer. `Adapters` puts `Packets` and the
interface together. `Router` extends the interface; `Internet` holds four nodes,
and `Lab7` runs them.

**Loops.** A loop of the code is a recursive function of the number of turns. The
loops over the reassembler's map visit the keys in ascending order: the function
passes the indices from 0 to the last key and does something where there is a
key. A `break` is a flag after which turns change nothing.

**Threads.** A turn of `_tcp_loop` is several steps: `Poll` (the first half of
`wait_next_event`, up to the return of poll(2)), one `Serve` per rule that poll
reported, `AfterEvent` (the check of `_abort` and `tick`). The owner's loop is
cut in the same way. Between any two of these steps the other thread and the
network move. The interest of a rule is read in `Poll` and acted on in `Serve`.
`connect` and `listen_and_accept` take the same steps in the owner's thread,
before the copying starts. `PollInterrupted` and `Interrupted` are a signal in
either thread's poll(2), which ends that loop as an `Exit`. The pair holds a bounded number of bytes and takes
part of a write that does not fit; a write to an end that is shut kills the
process (`fate`).

**Abstractions.** The byte at index i of a stream is the number i, so a byte at
a wrong place is seen. `size_t` and `uint64_t` subtractions are taken modulo
`SIZE_MOD` and `UINT64_MOD`, sequence numbers modulo `WRAP_MOD`, the TTL modulo
256. In `Packets`, `Adapters` and `Wire` packets are sequences of bytes, and
parsing, serialising and checksums are those of the code; everywhere else a
packet is a record, and a parser a flag that says whether its input parses. The
target Ethernet address of an ARP message is left out: nothing reads it. An
address is its numeric value; the conversions to text and back that
`unwrap_tcp_in_ip` makes do not change it. Log output is left out.

In `Lab7` the unit of time is the request timeout, of which the 50 ms that a
turn of the network thread adds are a hundredth: the ticks of busy turns are
rounded down to 0, and the idle turns that make up a unit are one step, taken
when nothing is under way. A host's TCP connection is the datagrams it sends,
at most one per unit. UDP between a program and the bouncer keeps its order;
what is sent to a program that is gone is lost.

**The popped segment.** `TCPConnection::_clear_sender_buffer`
(`tcp_connection.cc:47-65`) uses a reference to the front of a queue after
`pop()`. The header's bytes are still in place in the deque's block. The payload
is reference-counted and shared with the sender's outstanding queue; `AfterPop`
replaces it by `FREED` if no outstanding segment holds it. `PrefixDelivered`
shows that this is never read.

## 3. Runs

| Run | Shows | Distinct states |
|---|---|---|
| `seqno_window` | `unwrap` returns the closest candidate, reads back every number less than half the space away, and moves only forward with its checkpoint | 2,646 |
| `byte_stream` | what is read is a prefix of what was accepted, the counters are exact, the capacity holds | 740 |
| `reassembler` | bytes in place, memory bounded, end exact; and for a peer that keeps to the window: `Reassembly` is implemented, the stream is assembled in the end | 1,952 |
| `receiver` | across a wrap: output in order, ackno is the first missing byte, that byte is accepted, nothing advertised is taken back | 1,300 |
| `sender` | the outstanding queue tiles the sequence space and begins at the last acknowledgement, the timer runs exactly while it must; in order, the window is respected | 49,740 |
| `pair_close` | on a timely network, and in the benchmark's loop with and without reordering, streams end complete and both connections close without an error | 15,653 |
| `pair_lossy` | under loss, repetition, reordering, timeouts and destruction: prefixes are delivered, no unreceived byte is let go, nothing throws, states only move forward, a clean close is complete but for one known exception, someone lingers | 593,228 |
| `interface` | per next hop nothing is lost, repeated or overtaken; what waits has been asked for; requests are spaced; addresses are fresh | 52,239 |
| `internet` | a datagram is never copied and goes to its host only, the longest match is picked, the network comes to rest; in the simulator datagrams arrive; in lab7 they get through after anything was lost | 106,243 |
| `app` | nothing is lost between the buffers; the program ends; then everything has been delivered, unless a fault came between or the finding cut the stream short; the thread leaves nothing behind; nobody is killed by a broken pipe without one of these causes | 375,124 |
| `wire` | a byte changed by 1 or by 16, or a cut, is noticed; a server hears its one peer; what is undamaged is accepted | 4,744 |
| `pair_eof` | the finding of section 5 | |

Known exceptions of the code stay in the models and are named in the
properties: `overtaken` in `ReceiverSpec` (a FIN that comes while the byte before it is
neither assembled nor kept),
`late` in `SenderSpec` (an acknowledgement that has been overtaken),
`keeps_window` in `ReassemblerSpec` (a peer that keeps to the window), in
`NextByteAccepted` a payload that starts a whole turn after the SYN, whose
number `tcp_receiver.cc:26` takes for the SYN's, `LastByteLeft` in `TCPPair`
(a byte that an overtaken acknowledgement leaves unsent), and in `Program`
`faults` (a reset, an exception or a signal) and `cut_short` (the finding of
section 5: a FIN that ends the inbound stream without the byte before it, which
the peer then waits for in vain until it resets the connection). `AckedIsReceived`
takes initial sequence numbers that are apart (`IsnsApart`, which `MCTCPPair`
assumes): a segment without ACK is handled as if it acknowledged what the
receiver has got.

**Bounds.** Sequence spaces are small so that numbers wrap: 12 in `receiver`,
where the stream is longer than a turn and a capacity of 5 lets stored bytes crowd
out the end of a payload that repeats them. `SIZE_MOD` is larger than every index
that can occur, so that only a real underflow wraps. In `reassembler`,
`receiver`, `sender` and `pair_close` capacities and windows are smaller than the
streams, so they fill and close. `pair_lossy` has streams of two bytes and a
window of two, so that a byte can be stored ahead of a missing one; one fault,
reordering, two segments in flight per direction, one retransmission and no
linger time (the weakest protection for the peer). `LastByteLeft` takes a window
of one and does not occur there. `pair_close` has streams
longer than the window, and transfers of 0 to 10 bytes in the benchmark, three
windows and more. `interface` has a request timeout of 1, a cache timeout of 2
and four ticks: a mapping expires and is learned again while requests repeat.
`internet` uses 3-bit addresses, TTLs 0 and 3 and two datagrams; lab7 has three
starts of programs, so that one of the two starts again, and three idle units,
more than the cache timeout; an Ethernet has two ports. `app` has a pair of one
byte and copy buffers and windows of two. `MCProgram` lists its sessions: with
one or two bytes of input from a file, and one or two from a peer that waits for
our end, so that a write to the pair is partial in either direction, with one
fault at any time (a reset, an exception, or a signal in either thread; none with
two and two); with four bytes from a peer that does not wait, which is more than
the window and the pair hold, so that the window closes, is probed, and the
stream may be cut short; and with input that is typed a byte at a time, in both
roles. The peer's application always reads at once, so the two directions cannot
wait for each other in a circle. A `NoBrokenPipe` that did not except `cut_short`
is violated only with longer streams (two bytes of input, four of the peer).
`wire` changes each
byte of a packet by 1 or by 16 and cuts it at every length; two clients have the
same address and two the same port.

**Deadlock.** `CHECK_DEADLOCK FALSE` stands where the system stops: connections
close, programs end, hosts have sent what they send.

**Fairness.** Each is weak fairness of the work taken together, with the
condition under which there is work written out.
- `reassembler`: the peer keeps sending the first missing byte and the reader
  reads, as the sender's retransmission and the socket's rule 3 do.
- `pair_close`: applications act, the network delivers, clocks tick, because the
  event loop returns at least every tick (`tcp_sponge_socket.cc:25-40`); the
  benchmark's loop goes round.
- `internet`: `Network::simulate` calls `route()` and exchanges frames every time
  round; the event loops of lab7 and of the bouncer serve what is ready.
- `app`: both threads run when they can, standard input is typed and ends, the
  network delivers, time passes. Nothing is assumed about the order.

## 4. Proofs

| Theorem | States |
|---|---|
| `UnwrapClosestTheorem`, `RoundTripTheorem`, `UnwrapMonotoneTheorem` (`SeqnoWindowProofs`) | the three properties of `seqno_window`, for every modulus and every distance in `SeqnoWindow`'s assumptions |
| `BoundedFifoTheorem` (`ByteStreamProofs`) | `TypeOK` and `BoundedFifo`, for every capacity, byte set and string length |
| `ReassemblerInPlace`, `ReassemblerMemory`, `ReassemblerEof`, `ReassemblerRefines` (`ReassemblerProofs`) | the three invariants of `reassembler` and the refinement of `Reassembly`, for every length of the stream, capacity and cut into substrings |
| `ReceiverInOrder`, `ReceiverAck`, `ReceiverAccepts`, `ReceiverForward` (`ReceiverProofs`) | the four properties of `receiver`, for every size of the sequence space, ISN, capacity and length of the stream |
| `SenderTiles`, `SenderTimer`, `SenderWindowKept` (`SenderProofs`) | the three invariants of `sender`, for every stream, capacity, ISN, timeout and payload size |
| `InterfaceTables`, `InterfaceFifo`, `InterfaceWaiting`, `InterfaceAddress` (`InterfaceProofs`) | the properties of `interface` (and `RequestsSpaced`, `CacheIsFresh`), for every set of neighbours and Ethernet addresses, every pair of timeouts and every schedule |

**Assumptions.** `WRAP_MOD`, `SIZE_MOD` and the lengths and capacities are
natural numbers, positive where the code needs it. `N + Capacity` is less than
`SIZE_MAX` (indices are 64 bits wide, and a stream never gets that long).
`SenderWindow`: twice the peer's window is less than the sequence space; a window
has 16 bits and a sequence number 32. The bounds `MaxLen`, `MaxTime` and the like
are any natural numbers, so they bound nothing in a theorem.

**Loops.** The prover cannot use an induction theorem whose parameter is an
operator. `Lemmas` states induction for sets (`NatInd`, `RangeInd`, `SeqInd`): a
set that has 0, and n + 1 with every n, has every natural number. A loop of the
models is a recursive function, which TLA+ defines with CHOOSE; that some
function obeys the equation is shown by induction over the turns (`LoopExists`),
and its invariant by a second one. This is how the queue of the interface
(`OnlyLoop`), `fill_window`, `bytes_in_flight`, the backoff and the four loops of
the reassembler are reasoned about.

**Sequence numbers.** The candidates of `unwrap` are the numbers that wrap to the
given one on either side of the checkpoint. Lemmas on `%` show that they are one
turn apart, so the nearer one is at most half a turn away, and that no other
number with the same remainder is closer.

**Byte stream.** `BoundedFifo` with `TypeOK` is inductive. The proof has one step
per action; the facts on sequences are lemmas, kept apart from those on records.

**Reassembler.** `ReassemblerLemmas` goes through the methods from the inside out:
the total of the stored bytes (what erasing, inserting and shrinking to a window
do to it), one turn of `insert_segment`'s loop and the loop (`MergeLoop`: what was
joined so far is one piece of the stream that covers the data and every segment
it met), truncation and storing (`InsertGood`), `try_assemble` (`TrimLoop`),
writing out (`AssembleLoop`) and `push_substring` (`PushGood`). `Shape` is what
every method keeps: types, counters, `Placed` (segments hold the bytes of their
places, are not empty and do not overlap) and the bound on memory. The bound is
why erasing before truncating matters, and that nothing stored is lost on the way
(`NoLossFrom`) holds only for segments that lie in the window: what is merged is
then at most as long as the window, so truncation cuts only new bytes. In
`ReassemblerProofs`, `IInv` adds that every segment starts after the first missing
byte (`Settled`), where the end is noted, and, for a peer that keeps to the
window, that stored bytes lie before its right edge. The refinement maps a call
to `Receive` with what is assembled or stored after it; that the abstract
specification may forget nothing is `NoLossFrom`.

**Receiver.** A number less than half the space away from the first missing byte is
read exactly (`UnwrapExact`), so a payload is pushed at its own index and
`PushGood` applies. `IInv` adds that the receiver's FIN flag is the history's,
that the reassembler has noted an end only after a FIN, and that after a FIN that
was not `overtaken` the last byte stays known. `ReceiverAccepts` rests on stored
bytes lying strictly inside the window: `TotalWindow` then leaves room for one
byte whenever the window is open. The attempt to prove `AckIsFirstMissing`
showed a second exception, which a capacity of 4 had hidden from TLC: a FIN whose
payload `truncate_data` cuts short, because stored bytes count against the memory
even where the payload repeats them, ends the stream when nothing is stored after
it. `overtaken` now covers both, and the run has a capacity of 5.

**Sender.** `Good` is what every method keeps whatever it is called with: the queue
tiles the space up to `next_seqno`, `next_seqno` goes with the stream's counters,
the timer with the queue. `InOrder` holds while no acknowledgement is overtaken
(`late`): the last one is inside the oldest segment and nothing sent is past the
window it gave. So the next one is at most a window away from the checkpoint of
`ack_received`, and `unwrap` reads it exactly, for which `SenderWindow` is needed.

**Interface.** That requests are spaced is not inductive, because `send_datagram`
looks at `_arp_request_timeouts` and not at the past. `Recorded` says that this map
has exactly the neighbours that were asked for and not heard of since, each with
the time of the last request. `Queued` says that no waiting datagram is for a hop
in the cache or for one that was not asked for, which is what keeps a new datagram
from overtaking an old one.

Every inductive invariant was checked with TLC on the run's instance before it was
proved. Only model-checked: the compositions (`pair_close`, `pair_lossy`, `internet`,
`app`, `wire`), whose invariants relate two endpoints or threads and the network
between them, and all liveness (`EventuallyAssembled` and the like): fairness and
`ENABLED` are outside what the prover handles.

## 5. Finding and observations

`pair_eof`: with a reader that lets the window close, the byte that probes it is
dropped, and the FIN that follows ends the stream without it
(`tcp_receiver.cc:35`). In `app`, a program whose owner is slow to read then
ends without an error and with its output a byte short.

Observed while modelling; the models do the same, and no run is about them:

- TCP endpoint. `write` after `end_input` is accepted (`byte_stream.cc:15`,
  against `byte_stream.hh:10-11`), and the benchmark's reordered transfer needs
  it: its empty FIN arrives first, finds nothing stored and ends the stream, and
  the data is written after that. A substring that starts past the window is
  stored, because `first_unacceptable - index` wraps around
  (`stream_reassembler.cc:137`, against `tcp_receiver.hh:53-55`). Bytes that are
  stored already count twice against the capacity when data that holds them too
  arrives in order (`stream_reassembler.cc:136`). An acknowledgement that comes
  after a later one sets `_abs_ackno` back, and the sender may then go beyond
  the window (`tcp_sender.cc:142`). The destructor's RST is queued in a member
  that is destroyed with the object, and never sent (`tcp_connection.cc:183`). A
  RST that arrives in LISTEN ends the connection (`tcp_connection.cc:82`).
- Socket and event loop. `wait_next_event` returns at once, and returns
  `Success`, for a hangup on a descriptor of which nothing was asked, although no
  rule is triggered (`util/eventloop.hh:44`), so a loop may spin until the next
  event. "Successfully connected" is also printed after the handshake was reset.
  A callback may run although its rule has lost its interest since poll(2): rule
  2 then writes to a connection that was just reset, and the copy's rule 1 fills
  a stream whose other end was cancelled. An owner that writes after a reset is
  killed by SIGPIPE. A reset shuts the owner's side of the pair; if the owner has
  shut its own and the pair is full, the hangup cancels rule 3, and bytes that
  were received before the reset are never delivered.
- Adapters. The results of the header parsers are ignored by
  `IPv4Datagram::parse` and `TCPSegment::parse`: a wrong IP checksum, version or
  data offset is not noticed there, and damage is found by the TCP checksum or
  by the lengths. The comment at `tcp_helpers/fd_adapter.cc:9-20` says that ports
  are checked and that `connect()` is called on the UDP socket; neither is done.
  The lossy adapter binds a listener to the sender of a SYN that it then drops.
- Network. An ARP request that is lost is repeated only with another datagram
  for the same hop (`network_interface.cc:34-68`, `130-133`). The comment at
  `router.hh:27` says that a mapping is learned from the target fields of a
  reply, and the code uses the sender's. In lab7 every turn of the network
  thread counts as 50 ms, however short it was, so the routers' clocks run fast
  while there is traffic.

## 6. Not modelled

- `util/address`, `util/tun`, socket options and the kernel's own TCP in
  `util/socket`: calls into the system without a decision of their own.
- `BufferList`, views and iovecs: they share storage, and do not change which
  bytes there are.
- Printing: `to_string`, `summary`, `name`, `hexdump`, `udp_tcpdump.cc`.
- `webget.cc`, `tcp_native.cc`, `tun.cc`: straight-line uses of a socket, of the
  stream copy over the kernel's TCP, and of a device.
- Parsing of command lines, except for the addresses it sets up; the fixed
  scenarios and the topology of `network_simulator.cc`.
- The exceptions of `wait_next_event` for POLLERR and for a busy wait: with
  these descriptors and rules neither occurs (see `EventLoop`).
