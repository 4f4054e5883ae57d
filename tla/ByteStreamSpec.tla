--------------------------- MODULE ByteStreamSpec ---------------------------
(***************************************************************************)
(* A ByteStream between a writer and a reader that call its methods in any *)
(* order, with the history of what went in and what came out.              *)
(***************************************************************************)
EXTENDS ByteStream

CONSTANTS Byte,         \* the values a byte can take
          Capacity,     \* the constructor's argument
          MaxString,    \* bound: longest string passed to write
          MaxWritten    \* bound: bytes accepted over a run

ASSUME ByteStreamAssumption ==
    /\ Capacity \in Nat
    /\ MaxString \in Nat
    /\ MaxWritten \in Nat

VARIABLES stream,
          accepted,     \* history: every byte write took, in order
          delivered     \* history: every byte the reader removed, in order

vars == <<stream, accepted, delivered>>

Strings == UNION {[1 .. n -> Byte] : n \in 0 .. MaxString}

Init ==
    /\ stream = NewStream(Capacity)
    /\ accepted = <<>>
    /\ delivered = <<>>

Write(data) ==
    /\ stream.bytes_written + Len(data) <= MaxWritten
    /\ stream' = write(stream, data)
    /\ accepted' = accepted \o SubSeq(data, 1, stream'.bytes_written - stream.bytes_written)
    /\ UNCHANGED delivered

\* read(len), and peek_output(len) followed by pop_output(len).
Read(len) ==
    /\ stream' = read(stream, len)
    /\ delivered' = delivered \o peek_output(stream, len)
    /\ UNCHANGED accepted

Pop(len) ==
    /\ stream' = pop_output(stream, len)
    /\ delivered' = delivered \o peek_output(stream, len)
    /\ UNCHANGED accepted

EndInput ==
    /\ stream' = end_input(stream)
    /\ UNCHANGED <<accepted, delivered>>

SetError ==
    /\ stream' = set_error(stream)
    /\ UNCHANGED <<accepted, delivered>>

Next ==
    \/ \E data \in Strings : Write(data)
    \/ \E len \in 0 .. MaxString : Read(len)
    \/ \E len \in 0 .. MaxString : Pop(len)
    \/ EndInput
    \/ SetError

Spec == Init /\ [][Next]_vars

TypeOK ==
    /\ stream \in StreamType(Byte, {Capacity})
    /\ accepted \in Seq(Byte)
    /\ delivered \in Seq(Byte)

(***************************************************************************)
(* The stream neither loses, invents, duplicates nor reorders bytes, never *)
(* holds more than its capacity, and its two counters, from which the      *)
(* reassembler and the sender compute window edges and the FIN's sequence  *)
(* number, count exactly the bytes that went in and came out               *)
(* (byte_stream.cc:15-71).                                                 *)
(***************************************************************************)
BoundedFifo ==
    /\ accepted = delivered \o stream.buffer
    /\ stream.bytes_written = Len(accepted)
    /\ stream.bytes_read = Len(delivered)
    /\ Len(stream.buffer) <= Capacity

=============================================================================
