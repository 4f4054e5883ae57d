------------------------------- MODULE MCWire -------------------------------
\* Model for TLC: who talks to the server, through each kind of adapter.
EXTENDS Wire

MCClients == [udp |-> {"a", "b"}, tun |-> {"a", "b", "c"}, tap |-> {"a"}]
MCMaxWrites == [udp |-> 3, tun |-> 2, tap |-> 2]
MCBroadcast == <<255, 255, 255, 255, 255, 255>>
=============================================================================
