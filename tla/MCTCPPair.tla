------------------------------ MODULE MCTCPPair ------------------------------
(* Values for the constants of TCPPair that a .cfg file cannot write.      *)
EXTENDS TCPPair

CONSTANTS ClientISN, ServerISN, ClientLength, ServerLength

MCISN == [e \in {Client, Server} |-> IF e = Client THEN ClientISN ELSE ServerISN]
MCLength == [e \in {Client, Server} |-> IF e = Client THEN ClientLength ELSE ServerLength]

ASSUME Apart == IsnsApart
=============================================================================
