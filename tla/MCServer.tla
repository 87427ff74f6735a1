------------------------------ MODULE MCServer ------------------------------
(* Two clients, in either order of acceptance.                             *)
EXTENDS Server

CONSTANTS a, b, x, y

TwoClients == {a, b}
TwoNames == {x, y}

AllKinds == {"LOGIN", "LIST", "QUIT", "MESSAGE"}
=============================================================================
