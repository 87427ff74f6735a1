---------------------------- MODULE MCHandshake -----------------------------
(* Handshake with two clients, and files that are right or wrong in one    *)
(* respect at a time.                                                      *)
EXTENDS Handshake, TLC

CONSTANTS a, b

TwoClients == {a, b}
Interchangeable == Permutations(TwoClients)

MCSetups ==
    {Good}
    \cup {[Good EXCEPT !.certificate = x] : x \in {"absent", "other CA", "other host"}}
    \cup {[Good EXCEPT !.signingKey = x] : x \in {"absent", "other"}}
    \cup {[Good EXCEPT !.ca = "absent"]}
=============================================================================
