--------------------------- MODULE MCKeyExchange ---------------------------
(* Two users on an adversarially slow network: packets never leave net, so *)
(* every one of them may be delivered late, twice or never.                *)
EXTENDS KeyExchange, TLC

CONSTANTS a, b, MaxSeq

MCUsers == {a, b}
MCClock == (a :> {1, 3}) @@ (b :> {2, 3})

\* Sessions renew for ever; the check stops at sequence number MaxSeq.
SeqBound == \A c \in Users : \A p \in Users \ {c} : sess[c][p].seq <= MaxSeq
=============================================================================
