-------------------------- MODULE MCEarlyExchange --------------------------
(* EarlyExchange between three users, whatever they do and when. *)
EXTENDS EarlyExchange, TLC

CONSTANTS ann, bob, cat

MCUsers == {ann, bob, cat}
MCMaxRequests == (ann :> 2) @@ (bob :> 2) @@ (cat :> 1)
=============================================================================
