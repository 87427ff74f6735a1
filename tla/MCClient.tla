------------------------------ MODULE MCClient ------------------------------
(* Two clients behind the relay, with skewed host clocks.                  *)
EXTENDS Client, TLC

CONSTANTS a, b

TwoUsers == {a, b}

\* No two readings coincide: what nanosecond stamps make all but certain.
SkewedClock == (a :> {1, 4}) @@ (b :> {2, 5})

Chats == {"SendMessage", "E2E"}
AllKinds == {"Login", "SendMessage", "GetUsers", "E2E", "Quit"}
=============================================================================
