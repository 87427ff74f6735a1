------------------------------ MODULE Channel -------------------------------
(***************************************************************************)
(* What a connection promises whoever reads packets from it: packets that  *)
(* were sent, in the order in which they were, each at most once.  How     *)
(* many of them get lost is the implementation's business (Transport.tla). *)
(***************************************************************************)
EXTENDS Naturals, Sequences

CONSTANTS Packets, Null

VARIABLES
    sent,     \* the packets that were sent
    passed,   \* how many of them were returned, or lost before another
    returned  \* the packet that was returned last

Init ==
    /\ sent = <<>>
    /\ passed = 0
    /\ returned = Null

Send(p) ==
    /\ sent' = Append(sent, p)
    /\ UNCHANGED <<passed, returned>>

Receive(i) ==
    /\ i > passed
    /\ passed' = i
    /\ returned' = sent[i]
    /\ UNCHANGED sent

Next ==
    \/ \E p \in Packets : Send(p)
    \/ \E i \in DOMAIN sent : Receive(i)

Spec == Init /\ [][Next]_<<sent, passed, returned>>
=============================================================================
