----------------------------- MODULE NameService -----------------------------
(***************************************************************************)
(* What the server promises about names, whatever its sockets do.  Clients *)
(* ask in the order in which they are served.  A name that nobody holds is *)
(* given to the client that asks for it, and never taken from it; and a    *)
(* message goes to the holder of the name it is addressed to, under the    *)
(* name of the client that asked for it.  Server.tla, with its connection  *)
(* table, its deque of names and its reverse index, is shown to implement  *)
(* this specification.                                                     *)
(***************************************************************************)
EXTENDS Integers, Sequences

CONSTANTS
    Clients, Names,
    NoName,  \* of a client that was given none; not in Names
    Packets  \* what clients may ask

VARIABLES
    holds,  \* holds[c]: the name of c, for ever the last one it was given
    asked,  \* asked[c]: what c has asked and was not served, oldest first
    mail    \* mail[c]: the messages forwarded to c, oldest first

vars == <<holds, asked, mail>>

Init ==
    /\ holds = [c \in Clients |-> NoName]
    /\ asked = [c \in Clients |-> <<>>]
    /\ mail = [c \in Clients |-> <<>>]

Ask(c, p) ==
    /\ asked' = [asked EXCEPT ![c] = Append(@, p)]
    /\ UNCHANGED <<holds, mail>>

(* The first packet is looked at; some of those behind it may be lost.     *)
Takes(c) ==
    \E n \in 1 .. Len(asked[c]) :
        asked' = [asked EXCEPT ![c] = SubSeq(@, n + 1, Len(@))]

Free(n) == \A c \in Clients : holds[c] # n

Claim(c) ==
    /\ Takes(c)
    /\ Head(asked[c]).kind = "LOGIN" /\ Free(Head(asked[c]).name)
    /\ holds' = [holds EXCEPT ![c] = Head(asked[c]).name]
    /\ UNCHANGED mail

Forward(sender, receiver) ==
    /\ Takes(sender)
    /\ Head(asked[sender]).kind = "MESSAGE" /\ Head(asked[sender]).to = holds[receiver]
    /\ mail' = [mail EXCEPT ![receiver] =
                   Append(@, [from |-> holds[sender], to |-> holds[receiver]])]
    /\ UNCHANGED holds

(* Whatever else is asked, also a message that cannot be delivered.        *)
Pass(c) ==
    /\ Takes(c)
    /\ Head(asked[c]).kind = "LOGIN" => ~Free(Head(asked[c]).name)
    /\ UNCHANGED <<holds, mail>>

Next ==
    \E c \in Clients :
        \/ \E p \in Packets : Ask(c, p)
        \/ Claim(c) \/ Pass(c)
        \/ \E receiver \in Clients : Forward(c, receiver)

Spec == Init /\ [][Next]_vars
=============================================================================
