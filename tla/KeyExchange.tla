---------------------------- MODULE KeyExchange ----------------------------
(***************************************************************************)
(* What the end-to-end handshake promises whatever the network does: the   *)
(* sessions of E2ESession.cc, one per ordered pair of users, exchanging    *)
(* INIT and ACK packets over a network that may lose, reorder and repeat   *)
(* them.  Client.tla, with its queues, waits and one server stream per     *)
(* client, is shown to implement this specification.                       *)
(***************************************************************************)
EXTENDS E2ESession

CONSTANTS
    Users,  \* the names the server knows
    Clock   \* Clock[c]: the readings system_clock::now() may give at c

ASSUME ExchangeAssumption ==
    /\ Clock \in [Users -> SUBSET Nat]
    /\ \A c \in Users : \A t \in Clock[c] : t < NeverStamp

VARIABLES
    sess,  \* sess[c][p]: c's mE2ESessions[p]
    net    \* net[c]: E2E control packets that may still reach c

vars == <<sess, net>>

Control == InitPackets(Users) \cup AckPackets(Users)

TypeOK ==
    /\ sess \in [Users -> [Users -> Session]]
    /\ net \in [Users -> SUBSET Control]

Init ==
    /\ sess = [c \in Users |-> [p \in Users |-> NewSession]]
    /\ net = [c \in Users |-> {}]

-----------------------------------------------------------------------------
(* Any part of what was in flight may be gone after a step. *)
Losses(n) ==
    {left \in [Users -> SUBSET UNION {n[c] : c \in Users}] :
        \A c \in Users : left[c] \subseteq n[c]}

Update(c, p, s) == sess' = [sess EXCEPT ![c][p] = s]
Post(p, m)      == net' \in Losses([net EXCEPT ![p] = @ \cup {m}])

Begin(c, p) ==
    /\ sess[c][p].state = "UNINITIALIZED"
    /\ \E now \in Clock[c] :
          LET s == Initiate(sess[c][p], now)
          IN  Update(c, p, s) /\ Post(p, InitPacket(c, s))

Renew(c, p) ==
    /\ sess[c][p].state # "UNINITIALIZED"
    /\ \E now \in Clock[c] :
          LET s == Refresh(sess[c][p], now)
          IN  Update(c, p, s) /\ Post(p, InitPacket(c, s))

ReceiveInit(c, p) ==
    \E m \in net[c] :
        /\ m.kind = "INIT" /\ m.from = p
        /\ Accepts(sess[c][p], m)
        /\ ~EstablishThrows(sess[c][p])
        /\ LET s == HandleInit(sess[c][p], m)
           IN  Update(c, p, s) /\ Post(p, AckPacket(c, s))

ReceiveAck(c, p) ==
    \E m \in net[c] :
        /\ m.kind = "ACK" /\ m.from = p
        /\ AckApplies(sess[c][p], m.seq)
        /\ ~EstablishThrows(sess[c][p])
        /\ Update(c, p, HandleAck(sess[c][p], m.gen))
        /\ net' \in Losses(net)

(* setupE2E passes whatever E2E packet came second to handleAck: an INIT   *)
(* leaves seqno uninitialised and the key empty.                           *)
ReceiveGarbage(c, p) ==
    /\ \E m \in net[c] : m.kind = "INIT" /\ m.from = p
    /\ sess[c][p].state \in Sent
    /\ ~EstablishThrows(sess[c][p])
    /\ Update(c, p, HandleAck(sess[c][p], BogusKey))
    /\ net' \in Losses(net)

Lose == net' \in Losses(net) /\ UNCHANGED sess

Next ==
    \/ \E c \in Users : \E p \in Users \ {c} :
          \/ Begin(c, p)
          \/ Renew(c, p)
          \/ ReceiveInit(c, p)
          \/ ReceiveAck(c, p)
          \/ ReceiveGarbage(c, p)
    \/ Lose

Spec == Init /\ [][Next]_vars

-----------------------------------------------------------------------------
(* Two ends that both hold an established session with the same sequence  *)
(* number, neither from a garbled ACK, hold the same AES key: each was    *)
(* established with the other's current DH pair, even after crossed INITs, *)
(* refreshes at both ends and stale or repeated packets                    *)
(* (E2ESession::handleInit, handleAck, refresh).                           *)
KeyAgreement ==
    \A c \in Users : \A p \in Users \ {c} : Agree(sess[c][p], sess[p][c])

(* No call of CryptoSession::establish finds its key pair already used     *)
(* (CryptoSession.cc:19 would throw out of the client thread): an          *)
(* unfinished attempt never holds a peer key.                              *)
NeverThrows ==
    \A c \in Users : \A p \in Users \ {c} : ~EstablishThrows(sess[c][p])

(* The sequence number of a session, which decides the key a message is   *)
(* opened with and which INIT wins, never goes back, and within one number *)
(* an attempt is only given up for an older INIT.                          *)
SeqMonotone ==
    [][\A c \in Users : \A p \in Users \ {c} :
        /\ sess'[c][p].seq >= sess[c][p].seq
        /\ sess'[c][p].seq = sess[c][p].seq => sess'[c][p].ts <= sess[c][p].ts]_vars

-----------------------------------------------------------------------------
(***************************************************************************)
(* The inductive invariant behind KeyAgreement: what a packet m in flight  *)
(* says about the session "me" of its receiver and "them" of its sender.   *)
(***************************************************************************)
SessionOK(s) ==
    /\ s.state = "ESTABLISHED" <=> s.peer # NoKey
    /\ s.state = "UNINITIALIZED" <=> s.seq = 0

\* The session's own INIT may still be answered, or was answered by garbage.
Attempt(s) == s.state \in Sent \/ s.peer = BogusKey

\* An INIT in flight is its sender's current attempt or one it left behind;
\* once the attempt succeeded, the receiver has no use left for it.
InitOK(me, them, m) ==
    /\ m.seq \in 1 .. them.seq
    /\ Attempt(them) /\ them.seq = m.seq => m.gen = them.gen /\ m.ts = them.ts
    /\ Sound(them) /\ them.seq = m.seq => ~Accepts(me, m)

\* An ACK the receiver would apply comes from an end established with the
\* receiver's key pair, or from one that has moved on.
AckOK(me, them, m) ==
    /\ m.seq \in 1 .. me.seq
    /\ AckApplies(me, m.seq) =>
          \/ them.seq > m.seq
          \/ /\ them.seq = m.seq /\ them.state = "ESTABLISHED"
             /\ them.gen = m.gen /\ them.peer = me.gen /\ them.ts <= me.ts

PacketOK(me, them, m) ==
    /\ m.kind = "INIT" => InitOK(me, them, m)
    /\ m.kind = "ACK" => AckOK(me, them, m)

SessionsOK == \A c \in Users : \A p \in Users \ {c} : SessionOK(sess[c][p])

PacketsOK ==
    \A c \in Users : \A p \in Users \ {c} : \A m \in net[c] :
        m.from = p => PacketOK(sess[c][p], sess[p][c], m)

(* What makes KeyAgreement hold after any further step: every session and  *)
(* every packet in flight satisfies the conditions above.                  *)
Inductive == TypeOK /\ SessionsOK /\ PacketsOK /\ KeyAgreement
=============================================================================
