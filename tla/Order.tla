-------------------------------- MODULE Order --------------------------------
(***************************************************************************)
(* What holds between two client threads while they exchange keys: the     *)
(* inductive invariants behind the safety properties of Client, proved in  *)
(* ClientProofs.                                                           *)
(*                                                                         *)
(* A pair of clients is seen from one end, the reader's.  s and w are the  *)
(* session of the reader with the sender and the wait of the reader on     *)
(* the sender ("no" if it has none), t and x are those of the sender; q is *)
(* the stream of the reader, in which the packets from p are the sender's, *)
(* and back the stream of the sender.                                      *)
(***************************************************************************)
EXTENDS Client

\* The positions on stream q of the packets of p, and of its INITs and ACKs.
From(q, p) == {i \in DOMAIN q : q[i].kind \in {"INIT", "ACK", "TEXT"} /\ q[i].from = p}
InitsOf(q, p) == {i \in From(q, p) : q[i].kind = "INIT"}
AcksOf(q, p) == {i \in From(q, p) : q[i].kind = "ACK"}

\* The sequence number a packet carries, a text inside its encryption.
Number(m) == IF m.kind = "TEXT" THEN m.body.seq ELSE m.seq

\* The session waits for the answer to an INIT it has sent.
Attempting(s, w) == w # "no" /\ s.state \in Sent

-----------------------------------------------------------------------------
(* Whatever recv() swallows.                                               *)

\* The sender's packets carry its sequence numbers in the order it used them,
\* and an INIT is always the first packet of its number.
Numbered(q, p, t) ==
    /\ \A i \in From(q, p) : Number(q[i]) <= t.seq
    /\ \A i, j \in From(q, p) : i < j =>
          /\ Number(q[i]) <= Number(q[j])
          /\ q[j].kind = "INIT" => Number(q[i]) < Number(q[j])

\* An INIT the reader would accept is the one the sender is attempting now.
InitRight(m, p, s, w, t, x) ==
    /\ m.seq >= s.seq
    /\ (~Attempting(s, w) \/ w = "secondE2E") => m.seq > s.seq
    /\ m.seq = t.seq => t.ts <= m.ts
    /\ \/ Attempting(t, x) /\ m = InitPacket(p, t)
       \/ ~Accepts(s, m)

InitsRight(q, p, s, w, t, x) ==
    \A i \in InitsOf(q, p) : InitRight(q[i], p, s, w, t, x)

\* An ACK is the only one, answers the reader's own attempt, finds no INIT
\* the reader would accept before it, and comes from a session that is
\* established with that attempt, or has given it up for a newer one.
AckRight(q, p, i, s, w, t, x, back, c) ==
    /\ Attempting(s, w) /\ q[i].seq = s.seq
    /\ InitsOf(back, c) = {}
    /\ \A j \in InitsOf(q, p) : j < i => ~Accepts(s, q[j])
    /\ AcksOf(q, p) = {i}
    /\ \/ /\ t.state = "ESTABLISHED" /\ t.seq = s.seq
          /\ t.gen = q[i].gen /\ t.peer = s.gen
       \/ t.seq > s.seq /\ Attempting(t, x) /\ x = "firstE2E"

AcksRight(q, p, s, w, t, x, back, c) ==
    \A i \in AcksOf(q, p) : AckRight(q, p, i, s, w, t, x, back, c)

\* Both ends are established, at the same number, with each other's key.
Matches(s, t) ==
    /\ s.state = "ESTABLISHED" /\ t.state = "ESTABLISHED"
    /\ s.seq = t.seq /\ s.gen = t.peer /\ t.gen = s.peer

\* A sender that is done, whether it succeeded or not, has a matching reader,
\* or an ACK on the way to it, or a reader whose own attempt is at most one
\* number ahead.
Settled(q, p, s, w, t, x) ==
    (t.state = "ESTABLISHED" \/ (t.state \in Sent /\ x = "no")) =>
       \/ Matches(s, t)
       \/ t.state = "ESTABLISHED" /\ AcksOf(q, p) # {}
       \/ /\ Attempting(s, w) /\ s.seq \in {t.seq, t.seq + 1}
          /\ InitsOf(q, p) = {} /\ AcksOf(q, p) = {}

\* A sealed text opens with the reader's session as it is, or as the ACK
\* before it will leave it, or waits behind the reader's attempt.
TextRight(q, p, i, s, w) ==
    LET b == q[i].body
    IN  \/ /\ s.state = "ESTABLISHED" /\ s.seq = b.seq
           /\ s.gen = b.peer /\ s.peer = b.gen
        \/ \E j \in AcksOf(q, p) :
              j < i /\ b.seq = s.seq /\ b.peer = s.gen /\ b.gen = q[j].gen
        \/ Attempting(s, w) /\ \A j \in InitsOf(q, p) \cup AcksOf(q, p) : j > i

TextsRight(q, p, s, w) ==
    \A i \in From(q, p) : q[i].kind = "TEXT" /\ q[i].body.sealed => TextRight(q, p, i, s, w)

\* No end is more than one attempt ahead, none once an INIT has crossed it.
Lockstep(s, w, t) ==
    /\ s.seq <= t.seq + 1
    /\ Attempting(s, w) /\ w = "secondE2E" => t.seq >= s.seq

Half(c, p, s, t, w, x, q, back) ==
    /\ Numbered(q, p, t)
    /\ InitsRight(q, p, s, w, t, x)
    /\ AcksRight(q, p, s, w, t, x, back, c)
    /\ Settled(q, p, s, w, t, x)
    /\ TextsRight(q, p, s, w)
    /\ Lockstep(s, w, t)

\* The two ends of the pair of c and p.
Linked(c, p, s, t, w, x, q, back) ==
    /\ Half(c, p, s, t, w, x, q, back)
    /\ Half(p, c, t, s, x, w, back, q)

-----------------------------------------------------------------------------
(* The same of a state of Client.                                          *)

\* The wait of c on p: the first or the second of setupE2E, or none.
Mode(c, p) ==
    IF thread[c].at \in E2EWaits /\ thread[c].peer = p THEN thread[c].at ELSE "no"

Link(c, p) ==
    Linked(c, p, sess[c][p], sess[p][c], Mode(c, p), Mode(p, c), inbox[c], inbox[p])

\* A wait sets one packet aside at most: it polls that one again and again,
\* ahead of the socket.  The drain loop leaves none.
QueueOK(c) ==
    pktQueue[c] = <<>> \/ \E m : /\ pktQueue[c] = <<m>>
                                 /\ Waiting(c) /\ ~Wanted(thread[c], m)

IsReply(m) == m.kind \in {"CONTROL", "USER_LIST"}

\* The server's only reply on the stream is the one the thread waits for.
RepliesOK(c) ==
    \A i \in DOMAIN inbox[c] : IsReply(inbox[c][i]) =>
        /\ thread[c] = IF inbox[c][i].kind = "CONTROL" THEN LoginWait ELSE ListWait
        /\ \A j \in DOMAIN inbox[c] : IsReply(inbox[c][j]) => i = j

\* No exception has ended c, and only a named user deals with a peer.
NamedOK(c) ==
    /\ status[c] # "crashed"
    /\ thread[c].at \in E2EWaits \cup {"send", "encrypt"} => status[c] = "in"

Local == \A c \in Users : QueueOK(c) /\ RepliesOK(c) /\ NamedOK(c)

\* No packet of c comes back to c.
NoEcho == \A c \in Users : From(inbox[c], c) = {}

Links == NoEcho /\ \A c \in Users : \A p \in Users \ {c} : Link(c, p)

-----------------------------------------------------------------------------
(* What a swallowed ACK changes.                                           *)

\* An attempt its user no longer waits for has missed its answer, and ended
\* on an INIT of the sender, which is an attempt ahead.
Late(s, w, t) == w = "no" /\ s.state \in Sent => t.seq > s.seq

\* A reader that has missed no ACK of the sender: none of its waits ends
\* without an answer, the second wait finds the ACK before any other INIT,
\* and an INIT whose sender no longer attempts is followed by its ACK.
Fine(p, s, t, w, x, q) ==
    /\ w = "no" => s.state \notin Sent
    /\ w # "no" => s.state # "UNINITIALIZED"
    /\ s.state = "ESTABLISHED" => s.peer # BogusKey
    /\ Attempting(s, w) /\ w = "secondE2E" =>
          /\ t.seq >= 1
          /\ t.state = "ESTABLISHED" => AcksOf(q, p) # {}
          /\ \A i \in InitsOf(q, p) : \E j \in AcksOf(q, p) : j < i
    /\ \A i \in InitsOf(q, p) : Attempting(t, x) \/ \E j \in AcksOf(q, p) : j > i
    /\ \A i, j \in InitsOf(q, p) : i < j => \E k \in AcksOf(q, p) : i < k /\ k < j

Tidy(c, p) ==
    /\ Late(sess[c][p], Mode(c, p), sess[p][c])
    /\ Heard(c, p) => Fine(p, sess[c][p], sess[p][c], Mode(c, p), Mode(p, c), inbox[c])

Orders == \A c \in Users : \A p \in Users \ {c} : Tidy(c, p)
=============================================================================
