---------------------------- MODULE EarlyExchange ----------------------------
(***************************************************************************)
(* The first end-to-end sessions, those of phase 4 (src/.phases/phase4):   *)
(* E2ESession without sequence rules or renewal, and the client thread     *)
(* that drives it.  handleInit() takes every INIT and answers it; a second *)
(* one throws in CryptoSession::establish(), and nothing catches that.     *)
(*                                                                         *)
(* A session has one key pair for its life and is established with the     *)
(* peer's only one, so two established ends have the same key and the key  *)
(* itself is left out.  Logins are in EarlyChat: here everybody is named.  *)
(* The server's part is to append a packet to its receiver's stream.       *)
(***************************************************************************)
EXTENDS Integers, Sequences

CONSTANTS
    Users,
    MaxRequests  \* MaxRequests[c]: bound on the requests of that user

ASSUME EarlyExchangeAssumption == MaxRequests \in [Users -> Nat]

VARIABLES
    sess,      \* sess[c][p]: sessState and sequenceNo of c's mE2ESessions[p]
    thread,    \* thread[c]: where the client thread is, and for which peer
    status,    \* status[c]: "in", "left" by /quit, or "crashed"
    inbox,     \* inbox[c]: the packets on their way to c
    pktQueue,  \* pktQueue[c]: those a wait of c has put aside
    budget,    \* budget[c]: requests the user may still make
    lost       \* a recv() has taken more than one packet (history)

vars == <<sess, thread, status, inbox, pktQueue, budget, lost>>

At(place) == [at |-> place]

Init ==
    /\ sess = [c \in Users |-> [p \in Users |-> [state |-> "UNINITIALIZED", seq |-> 0]]]
    /\ thread = [c \in Users |-> At("requests")]
    /\ status = [c \in Users |-> "in"]
    /\ inbox = [c \in Users |-> <<>>] /\ pktQueue = inbox
    /\ budget = MaxRequests
    /\ lost = FALSE

-----------------------------------------------------------------------------
Running(c) == status[c] = "in"

Goto(c, place) == thread' = [thread EXCEPT ![c] = place]

\* The server forwards a packet to a client that is still connected.
Sends(streams, p, m) == IF Running(p) THEN [streams EXCEPT ![p] = Append(@, m)] ELSE streams

Crash(c) ==
    /\ status' = [status EXCEPT ![c] = "crashed"]
    /\ UNCHANGED <<sess, thread, budget>>

-----------------------------------------------------------------------------
(* The requests of the user.                                               *)

Requests(c) == Running(c) /\ thread[c] = At("requests")

Asks(c) ==
    /\ Requests(c) /\ budget[c] > 0
    /\ budget' = [budget EXCEPT ![c] = @ - 1]

\* encrypt(): sealed when the session is established, plain otherwise.
SendMessage(c, p) ==
    /\ Asks(c)
    /\ inbox' = Sends(inbox, p, [kind |-> "TEXT", from |-> c,
                                 sealed |-> sess[c][p].state = "ESTABLISHED"])
    /\ UNCHANGED <<sess, thread, status, pktQueue, lost>>

GetUsers(c) ==
    /\ Asks(c)
    /\ inbox' = Sends(inbox, c, [kind |-> "USER_LIST", from |-> c])
    /\ Goto(c, At("waitForType"))
    /\ UNCHANGED <<sess, status, pktQueue, lost>>

\* setupE2E() waits for a packet of the peer also when initiateE2E() had
\* nothing to send, because the session was there.
SetupE2E(c, p) ==
    /\ Asks(c)
    /\ IF sess[c][p].state = "ESTABLISHED"
       THEN UNCHANGED <<sess, inbox>>
       ELSE LET s == [state |-> "INIT_SENT", seq |-> sess[c][p].seq + 1]
            IN  /\ sess' = [sess EXCEPT ![c][p] = s]
                /\ inbox' = Sends(inbox, p, [kind |-> "INIT", from |-> c, seq |-> s.seq])
    /\ Goto(c, [at |-> "waitForPred", peer |-> p])
    /\ UNCHANGED <<status, pktQueue, lost>>

Quit(c) ==
    /\ Asks(c)
    /\ status' = [status EXCEPT ![c] = "left"]
    /\ UNCHANGED <<sess, thread, inbox, pktQueue, lost>>

NoMoreRequests(c) ==
    /\ Requests(c) /\ inbox[c] \o pktQueue[c] # <<>>
    /\ Goto(c, At("poll"))
    /\ UNCHANGED <<sess, status, inbox, pktQueue, budget, lost>>

-----------------------------------------------------------------------------
(* receivePacket(): the first of the n packets of one recv(), the others   *)
(* are lost.  What is on its way need not have come within a second.       *)

Receives(c, m, n) ==
    /\ n \in DOMAIN inbox[c] /\ m = Head(inbox[c])
    /\ lost' = (lost \/ n > 1)

Left(c, n) == [inbox EXCEPT ![c] = SubSeq(@, n + 1, Len(@))]

\* handleInit(): whatever state the session is in.  An E2EAck goes back.
HandleInit(c, m, streams) ==
    IF sess[c][m.from].state = "ESTABLISHED"
    THEN Crash(c) /\ inbox' = streams
    ELSE /\ sess' = [sess EXCEPT ![c][m.from] = [state |-> "ESTABLISHED", seq |-> m.seq]]
         /\ inbox' = Sends(streams, m.from, [kind |-> "ACK", from |-> c, seq |-> m.seq])
         /\ Goto(c, IF thread[c].at = "waitForPred" THEN At("requests") ELSE thread[c])
         /\ UNCHANGED <<status, budget>>

\* Fault: the state is compared the wrong way round.
AckAppliesOtherwise(s, m) == s.state # "INIT_SENT" /\ m.seq = s.seq

AckApplies(s, m) == s.state = "INIT_SENT" /\ m.seq = s.seq

HandleAck(c, m, streams) ==
    /\ sess' = IF AckApplies(sess[c][m.from], m)
               THEN [sess EXCEPT ![c][m.from].state = "ESTABLISHED"] ELSE sess
    /\ inbox' = streams
    /\ Goto(c, IF thread[c].at = "waitForPred" THEN At("requests") ELSE thread[c])
    /\ UNCHANGED <<status, budget>>

HandleE2EPacket(c, m, streams) ==
    \/ m.kind = "INIT" /\ HandleInit(c, m, streams)
    \/ m.kind = "ACK" /\ HandleAck(c, m, streams)

IsE2E(m) == m.kind \in {"INIT", "ACK"}

Wanted(c, m) ==
    \/ thread[c].at = "waitForType" /\ m.kind = "USER_LIST"
    \/ thread[c].at = "waitForPred" /\ IsE2E(m) /\ m.from = thread[c].peer

Waiting(c) == Running(c) /\ thread[c].at \in {"waitForType", "waitForPred"}

PutAside(c) ==
    /\ Waiting(c)
    /\ \E n \in DOMAIN inbox[c] :
          LET m == Head(inbox[c])
          IN  /\ ~Wanted(c, m) /\ Receives(c, m, n)
              /\ pktQueue' = [pktQueue EXCEPT ![c] = Append(@, m)]
              /\ inbox' = Left(c, n)
    /\ UNCHANGED <<sess, thread, status, budget>>

GetUsersReturns(c) ==
    /\ Waiting(c) /\ thread[c].at = "waitForType"
    /\ \/ UNCHANGED <<inbox, lost>>  \* a second without a packet
       \/ \E n \in DOMAIN inbox[c] :
             Wanted(c, Head(inbox[c])) /\ Receives(c, Head(inbox[c]), n) /\ inbox' = Left(c, n)
    /\ Goto(c, At("requests"))
    /\ UNCHANGED <<sess, status, pktQueue, budget>>

SetupE2EReturns(c) ==
    /\ Waiting(c) /\ thread[c].at = "waitForPred"
    /\ \E n \in DOMAIN inbox[c] :
          LET m == Head(inbox[c])
          IN  Wanted(c, m) /\ Receives(c, m, n) /\ HandleE2EPacket(c, m, Left(c, n))
    /\ UNCHANGED pktQueue

\* A second without a packet: setupE2E() reads through the null pointer.
SetupE2ETimesOut(c) ==
    /\ Waiting(c) /\ thread[c].at = "waitForPred"
    /\ Crash(c)
    /\ UNCHANGED <<inbox, pktQueue, lost>>

-----------------------------------------------------------------------------
(* The drain loop.  decrypt() returns "" for a sealed text while the       *)
(* session is not established; nothing of the state tells what was shown.  *)

Polling(c) == Running(c) /\ thread[c] = At("poll")

Handle(c, m, streams) ==
    IF IsE2E(m) THEN HandleE2EPacket(c, m, streams)
    ELSE inbox' = streams /\ UNCHANGED <<sess, thread, status, budget>>

PollQueue(c) ==
    /\ Polling(c) /\ pktQueue[c] # <<>>
    /\ pktQueue' = [pktQueue EXCEPT ![c] = Tail(@)]
    /\ Handle(c, Head(pktQueue[c]), inbox)
    /\ UNCHANGED lost

PollSocket(c) ==
    /\ Polling(c) /\ pktQueue[c] = <<>>
    /\ \E n \in DOMAIN inbox[c] :
          Receives(c, Head(inbox[c]), n) /\ Handle(c, Head(inbox[c]), Left(c, n))
    /\ UNCHANGED pktQueue

PollEmpty(c) ==
    /\ Polling(c) /\ pktQueue[c] = <<>>
    /\ Goto(c, At("requests"))
    /\ UNCHANGED <<sess, status, inbox, pktQueue, budget, lost>>

-----------------------------------------------------------------------------
Next ==
    \E c \in Users :
       \/ \E p \in Users \ {c} : SendMessage(c, p) \/ SetupE2E(c, p)
       \/ GetUsers(c) \/ Quit(c) \/ NoMoreRequests(c)
       \/ PutAside(c) \/ GetUsersReturns(c) \/ SetupE2EReturns(c) \/ SetupE2ETimesOut(c)
       \/ PollQueue(c) \/ PollSocket(c) \/ PollEmpty(c)

Spec == Init /\ [][Next]_vars

-----------------------------------------------------------------------------
\* What c has yet to look at, in the order c would.
Coming(c) == pktQueue[c] \o inbox[c]

Sealed(m) == m.kind = "TEXT" /\ m.sealed

\* It makes the session of c with its sender an established one.
Opens(c, m) ==
    \/ m.kind = "INIT"
    \/ m.kind = "ACK" /\ sess[c][m.from].state = "INIT_SENT"

(* When one end of a session is established, so is the other, or the INIT  *)
(* or ACK that will make it so is on its way, ahead of every text sealed   *)
(* under the new key: no text is read as "" by an end that is not ready    *)
(* for it, through all waits that put packets aside (handleInit,           *)
(* handleAck, setupE2E, decrypt).  Unless recv() lost a packet, or one of  *)
(* the two has ended.                                                      *)
OpensInTime ==
    \A c, p \in Users :
       /\ c # p /\ ~lost /\ Running(c) /\ Running(p)
       /\ sess[p][c].state = "ESTABLISHED" /\ sess[c][p].state # "ESTABLISHED"
       => \E i \in DOMAIN Coming(c) :
             /\ Coming(c)[i].from = p /\ Opens(c, Coming(c)[i])
             /\ \A j \in 1 .. i - 1 : Coming(c)[j].from = p => ~Sealed(Coming(c)[j])
=============================================================================
