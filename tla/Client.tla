------------------------------- MODULE Client -------------------------------
(***************************************************************************)
(* The client thread, src/src/chat/client.cpp: one per user, talking to    *)
(* the others through the server's relay.                                  *)
(*                                                                         *)
(* inbox[c] is the stream of packets from the server to c.  A packet c     *)
(* sends is put on its receiver's stream at once: the server handles each  *)
(* client's packets in the order they came and answers or forwards them    *)
(* before it reads the next, so the way to the server only adds delay, and *)
(* a delayed packet is one its receiver has not read yet.                  *)
(***************************************************************************)
EXTENDS E2ESession, Sequences

CONSTANTS
    Users,
    Clock,        \* Clock[c]: the readings system_clock::now() may give at c
    Kinds,        \* the kinds of ClientRequest the users type
    MaxRequests,  \* bound on the requests of one user
    Coalesce      \* bound on the packets one recv() swallows beyond the first

ASSUME ClientAssumption ==
    /\ Clock \in [Users -> SUBSET Nat]
    /\ \A c \in Users : \A t \in Clock[c] : t < NeverStamp
    /\ MaxRequests \in Nat /\ Coalesce \in Nat
    /\ Kinds \subseteq {"Login", "SendMessage", "GetUsers", "E2E", "Quit"}

VARIABLES
    sess,      \* sess[c][p]: c's mE2ESessions[p], there or default-constructed
    inbox,     \* inbox[c]: server to client stream, oldest first
    pktQueue,  \* pktQueue[c]: the packets a wait of c has set aside
    thread,    \* thread[c]: where the client thread is, and for which peer
    status,    \* status[c]: "connected", "in" (named), "left" or "crashed"
    missed,    \* missed[c]: the E2E packets a recv() of c has swallowed (history)
    budget     \* budget[c]: requests c's user may still make

vars == <<sess, inbox, pktQueue, thread, status, missed, budget>>

-----------------------------------------------------------------------------
(* Packets: the two of E2ESession, texts, and the server's replies.        *)

Reply(ok) == [kind |-> "CONTROL", ack |-> ok]
UserList == [kind |-> "USER_LIST"]
Null == [kind |-> "NULL"]  \* the nullptr waitUntilAck puts on pktQueue

Text(c, s) == [kind |-> "TEXT", from |-> c, body |-> Encrypt(s)]

Texts ==
    [kind: {"TEXT"}, from: Users,
     body: [sealed: BOOLEAN, seq: Nat, gen: Generation, peer: PeerKey]]

Packets ==
    InitPackets(Users) \cup AckPackets(Users) \cup Texts
        \cup {Reply(ok) : ok \in BOOLEAN} \cup {UserList}

IsE2E(m) == m.kind \in {"INIT", "ACK"}

(* The program points at which the client thread may be found.             *)
Loop == [at |-> "clientLoop"]
LoginWait == [at |-> "waitUntilAck"]
ListWait == [at |-> "waitForType"]
Wait(pc, p, then) == [at |-> pc, peer |-> p, then |-> then]
Sending(pc, p) == [at |-> pc, peer |-> p]

E2EWaits == {"firstE2E", "secondE2E"}  \* the two waitForPred of setupE2E
\* "send" is the entry of Client::send, "encrypt" the code after its setupE2E;
\* "report" is the end of an /e2e request.
Threads ==
    {Loop, LoginWait, ListWait}
        \cup [at: E2EWaits, peer: Users, then: {"report", "send", "encrypt"}]
        \cup [at: {"send", "encrypt"}, peer: Users]

StreamsOK ==
    /\ inbox \in [Users -> Seq(Packets)]
    /\ pktQueue \in [Users -> Seq(Packets \cup {Null})]

Elements(q) == {q[i] : i \in DOMAIN q}
Pending(c)  == Elements(inbox[c]) \cup Elements(pktQueue[c])

\* The E2E control packets that may still be handled by c.
InFlight(c) == {m \in Pending(c) : IsE2E(m)}

\* A user's sessions, waits and E2E packets are with others.
OthersOnly ==
    \A c \in Users :
        /\ \A m \in InFlight(c) : m.from # c
        /\ thread[c].at \in E2EWaits \cup {"send", "encrypt"} => thread[c].peer # c

TypeOK ==
    /\ sess \in [Users -> [Users -> Session]]
    /\ StreamsOK
    /\ thread \in [Users -> Threads]
    /\ status \in [Users -> {"connected", "in", "left", "crashed"}]
    /\ missed \in [Users -> SUBSET [kind: {"INIT", "ACK"}, from: Users]]
    /\ budget \in [Users -> Nat]
    /\ OthersOnly

Init ==
    /\ sess = [c \in Users |-> [p \in Users |-> NewSession]]
    /\ inbox = [c \in Users |-> <<>>]
    /\ pktQueue = [c \in Users |-> <<>>]
    /\ thread = [c \in Users |-> Loop]
    \* Nobody has logged in, or everybody has before the run starts.
    /\ \E s \in {"connected", "in"} :
          ("Login" \in Kinds \/ s = "in") /\ status = [c \in Users |-> s]
    /\ missed = [c \in Users |-> {}]
    /\ budget = [c \in Users |-> MaxRequests]

-----------------------------------------------------------------------------
Running(c) == status[c] \in {"connected", "in"}

(* The server drops a packet for a name nobody holds or whose socket is gone. *)
Relay(streams, p, m) ==
    IF status[p] = "in" THEN [streams EXCEPT ![p] = Append(@, m)] ELSE streams

\* The E2E packets of whom are lost when recv() returns k behind the first.
Swallowed(c, k) ==
    {[kind |-> inbox[c][i].kind, from |-> inbox[c][i].from] :
        i \in {i \in 2 .. 1 + k : IsE2E(inbox[c][i])}}

(* Client::poll: the queue first, the socket only when it is empty.  The   *)
(* socket's recv may return several packets, of which only the first is    *)
(* parsed (NetworkHandler::receivePacket).                                 *)
Polls(c) ==
    IF pktQueue[c] # <<>>
    THEN {[pkt |-> Head(pktQueue[c]), queue |-> Tail(pktQueue[c]),
           streams |-> inbox, lost |-> {}]}
    ELSE {[pkt |-> Head(inbox[c]), queue |-> <<>>,
           streams |-> [inbox EXCEPT ![c] = SubSeq(@, 2 + k, Len(@))],
           lost |-> Swallowed(c, k)] :
              k \in {k \in 0 .. Coalesce : k < Len(inbox[c])}}

(* An exception leaves the thread's function: std::terminate. *)
Crash(c) ==
    /\ status' = [status EXCEPT ![c] = "crashed"]
    /\ inbox' = [inbox EXCEPT ![c] = <<>>]
    /\ pktQueue' = [pktQueue EXCEPT ![c] = <<>>]
    /\ thread' = [thread EXCEPT ![c] = Loop]
    /\ UNCHANGED <<sess, missed>>

Goto(c, t) == thread' = [thread EXCEPT ![c] = t]
Keep(c, q) == pktQueue' = [pktQueue EXCEPT ![c] = q]
Miss(c, r) == missed' = [missed EXCEPT ![c] = @ \cup r.lost]
UpdateSession(c, p, s) == sess' = [sess EXCEPT ![c][p] = s]

(* setupE2E returns to where it was called from. *)
Return(c) ==
    LET t == thread[c]
    IN  Goto(c, IF t.then = "report" THEN Loop ELSE Sending(t.then, t.peer))

-----------------------------------------------------------------------------
(* Requests from the UI, taken by clientLoop when it is waiting for none.  *)

Request(c, kind) ==
    /\ Running(c) /\ thread[c] = Loop
    /\ kind \in Kinds /\ budget[c] > 0
    /\ budget' = [budget EXCEPT ![c] = @ - 1]

(* The server answers at once; a client asks for its own name only, which  *)
(* is taken when it already holds it.                                      *)
Login(c) ==
    /\ Request(c, "Login")
    /\ inbox' = [inbox EXCEPT ![c] =
                    Append(@, Reply(status[c] # "in"))]
    /\ status' = [status EXCEPT ![c] = "in"]
    /\ Goto(c, LoginWait)
    /\ UNCHANGED <<sess, pktQueue, missed>>

\* Fault: the request does not wait for its reply.
GetUsersUnawaited(c) ==
    /\ Request(c, "GetUsers")
    /\ inbox' = [inbox EXCEPT ![c] = Append(@, UserList)]
    /\ UNCHANGED <<sess, thread, pktQueue, status, missed>>

GetUsers(c) ==
    /\ Request(c, "GetUsers")
    /\ inbox' = [inbox EXCEPT ![c] = Append(@, UserList)]
    /\ Goto(c, ListWait)
    /\ UNCHANGED <<sess, pktQueue, status, missed>>

(* connectTo, then send; each looks at the clock to see if the session is  *)
(* stale, and once more to stamp the INIT that renews it.                  *)
Connect(c, p) ==
    /\ Request(c, "SendMessage") /\ status[c] = "in"
    /\ \E now \in Clock[c] : ~IsStale(sess[c][p], now)
    /\ Goto(c, Sending("send", p))
    /\ UNCHANGED <<sess, inbox, pktQueue, status, missed>>

\* Fault: the caller goes on before the renewed session is established.
BeginRefreshUnawaited(c, p, then) ==
    \E seen, now \in Clock[c] :
        /\ IsStale(sess[c][p], seen)
        /\ LET s == Refresh(sess[c][p], now)
           IN  UpdateSession(c, p, s) /\ inbox' = Relay(inbox, p, InitPacket(c, s))
        /\ Goto(c, Sending(then, p))

BeginRefresh(c, p, then) ==
    \E seen, now \in Clock[c] :
        /\ IsStale(sess[c][p], seen)
        /\ LET s == Refresh(sess[c][p], now)
           IN  /\ UpdateSession(c, p, s)
               /\ inbox' = Relay(inbox, p, InitPacket(c, s))
        /\ Goto(c, Wait("firstE2E", p, then))

ConnectStale(c, p) ==
    /\ Request(c, "SendMessage") /\ status[c] = "in"
    /\ BeginRefresh(c, p, "send")
    /\ UNCHANGED <<pktQueue, status, missed>>

(* setupE2E(uname): initiateE2E sends nothing unless the session is new,   *)
(* and setupE2E waits for an answer either way.                            *)
E2EBegin(c, p) ==
    /\ Request(c, "E2E") /\ status[c] = "in"
    /\ sess[c][p].state = "UNINITIALIZED"
    /\ \E now \in Clock[c] :
          LET s == Initiate(sess[c][p], now)
          IN  /\ UpdateSession(c, p, s)
              /\ inbox' = Relay(inbox, p, InitPacket(c, s))
    /\ Goto(c, Wait("firstE2E", p, "report"))
    /\ UNCHANGED <<pktQueue, status, missed>>

E2EAgain(c, p) ==
    /\ Request(c, "E2E") /\ status[c] = "in"
    /\ sess[c][p].state # "UNINITIALIZED"
    /\ Goto(c, Wait("firstE2E", p, "report"))
    /\ UNCHANGED <<sess, inbox, pktQueue, status, missed>>

Quit(c) ==
    /\ Request(c, "Quit")
    /\ status' = [status EXCEPT ![c] = "left"]
    /\ inbox' = [inbox EXCEPT ![c] = <<>>]
    /\ pktQueue' = [pktQueue EXCEPT ![c] = <<>>]
    /\ UNCHANGED <<sess, thread, missed>>
-----------------------------------------------------------------------------
(* What the code does with a packet r took from the queue or the socket.   *)

\* Fault: the key of the ACK is from before the INIT.
AcceptInitOldKey(c, r) ==
    LET p == r.pkt.from
        s == HandleInit(sess[c][p], r.pkt)
    IN  /\ UpdateSession(c, p, s)
        /\ inbox' = Relay(r.streams, p, [AckPacket(c, s) EXCEPT !.gen = sess[c][p].gen])
        /\ Keep(c, r.queue) /\ Miss(c, r)
        /\ UNCHANGED status

(* Session::handleInit, and the ACK that goes out when it accepts. *)
AcceptInit(c, r) ==
    LET p == r.pkt.from
        s == HandleInit(sess[c][p], r.pkt)
    IN  /\ UpdateSession(c, p, s)
        /\ inbox' = Relay(r.streams, p, AckPacket(c, s))
        /\ Keep(c, r.queue) /\ Miss(c, r)
        /\ UNCHANGED status

(* Session::handleAck with the sequence number and key it read. *)
ApplyAck(c, r, p, seq, key) ==
    /\ IF AckApplies(sess[c][p], seq)
       THEN UpdateSession(c, p, HandleAck(sess[c][p], key))
       ELSE UNCHANGED sess
    /\ inbox' = r.streams
    /\ Keep(c, r.queue) /\ Miss(c, r)
    /\ UNCHANGED status

TakeOnly(c, r) ==
    /\ inbox' = r.streams
    /\ Keep(c, r.queue) /\ Miss(c, r)
    /\ UNCHANGED <<sess, status>>

(* A packet the wait is for: the CONTROL reply whose replyTo is the login's *)
(* (only its low 32 bits are read into an uninitialised uint64_t, so it may *)
(* not match: "intact" is what the build left there), the user list, or an  *)
(* E2E packet of the awaited peer.                                          *)
Wanted(t, m) ==
    \/ t.at = "waitUntilAck" /\ m.kind = "CONTROL"
    \/ t.at = "waitForType" /\ m.kind = "USER_LIST"
    \/ t.at \in E2EWaits /\ IsE2E(m) /\ m.from = t.peer

Draining(c) == Running(c) /\ thread[c] = Loop
Waiting(c) == Running(c) /\ thread[c].at \in {"waitUntilAck", "waitForType"} \cup E2EWaits

LoginReply(c) ==
    /\ Waiting(c) /\ thread[c] = LoginWait
    /\ \E r \in Polls(c), intact \in BOOLEAN :
          /\ Wanted(thread[c], r.pkt)
          /\ inbox' = r.streams /\ Miss(c, r)
          /\ IF intact
             THEN Keep(c, r.queue) /\ Goto(c, Loop)
             ELSE Keep(c, Append(r.queue, Null)) /\ UNCHANGED thread
    /\ UNCHANGED <<sess, status, budget>>

UsersReply(c) ==
    /\ Waiting(c) /\ thread[c] = ListWait
    /\ \E r \in Polls(c) : Wanted(thread[c], r.pkt) /\ TakeOnly(c, r)
    /\ Goto(c, Loop)
    /\ UNCHANGED budget

(* The conflicting INIT of setupE2E's first wait. *)
FirstInit(c) ==
    /\ Waiting(c) /\ thread[c].at = "firstE2E"
    /\ \E r \in Polls(c) :
          LET s == sess[c][thread[c].peer]
          IN  /\ Wanted(thread[c], r.pkt) /\ r.pkt.kind = "INIT"
              /\ IF ~Accepts(s, r.pkt)
                 THEN /\ TakeOnly(c, r)
                      /\ Goto(c, [thread[c] EXCEPT !.at = "secondE2E"])
                 ELSE IF EstablishThrows(s)
                 THEN Crash(c)
                 ELSE AcceptInit(c, r) /\ Return(c)
    /\ UNCHANGED budget

(* An ACK ends either wait, whether or not it establishes the session. *)
EitherAck(c) ==
    /\ Waiting(c) /\ thread[c].at \in E2EWaits
    /\ \E r \in Polls(c) :
          LET s == sess[c][thread[c].peer]
          IN  /\ Wanted(thread[c], r.pkt) /\ r.pkt.kind = "ACK"
              /\ IF AckApplies(s, r.pkt.seq) /\ EstablishThrows(s)
                 THEN Crash(c)
                 ELSE ApplyAck(c, r, r.pkt.from, r.pkt.seq, r.pkt.gen) /\ Return(c)
    /\ UNCHANGED budget

(* The second wait also hands an INIT to handleAck, which reads no ACK from *)
(* it: the uninitialised sequence number may be the session's, the key is  *)
(* empty.                                                                  *)
SecondInit(c) ==
    /\ Waiting(c) /\ thread[c].at = "secondE2E"
    /\ \E r \in Polls(c), lucky \in BOOLEAN :
          LET s == sess[c][thread[c].peer]
          IN  /\ Wanted(thread[c], r.pkt) /\ r.pkt.kind = "INIT"
              /\ IF lucky /\ s.state \in Sent /\ EstablishThrows(s)
                 THEN Crash(c)
                 ELSE /\ IF lucky
                         THEN ApplyAck(c, r, r.pkt.from, s.seq, BogusKey)
                         ELSE TakeOnly(c, r)
                      /\ Return(c)
    /\ UNCHANGED budget

(* Any other packet goes to the back of the queue poll takes from. *)
SetAside(c) ==
    /\ Waiting(c)
    /\ \E r \in Polls(c) :
          /\ r.pkt # Null /\ ~Wanted(thread[c], r.pkt)
          /\ inbox' = r.streams
          /\ Keep(c, Append(r.queue, r.pkt)) /\ Miss(c, r)
    /\ UNCHANGED <<sess, thread, status, budget>>

(* The nullptr left by waitUntilAck reads as "nothing there" and is gone. *)
SkipNull(c) ==
    /\ Waiting(c)
    /\ \E r \in Polls(c) : r.pkt = Null /\ TakeOnly(c, r)
    /\ UNCHANGED <<thread, budget>>

-----------------------------------------------------------------------------
(* The drain loop of clientLoop, one packet at a time.  It ignores packets *)
(* of other kinds; RepliesMatch shows that none can be there.              *)

(* Client::handleE2EPacket.  Its ACK branch never runs (see AcksAwaited). *)
DrainE2E(c) ==
    /\ Draining(c)
    /\ \E r \in Polls(c) :
          /\ IsE2E(r.pkt)
          /\ LET s == sess[c][r.pkt.from]
                 applies == IF r.pkt.kind = "INIT" THEN Accepts(s, r.pkt)
                            ELSE AckApplies(s, r.pkt.seq)
             IN  IF applies /\ EstablishThrows(s)
                 THEN Crash(c)
                 ELSE /\ IF r.pkt.kind = "ACK"
                         THEN ApplyAck(c, r, r.pkt.from, r.pkt.seq, r.pkt.gen)
                         ELSE IF applies THEN AcceptInit(c, r) ELSE TakeOnly(c, r)
                      /\ UNCHANGED thread
    /\ UNCHANGED budget

DrainText(c) ==
    /\ Draining(c)
    /\ \E r \in Polls(c) :
          /\ r.pkt.kind = "TEXT"
          /\ IF Decrypt(sess[c][r.pkt.from], r.pkt.body) = "throws"
             THEN Crash(c)
             ELSE TakeOnly(c, r) /\ UNCHANGED thread
    /\ UNCHANGED budget

-----------------------------------------------------------------------------
(* Client::send: stale again after connectTo, and it renews once more. *)

Transmit(c, p) ==
    /\ inbox' = Relay(inbox, p, Text(c, sess[c][p]))
    /\ Goto(c, Loop)
    /\ UNCHANGED <<sess, pktQueue, status, missed, budget>>

Send(c) ==
    /\ Running(c) /\ thread[c].at = "send"
    /\ \E now \in Clock[c] : ~IsStale(sess[c][thread[c].peer], now)
    /\ Transmit(c, thread[c].peer)

SendStale(c) ==
    /\ Running(c) /\ thread[c].at = "send"
    /\ BeginRefresh(c, thread[c].peer, "encrypt")
    /\ UNCHANGED <<pktQueue, status, missed, budget>>

SendRenewed(c) ==
    /\ Running(c) /\ thread[c].at = "encrypt"
    /\ Transmit(c, thread[c].peer)

-----------------------------------------------------------------------------
Requests(c) ==
    \/ Login(c)
    \/ GetUsers(c)
    \/ Quit(c)
    \/ \E p \in Users \ {c} :
          Connect(c, p) \/ ConnectStale(c, p) \/ E2EBegin(c, p) \/ E2EAgain(c, p)

Reads(c) ==
    \/ LoginReply(c) \/ UsersReply(c)
    \/ FirstInit(c) \/ EitherAck(c) \/ SecondInit(c)
    \/ SetAside(c) \/ SkipNull(c)
    \/ DrainE2E(c) \/ DrainText(c)

Step(c) == Reads(c) \/ Send(c) \/ SendStale(c) \/ SendRenewed(c)

Next == \E c \in Users : Requests(c) \/ Step(c)

(* A running client polls its queue and socket for ever (waitForPred spins; *)
(* the network monitor wakes clientLoop while the socket is readable).      *)
Fairness == \A c \in Users : WF_vars(Step(c))

Spec == Init /\ [][Next]_vars
FairSpec == Spec /\ Fairness

-----------------------------------------------------------------------------
(* Properties                                                              *)

(* The sessions and the E2E packets in flight are those of KeyExchange. *)
Exchange == INSTANCE KeyExchange WITH net <- [c \in Users |-> InFlight(c)]
ImplementsExchange == Exchange!Spec

(* Two ends established with the same sequence number hold the same key    *)
(* (E2ESession::handleInit, handleAck, refresh under the real queues).     *)
KeyAgreement ==
    \A c \in Users : \A p \in Users \ {c} : Agree(sess[c][p], sess[p][c])

(* No exception leaves the client thread: no key pair is established twice, *)
(* and no text from a peer fails to open under the current or the previous  *)
(* key (CryptoSession.cc:19, AESGCM.cc; nothing catches them).              *)
NoUncaughtException == \A c \in Users : status[c] # "crashed"

(* A text that the client is about to read opens: the reader has neither   *)
(* missed the key it was sealed with nor renewed past the previous one, so *)
(* the user is never shown an empty line (E2ESession::decrypt, line 123).  *)
Readable ==
    \A c \in Users :
        Draining(c) => \A r \in Polls(c) :
            r.pkt.kind = "TEXT" => Decrypt(sess[c][r.pkt.from], r.pkt.body) = "text"

(* The sequence numbers of two ends are never more than one attempt apart. *)
SeqLockstep ==
    \A c, p \in Users : c # p => sess[c][p].seq <= sess[p][c].seq + 1

(* No recv() of c has swallowed an ACK of p, which nobody sends again. *)
Heard(c, p) == [kind |-> "ACK", from |-> p] \notin missed[c]

(* When setupE2E returns (to report, to connectTo or to send), the session *)
(* is established: its result is true on every path (client.cpp:137-147),  *)
(* and the session is as it says unless a recv() of the caller swallowed   *)
(* an ACK of that peer.  SuccessIsTrue is the claim without the exception. *)
EstablishedOnReturn ==
    [][\A c \in Users :
        thread[c].at \in E2EWaits /\ thread'[c].at \notin E2EWaits
            /\ status'[c] # "crashed" /\ Heard(c, thread[c].peer)
        => sess'[c][thread[c].peer].state = "ESTABLISHED"]_vars

(* When setupE2E returns to an /e2e, the session is established: the user  *)
(* is told so, "E2E Connection Succeeded" (client.cpp:318-322).  The code  *)
(* breaks it: an INIT ends the second wait too (client.cpp:138-142).       *)
SuccessIsTrue ==
    [][\A c \in Users :
        thread[c].at \in E2EWaits /\ thread'[c] = Loop
            /\ status'[c] # "crashed" /\ thread[c].then = "report"
        => sess'[c][thread[c].peer].state = "ESTABLISHED"]_vars

(* A text leaves unsealed only from a session no INIT was ever sent or     *)
(* accepted on: once a user asked for end-to-end encryption, nothing it    *)
(* sends to that peer is readable by the server, unless a recv() of its    *)
(* own swallowed an ACK of that peer (setupE2E may then return amid an     *)
(* attempt, in which E2ESession::encrypt leaves texts plain).              *)
NoDowngrade ==
    [][\A c, p \in Users :
        Len(inbox'[p]) > Len(inbox[p]) =>
            LET m == inbox'[p][Len(inbox'[p])]
            IN  m.kind = "TEXT" /\ m.from = c /\ Heard(c, p) =>
                    m.body.sealed \/ sess[c][p].state = "UNINITIALIZED"]_vars

(* The client waits for every reply it asked for and reads it in that wait, *)
(* so a reply is never taken for that of a later request: getUsers takes   *)
(* any USER_LIST, and the drain loop would drop it.                        *)
RepliesMatch ==
    \A c \in Users : \A i \in DOMAIN inbox[c] :
        /\ inbox[c][i].kind = "CONTROL" => thread[c] = LoginWait
        /\ inbox[c][i].kind = "USER_LIST" => thread[c] = ListWait

(* Every ACK is read by the wait that its INIT began, never by the drain   *)
(* loop: no wait gives up while an answer to it is still on the way, though *)
(* an INIT of the peer may end one (setupE2E, client.cpp:102-154).         *)
AcksAwaited ==
    \A c \in Users : Draining(c) => \A r \in Polls(c) : r.pkt.kind # "ACK"

(* With nothing in flight between two users and neither waiting for the    *)
(* other, both ends are new or both established with one key (setupE2E,    *)
(* handleE2EPacket), whatever a recv() swallowed: the end that missed an   *)
(* ACK is found attempting only while the other attempts anew.             *)
QuiescentAgreement ==
    \A c \in Users : \A p \in Users \ {c} :
        (/\ status[c] = "in" /\ status[p] = "in"
         /\ ~\E m \in InFlight(c) : m.from = p
         /\ ~\E m \in InFlight(p) : m.from = c
         /\ thread[c].at \notin E2EWaits /\ thread[p].at \notin E2EWaits)
        => \/ sess[c][p].state = "UNINITIALIZED" /\ sess[p][c].state = "UNINITIALIZED"
           \/ /\ Sound(sess[c][p]) /\ Sound(sess[p][c])
              /\ sess[c][p].seq = sess[p][c].seq

(* A wait that polls its own set-aside packet for ever. *)
Spinning(c) ==
    /\ Waiting(c) /\ pktQueue[c] # <<>>
    /\ Head(pktQueue[c]) # Null /\ ~Wanted(thread[c], Head(pktQueue[c]))

(* An attempt at a session is answered, even when both ends attempt at     *)
(* once, unless a set-aside packet keeps an end spinning, an end left or   *)
(* recv() swallowed an INIT or ACK of the pair (setupE2E, client.cpp:102). *)
(* It is said of runs in which all have logged in before the first attempt: *)
(* the server drops an INIT for a name nobody holds yet, and whoever sent  *)
(* it refuses what the other sends later.                                  *)
AttemptResolves ==
    (\A c \in Users : status[c] = "in") => \A c, p \in Users :
        sess[c][p].state \in Sent ~>
            \/ sess[c][p].state = "ESTABLISHED"
            \/ Spinning(c) \/ Spinning(p)
            \/ ~Running(p) \/ ~Running(c)
            \/ (\E m \in missed[c] : m.from = p) \/ (\E m \in missed[p] : m.from = c)
=============================================================================
