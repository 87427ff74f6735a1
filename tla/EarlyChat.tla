------------------------------ MODULE EarlyChat ------------------------------
(***************************************************************************)
(* The chat of phases 1 to 3 (src/.phases), before end-to-end sessions:    *)
(* the client thread (client.cpp), the server thread (server.cpp) with its *)
(* first table of connections (SocketSet), which are the same in all       *)
(* three, and the streams between them.  One recv() takes a run of whole   *)
(* packets, and receivePacket() makes one packet of it.  Phase 1 leaves    *)
(* the rest in mRecvBuffer until select() finds more bytes in the socket;  *)
(* phases 2 and 3, which seal packets, lose it.                            *)
(*                                                                         *)
(* SIDs count from 1 here.                                                 *)
(***************************************************************************)
EXTENDS Integers, Sequences, FiniteSets, FiniteSetsExt, SequencesExt

CONSTANTS
    Clients,     \* client processes
    Names, NoName,
    Commands,    \* Commands[c]: what the user of c may type
    MaxRequests, \* MaxRequests[c]: bound on the commands of that user
    MaxQueued    \* bound on UI::requests

ASSUME EarlyChatAssumption ==
    /\ NoName \notin Names
    /\ \A c \in Clients : Commands[c] \subseteq
          [kind : {"LOGIN", "MESSAGE"}, name : Names] \cup [kind : {"LIST", "QUIT"}]
    /\ MaxRequests \in [Clients -> Nat] /\ MaxQueued \in Nat

VARIABLES
    \* A client process.
    ui,        \* ui[c]: "on", "quitting" (in handleCommand), "off", by UI::running
    budget,    \* budget[c]: commands the user may still type
    requests,  \* requests[c]: UI::requests
    pc,        \* pc[c]: where clientLoop is
    curSeqNo,  \* curSeqNo[c]
    pktQueue,  \* pktQueue[c]: packets put aside while waiting for another
    shown,     \* shown[c]: texts on the screen, oldest first
    name,      \* name[c]: the name of the last login that succeeded (history)
    \* The streams: what the kernel holds, and the reader's mRecvBuffer.
    sealed,    \* packets are sealed: phases 2 and 3
    up, upBuffer,
    down, downBuffer,
    dropped,   \* a recv() of phase 2 or 3 took more than one packet (history)
    \* The server.
    conns,     \* SocketSet: [client, connected, fd], by SID
    names,     \* IndexedSocketMap::mData, by SID; may be shorter than conns
    index,     \* IndexedSocketMap::reverseMap: the SID of a name, or NoSID
    idx,       \* the static idx of waitForRead
    server,    \* "running" or "crashed"
    forwarded  \* forwarded[c]: the texts sent on to c (history)

frontend == <<ui, budget, requests>>
client   == <<pc, curSeqNo, pktQueue, shown, name>>
streams  == <<sealed, up, upBuffer, down, downBuffer, dropped>>
tables   == <<conns, names, index, idx, server, forwarded>>
vars     == <<frontend, client, streams, tables>>

NoSID == 0
SIDs  == 1 .. Len(conns)
Null  == [kind |-> "NULL"]  \* a pointer that was moved from

Init ==
    /\ ui = [c \in Clients |-> "on"]
    /\ budget = MaxRequests
    /\ pc = [c \in Clients |-> "setup"]
    /\ curSeqNo = [c \in Clients |-> 0]
    /\ name = [c \in Clients |-> NoName]
    /\ requests = [c \in Clients |-> <<>>] /\ pktQueue = requests /\ shown = requests
    /\ up = requests /\ upBuffer = requests /\ down = requests /\ downBuffer = requests
    /\ forwarded = requests
    /\ sealed \in BOOLEAN /\ dropped = FALSE
    /\ conns = <<>> /\ names = <<>> /\ index = [n \in Names |-> NoSID]
    /\ idx = 1 /\ server = "running"

-----------------------------------------------------------------------------
(* The user: handleCommand and handleMessage put a request in the queue;   *)
(* /quit lowers UI::running only after that, and a tryGetRequest() that    *)
(* comes later finds nothing.                                              *)

Command(c) ==
    /\ ui[c] = "on" /\ budget[c] > 0 /\ Len(requests[c]) < MaxQueued
    /\ \E r \in Commands[c] :
          /\ requests' = [requests EXCEPT ![c] = Append(@, r)]
          /\ ui' = [ui EXCEPT ![c] = IF r.kind = "QUIT" THEN "quitting" ELSE @]
    /\ budget' = [budget EXCEPT ![c] = @ - 1]
    /\ UNCHANGED <<client, streams, tables>>

UIStops(c) ==
    /\ ui[c] = "quitting"
    /\ ui' = [ui EXCEPT ![c] = "off"]
    /\ UNCHANGED <<budget, requests, client, streams, tables>>

-----------------------------------------------------------------------------
(* receivePacket(): buffer and wire are those of the reader.  recv() takes *)
(* n of the packets on the wire, the factory the first in the buffer.      *)

First(buffer, wire, n) == Head(buffer \o SubSeq(wire, 1, n))
Rest(buffer, wire, n)  ==
    IF sealed THEN <<>> ELSE Tail(buffer \o SubSeq(wire, 1, n))
Left(wire, n)          == SubSeq(wire, n + 1, Len(wire))
Joins(n) ==
    /\ dropped' = (dropped \/ (sealed /\ n > 1))
    /\ UNCHANGED sealed

\* What c receives when recv() takes n packets.
Received(c, n) == First(downBuffer[c], down[c], n)

Receives(c, n) ==
    /\ n \in DOMAIN down[c]
    /\ downBuffer' = [downBuffer EXCEPT ![c] = Rest(@, down[c], n)]
    /\ down' = [down EXCEPT ![c] = Left(@, n)]
    /\ Joins(n)

NothingComes(c) == down[c] = <<>>

-----------------------------------------------------------------------------
(* clientLoop().                                                           *)

\* connect() returns when the kernel has the connection; since phase 2, when
\* the handshake of getConnections() is over (see Handshake).
SetupConnection(c) ==
    /\ pc[c] = "setup"
    /\ sealed => \E s \in SIDs : conns[s].client = c
    /\ pc' = [pc EXCEPT ![c] = "acquire"]
    /\ UNCHANGED <<frontend, curSeqNo, pktQueue, shown, name, streams, tables>>

HasRequest(c) == ui[c] # "off" /\ requests[c] # <<>>

\* addRequest() or networkMonitor() has released the semaphore.  A release
\* more than that only runs both loops on nothing.
Awake(c) == pc[c] = "requests" \/ (pc[c] = "acquire" /\ (HasRequest(c) \/ down[c] # <<>>))

NoMoreRequests(c) ==
    /\ Awake(c) /\ ~HasRequest(c)
    /\ pc' = [pc EXCEPT ![c] = "poll"]
    /\ UNCHANGED <<frontend, curSeqNo, pktQueue, shown, name, streams, tables>>

\* What the loop does for a request: send a packet, and wait where it waits.
Sent(c, r) ==
    CASE r.kind = "MESSAGE" -> [kind |-> "MESSAGE", to |-> r.name, text |-> <<c, curSeqNo[c]>>]
      [] r.kind = "LOGIN"   -> [kind |-> "LOGIN", name |-> r.name, seq |-> curSeqNo[c]]
      [] OTHER              -> [kind |-> r.kind, seq |-> curSeqNo[c]]

Waits(kind) ==
    CASE kind = "LOGIN" -> "login" [] kind = "LIST" -> "getUsers"
      [] kind = "QUIT" -> "quit" [] OTHER -> "requests"

TryGetRequest(c) ==
    /\ Awake(c) /\ HasRequest(c)
    /\ LET r == Head(requests[c])
       IN  /\ up' = [up EXCEPT ![c] = Append(@, Sent(c, r))]
           /\ pc' = [pc EXCEPT ![c] = Waits(r.kind)]
           /\ name' = [name EXCEPT ![c] = IF r.kind = "LOGIN" THEN NoName ELSE @]
    /\ requests' = [requests EXCEPT ![c] = Tail(@)]
    /\ curSeqNo' = [curSeqNo EXCEPT ![c] = @ + 1]
    /\ UNCHANGED <<ui, budget, pktQueue, shown, sealed, upBuffer, down, downBuffer, dropped, tables>>

\* Fault: a packet that was not waited for goes to the front.
PutAsideFirst(c, p) == pktQueue' = [pktQueue EXCEPT ![c] = <<p>> \o @]

PutAside(c, p) == pktQueue' = [pktQueue EXCEPT ![c] = Append(@, p)]

IsReply(c, p) == p.kind = "CONTROL" /\ p.replyTo = curSeqNo[c] - 1

\* waitUntilAck(), which has no time limit.  deserialise() reads 32 bits into a
\* 64-bit mReplyTo that nothing initialised, so any reply may look as if it
\* answered something else; it has been moved from when it is put aside.
OtherThanAck(c) ==
    /\ pc[c] \in {"login", "quit"}
    /\ \E n \in DOMAIN down[c] :
          LET p == Received(c, n)
          IN  /\ Receives(c, n)
              /\ PutAside(c, IF p.kind = "CONTROL" THEN Null ELSE p)
    /\ UNCHANGED <<frontend, pc, curSeqNo, shown, name, up, upBuffer, tables>>

LoginReturns(c) ==
    /\ pc[c] = "login"
    /\ \E n \in DOMAIN down[c] :
          LET p == Received(c, n)
          IN  /\ IsReply(c, p) /\ Receives(c, n)
              /\ name' = [name EXCEPT ![c] = IF p.ack THEN p.name ELSE @]
    /\ pc' = [pc EXCEPT ![c] = "requests"]
    /\ UNCHANGED <<frontend, curSeqNo, pktQueue, shown, up, upBuffer, tables>>

\* do { ... } while (waitUntilAck(seq)): an acknowledged DISCONNECT is sent
\* again, to a socket the server has closed.
QuitRepeats(c) ==
    /\ pc[c] = "quit"
    /\ \E n \in DOMAIN down[c] : IsReply(c, Received(c, n)) /\ Receives(c, n)
    /\ up' = [up EXCEPT ![c] = Append(@, [kind |-> "QUIT", seq |-> curSeqNo[c]])]
    /\ curSeqNo' = [curSeqNo EXCEPT ![c] = @ + 1]
    /\ UNCHANGED <<frontend, pc, pktQueue, shown, name, upBuffer, tables>>

\* waitForType(USER_LIST), which gives up after a second without bytes.  The
\* list that comes later answers the next /who, or is dropped by poll().
OtherThanList(c) ==
    /\ pc[c] = "getUsers"
    /\ \E n \in DOMAIN down[c] :
          Received(c, n).kind # "LIST" /\ Receives(c, n) /\ PutAside(c, Received(c, n))
    /\ UNCHANGED <<frontend, pc, curSeqNo, shown, name, up, upBuffer, tables>>

GetUsersReturns(c) ==
    /\ pc[c] = "getUsers"
    /\ \/ \E n \in DOMAIN down[c] : Received(c, n).kind = "LIST" /\ Receives(c, n)
       \/ NothingComes(c) /\ UNCHANGED <<sealed, down, downBuffer, dropped>>
    /\ pc' = [pc EXCEPT ![c] = "requests"]
    /\ UNCHANGED <<frontend, curSeqNo, pktQueue, shown, name, up, upBuffer, tables>>

\* The last loop: what was put aside, then the socket, without waiting.
Show(c, p) == shown' = [shown EXCEPT ![c] = IF p.kind = "MESSAGE" THEN Append(@, p) ELSE @]

PollQueue(c) ==
    /\ pc[c] = "poll" /\ pktQueue[c] # <<>>
    /\ Show(c, Head(pktQueue[c]))
    /\ pktQueue' = [pktQueue EXCEPT ![c] = Tail(@)]
    /\ pc' = [pc EXCEPT ![c] = IF Head(pktQueue[c]) = Null THEN "acquire" ELSE @]
    /\ UNCHANGED <<frontend, curSeqNo, name, streams, tables>>

PollSocket(c) ==
    /\ pc[c] = "poll" /\ pktQueue[c] = <<>>
    /\ \E n \in DOMAIN down[c] : Show(c, Received(c, n)) /\ Receives(c, n)
    /\ UNCHANGED <<frontend, pc, curSeqNo, pktQueue, name, up, upBuffer, tables>>

PollEmpty(c) ==
    /\ pc[c] = "poll" /\ pktQueue[c] = <<>> /\ NothingComes(c)
    /\ pc' = [pc EXCEPT ![c] = "acquire"]
    /\ UNCHANGED <<frontend, curSeqNo, pktQueue, shown, name, streams, tables>>

ClientLoop(c) ==
    \/ NoMoreRequests(c) \/ TryGetRequest(c)
    \/ OtherThanAck(c) \/ LoginReturns(c) \/ QuitRepeats(c)
    \/ OtherThanList(c) \/ GetUsersReturns(c)
    \/ PollQueue(c) \/ PollSocket(c) \/ PollEmpty(c)

-----------------------------------------------------------------------------
(* The server.  Run() accepts whoever is there, lets waitForRead() choose  *)
(* a connection and reads one packet from it.                              *)

\* accept() takes the lowest descriptor that is free.
FreeFd == Min((1 .. Len(conns) + 1) \ {conns[s].fd : s \in {s \in SIDs : conns[s].connected}})

GetConnections(c) ==
    /\ server = "running"
    /\ \A s \in SIDs : conns[s].client # c
    /\ conns' = Append(conns, [client |-> c, connected |-> TRUE, fd |-> FreeFd])
    /\ UNCHANGED <<frontend, client, streams, names, index, idx, server, forwarded>>

(* readPollfd keeps the descriptor of a closed connection: poll() reports   *)
(* it as invalid, or, when accept() has given it out again, what the new    *)
(* connection has to say.  The scan returns the connection of that entry.   *)
Ready(s) ==
    LET users == {t \in SIDs : conns[t].connected /\ conns[t].fd = conns[s].fd}
    IN  \A t \in users : up[conns[t].client] # <<>>

WaitForRead(s) ==
    /\ server = "running" /\ s \in SIDs /\ Ready(s)
    /\ \A t \in SIDs : Ready(t) => (s - idx) % Len(conns) <= (t - idx) % Len(conns)
    /\ idx' = s

\* receivePacket() on a closed connection: idx stays where it is.
NotConnected ==
    /\ \E s \in SIDs : WaitForRead(s) /\ ~conns[s].connected
    /\ UNCHANGED <<frontend, client, streams, conns, names, index, server, forwarded>>

\* The server reads p from the connection s.
ReadsFrom(s, p) ==
    /\ WaitForRead(s) /\ conns[s].connected
    /\ LET c == conns[s].client
       IN  \E n \in DOMAIN up[c] :
              /\ p = First(upBuffer[c], up[c], n)
              /\ upBuffer' = [upBuffer EXCEPT ![c] = Rest(@, up[c], n)]
              /\ up' = [up EXCEPT ![c] = Left(@, n)]
              /\ Joins(n)

\* What s may be read to say.
Readable(s) ==
    LET c == conns[s].client IN {First(upBuffer[c], up[c], n) : n \in DOMAIN up[c]}

SendPacket(s, p) == down' = [down EXCEPT ![conns[s].client] = Append(@, p)]

Control(p, ack) ==
    [kind |-> "CONTROL", ack |-> ack, replyTo |-> p.seq,
     name |-> IF p.kind = "LOGIN" THEN p.name ELSE NoName]

(* IndexedSocketMap::insert(): the old name leaves the index, the deque is  *)
(* made long enough, the new name enters both.                              *)
Insert(s, n) ==
    /\ index' = [m \in Names |->
          IF m = n THEN s
          ELSE IF s <= Len(names) /\ names[s] = m THEN NoSID
          ELSE index[m]]
    /\ names' = [t \in 1 .. Max({s, Len(names)}) |->
          IF t = s THEN n ELSE IF t <= Len(names) THEN names[t] ELSE NoName]

\* Faults: a name that is taken is given again; a refusal is not sent.
TakesAnyName(s, p) == Insert(s, p.name) /\ SendPacket(s, Control(p, TRUE))
RefusesSilently(s, p) ==
    IF index[p.name] # NoSID
    THEN UNCHANGED <<names, index, down>>
    ELSE Insert(s, p.name) /\ SendPacket(s, Control(p, TRUE))

Login(s, p) ==
    IF index[p.name] # NoSID
    THEN UNCHANGED <<names, index>> /\ SendPacket(s, Control(p, FALSE))
    ELSE Insert(s, p.name) /\ SendPacket(s, Control(p, TRUE))

HandleLogin ==
    /\ \E s \in SIDs : \E p \in Readable(s) :
          p.kind = "LOGIN" /\ ReadsFrom(s, p) /\ Login(s, p)
    /\ UNCHANGED <<frontend, client, downBuffer, conns, server, forwarded>>

\* data() and usernames[sid] read mData where it was not resized yet.
Unnamed(s, p) ==
    IF p.kind = "LIST" THEN \E t \in SIDs : conns[t].connected /\ t > Len(names)
                       ELSE p.kind = "MESSAGE" /\ s > Len(names)

ReadsPastEnd ==
    /\ \E s \in SIDs : \E p \in Readable(s) : Unnamed(s, p) /\ ReadsFrom(s, p)
    /\ server' = "crashed"
    /\ UNCHANGED <<frontend, client, down, downBuffer, conns, names, index, forwarded>>

GetUserList ==
    /\ \E s \in SIDs : \E p \in Readable(s) :
          p.kind = "LIST" /\ ReadsFrom(s, p) /\ SendPacket(s, [kind |-> "LIST"])
    /\ UNCHANGED <<frontend, client, downBuffer, conns, names, index, server, forwarded>>

HandleQuit ==
    /\ \E s \in SIDs : \E p \in Readable(s) :
          /\ p.kind = "QUIT" /\ ReadsFrom(s, p)
          /\ SendPacket(s, Control(p, TRUE))
          /\ conns' = [conns EXCEPT ![s].connected = FALSE]
    /\ UNCHANGED <<frontend, client, downBuffer, names, index, server, forwarded>>

\* sendPacket() to a closed connection sends nothing.
HandleMessage ==
    /\ \E s \in SIDs : \E p \in Readable(s) :
          /\ p.kind = "MESSAGE" /\ ReadsFrom(s, p)
          /\ LET sender == IF s <= Len(names) THEN names[s] ELSE NoName
                 text   == [kind |-> "MESSAGE", from |-> sender, text |-> p.text]
                 rcvr   == index[p.to]
             IN  IF rcvr = NoSID \/ ~conns[rcvr].connected
                 THEN UNCHANGED <<down, forwarded>>
                 ELSE /\ SendPacket(rcvr, text)
                      /\ forwarded' = [forwarded EXCEPT ![conns[rcvr].client] = Append(@, text)]
    /\ UNCHANGED <<frontend, client, downBuffer, conns, names, index, server>>

Run ==
    \/ \E c \in Clients : GetConnections(c)
    \/ NotConnected \/ HandleLogin \/ ReadsPastEnd \/ GetUserList
    \/ HandleQuit \/ HandleMessage

-----------------------------------------------------------------------------
Next ==
    \/ Run
    \/ \E c \in Clients :
          Command(c) \/ UIStops(c) \/ SetupConnection(c) \/ ClientLoop(c)

(* The server's thread and every client's are scheduled; users are not     *)
(* obliged to type.                                                        *)
Spec == Init /\ [][Next]_vars
FairSpec == Spec /\ WF_vars(Run) /\ \A c \in Clients : WF_vars(ClientLoop(c))

-----------------------------------------------------------------------------
TextsIn(s) == {i \in DOMAIN s : s[i].kind = "MESSAGE"}

\* s has texts of t, in their order and each of them once; all: every one.
Keeps(s, t, all) ==
    \E at \in [TextsIn(s) -> TextsIn(t)] :
       /\ \A i \in TextsIn(s) : t[at[i]] = s[i]
       /\ \A i, j \in TextsIn(s) : i < j => at[i] < at[j]
       /\ all => \A k \in TextsIn(t) : \E i \in TextsIn(s) : at[i] = k

(* Every text the server sent on to a client is on its screen, put aside   *)
(* by one of the two waits, in mRecvBuffer or still in the socket, once    *)
(* and in the order it was sent on (waitUntilAck, waitForType, poll): no   *)
(* wait for another packet loses a text, repeats one or lets a later one   *)
(* overtake it.  In phases 2 and 3 some may be missing, where recv() took  *)
(* several packets.                                                        *)
TextsInOrder ==
    \A c \in Clients :
       Keeps(shown[c] \o pktQueue[c] \o downBuffer[c] \o down[c], forwarded[c], ~dropped)

(* A client that was told its login succeeded is the one that texts to     *)
(* that name are sent to, until it asks for another name: so no two        *)
(* clients are ever told that they have the same (handleLogin, insert).    *)
NameIsMine ==
    \A c \in Clients :
       name[c] # NoName =>
          /\ index[name[c]] # NoSID
          /\ conns[index[name[c]]].client = c

Behind(c)     == upBuffer[c] # <<>> \/ downBuffer[c] # <<>>
Mistaken(c)   == \E i \in DOMAIN pktQueue[c] : pktQueue[c][i] = Null
AnyClosed     == \E s \in SIDs : ~conns[s].connected

(* A login returns, unless the request or its answer was taken from the    *)
(* socket together with another packet, and lies in mRecvBuffer until more *)
(* bytes come, or is lost; or its number was read over a half that was not *)
(* initialised; or a connection was closed, whose entry waitForRead() then *)
(* returns again and again; or usernames[sid] was read past its end.       *)
LoginAnswered ==
    \A c \in Clients :
       pc[c] = "login" ~>
          \/ pc[c] # "login"
          \/ Behind(c) \/ dropped \/ Mistaken(c) \/ AnyClosed \/ server = "crashed"
=============================================================================
