------------------------------- MODULE Server -------------------------------
(***************************************************************************)
(* The server's only thread, src/src/chat/server.cpp, with its table of    *)
(* connections (SocketSet), the names on them (IndexedSocketMap) and the   *)
(* listening socket (ConnectionSetter).                                    *)
(*                                                                         *)
(* SIDs count from 1 here.  uplink[c] is what the kernel holds for the     *)
(* server from c: whole packets, then perhaps the end of the stream.  Of   *)
(* what comes before the first packet, Handshake.tla has the detail; here  *)
(* a client that dials has offered all the handshake waits for, or not.    *)
(***************************************************************************)
EXTENDS Integers, Sequences, FiniteSets

CONSTANTS
    Clients,      \* client processes; each has one connection in its life
    Names, NoName,
    Kinds,        \* the kinds of packet the clients send
    MaxRequests,  \* bound on the packets of one client
    HangUps,      \* whether client processes may end
    Coalesce      \* bound on the packets one recv() swallows beyond the first

ASSUME ServerAssumption ==
    /\ NoName \notin Names
    /\ Kinds \subseteq {"LOGIN", "LIST", "QUIT", "MESSAGE"}
    /\ Clients # {} /\ MaxRequests \in Nat /\ Coalesce \in Nat /\ HangUps \in BOOLEAN

VARIABLES
    conns,   \* SocketSet::data: [client, connected], by SID
    names,   \* IndexedSocketMap::mData, by SID; may be shorter than conns
    index,   \* IndexedSocketMap::reverseMap: the SID of a name, or NoSID
    idx,     \* the static idx of waitForRead
    pc,      \* where Server::run is; "killed" by SIGPIPE, "exited" or "crashed"
    guest,   \* the client of the handshake that was begun last
    sid,     \* the SID run() is about to read
    link,    \* link[c]: c is in the handshake ("dialling", "offered"), has left
             \* it ("closed"), or its connection is "up" or "gone"
    uplink,  \* uplink[c]: packets c has sent and the server has not read
    owed,    \* owed[c]: c waits for the reply to its last LOGIN or LIST
    listed,  \* listed[c]: the names in the last user list sent to c (history)
    mail,    \* mail[c]: the messages forwarded to c, oldest first (history)
    swallowed, \* the clients whose login or list a recv() took unread (history)
    wire,    \* wire[c]: what the server's next send() to c meets: an "open"
             \* connection, the "error" of a reset, or one "broken" by then
    budget   \* budget[c]: packets c may still send

tables  == <<conns, names, index>>
clients == <<link, uplink, owed, budget>>
outputs == <<listed, mail, wire, swallowed>>
vars    == <<tables, idx, pc, guest, sid, clients, outputs>>

Links == {"idle", "dialling", "offered", "closed", "up", "gone"}

NoSID == 0
SIDs  == 1 .. Len(conns)

Requests ==
    [kind: {"LOGIN"}, name: Names] \cup [kind: {"LIST", "QUIT"}]
        \cup [kind: {"MESSAGE"}, to: Names]
Fin == [kind |-> "FIN"]  \* the client's socket was closed

TypeOK ==
    /\ conns \in Seq([client: Clients, connected: BOOLEAN])
    /\ names \in Seq(Names \cup {NoName}) /\ Len(names) <= Len(conns)
    /\ index \in [Names -> Nat]
    /\ idx \in Nat \ {0}
    /\ pc \in {"handleConnect", "handshake", "waitForRead", "receivePacket",
              "killed", "exited", "crashed"}
    /\ guest \in Clients
    /\ (pc = "handshake" => link[guest] \in {"dialling", "offered", "closed"})
    /\ sid \in Nat /\ (pc = "receivePacket" => sid \in SIDs)
    /\ link \in [Clients -> Links]
    /\ uplink \in [Clients -> Seq(Requests \cup {Fin})]
    /\ owed \in [Clients -> BOOLEAN]
    /\ listed \in [Clients -> SUBSET (Names \cup {NoName})]
    /\ mail \in [Clients -> Seq([from: Names \cup {NoName}, to: Names])]
    /\ wire \in [Clients -> {"open", "error", "broken"}]
    /\ swallowed \in SUBSET Clients
    /\ budget \in [Clients -> Nat]
    \* A client has one connection, and only once it was accepted.
    /\ \A s, t \in SIDs : conns[s].client = conns[t].client => s = t
    /\ \A s \in SIDs : link[conns[s].client] \in {"up", "gone"}

Init ==
    /\ conns = <<>> /\ names = <<>>
    /\ index = [n \in Names |-> NoSID]
    /\ idx = 1 /\ pc = "handleConnect" /\ sid = NoSID
    /\ guest = (CHOOSE c \in Clients : TRUE)
    /\ link = [c \in Clients |-> "idle"]
    /\ uplink = [c \in Clients |-> <<>>]
    /\ owed = [c \in Clients |-> FALSE]
    /\ listed = [c \in Clients |-> {}]
    /\ mail = [c \in Clients |-> <<>>]
    /\ wire = [c \in Clients |-> "open"]
    /\ swallowed = {}
    /\ budget = [c \in Clients |-> MaxRequests]

-----------------------------------------------------------------------------
(* The clients: a login and a user list are waited for, messages are not.  *)

Dial(c) ==
    /\ link[c] = "idle"
    /\ link' = [link EXCEPT ![c] = "dialling"]
    /\ UNCHANGED <<tables, idx, pc, guest, sid, uplink, owed, budget, outputs>>

(* Its challenge and its key, once the server has shown its certificate.   *)
Offer(c) ==
    /\ pc = "handshake" /\ guest = c /\ link[c] = "dialling"
    /\ link' = [link EXCEPT ![c] = "offered"]
    /\ UNCHANGED <<tables, idx, pc, guest, sid, uplink, owed, budget, outputs>>

(* connect() fails, or the process ends.                                   *)
Abandon(c) ==
    /\ HangUps /\ link[c] = "dialling"
    /\ link' = [link EXCEPT ![c] = "closed"]
    /\ UNCHANGED <<tables, idx, pc, guest, sid, uplink, owed, budget, outputs>>

Ask(c) ==
    /\ link[c] = "up" /\ ~owed[c] /\ budget[c] > 0
    /\ \E m \in Requests :
          /\ m.kind \in Kinds
          /\ uplink' = [uplink EXCEPT ![c] = Append(@, m)]
          /\ owed' = [owed EXCEPT ![c] = m.kind \in {"LOGIN", "LIST"}]
          /\ budget' = [budget EXCEPT ![c] = IF m.kind = "QUIT" THEN 0 ELSE @ - 1]
    /\ UNCHANGED <<tables, idx, pc, guest, sid, link, outputs>>

(* The end of the process.  What it has not read makes a reset of it, and  *)
(* what the server sent and has not arrived is answered by one.            *)
HangUp(c) ==
    /\ HangUps /\ link[c] = "up"
    /\ link' = [link EXCEPT ![c] = "gone"]
    /\ uplink' = [uplink EXCEPT ![c] = Append(@, Fin)]
    /\ \E w \in {"open", "error", "broken"} : wire' = [wire EXCEPT ![c] = w]
    /\ UNCHANGED <<tables, idx, pc, guest, sid, owed, budget, listed, mail, swallowed>>

-----------------------------------------------------------------------------
(* ConnectionSetter::processConnections accepts until nobody is dialling   *)
(* or a handshake fails; Client::setupConnection then dials again.         *)

Dials(c) == link[c] \in {"dialling", "closed"}

(* accept(); from here on the thread is in receiveBytes, however long the  *)
(* client takes to offer what it waits for.                                *)
GetConnection(c) ==
    /\ pc = "handleConnect" /\ Dials(c)
    /\ pc' = "handshake" /\ guest' = c
    /\ UNCHANGED <<tables, idx, sid, clients, outputs>>

Refused(c) ==
    /\ link' = [link EXCEPT ![c] = "idle"]
    /\ pc' = "waitForRead"
    /\ UNCHANGED <<tables, idx, sid, uplink, owed, budget, outputs>>

(* The certificate's file is not found.                                    *)
NoCertificate(c) ==
    /\ pc = "handleConnect" /\ Dials(c)
    /\ guest' = c /\ Refused(c)

(* The key's file is not found, or the client has closed its end.          *)
HandshakeFails ==
    /\ pc = "handshake" /\ link[guest] \in {"offered", "closed"}
    /\ Refused(guest) /\ UNCHANGED guest

(* The client's end was reset: receiveBytes ends the process.              *)
HandshakeExits ==
    /\ pc = "handshake" /\ link[guest] = "closed"
    /\ pc' = "exited"
    /\ UNCHANGED <<tables, idx, guest, sid, clients, outputs>>

Insertion ==
    /\ pc = "handshake" /\ link[guest] = "offered"
    /\ conns' = Append(conns, [client |-> guest, connected |-> TRUE])
    /\ link' = [link EXCEPT ![guest] = "up"]
    /\ pc' = "handleConnect"
    /\ UNCHANGED <<names, index, idx, guest, sid, uplink, owed, budget, outputs>>

NoneDialling ==
    /\ pc = "handleConnect" /\ \A c \in Clients : ~Dials(c)
    /\ pc' = "waitForRead"
    /\ UNCHANGED <<tables, idx, guest, sid, clients, outputs>>

-----------------------------------------------------------------------------
(* SocketSet::waitForRead.  The array given to poll() has one entry per    *)
(* connected socket, but idx runs over all of them: entry k is that of the *)
(* k-th connected one, and behind its end is whatever memory holds         *)
(* ("stray").  The scan returns idx itself, and leaves it there.           *)

Connected(s) == conns[s].connected
Entry(s)     == Cardinality({t \in 1 .. s : Connected(t)})

Events == {Entry(s) : s \in {s \in SIDs : Connected(s) /\ uplink[conns[s].client] # <<>>}}
Beyond == {k \in SIDs : k > Cardinality({s \in SIDs : Connected(s)})}

\* k is the first of hits met from idx on, going round.
FirstOf(k, hits) ==
    \A j \in hits : (k - idx) % Len(conns) <= (j - idx) % Len(conns)

PollIdle ==
    /\ pc = "waitForRead" /\ Events = {}
    /\ pc' = "handleConnect"
    /\ UNCHANGED <<tables, idx, guest, sid, clients, outputs>>

WaitForRead ==
    /\ pc = "waitForRead" /\ \E s \in SIDs : Connected(s)
    /\ \E stray \in SUBSET Beyond : \E k \in Events \cup stray :
          FirstOf(k, Events \cup stray) /\ idx' = k /\ sid' = k
    /\ pc' = "receivePacket"
    /\ UNCHANGED <<tables, guest, clients, outputs>>

-----------------------------------------------------------------------------
(* NetworkHandler::receivePacket on the chosen SID, and the switch of run().*)

Current == conns[sid].client

\* Nothing there: the SID is closed, or not the one poll() meant (it waits 1s).
NothingRead ==
    /\ pc = "receivePacket" /\ (~Connected(sid) \/ uplink[Current] = <<>>)
    /\ pc' = "handleConnect"
    /\ UNCHANGED <<tables, idx, guest, sid, clients, outputs>>

Closed(s) == [conns EXCEPT ![s].connected = FALSE]

PeerClosed ==
    /\ pc = "receivePacket" /\ Connected(sid) /\ uplink[Current] # <<>>
    /\ Head(uplink[Current]) = Fin /\ wire[Current] # "error"
    /\ conns' = Closed(sid)
    /\ uplink' = [uplink EXCEPT ![Current] = Tail(@)]
    /\ pc' = "handleConnect"
    /\ UNCHANGED <<names, index, idx, guest, sid, link, owed, budget, outputs>>

(* A reset that nothing has reported yet: recv() returns -1 and the        *)
(* connection stays; it is the next recv() that returns 0.                 *)
ReadFails ==
    /\ pc = "receivePacket" /\ Connected(sid) /\ uplink[Current] # <<>>
    /\ Head(uplink[Current]) = Fin /\ wire[Current] = "error"
    /\ wire' = [wire EXCEPT ![Current] = "broken"]
    /\ pc' = "handleConnect"
    /\ UNCHANGED <<tables, idx, guest, sid, clients, listed, mail, swallowed>>

\* One recv() takes the packets that have come; only the first is looked at.
Receives(kind) ==
    /\ pc = "receivePacket" /\ Connected(sid) /\ uplink[Current] # <<>>
    /\ Head(uplink[Current]).kind = kind
    /\ \E n \in 1 .. 1 + Coalesce :
          /\ \A i \in 1 .. n : i \in DOMAIN uplink[Current] /\ uplink[Current][i] # Fin
          /\ uplink' = [uplink EXCEPT ![Current] = SubSeq(@, n + 1, Len(@))]
          /\ swallowed' = swallowed \cup
                {c \in {Current} : \E i \in 2 .. n : uplink[c][i].kind \in {"LOGIN", "LIST"}}

(* NetworkHandler::sendPacket to c, whose result nobody looks at.  It      *)
(* returns -1 when the connection was reset, once.  A client that is gone  *)
(* answers with a reset, and the send() after that raises SIGPIPE, which   *)
(* nothing in the server catches or blocks.                                *)
Sends(c) ==
    \/ /\ wire[c] = "open"
       /\ \/ UNCHANGED wire
          \/ link[c] = "gone" /\ wire' = [wire EXCEPT ![c] = "broken"]
       /\ pc' = "handleConnect"
    \/ /\ wire[c] = "error"
       /\ wire' = [wire EXCEPT ![c] = "broken"]
       /\ pc' = "handleConnect"
    \/ /\ wire[c] = "broken"
       /\ pc' = "killed"
       /\ UNCHANGED wire

\* Faults: the old name stays in the index; the deque grows by one too many.
ErasedNothing(s) == index

ResizedPast(s) ==
    [t \in 1 .. IF s > Len(names) THEN s + 1 ELSE Len(names) |->
        IF t <= Len(names) THEN names[t] ELSE NoName]

(* IndexedSocketMap::insert: erase the old name, resize, set, index.       *)
Erased(s) ==
    IF s <= Len(names) /\ names[s] # NoName
    THEN [index EXCEPT ![names[s]] = NoSID]
    ELSE index

Resized(s) ==
    [t \in 1 .. IF s > Len(names) THEN s ELSE Len(names) |->
        IF t <= Len(names) THEN names[t] ELSE NoName]

Insert(s, n) ==
    /\ names' = [Resized(s) EXCEPT ![s] = n]
    /\ index' = [Erased(s) EXCEPT ![n] = s]

\* Faults: a name is given twice; a refusal is not sent.
HandleLoginUnchecked ==
    /\ Receives("LOGIN")
    /\ Insert(sid, Head(uplink[Current]).name)
    /\ owed' = [owed EXCEPT ![Current] = FALSE]
    /\ Sends(Current)
    /\ UNCHANGED <<conns, idx, guest, sid, link, budget, listed, mail>>

HandleLoginSilent ==
    /\ Receives("LOGIN")
    /\ LET n == Head(uplink[Current]).name
       IN  IF index[n] # NoSID
           THEN UNCHANGED <<names, index, owed>>
           ELSE Insert(sid, n) /\ owed' = [owed EXCEPT ![Current] = FALSE]
    /\ Sends(Current)
    /\ UNCHANGED <<conns, idx, guest, sid, link, budget, listed, mail>>

HandleLogin ==
    /\ Receives("LOGIN")
    /\ LET n == Head(uplink[Current]).name
       IN  IF index[n] # NoSID THEN UNCHANGED <<names, index>> ELSE Insert(sid, n)
    /\ owed' = [owed EXCEPT ![Current] = FALSE]
    /\ Sends(Current)
    /\ UNCHANGED <<conns, idx, guest, sid, link, budget, listed, mail>>

(* SocketMap::data reads mData[s] for every connected SID, also where mData *)
(* was not resized yet: that memory reads as an empty name, or crashes.     *)
UserNames ==
    {IF s <= Len(names) THEN names[s] ELSE NoName : s \in {s \in SIDs : Connected(s)}}
Unnamed == \E s \in SIDs : Connected(s) /\ s > Len(names)

GetUserList ==
    /\ Receives("LIST")
    /\ owed' = [owed EXCEPT ![Current] = FALSE]
    /\ Sends(Current)
    /\ listed' = IF wire[Current] = "open"
                 THEN [listed EXCEPT ![Current] = UserNames]
                 ELSE listed
    /\ UNCHANGED <<tables, idx, guest, sid, link, budget, mail>>

(* The name stays with the closed connection. *)
HandleQuit ==
    /\ Receives("QUIT")
    /\ Sends(Current)
    /\ conns' = IF wire[Current] = "broken" THEN conns ELSE Closed(sid)
    /\ UNCHANGED <<names, index, idx, guest, sid, link, owed, budget, listed, mail>>

SenderName == IF sid <= Len(names) THEN names[sid] ELSE NoName

\* A name nobody has, or whose connection is closed: the message is dropped.
DropMessage ==
    /\ Receives("MESSAGE")
    /\ LET to == Head(uplink[Current]).to
       IN  index[to] # NoSID => ~Connected(index[to])
    /\ pc' = "handleConnect"
    /\ UNCHANGED <<tables, idx, guest, sid, link, owed, budget, listed, mail, wire>>

HandleMessage ==
    /\ Receives("MESSAGE")
    /\ LET to == Head(uplink[Current]).to
           receiver == conns[index[to]].client
       IN  /\ index[to] # NoSID /\ Connected(index[to])
           /\ Sends(receiver)
           /\ mail' = IF wire[receiver] = "open"
                      THEN [mail EXCEPT ![receiver] =
                               Append(@, [from |-> SenderName, to |-> to])]
                      ELSE mail
    /\ UNCHANGED <<tables, idx, guest, sid, link, owed, budget, listed>>

(* usernames[sid] or data() read past the end of mData.                    *)
ReadsPastEnd ==
    /\ \/ Receives("LIST") /\ Unnamed
       \/ Receives("MESSAGE") /\ sid > Len(names)
    /\ pc' = "crashed"
    /\ UNCHANGED <<tables, idx, guest, sid, link, owed, budget, listed, mail, wire>>

-----------------------------------------------------------------------------
Run ==
    \/ \E c \in Clients : GetConnection(c) \/ NoCertificate(c)
    \/ HandshakeFails \/ HandshakeExits \/ Insertion
    \/ NoneDialling \/ PollIdle \/ WaitForRead
    \/ NothingRead \/ PeerClosed \/ ReadFails
    \/ HandleLogin \/ GetUserList \/ HandleQuit
    \/ DropMessage \/ HandleMessage \/ ReadsPastEnd

Next == Run \/ \E c \in Clients : Dial(c) \/ Offer(c) \/ Abandon(c) \/ Ask(c) \/ HangUp(c)

(* The thread takes the next step it can.  poll() and select() wait for a   *)
(* second at most, but a handshake waits for as long as its client says     *)
(* nothing: then no step of Run is enabled, and nothing makes a client go   *)
(* on.                                                                      *)
Fairness == WF_vars(Run)

Spec == Init /\ [][Next]_vars
FairSpec == Spec /\ Fairness

-----------------------------------------------------------------------------
(* The names on the connections and their reverse index say the same: a    *)
(* name is indexed under the one SID that has it, whatever logins, renames *)
(* and disconnects came before (IndexedSocketMap, whose keys point into    *)
(* mData and must be erased before the name under them changes).           *)
DirectoryConsistent ==
    /\ \A n \in Names : index[n] # NoSID => index[n] \in DOMAIN names /\ names[index[n]] = n
    /\ \A s \in DOMAIN names : names[s] # NoName => index[names[s]] = s

HeldBy(c) ==
    IF \E s \in DOMAIN names : conns[s].client = c
    THEN names[CHOOSE s \in DOMAIN names : conns[s].client = c]
    ELSE NoName

(* What the server does with its clients' packets is what NameService does *)
(* when they ask the same, with the name of a client being that of its     *)
(* connection: the head of a client's stream claims a free name for it, or *)
(* reaches the holder of the name it is addressed to under the sender's.   *)
Service == INSTANCE NameService WITH
    holds <- [c \in Clients |-> HeldBy(c)], asked <- uplink, Packets <- Requests \cup {Fin}
ImplementsService == Service!Spec

Died == pc \in {"killed", "exited", "crashed"}

\* receiveBytes waits for a client that says nothing.
Blocked == pc = "handshake" /\ link[guest] = "dialling"

(* A reply that a client waits for is sent (handleLogin, getUserList),     *)
(* whoever else writes at the same time.  The exceptions are: its own      *)
(* recv() swallowed the request; a client leaves the server in a handshake *)
(* for ever; the server dies; or some connection has closed, after which   *)
(* waitForRead may take one socket for another for ever (Entry, FirstOf).  *)
RepliesCome ==
    \A c \in Clients :
        [](link[c] = "up" /\ owed[c] =>
              <>(\/ ~owed[c] \/ c \in swallowed \/ link[c] = "gone"
                 \/ Died \/ []Blocked
                 \/ \E s \in SIDs : ~Connected(s)))
=============================================================================
