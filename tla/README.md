# Verification of leaky-chat

leaky-chat is a chat program: one server process relays packets between client
processes, and two clients may set up an end-to-end encrypted session through
it. This directory holds TLA+ modules of its code, the TLC configurations that
check them on small instances, and theorems about them that TLAPS checks for
every instance.

The repository keeps the program as it was after each of five phases
(`src/.phases/phase1` to `phase5`) beside the current code (`src/src`). The
phases differ in what a connection and a session promise, and the models follow
them: phases 1 to 3 have a chat without end-to-end sessions, phase 4 the first
sessions, phase 5 and the current code the sessions with sequence numbers and
renewal.

Paths below are relative to the repository; `client.cpp` and so on are under
`src/src/chat` and `src/src/utils`. In `PROJECT.json` each definition is given
with the lines it models. Where a module models code of which phase 5 has a copy
that differs in nothing but what it prints, and another module already stands for
the current lines, the definition is given with the copy's lines; this concerns
`Frontend`, `KeyExchange`, `NameService`, `ByteQueue`, `Channel`,
`DHKeyExchange` and parts of `Codec`, `Server`, `Client` and `Handshake`.

## 1. The system

### Processes and threads

    user -> UI thread --ClientRequest--> client thread --packets--> server thread
                ^                            ^  |                       |
                +--- messages to show -------+  +<------ packets -------+
                                network monitor wakes the client thread

The server has one thread. A client has three, besides `main`: the UI, the
client thread and a network monitor that wakes it while the socket is readable.

### Inventory

| component | state | operations | hard behaviour | what makes it correct |
|---|---|---|---|---|
| End-to-end session (`E2ESession.hh/.cc`) | state, sequence number, timestamp, current and previous `CryptoSession` | `initiate`, `refresh`, `handleInit`, `handleAck`, `encrypt`, `decrypt`, `isStale` | crossing INITs, stale ACKs, renewal with texts in flight | ends with one number share a key; no key pair is established twice; a text opens when it is read |
| Session keys (`CryptoSession`, `DHKeyExchange`, `KeyDerivation`, `AESGCM`) | key pair, derived key, established or not | `establish`, `encrypt`, `decrypt` | throws when established twice, used too early, or the tag fails | no exception reaches the top of a thread |
| Client thread (`client.cpp`) | sessions by peer, `pktQueue`, what it waits for | five requests, three kinds of wait, the drain loop | a wait reads packets meant for others; waits are nested in requests | replies go to their request; texts in order; waits end |
| Server loop (`server.cpp`) | the SID it serves | login, user list, quit, message | replies to a client that is gone | a name has one holder; messages go to it |
| Connection table and names (`SocketSet`, `SocketMap`, `IndexedSocketMap`) | sockets by SID, names by SID, SID by name, the static `idx` | `insert`, `waitForRead`, `data`, `getSID`, `contains` | tables of different lengths, keys that point into the table | the two directions agree; every readable socket is read |
| Connection setter (`ConnectionSetter.cpp`) | the listening socket | accept until none is left or one fails | a handshake on the server thread | a connection gets a SID of its own |
| Transport (`NetworkHandler.cpp`) | socket, connected or not, link key; `mRecvBuffer` in phase 1 | `sendPacket`, `receivePacket`, `close` | one `recv` per packet, SIGPIPE, EINTR | what is received was sent, in order, at most once |
| Handshake and certificates (`NetworkHandler.cpp`, `Certificate.cc`) | key pairs, challenge, what was collected so far | `connect`, `receiveBytes`, the server's reply | messages in parts, a peer that is killed or stops, files that are wrong, a server with one thread | connected ends share a key; only the right server is believed; `connect` ends |
| Packets (`Packet.hh/.cpp`) | - | serialise, deserialise, factory | 32 bits written, 64 compared | decoding gives what was encoded |
| Byte buffer (`MemBuffer`) | begin, end, capacity | write, read, consume, relocate, grow | pointer arithmetic at the ends | first in, first out, no byte lost |
| UI, what is typed and shown (`UI.cpp`) | the line being edited, the partner, the list of messages, `nextRequestId` | keys, commands, plain text, `addMessage`, `editMessage` | a line is shown and queued under two locks, and edited by another thread | an outcome stands on the line that asked for it; text goes to the partner |
| UI and life cycle (`UI.cpp`, `client_main.cpp`) | two flags named `running`, request and message queues, a semaphore | commands, key presses, `start`, `stop`, `join` | four threads end each other | every request is taken; the program ends |
| Chat of phases 1 to 3 | the same client and server, without sessions; a table whose entries are never dropped | login, list, message, quit | waits that put packets aside, a scan that stays at a closed entry | texts keep their order; a name is told to one client; a login is answered |
| Sessions of phase 4 | state of a session and one key pair for its life | `initiate`, `handleInit`, `handleAck`, requests with time-outs | every INIT is answered, crossing ones too; packets put aside | what is sealed comes behind what opens it |
| Attack demonstrations of phases 2 and 3 | - | proxies between a client and the server | - | not part of the chat |
| Shared vector (`SharedVector.hh`) | - | - | not used by the program | - |

How they interact: the UI queues `ClientRequest`s that the client thread takes
one at a time; the client sends packets to the server, which answers a login,
a list or a quit and forwards a message to the connection that holds its
receiver's name, writing the sender's name into it. Whatever a client thread
does while it waits for an answer, it does by reading packets from the same
stream, so the answer, other users' texts and the packets of the end-to-end
protocol come to it in one order and through one queue.

The hazards this leads to are listed one by one, with their lines and the
properties aimed at them, in `PROJECT.json`.

## 2. Modules

| module | models | depends on |
|---|---|---|
| `E2ESession` | one end of a session: every operation of `E2ESession` as an operator from a session record to the next | - |
| `KeyExchange` | the abstract specification of the end-to-end protocol: two sessions per pair of users and a network that may lose, repeat and reorder their packets | `E2ESession` |
| `Client` | the client thread: requests, `setupE2E`, the waits, `pktQueue`, the drain loop, several clients behind the server's relay | `E2ESession`; implements `KeyExchange` |
| `NameService` | the abstract specification of the server: names are claimed once, messages forwarded to their holders | - |
| `Server` | the server thread, its tables, its accept loop, and the clients as it sees them | implements `NameService` |
| `Frontend` | the four threads of the client program, their flags, queue and semaphore, and the connection's end | - |
| `Display` | the line being edited, the commands, the partner and the list of messages | - |
| `ByteQueue` | the abstract specification of a buffer: a queue of bytes | - |
| `MemBuffer` | begin, end and capacity of a buffer, its blocks of memory, moves | implements `ByteQueue` |
| `Codec` | what `<<` writes and `>>` reads for every packet and payload | - |
| `Order` | what the sessions, waits, streams and queues of two clients say of each other: the inductive invariants behind the theorems about `Client` | `Client` |
| `Channel` | the abstract specification of a connection: packets in order, at most once | - |
| `Transport` | `sendPacket` and `receivePacket` over a stream of bytes, in phase 1 and since | `Codec`; implements `Channel` |
| `DHKeyExchange` | the arithmetic of the key exchange and the encoding of keys | `Codec` |
| `Handshake` | `connect` and the server's reply, phase 2 to the current code | `DHKeyExchange` |
| `EarlyChat` | client threads, server thread, table and streams of phases 1 to 3 | - |
| `EarlyExchange` | the sessions of phase 4 and the client thread that drives them | - |
| `MCKeyExchange`, `MCClient`, `MCServer`, `MCMemBuffer`, `MCTransport`, `MCHandshake`, `MCEarlyChat`, `MCEarlyExchange`, `MCDisplay` | the instances for TLC; `Frontend` needs none | |
| `KeyExchangeProofs`, `ClientProofs`, `ConnectionProofs` (`Handshake`, `Codec`, `Transport` and `MemBuffer`), `ServerProofs`, `FrontendProofs`, `DisplayProofs`, `EarlyChatProofs`, `EarlyExchangeProofs` | lemmas, theorems and proofs | |

Definitions whose comment begins with "Fault" are variants of a definition of
the code with a plausible bug; nothing uses them in the specifications. For
each checked property one of them, put in the place of the definition it varies,
makes TLC report that property.

### E2ESession

A session is a record of the class's fields. Keys are abstracted to what
decides whether two ends can talk: a `CryptoSession` draws one Diffie-Hellman
pair when it is made, so the n-th of a session is its *generation* `gen`, and
`peer` is the generation of the public key it was established with (`NoKey`
before that). Two ends derive the same AES key iff each was established with
the other's pair, and AES-GCM refuses any other key. `BogusKey` stands for the
empty key of an `E2EAck` that was read from a payload of another type: the
shared secret is then 0 for every private key.

The two readings of the clock in a renewal (`isStale`, then the new timestamp)
are two choices from `Clock[c]`; clocks of different hosts are not compared
except by the code itself. `NeverStamp` is the `-1` of a session never
attempted. The 32-bit sequence number is not wrapped: it takes 2^32 renewals,
a minute apart.

### Client

One action per request, per kind of packet in each place where the thread may
read it, and per step of `send`. `thread[c]` is the program point: `clientLoop`,
`waitUntilAck`, `waitForType`, the two waits of `setupE2E` (with the peer and
what follows: the report of `/e2e`, the rest of `send` after `connectTo`, or the
encryption) and the two points of `send` itself. `Polls` is `Client::poll`: the
head of `pktQueue`, else one packet from the socket, with up to `Coalesce` more
that the same `recv` returned and nobody parses.

A packet sent is put on its receiver's stream at once. The server reads each
client's packets in order and handles one completely before it reads another, so
the way to the server only adds delay, and a packet delayed on that way is one
its receiver has not read yet. What the server adds (a wrong SID, its death) is
in `Server`.

`missed[c]` remembers of which peers a `recv` of `c` has swallowed an INIT or an
ACK; no action reads it, and the properties that such a loss may break name it
(`Heard`).

The users' own behaviour is bounded: a login asks for the user's own name, and
texts and `/e2e` requests are made once logged in and to others. Uninitialised
memory is a choice: `intact` in `LoginReply`, `lucky` in `SecondInit`.

### Frontend

One action per step between two accesses to what the threads share. A line
typed is one action, since `addRequest` queues and releases under the lock that
`tryGetRequest` takes; only `/quit` has a second step, because it lowers
`UI::running` after that. `processInput` handles all keys there are before
`run()` looks at the flag again. A request is sends and waits (`SetupE2E`,
`ConnectTo`, `Send`, `Transmit`), and `resume` says where it goes on: a wait
ends with a packet, is followed by the second one of `setupE2E`, sets a packet
aside and is stuck, or finds the end of the connection and is stuck; which packet
does what is in `Client`. The server's end is one in order ("gone") or a reset
("aborted", until some call reports it, then "reset"): the first `send()` or
`recv()` after a reset returns -1 while `mConnected` is still true, and a `send()`
after that raises SIGPIPE (`Write`, `WaitFindsReset`, `DrainEnds`). "cut" is a
packet `receivePacket` cannot open and reports as nothing there. `release()` on
a semaphore that is 1 is outside its contract, and the model lets the library
count on, up to `MaxCount`, or not. main and the destructor of `UI` are
included, for they decide whether the process exits or aborts.

### Server

One action per way through the loop of `Server::run`: accept one connection
(`GetConnection`) and wait in its handshake for what the client offers, with the
outcomes `Insertion`, `HandshakeFails` and `HandshakeExits` (an error in
`receiveBytes` ends the process); accept none; `waitForRead` picks a SID, or
nobody is ready; the read finds nothing, a reset, an end of stream, or a packet,
with up to `Coalesce` more that the same `recv` returned and nobody parses; a
handler, with the outcome of its `sendPacket`. A client that says nothing keeps
the thread in `receiveBytes` for ever (`Blocked`). The messages of the handshake
are in `Handshake`. `Entry` and `FirstOf` are the index arithmetic of
`waitForRead`; memory behind the array of `pollfd`s is a choice (`stray`), as is
whether reading behind the end of the names crashes (`ReadsPastEnd`).
`hasActive` only chooses between a sleep and a poll of no sockets and is left
out. Clients wait for the replies to LOGIN and LIST (`owed`) but their reading
is not modelled here. `wire[c]` is what the next `send()` to `c` meets: a
connection that is open, or was open and is answered with a reset; the error of a
reset, which is returned once, as -1; or a broken connection, and then it raises
SIGPIPE, which nothing in the program handles.

In `NameService` clients ask, and what they asked (`asked`) is served in its
order, some of it lost: a free name must be given to the client whose LOGIN is at
the head, and a message at the head goes to the holder of the name it is addressed
to, under the name of the client whose stream it came from.

### Display

A key stands for a word: text is a sequence of words, one of them the blank, and
the name of a command is a word that ends in its blank. So a line is short, and
what `handleMessage` and `handleCommand` find and cut is still found and cut: the
first `@`, the first blank, the rest. The UI thread shows what was asked for under
one lock and queues it under another, and the client thread takes, reports and
adds texts between the two. `Message({}, ...)` has the number 0, which no request
has (`NoId`). A line that was moved from is empty. Drawing walks the list without
its lock: a change meanwhile may end the process (`Touched`), whatever the memory
then holds. What is put on the terminal, and where, is left out.

### MemBuffer

Memory is a set of blocks, each a function from 0 to the bytes in it; `Unwritten`
is a byte nobody wrote, and `new char[]` may return any block that is not in use. A
write takes one of three ways, as `ensureFreeSpace` decides: in place, after
`relocate` has shifted the bytes to the start of the block, or after `resize` has
moved them to a larger block (`Grown`). Moves hand the
block over and leave an empty buffer; an assignment frees the block it replaces.

### Codec and Transport

A packet is a record of its fields (`Messages`, `OtherPackets`); what is written of
it is a sequence of cells. A cell stands for one number, character, nonce or tag,
as a pair of its kind and its value; sizes come before what they count.
`Half` stands for 2^32, so that a number of 64 bits of which 32 are written loses
what it loses in the code. Sealing keeps the plaintext inside its cells, and the
tag is what it was made of: a frame opens iff nothing of it was changed.

`recv` returns any part of what is there, up to the size of its buffer. Phase 1
adds it to `mRecvBuffer` and reads one packet from that; if the packet is cut, it
reads what is not there, and the model ends that direction as "misled". Later
phases seal each packet as a frame, open the first one of what came, and drop the
rest. `SendDamaged` is the frame phase 2 may put on the stream with one byte
changed.

### DHKeyExchange and Handshake

The prime is a small one and SHA-256 is taken to be one to one, so two keys are
equal iff the secrets are. `ModExp` is the loop of the code, one `Turn` for each
bit of the exponent; `Power` multiplies as often as the exponent says. A public key is two cells, each up to `Half`, for the
256 bytes a key is padded to.

`phase` chooses the code that both ends run: since phase 3 the server shows a
certificate and signs a challenge; since phase 5 an error in `receiveBytes` ends
the server's process. The files on both sides are right or wrong in one respect
(`Setups`). `receiveBytes` collects what it wants over several `recv`s, and the
client reads each message with a single one, so that a message may be cut. A
client may be killed (`Die`: its end is closed or, with something left unread,
reset) or stopped for good (`Stop`). The server's thread serves one at a time.

### EarlyChat

Clients, server and the streams between them in one module, for what is hard here
comes from all three. SIDs count from 1. The streams carry whole packets, and one
`recv` takes any number of them: phase 1 keeps what is behind the first in
`mRecvBuffer` until `select` finds more bytes in the socket (so the rest is
*behind*, and may stay there), phases 2 and 3 lose it (`dropped`). `conns` never
drops an entry: the descriptor of a closed one is invalid or belongs to a later
connection, and the static `idx` of the scan stays there. Half of `mReplyTo` is
not initialised, so `waitUntilAck` may put aside the very answer it waits for
(`OtherThanAck`), and what it pushes is a packet it has moved out: a null pointer,
which `poll` reports as nothing there (`Null`). The UI's `stop` and the client
thread's last request race, as in the current code.

### EarlyExchange

A session of phase 4 has one key pair for its life, and two established ends have
the same key, so the key is left out and what is told apart is who is ready when.
`handleInit` takes every INIT; a second one throws in `CryptoSession::establish`
and ends the client. A wait may time out at any moment, and some waits then use a
null pointer. The server is the order of the streams; logins are those of
`EarlyChat`.

## 3. What TLC checks

| run | instance | shows |
|---|---|---|
| `key_exchange` | 2 users, clocks with a common reading, sequence numbers up to 2 explored beyond, packets never leave the network | `KeyAgreement`, `NeverThrows`, `SeqMonotone` |
| `chat` | 2 clients, 3 requests each of all five kinds, who log in or have done so, skewed clocks, a `recv` may swallow a second packet | the refinement of `KeyExchange`, `NoUncaughtException`, `QuiescentAgreement`, `Readable`, `SeqLockstep`, `AcksAwaited`, `RepliesMatch`, `EstablishedOnReturn`, `NoDowngrade`, and `AttemptResolves` under fairness |
| `server` | 2 clients, 2 names, 2 packets each, a `recv` may swallow a second packet, clients may close or say nothing in the handshake and die at any time | `DirectoryConsistent`, the refinement of `NameService`, `RepliesCome` under fairness |
| `frontend` | 3 keys, 2 packets, a semaphore counted to 2, a server that closes or resets the connection at any time | `NoLostWakeup`, `ClosedSeenFirst`, and under fairness `InboxRead`, `DisconnectEnds`, `EndsOnceDecided` |
| `display` | 8 keys, 1 text of another user, 9 lines: each command with and without argument, names with a blank | `OutcomeOnItsLine`, `AnsweredInOrder`, `GoesToPartner` |
| `buffer` | 2 buffers, 3 blocks, capacity up to 3, writes and reads of up to 2 of 2 bytes, by symmetry | `InBounds`, `OwnedOnce`, the refinement of `ByteQueue` |
| `transport` | 3 packets of 5 (phase 1) and 6 kinds, each cut and joined anywhere, a `recv` of up to 16 cells | the refinement of `Channel`, `Conserved` |
| `handshake` | 2 clients, phases 2 to the current code, 7 sets of files, prime 23, generator 5, private keys 3 and 6 | `KeysAgree`, `Authenticated`, `FailureExplained`, and `DialsEnd` under fairness |
| `early_chat` | 2 clients with 2 and 3 commands, 2 names, a queue of one request, phase 1 and phases 2 and 3 | `TextsInOrder`, `NameIsMine`, and `LoginAnswered` under fairness |
| `early_exchange` | 3 users with 2, 2 and 1 requests, time-outs at any moment | `OpensInTime` |
| `find_report` | the instance of `chat`, texts and `/e2e` only | a counterexample to `SuccessIsTrue`: see below |
| `find_quit` | 1 key, no packets | a counterexample to `RequestsTaken`: see below |

The properties, in words:

- `KeyAgreement`: two ends that hold an established session with one sequence
  number hold the same key, whatever crossed on the way. For `Client` it follows
  from the refinement, and is proved there.
- `NeverThrows`, `NoUncaughtException`: no exception ends a client: no key pair
  is established twice, no text fails to open.
- `SeqMonotone`, `SeqLockstep`: sequence numbers never go back, and the two ends
  are never more than one attempt apart.
- `Readable`: the text a client is about to read opens. The branch of `decrypt`
  for the previous key is never needed in these runs: a text sealed before a
  renewal comes before the renewal's INIT on the one stream, and is either shown
  first or set aside by a wait that then never ends.
- `EstablishedOnReturn`, `NoDowngrade`: `setupE2E` returns with an established
  session, and a text to a peer with whom a session was ever attempted never
  leaves unsealed, unless a `recv` of that client swallowed an ACK of that peer.
  Only the client's own losses excuse it: what its peer misses does not matter.
- `QuiescentAgreement`: with nothing in flight and nobody waiting, both ends are
  new, or both established with one number. No loss excuses this: a client that
  returned without its ACK was ended by an INIT of its peer, which nobody answers,
  so the peer still waits.
- `AttemptResolves`: an attempt is answered, even when both ends attempt at
  once, unless an end leaves, spins on a packet it has set aside, or a `recv`
  swallowed an INIT or ACK of the pair. It is said of runs that begin with all
  logged in: an INIT to somebody who is not is dropped by the server, and its
  sender then refuses the other's younger INIT, so both wait.
- `AcksAwaited`: every ACK is read by the wait its INIT began, so the ACK branch
  of `handleE2EPacket` never runs: a wait that an INIT of the peer ended leaves
  no ACK behind for the drain loop.
- `RepliesMatch`: a reply is read by the request that asked for it.
- `DirectoryConsistent`: the names on the connections and their reverse index
  say the same.
- `NoLostWakeup`: the client thread does not block with a request in the queue
  and nobody to wake it. `InboxRead`: what arrives is read without the user.
- `ClosedSeenFirst`: wherever the client thread may send, `mConnected` is true, so
  the first check of `sendPacket` never fails there. A send that fails is then one
  that meets a reset no call has reported: the branches for it (`client.cpp:108`,
  `:212`) are reached by that, and only by that.
- `DisconnectEnds`, `EndsOnceDecided`: a server that closes ends the program,
  unless a wait is stuck, and no `join` of a thread that should end blocks.
- `ImplementsService`: a LOGIN gets its name iff nobody holds it; a message goes to
  the holder of the name it is addressed to, under the name of the client that
  sent it, whatever was swallowed, renamed or closed in between.
- `RepliesCome`: a login or list is answered, unless its own `recv` swallowed it,
  its client is gone, the server died, a client leaves it in a handshake for ever,
  or a connection has closed.
- `OutcomeOnItsLine`, `AnsweredInOrder`: each request is answered once, on the
  line of the history that asked for it, and in the order of the lines, although
  a line is shown and queued in two steps and edited by another thread.
- `GoesToPartner`: plain text goes, whole, to the partner of the prompt, if there
  is no blank in that name.
- `InBounds`, `OwnedOnce`: no access of a buffer leaves its block, no `size_t`
  wraps around, and no block is freed twice, lost or shared.
- `ImplementsQueue`, `ImplementsChannel`: what is read was written, in order; from
  a connection some of it may be missing, but a damaged frame is never returned.
- `Conserved`: phase 1 loses nothing between two calls of `receivePacket`.
- `KeysAgree`, `Authenticated`: both ends of a connection derived the key that the
  exponents say, and since phase 3 only from a server that showed the right
  certificate and signed this client's challenge.
- `FailureExplained`: a handshake fails, and the server's process ends, only for
  causes that are named. `DialsEnd`: `connect` returns or ends the process, unless
  a client was stopped while the only server thread waits for it.
- `TextsInOrder`: in phases 1 to 3 every text the server sent on is on the screen,
  put aside, or on its way, once and in order, unless a `recv` lost it.
- `NameIsMine`: who was told a login succeeded receives the texts to that name.
- `LoginAnswered`: a login returns, unless one of the causes it lists is there.
- `OpensInTime`: in phase 4 what makes the other end ready comes ahead of every
  text sealed under the new key, through all queues of packets put aside.

**Bounds.** `MaxRequests`, `MaxSeq` and the size of `Clock` are the only bounds.
Three requests per client are enough for an attempt, a crossing attempt and a
renewal with a text between them, or a login, a list and one more, and
`Coalesce = 1` for the ACK that is lost behind a text or an INIT; two readings per clock, apart by more than
`Expiry`, make a session stale or not at either end. The clocks' readings differ
between hosts, as nanosecond stamps all but always do; `key_exchange` lets them
coincide. Sessions renew for ever, so `key_exchange` stops at a sequence number.
Two clients are all that a session needs; with more, keys still agree, which is
proved for any number. In `frontend` three keys are a request behind a request
behind `/quit`, two packets one that is cut behind one that is not, and a count
of 2 is one more than the semaphore should reach.
In `display` eight keys are four commands of one word, each with its Enter, or a
partner whose name has a blank and a text to him. In `buffer` three blocks are one more than buffers, for the moment a
buffer grows, and capacity 3 lets an empty buffer grow twice. In `transport` the
longest packet is 15 cells, and a `recv` of up to 16 takes it whole, or a part of
it, or two short ones, or one with a part of the next. In `handshake` a message may
be cut behind each of its cells; two clients are one that is served and one that waits. In
`early_chat` one client writes while the other logs in, lists or leaves, which
gives every order of a text and an answer; in `early_exchange` the third user is
there so that packets of one peer lie among those of another.
`CHECK_DEADLOCK FALSE` is set because users stop when their requests, keys or
packets are used up; in `handshake` because every client ends up connected or not.

**Fairness.** `Client`: a running client keeps reading and sending. Every wait
is a loop around `poll`, and `clientLoop` is woken by the network monitor, whose
`poll` is level-triggered, for as long as the socket is readable. `Server`:
`run()` takes the next step it can. `poll` and `select` return within a second,
but a handshake waits without bound for a client that says nothing; then no step of
`run()` is enabled, the fairness asks for none, and no client is made to go on
(`Blocked`). `Frontend`: each of the
four threads runs when it can; a connection need not succeed. Users and dying clients
are not fair: nothing makes them act. `Handshake`: the server's thread and each
client's go on, but a client that was stopped; both are loops around blocking
calls that return when something comes. `EarlyChat`: the server's loop and each
client's, as in the current code; users need not type.

### Where the repository says otherwise

Two runs end in a counterexample to what the repository says.
`find_report`: the client prints "E2E Connection Succeeded" (`client.cpp:322`)
when `setupE2E` returns true, which it does after any second packet of the peer
(`client.cpp:138-142`). A `recv` that returns the ACK behind another packet drops
it (`NetworkHandler.cpp:389-406`); the peer's next INIT then ends the second wait,
`handleAck` makes nothing of it, and success is reported for a session that is
still in its attempt. Texts sent on it are plain until it stands.

`find_quit`: `UI.h:65` says of `tryGetRequest` "Returns false when the UI has
stopped and no more requests exist."; the code returns false when the UI has
stopped, `/quit` or not in the queue, and the program never ends.

When `/quit` is taken all the same, `stop()` finds the flag down and does not
join, and the process ends in `std::terminate` (`Stop`, `DestroyUI`), against
`client_main.cpp:42`, "Make sure the UI has finished before exiting.". Only when
the server closes first, or main gets to `stop()` before the UI thread has
lowered its flag, is the exit a clean one.

The models show the following too. Each is in the actions named, and the
properties above allow for it by name; no run is kept for it.

- `getUsers` need not return (`multiple_clients_test.cc:40` waits for it): a text
  that comes first is set aside on the queue that is polled first, for ever
  (`SetAside`).
- A text sent need not be received (`multiple_clients_test.cc:68`): packets behind
  the first in one `recv` are dropped (`Coalesce`, `ReceiveSealed`).
- `login` need not return (`system_test.cc:24`): half of the number it compares is
  uninitialised (`LoginReply`, `OtherThanAck`).
- After a disconnect the scan uses a position in one array for another and picks
  the wrong SID for ever (`WaitForRead`, `FirstOf`); until phase 3 it stays at the
  closed entry, whose descriptor may be another connection's.
- "Failed to send packet." (`NetworkHandler.cpp:286`) is said of at most one send
  to a client that has died, the first that meets its reset; the next raises
  SIGPIPE and ends the server (`Sends`), as it ends a client (`Write`).
- A client that connects and says nothing keeps the server from all others
  (`Blocked`), and one that resets the connection in the handshake ends the
  server's process (`HandshakeExits`, `NetworkHandler.cpp:37`).
- Crossing INITs with equal timestamps are refused by both ends, which then wait
  for ever (`Accepts`).
- The state diagram at `E2ESession.hh:14-21` has no tie-break on its INIT edge
  (`E2ESession.cc:50`).
- The list of "Active Users" holds an empty name for a connection that has not
  logged in (`SocketSet.hh:71`).
- Ctrl-C stops the UI thread only, and main waits for the client thread
  (`CtrlC`).
- A partner whose name has a blank, `/chat a b`, gets nothing: the text goes to
  `a` and begins with the rest of the name (`HandleMessage` in `Display`).
- The history is drawn without its lock (`UI.cpp:309`) while the client thread may
  add to it (`Touched`).
- In phase 1 a packet that lies in `mRecvBuffer` is not read before more bytes
  come, so an answer may be late for ever (`Behind`).
- In phase 4 a `/e2e` without an answer within a second reads through a null
  pointer (`SetupE2ETimesOut`), and an INIT that was put aside, read when the
  session stands, throws (`HandleInit`).

## 4. What TLAPS proves

The theorems hold for every set of users or clients, every clock, and every
value of the bounds. They use the named assumptions of the modules and nothing
else: `Expiry` and `NeverStamp` are numbers, readings of the clock are numbers
below `NeverStamp`, `NoName` is no name, the bounds are numbers, the generator lies
between 1 and the prime, private keys are numbers, and a file of the handshake
is found, missing or somebody else's; a packet is one of the kinds the program
sends, its fields numbers, names and texts made of any characters
(`TransportAssumption`). That `Prime` is prime is not needed. The
theorems about `Client` and `Server` hold for every `Coalesce`.

`ConnectionProofs` extends three components, whose specifications therefore have
names of their own (`HandshakeSpec`, `Spec` for `Transport`, `BufferSpec`); they
share the induction over numbers (`NatSet`).

**KeyExchange** (`KeyExchangeProofs`). `KeyAgreement` is not inductive: it says
nothing of the packets still under way. `Inductive` adds

- `SessionsOK`: a session is established iff it holds a peer key, and has
  number 0 iff it was never attempted;
- `InitOK`: an INIT in flight is its sender's current attempt or one it left
  behind, and once that attempt has succeeded the receiver would refuse it;
- `AckOK`: an ACK that its receiver would apply comes from an end that was
  established with the receiver's pair, or that has moved on.

A lemma per handler says what it keeps of the two sessions of a pair
(`RefreshKeeps`, `HandleInitKeeps`, ...), `NewInitOK` and `NewAckOK` that the
packet it sends is right, and `PostingStep` and `LosingStep` put the two
together; `InductiveStep` has one step per action. From it follow `Agreement`,
`NoThrow` (an unfinished attempt holds no peer key) and `Monotone`.

**Client** (`ClientProofs`). `TypeCorrect` is inductive as it stands, because it
includes that nobody has sessions with or packets from himself. `Refinement` maps each
client's stream and queue to the set of end-to-end packets in them: a packet
read is lost or handled, one set aside stays, one swallowed is lost, and every
other action is a stutter. `Agreement` combines the refinement with the theorem
of `KeyExchangeProofs`, so the argument about crossing INITs is made once, about
the abstract network.

**Client's order** (`Order`, `ClientProofs`). The other properties of `Client`
depend on what lies on the two streams of a pair, and in which order. `Local` is
about one client: what it has set aside (`QueueOK`), that the one reply on its
stream is the one it waits for (`RepliesOK`), and that nothing was thrown
(`NamedOK`). `Links` is about a pair, seen from each of its ends (`Half`): the
sender's packets carry its numbers in order and an INIT is the first of its
number (`Numbered`), an INIT that would be accepted is the sender's current
attempt (`InitsRight`), an ACK is the only one and answers the attempt the reader
is in (`AcksRight`), an end that is done has a partner that matches, or will
(`Settled`), every sealed text opens with the keys its reader has or will have
when it comes to it (`TextsRight`), and no end is two attempts ahead
(`Lockstep`). They hold whatever a `recv` swallows, and give `Replies`,
`NoException`, `SeqsLockstep`, `AcksAreAwaited` and `TextsReadable`. The parts are
written as predicates of two sessions, two waits and two streams, so that the
lemmas speak of adding a packet at the end, taking one at the front, and changing
one session, and each action of `Client` is then a few of those.

`QuietPairsAgree` follows from these alone. `setupE2E` may return without its ACK,
and `Orders` says when: a client that has missed no ACK of its peer (`Heard`) is
amid an attempt only while it waits, the second wait finds the ACK before any
other INIT, and an INIT whose sender no longer attempts has its ACK behind it
(`Fine`); one that has missed an ACK has given up only on an INIT of an attempt
ahead of its own (`Late`). It gives `ReturnsEstablished` and `NothingLeaks`. A client's own
losses are all that matters, because a peer that has missed an ACK may take this
client's INIT for it, but then sends nothing that could end this client's wait.
All the invariants were checked by TLC with two clients, and `Local` and `Links`
with three, before they were proved.

**Handshake** (`ConnectionProofs`). The first part is arithmetic. The library's
theorems about induction take an operator, which none of the provers can
instantiate, so `NatSet` states it for a set of numbers, from the well-foundedness
of `<`; `Iterates` derives that a function defined by recursion exists and is what
its equations say, and the laws of `%` and of powers follow from that.
`ModExpIsPower` is the loop invariant of `modExp`, for every base, exponent and
modulus; `PowersCommute` is why both ends compute the same secret.

The second part is what a reader makes of a message that comes in parts:
`Part`, `Two`, `Three` and `Joined` say which sequences a beginning of two or three
cells can be, `CertificateRead`, `ThreeCellsRead` and `TwoCellsRead` what the code
reads from them. The third is `Inductive`: `Local` says, for each place of
`connect` in which a client may be, where the server is with it, what the server
has collected, and what is on the two streams (`AtCertificate` to `AtConnected`),
and which cause there is if it has failed (`Excused`). Each action has a lemma.
`OnlyAuthenticated`, `FailuresExplained` and `BothDerive` follow.

**Codec and Transport** (`ConnectionProofs`). `RoundTrip` is about every packet
there is, not those of the run: names, texts and lists of users of any length, any
numbers, and anything behind it. Its parts are the readers. `FieldsDefined`,
`StringsDefined` and `FlattenDefined` show, with `NatSet`, that the recursive
functions by which fields and strings are read, and pieces are joined, exist;
`Successive` is the induction over the fields: if each reader takes its piece off
whatever follows (`Pieces`), all of them together take all. `PayloadRead`,
`OtherRead`, `EarlyMessageRead` and `MessageRead` then say of each kind of packet
and payload which pieces it is written in. `PacketLasts` is the converse: what
could be read of some cells is read alike whatever comes behind them, so that it
does not matter where TCP cut.

The inductive invariant, `OnItsWay`, has two halves. In phase 1 it is `Conserved`:
`EarlyReceived` shows that a packet that is read from `mRecvBuffer`, whatever part
of the stream is there, is the first of those not yet returned, and leaves exactly
the others; `NothingLost` follows. Since phase 2 it is `TagsFrom`: every tag under
way is that of a frame that was sent later than what was returned, and tags come
in the order of their frames. A frame that opens ends with one of these tags
(`FrameRead`), which names the cells it was made of, so it is that frame, whole,
wherever the cells around it were cut or spoilt (`FrameOpens`). `Sealed` says that
a damaged frame brings no other tag. `Steps` has one case per action, and
`Refinement` is that each of them sends, returns a later packet as it was written,
or does nothing `Channel` sees. TLC checked `OnItsWay` on the run's instance before
it was proved.

**Server** (`ServerProofs`). The inductive invariant is `TypeOK`, which says that
a client has one SID, with `DirectoryConsistent`, by which a name that is not in
the index is on no connection. `Refinement` maps the tables to the name each
client holds, and what clients have sent to what they asked: a login at the head
of a stream is accepted iff nobody holds the name, a message that is forwarded
goes from the head of its sender's stream, under the sender's name, to the client
that holds its receiver's, and everything else, quits, handshakes and deaths
included, leaves names where they are. A packet that a `recv` swallows is one that
`NameService` loses.

**Frontend** (`FrontendProofs`). `NoLostWakeup` and `ClosedSeenFirst` are
inductive with `TypeOK`, which says where a wait may go on. The first speaks of the connecting thread too: without
that, a request typed before the connection stands could meet a semaphore of 0.

**MemBuffer** (`ConnectionProofs`). `BufferInductive` is the types, `InBounds`,
`OwnedOnce` and `AllWritten`: every byte between begin and end is one that somebody
wrote, without which a read might return junk and the refinement fail. Each
operation is a lemma (`Constructs`, `Writes` with its three ways to make room,
`Reads`, `HandsOver`, `Destroys`) that says what it keeps of the invariant and
what it does to the queue; `OneBuffer` and `Reassigned` say once what other
buffers keep. The theorems hold for any buffers, blocks, bytes and sizes; `NoBlock`
is assumed to be no block and `Gone` neither a buffer nor a sequence of bytes.

**Display** (`DisplayProofs`). `OutcomeOnItsLine` alone is not inductive: an
answer finds its line by a number, so numbers must be unique and must grow
(`Numbered` for the history, `InTurn` for the request about to be queued, those in
the queue and the one served), and `/quit`, which has no line, must not have
another's number (`QuitUnseen`). `AskStep`, `QueueStep`, `TakeStep` and `DoneStep`
follow a request from its line to its outcome, `PlainMessage` and `SameHistory`
are all other steps. `PartnerGetsText` rests on `AddressedCut`: "@name text" is cut
at the blank behind the name, and nowhere else. The lines and texts are assumed
to be made of the words the user has and the program writes.

**EarlyChat** (`EarlyChatProofs`). `NameIsMine` speaks of a client's belief and of the
server's table, and nothing of what is between them. `Inductive` adds, for each
client, what the two streams may hold: on the way to the server at most one
LOGIN, of the number the client waits for (`Asks`); on the way back no answer to a
LOGIN that has not been read yet, and a consent to the login that is waited for only if
the client holds the name (`Answers`, `Held`); a client that waits for a login
has no name (`KnowsName`). With `Directory`, a name in the table leads back to its
entry, so that `insert` never takes a name from another client (`Inserts`).
`Fewer` and `QuietKeeps` are for the many steps that only take packets or send others;
`RequestKeeps`, `LoginReturnKeeps`, `LoginKeeps`, `QuitKeeps` and `QuitRepeatKeeps`
for the few that do not. `NamesKept` follows, and `NamesDiffer`: no two clients
believe at one time that the same name is theirs.

`TextsInOrder` is inductive once it is said of sequences in general: `Keeps(s, t,
all)` gives each text of `s` a place in `t`, in increasing order. It is reflexive and
transitive (`KeepsItself`, `KeepsOfKept`), and what stands before or behind two sequences does not matter
to it (`KeepsBehind`, `KeepsBefore`), so each step is one of three: texts are
only lost or moved along (`OrderStays`), one is taken (`OrderTaken`), one is sent on
(`OrderSent`). `EarlyTexts` holds for the three phases and any number of packets in
one `recv`.

**EarlyExchange** (`EarlyExchangeProofs`). `OneAttempt`: until a session is
established it was attempted at most once, and who attempted it waits for that
peer. `SenderKnown`: an INIT under way comes from an end that attempted, an ACK
or a sealed text from an end that is established, and INIT and ACK have the number 1.
Together with `OpensInTime` they are inductive: the end that establishes a session
first has its INIT or its ACK under way before it can seal anything
(`AnnouncedNew`), other packets do not overtake it (`AnnouncedAppend`,
`AnnouncedWithout`), and when it is taken its receiver is established by it.
Putting a packet aside leaves it where it is in the order (`PutAsideKeeps`), though it
changes queues.

Only model-checked: liveness and whatever needs fairness (`AttemptResolves`,
`RepliesCome`, `InboxRead`, `DisconnectEnds`, `EndsOnceDecided`, `DialsEnd`,
`LoginAnswered`), which the prover does not handle. Every invariant, action property
and refinement that a run checks is proved; `RequestsTaken` and `SuccessIsTrue`, which are false,
are not.
No module declares a RECURSIVE operator.

## 5. What could be added

A composition of `Client` and `Server` over two hops, to discharge the argument
about the relay in section 2.

### Not modelled

- `SharedVector.hh`: the program does not use it.
- The attack demonstrations of phases 2 and 3: programs of their own, whose
  purpose is to show what the next phase repairs.
- The arithmetic of AES-GCM, SHA-256, X509 and signatures, which are OpenSSL's:
  they are modelled by what they promise.
- Who owns a BIGNUM, a socket or a handler after a move of its C++ object: no
  thread shares them, and `MemBuffer` stands for how such moves are checked.
- What is drawn on the terminal and where the cursor is put.
- Packets to the server being delayed beyond the order of the streams (section 2),
  and more than one server.
- The tests, which are read as statements of what the program should do, and the
  build files, certificates and logs.
