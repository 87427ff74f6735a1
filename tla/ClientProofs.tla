---------------------------- MODULE ClientProofs ----------------------------
(***************************************************************************)
(* Client implements KeyExchange: whatever the queues, the waits and the   *)
(* coalesced reads do to the packets, the sessions of the clients behave   *)
(* as those of KeyExchange over a lossy network, and so agree on keys.     *)
(* And the safety properties of Client, for any users, clocks and          *)
(* requests, which are about the order of its packets.                     *)
(***************************************************************************)
EXTENDS Order, SequenceTheorems, TLAPS

Proved == INSTANCE KeyExchangeProofs WITH net <- [c \in Users |-> InFlight(c)]

(* Proved and Exchange are one instance of KeyExchange under two names. *)
LEMMA SameAgain ==
    /\ Proved!Sent = Sent /\ Proved!BogusKey = BogusKey
    /\ \A s, now : Proved!Initiate(s, now) = Initiate(s, now)
    /\ \A s, now : Proved!Refresh(s, now) = Refresh(s, now)
    /\ \A s, m : Proved!HandleInit(s, m) = HandleInit(s, m)
    /\ \A s, key : Proved!HandleAck(s, key) = HandleAck(s, key)
    /\ \A c, s : Proved!InitPacket(c, s) = InitPacket(c, s)
    /\ \A c, s : Proved!AckPacket(c, s) = AckPacket(c, s)
    /\ \A s, m : Proved!Accepts(s, m) <=> Accepts(s, m)
    /\ \A s, seq : Proved!AckApplies(s, seq) <=> AckApplies(s, seq)
    /\ \A s : Proved!EstablishThrows(s) <=> EstablishThrows(s)
  BY DEF Proved!Sent, Sent, Proved!BogusKey, BogusKey, Proved!NoKey, NoKey,
         Proved!Initiate, Initiate, Proved!Rekeyed, Rekeyed, Proved!Refresh, Refresh,
         Proved!HandleInit, HandleInit, Proved!HandleAck, HandleAck,
         Proved!InitPacket, InitPacket, Proved!AckPacket, AckPacket,
         Proved!Accepts, Accepts, Proved!AckApplies, AckApplies,
         Proved!EstablishThrows, EstablishThrows

(* What is proved of the handlers and of the packets they send.            *)
LEMMA HandlersTyped ==
    ASSUME NEW s \in Session
    PROVE  /\ \A now \in Nat : Initiate(s, now) \in Session
           /\ \A now \in Nat : Refresh(s, now) \in Session
           /\ \A m : m.seq \in Nat /\ m.ts \in Nat /\ m.gen \in Generation
                   => HandleInit(s, m) \in Session
           /\ \A key \in PeerKey : HandleAck(s, key) \in Session
  <1>1. /\ Proved!Session = Session /\ Proved!PeerKey = PeerKey
        /\ Proved!Generation = Generation
    BY DEF Proved!Session, Session, Proved!PeerKey, PeerKey, Proved!Generation, Generation,
           Proved!States, States, Proved!NoKey, NoKey, Proved!BogusKey, BogusKey
  <1>2. Proved!SessionAssumption /\ Proved!ExchangeAssumption
    BY SessionAssumption, ClientAssumption DEF Proved!SessionAssumption, Proved!ExchangeAssumption
  <1> QED
    BY <1>1, <1>2, SameAgain, Proved!HandlersTyped

LEMMA PacketsTyped ==
    ASSUME NEW s \in Session, NEW senders, NEW c \in senders
    PROVE  /\ InitPacket(c, s) \in InitPackets(senders)
           /\ AckPacket(c, s) \in AckPackets(senders)
  <1>1. /\ Proved!Session = Session
        /\ Proved!InitPackets(senders) = InitPackets(senders)
        /\ Proved!AckPackets(senders) = AckPackets(senders)
    BY DEF Proved!Session, Session, Proved!PeerKey, PeerKey, Proved!Generation, Generation,
           Proved!States, States, Proved!NoKey, NoKey, Proved!BogusKey, BogusKey,
           Proved!InitPackets, InitPackets, Proved!AckPackets, AckPackets
  <1>2. Proved!SessionAssumption /\ Proved!ExchangeAssumption
    BY SessionAssumption, ClientAssumption DEF Proved!SessionAssumption, Proved!ExchangeAssumption
  <1> QED
    BY <1>1, <1>2, SameAgain, Proved!PacketsTyped

(* The elements of a sequence after the operations the code applies to it. *)
LEMMA AppendElements ==
    ASSUME NEW S, NEW q \in Seq(S), NEW e \in S
    PROVE  Append(q, e) \in Seq(S) /\ Elements(Append(q, e)) = Elements(q) \cup {e}
  <1>1. /\ Append(q, e) \in Seq(S)
        /\ Len(Append(q, e)) = Len(q) + 1
        /\ \A i \in 1 .. Len(q) : Append(q, e)[i] = q[i]
        /\ Append(q, e)[Len(q) + 1] = e
    BY AppendProperties
  <1>2. Len(q) \in Nat /\ DOMAIN q = 1 .. Len(q)
    BY LenProperties
  <1>3. DOMAIN Append(q, e) = 1 .. Len(q) + 1
    BY <1>1, LenProperties
  <1>4. 1 .. Len(q) + 1 = 1 .. Len(q) \cup {Len(q) + 1}
    BY <1>2
  <1> QED
    BY <1>1, <1>2, <1>3, <1>4 DEF Elements

LEMMA EmptyElements == ASSUME NEW S PROVE <<>> \in Seq(S) /\ Elements(<<>>) = {}
  BY DEF Elements

LEMMA TailElements ==
    ASSUME NEW S, NEW q \in Seq(S), q # <<>>
    PROVE  /\ Head(q) \in S /\ Head(q) \in Elements(q)
           /\ Tail(q) \in Seq(S) /\ Elements(Tail(q)) \subseteq Elements(q)
  <1>1. /\ Head(q) \in S /\ Tail(q) \in Seq(S)
        /\ Len(Tail(q)) = Len(q) - 1
        /\ \A i \in 1 .. Len(Tail(q)) : Tail(q)[i] = q[i + 1]
    BY HeadTailProperties
  <1>2. Len(q) \in Nat /\ Len(q) # 0 /\ DOMAIN q = 1 .. Len(q) /\ Head(q) = q[1]
    BY LenProperties, EmptySeq
  <1>3. DOMAIN Tail(q) = 1 .. Len(q) - 1
    BY <1>1, LenProperties
  <1> QED
    BY <1>1, <1>2, <1>3 DEF Elements

LEMMA SuffixElements ==
    ASSUME NEW S, NEW q \in Seq(S), NEW m \in Nat \ {0}
    PROVE  /\ SubSeq(q, m, Len(q)) \in Seq(S)
           /\ Elements(SubSeq(q, m, Len(q))) \subseteq Elements(q)
  <1>1. Len(q) \in Nat /\ DOMAIN q = 1 .. Len(q) /\ \A i \in 1 .. Len(q) : q[i] \in S
    BY LenProperties, ElementOfSeq
  <1>2. /\ SubSeq(q, m, Len(q)) \in Seq(S)
        /\ Len(SubSeq(q, m, Len(q))) = IF m <= Len(q) THEN Len(q) - m + 1 ELSE 0
        /\ \A i \in 1 .. Len(q) - m + 1 : SubSeq(q, m, Len(q))[i] = q[m + i - 1]
    BY <1>1, SubSeqProperties
  <1>3. DOMAIN SubSeq(q, m, Len(q)) = 1 .. (IF m <= Len(q) THEN Len(q) - m + 1 ELSE 0)
    BY <1>2, LenProperties
  <1>4. \A i \in DOMAIN SubSeq(q, m, Len(q)) :
           m + i - 1 \in DOMAIN q /\ SubSeq(q, m, Len(q))[i] = q[m + i - 1]
    BY <1>1, <1>2, <1>3
  <1> QED
    BY <1>2, <1>4 DEF Elements

-----------------------------------------------------------------------------
(* What a step may do to the packets in flight: lose some, and post at most *)
(* one E2E packet.                                                          *)
Quiet == \A x \in Users : InFlight(x)' \subseteq InFlight(x)

Posts(p, m) ==
    \A x \in Users : InFlight(x)' \subseteq InFlight(x) \cup (IF x = p THEN {m} ELSE {})

(* The queue and stream c is left with after taking a packet. *)
Taken(c, r) ==
    /\ r.pkt \in Packets \cup {Null} /\ r.pkt \in Pending(c)
    /\ r.queue \in Seq(Packets \cup {Null}) /\ Elements(r.queue) \subseteq Pending(c)
    /\ r.streams \in [Users -> Seq(Packets)]
    /\ \A x \in Users : Elements(r.streams[x]) \subseteq Elements(inbox[x])
    /\ r.lost \subseteq [kind: {"INIT", "ACK"}, from: Users]

LEMMA PacketFields ==
    ASSUME NEW m \in Packets \cup {Null}
    PROVE  /\ m.kind = "INIT" => /\ m.from \in Users /\ m.seq \in Nat
                                 /\ m.ts \in Nat /\ m.gen \in Generation
           /\ m.kind = "ACK" => /\ m.from \in Users /\ m.seq \in Nat
                                /\ m.gen \in Generation
           /\ m.kind = "TEXT" => m.from \in Users
  BY DEF Packets, InitPackets, AckPackets, Texts, Reply, UserList, Null

LEMMA PollTakes ==
    ASSUME StreamsOK, NEW c \in Users, NEW r \in Polls(c)
    PROVE  Taken(c, r)
  <1>1. inbox[c] \in Seq(Packets) /\ pktQueue[c] \in Seq(Packets \cup {Null})
    BY DEF StreamsOK
  <1>2. CASE pktQueue[c] # <<>>
    <2>1. r = [pkt |-> Head(pktQueue[c]), queue |-> Tail(pktQueue[c]), streams |-> inbox,
               lost |-> {}]
      BY <1>2 DEF Polls
    <2>2. /\ r.pkt \in Packets \cup {Null} /\ r.pkt \in Elements(pktQueue[c])
          /\ r.queue \in Seq(Packets \cup {Null})
          /\ Elements(r.queue) \subseteq Elements(pktQueue[c])
      BY <1>1, <1>2, <2>1, TailElements
    <2> QED
      BY <2>1, <2>2 DEF Taken, Pending, StreamsOK
  <1>3. CASE pktQueue[c] = <<>>
    <2>1. PICK k \in 0 .. Coalesce :
            /\ k < Len(inbox[c])
            /\ r = [pkt |-> Head(inbox[c]), queue |-> <<>>,
                    streams |-> [inbox EXCEPT ![c] = SubSeq(@, 2 + k, Len(@))],
                    lost |-> Swallowed(c, k)]
      BY <1>3 DEF Polls
    <2>2. k \in Nat /\ 2 + k \in Nat \ {0}
      BY <2>1, ClientAssumption
    <2>3. inbox[c] # <<>>
      BY <1>1, <2>1, <2>2, EmptySeq
    <2>4. Head(inbox[c]) \in Packets /\ Head(inbox[c]) \in Elements(inbox[c])
      BY <1>1, <2>3, TailElements
    <2>5. <<>> \in Seq(Packets \cup {Null}) /\ Elements(<<>>) = {}
      BY EmptyElements
    <2> DEFINE rest == SubSeq(inbox[c], 2 + k, Len(inbox[c]))
    <2>6. rest \in Seq(Packets) /\ Elements(rest) \subseteq Elements(inbox[c])
      BY <1>1, <2>2, SuffixElements
    <2>7. r.streams = [inbox EXCEPT ![c] = rest] /\ r.queue = <<>> /\ r.pkt = Head(inbox[c])
      BY <2>1
    <2> HIDE DEF rest
    <2>8. /\ r.streams \in [Users -> Seq(Packets)]
          /\ \A x \in Users : Elements(r.streams[x]) \subseteq Elements(inbox[x])
      BY <2>6, <2>7 DEF StreamsOK
    <2>9. Swallowed(c, k) \subseteq [kind: {"INIT", "ACK"}, from: Users]
      <3> SUFFICES ASSUME NEW i \in 2 .. 1 + k, IsE2E(inbox[c][i])
                   PROVE  inbox[c][i].kind \in {"INIT", "ACK"} /\ inbox[c][i].from \in Users
        BY DEF Swallowed
      <3>1. i \in 1 .. Len(inbox[c])
        BY <1>1, <2>1, <2>2
      <3>2. inbox[c][i] \in Packets
        BY <1>1, <3>1, ElementOfSeq
      <3> QED
        BY <3>2, PacketFields DEF IsE2E
    <2>10. r.lost = Swallowed(c, k)
      BY <2>1
    <2> QED
      BY <2>4, <2>5, <2>7, <2>8, <2>9, <2>10 DEF Taken, Pending
  <1> QED
    BY <1>2, <1>3

LEMMA RelayAdds ==
    ASSUME NEW streams \in [Users -> Seq(Packets)], NEW p \in Users, NEW m \in Packets
    PROVE  /\ Relay(streams, p, m) \in [Users -> Seq(Packets)]
           /\ \A x \in Users : Elements(Relay(streams, p, m)[x])
                 \subseteq Elements(streams[x]) \cup (IF x = p THEN {m} ELSE {})
  <1>1. streams[p] \in Seq(Packets)
    OBVIOUS
  <1>2. /\ Append(streams[p], m) \in Seq(Packets)
        /\ Elements(Append(streams[p], m)) = Elements(streams[p]) \cup {m}
    BY <1>1, AppendElements
  <1> QED
    BY <1>2 DEF Relay

(* Each way a step changes the queues. *)
LEMMA TakeStep ==
    ASSUME StreamsOK, NEW c \in Users, NEW r \in Polls(c),
           inbox' = r.streams, Keep(c, r.queue)
    PROVE  StreamsOK' /\ Quiet
  <1>1. Taken(c, r)
    BY PollTakes
  <1> QED
    BY <1>1 DEF Taken, Keep, StreamsOK, Quiet, InFlight, Pending

LEMMA SetAsideStep ==
    ASSUME StreamsOK, NEW c \in Users, NEW r \in Polls(c), NEW e \in {r.pkt, Null},
           inbox' = r.streams, Keep(c, Append(r.queue, e))
    PROVE  StreamsOK' /\ Quiet
  <1>1. Taken(c, r) /\ e \in Packets \cup {Null} /\ (e = Null \/ e \in Pending(c))
    BY PollTakes DEF Taken
  <1>2. ~IsE2E(Null)
    BY DEF IsE2E, Null
  <1>3. r.queue \in Seq(Packets \cup {Null})
    BY <1>1 DEF Taken
  <1>4. /\ Append(r.queue, e) \in Seq(Packets \cup {Null})
        /\ Elements(Append(r.queue, e)) = Elements(r.queue) \cup {e}
    BY <1>1, <1>3, AppendElements
  <1>5. Elements(Append(r.queue, e)) \subseteq Pending(c) \cup {Null}
    BY <1>1, <1>4 DEF Taken
  <1> DEFINE back == Append(r.queue, e)
  <1> HIDE DEF back
  <1>6. pktQueue' = [pktQueue EXCEPT ![c] = back]
    BY DEF Keep, back
  <1>7. back \in Seq(Packets \cup {Null}) /\ Elements(back) \subseteq Pending(c) \cup {Null}
    BY <1>4, <1>5 DEF back
  <1> QED
    BY <1>1, <1>2, <1>6, <1>7 DEF Taken, StreamsOK, Quiet, InFlight, Pending

LEMMA ClearStep ==
    ASSUME StreamsOK, NEW c \in Users,
           inbox' = [inbox EXCEPT ![c] = <<>>], pktQueue' = [pktQueue EXCEPT ![c] = <<>>]
    PROVE  StreamsOK' /\ Quiet
  BY EmptyElements DEF StreamsOK, Quiet, InFlight, Pending

LEMMA AppendStep ==
    ASSUME StreamsOK, NEW c \in Users, NEW m \in Packets,
           inbox' = [inbox EXCEPT ![c] = Append(@, m)], UNCHANGED pktQueue
    PROVE  StreamsOK' /\ Posts(c, m)
  <1>1. inbox[c] \in Seq(Packets)
    BY DEF StreamsOK
  <1>2. /\ Append(inbox[c], m) \in Seq(Packets)
        /\ Elements(Append(inbox[c], m)) = Elements(inbox[c]) \cup {m}
    BY <1>1, AppendElements
  <1> QED
    BY <1>2 DEF StreamsOK, Posts, InFlight, Pending

LEMMA RelayStep ==
    ASSUME StreamsOK, NEW p \in Users, NEW m \in Packets,
           inbox' = Relay(inbox, p, m), UNCHANGED pktQueue
    PROVE  StreamsOK' /\ Posts(p, m)
  <1>1. inbox \in [Users -> Seq(Packets)]
    BY DEF StreamsOK
  <1> QED
    BY <1>1, RelayAdds DEF StreamsOK, Posts, InFlight, Pending

LEMMA TakeRelayStep ==
    ASSUME StreamsOK, NEW c \in Users, NEW r \in Polls(c), NEW p \in Users, NEW m \in Packets,
           inbox' = Relay(r.streams, p, m), Keep(c, r.queue)
    PROVE  StreamsOK' /\ Posts(p, m)
  <1>1. Taken(c, r)
    BY PollTakes
  <1>2. r.streams \in [Users -> Seq(Packets)]
    BY <1>1 DEF Taken
  <1>3. /\ inbox' \in [Users -> Seq(Packets)]
        /\ \A x \in Users : Elements(inbox'[x])
                \subseteq Elements(r.streams[x]) \cup (IF x = p THEN {m} ELSE {})
    BY <1>2, RelayAdds
  <1> QED
    BY <1>1, <1>3 DEF Taken, Keep, StreamsOK, Posts, InFlight, Pending

(* A packet that is no E2E packet leaves the flights alone. *)
LEMMA PostsNothing ==
    ASSUME NEW p, NEW m, ~IsE2E(m), Posts(p, m)
    PROVE  Quiet
  BY DEF Posts, Quiet, InFlight

-----------------------------------------------------------------------------
(* Packets. *)
LEMMA SentPackets ==
    ASSUME NEW c \in Users, NEW s \in Session
    PROVE  /\ InitPacket(c, s) \in Packets /\ InitPacket(c, s).from = c
           /\ AckPacket(c, s) \in Packets /\ AckPacket(c, s).from = c
           /\ Text(c, s) \in Packets /\ ~IsE2E(Text(c, s))
           /\ \A ok \in BOOLEAN : Reply(ok) \in Packets /\ ~IsE2E(Reply(ok))
           /\ UserList \in Packets /\ ~IsE2E(UserList)
  <1>1. InitPacket(c, s) \in Packets /\ AckPacket(c, s) \in Packets
    BY PacketsTyped DEF Packets
  <1>2. Text(c, s) \in Texts /\ ~IsE2E(Text(c, s))
    BY DEF Text, Texts, Encrypt, Session, IsE2E
  <1> QED
    BY <1>1, <1>2 DEF Packets, IsE2E, Reply, UserList, InitPacket, AckPacket

(* How a step of Client looks in KeyExchange. *)
Mapped == Exchange!Next \/ UNCHANGED Exchange!vars

(* Exchange has its own copy of the operators of E2ESession. *)
LEMMA SameOperators ==
    /\ Exchange!Sent = Sent /\ Exchange!BogusKey = BogusKey
    /\ \A s, now : Exchange!Initiate(s, now) = Initiate(s, now)
    /\ \A s, now : Exchange!Refresh(s, now) = Refresh(s, now)
    /\ \A s, m : Exchange!HandleInit(s, m) = HandleInit(s, m)
    /\ \A s, key : Exchange!HandleAck(s, key) = HandleAck(s, key)
    /\ \A c, s : Exchange!InitPacket(c, s) = InitPacket(c, s)
    /\ \A c, s : Exchange!AckPacket(c, s) = AckPacket(c, s)
    /\ \A s, m : Exchange!Accepts(s, m) <=> Accepts(s, m)
    /\ \A s, seq : Exchange!AckApplies(s, seq) <=> AckApplies(s, seq)
    /\ \A s : Exchange!EstablishThrows(s) <=> EstablishThrows(s)
  BY DEF Exchange!Sent, Sent, Exchange!BogusKey, BogusKey, Exchange!NoKey, NoKey,
         Exchange!Initiate, Initiate, Exchange!Rekeyed, Rekeyed, Exchange!Refresh, Refresh,
         Exchange!HandleInit, HandleInit, Exchange!HandleAck, HandleAck,
         Exchange!InitPacket, InitPacket, Exchange!AckPacket, AckPacket,
         Exchange!Accepts, Accepts, Exchange!AckApplies, AckApplies,
         Exchange!EstablishThrows, EstablishThrows

LEMMA QuietLoses == Quiet /\ UNCHANGED sess => Exchange!Lose
  BY DEF Quiet, Exchange!Lose, Exchange!Losses

LEMMA QuietIsLoss == Quiet => [c \in Users |-> InFlight(c)]' \in Exchange!Losses([c \in Users |-> InFlight(c)])
  BY DEF Quiet, Exchange!Losses

LEMMA PostsMaps == ASSUME NEW p \in Users, NEW m, Posts(p, m) PROVE Exchange!Post(p, m)
  BY DEF Posts, Exchange!Post, Exchange!Losses

(* The variables KeyExchange does not see. *)
CountsOK ==
    /\ status \in [Users -> {"connected", "in", "left", "crashed"}]
    /\ missed \in [Users -> SUBSET [kind: {"INIT", "ACK"}, from: Users]]
    /\ budget \in [Users -> Nat]

\* What a read adds to the packets missed.
LEMMA MissStep ==
    ASSUME StreamsOK, CountsOK, NEW c \in Users, NEW r \in Polls(c), Miss(c, r)
    PROVE  missed' \in [Users -> SUBSET [kind: {"INIT", "ACK"}, from: Users]]
  <1>1. r.lost \subseteq [kind: {"INIT", "ACK"}, from: Users]
    BY PollTakes DEF Taken
  <1> QED
    BY <1>1 DEF Miss, CountsOK

(* Where c may be: at a point of its thread, never with itself as the peer. *)
PointOf(c) ==
    {t \in Threads : t.at \in E2EWaits \cup {"send", "encrypt"} => t.peer # c}

LEMMA Points ==
    ASSUME TypeOK, NEW c \in Users
    PROVE  /\ thread[c] \in PointOf(c)
           /\ Loop \in PointOf(c) /\ LoginWait \in PointOf(c) /\ ListWait \in PointOf(c)
           /\ \A p \in Users \ {c} :
                 /\ \A pc \in E2EWaits, then \in {"report", "send", "encrypt"} :
                       Wait(pc, p, then) \in PointOf(c)
                 /\ \A pc \in {"send", "encrypt"} : Sending(pc, p) \in PointOf(c)
  <1>1. thread[c] \in PointOf(c)
    BY DEF TypeOK, OthersOnly, PointOf
  <1>2. Loop \in PointOf(c) /\ LoginWait \in PointOf(c) /\ ListWait \in PointOf(c)
    BY DEF PointOf, Threads, Loop, LoginWait, ListWait, E2EWaits
  <1>3. ASSUME NEW p \in Users \ {c}, NEW pc \in E2EWaits,
               NEW then \in {"report", "send", "encrypt"}
        PROVE  Wait(pc, p, then) \in PointOf(c)
    BY DEF PointOf, Threads, Wait
  <1>4. ASSUME NEW p \in Users \ {c}, NEW pc \in {"send", "encrypt"}
        PROVE  Sending(pc, p) \in PointOf(c)
    BY DEF PointOf, Threads, Sending
  <1> QED
    BY <1>1, <1>2, <1>3, <1>4

LEMMA GotoStep ==
    ASSUME TypeOK, NEW c \in Users, NEW t \in PointOf(c), Goto(c, t)
    PROVE  /\ thread' \in [Users -> Threads]
           /\ \A x \in Users : thread'[x].at \in E2EWaits \cup {"send", "encrypt"}
                               => thread'[x].peer # x
  BY DEF TypeOK, OthersOnly, PointOf, Goto

(* Steps that leave the sessions alone and post no E2E packet. *)
LEMMA QuietStep ==
    ASSUME TypeOK, StreamsOK', CountsOK', Quiet, UNCHANGED sess,
           NEW c \in Users, NEW t \in PointOf(c), Goto(c, t)
    PROVE  TypeOK' /\ Mapped
  <1>1. OthersOnly'
    BY GotoStep DEF TypeOK, OthersOnly, Quiet
  <1>2. Mapped
    BY QuietLoses DEF Mapped, Exchange!Next
  <1> QED
    BY <1>1, <1>2, GotoStep DEF TypeOK, CountsOK

(* Steps of c that change its session with p and may post a packet to p. *)
LEMMA SessionStep ==
    ASSUME TypeOK, StreamsOK', CountsOK', NEW c \in Users, NEW p \in Users \ {c},
           NEW u \in Session, UpdateSession(c, p, u),
           NEW m, m.from = c, Posts(p, m) \/ Quiet,
           NEW t \in PointOf(c), Goto(c, t)
    PROVE  TypeOK'
  <1>1. OthersOnly'
    BY GotoStep DEF TypeOK, OthersOnly, Quiet, Posts
  <1>2. sess' \in [Users -> [Users -> Session]]
    BY DEF TypeOK, UpdateSession
  <1> QED
    BY <1>1, <1>2, GotoStep DEF TypeOK, CountsOK

LEMMA StayStep ==
    ASSUME TypeOK, NEW c \in Users, UNCHANGED thread
    PROVE  Goto(c, thread[c])
  BY DEF TypeOK, Goto

LEMMA RequestCounts ==
    ASSUME CountsOK, NEW c \in Users, NEW kind, Request(c, kind)
    PROVE  budget' \in [Users -> Nat]
  BY DEF CountsOK, Request

-----------------------------------------------------------------------------
(* Requests. *)
LEMMA LoginMaps == ASSUME TypeOK, NEW c \in Users, Login(c) PROVE TypeOK' /\ Mapped
  <1>1. StreamsOK /\ CountsOK /\ sess[c][c] \in Session
    BY DEF TypeOK, CountsOK
  <1> DEFINE m == Reply(status[c] # "in")
  <1>2. m \in Packets /\ ~IsE2E(m)
    BY <1>1, SentPackets
  <1>3. StreamsOK' /\ Quiet
    <2> HIDE DEF m
    <2>1. inbox' = [inbox EXCEPT ![c] = Append(@, m)] /\ UNCHANGED pktQueue
      BY DEF Login, m
    <2> QED
      BY <1>1, <1>2, <2>1, AppendStep, PostsNothing
  <1>4. CountsOK'
    BY <1>1, RequestCounts DEF Login, CountsOK
  <1> QED
    BY <1>3, <1>4, Points, QuietStep DEF Login

LEMMA GetUsersMaps == ASSUME TypeOK, NEW c \in Users, GetUsers(c) PROVE TypeOK' /\ Mapped
  <1>1. StreamsOK /\ CountsOK /\ sess[c][c] \in Session
    BY DEF TypeOK, CountsOK
  <1>2. UserList \in Packets /\ ~IsE2E(UserList)
    BY <1>1, SentPackets
  <1>3. StreamsOK' /\ Quiet
    BY <1>1, <1>2, AppendStep, PostsNothing DEF GetUsers
  <1>4. CountsOK'
    BY <1>1, RequestCounts DEF GetUsers, CountsOK
  <1> QED
    BY <1>3, <1>4, Points, QuietStep DEF GetUsers

LEMMA QuitMaps == ASSUME TypeOK, NEW c \in Users, Quit(c) PROVE TypeOK' /\ Mapped
  <1>1. StreamsOK /\ CountsOK
    BY DEF TypeOK, CountsOK
  <1>2. StreamsOK' /\ Quiet
    BY <1>1, ClearStep DEF Quit
  <1>3. CountsOK'
    BY <1>1, RequestCounts DEF Quit, CountsOK
  <1>4. Goto(c, thread[c])
    BY StayStep DEF Quit
  <1> QED
    BY <1>2, <1>3, <1>4, Points, QuietStep DEF Quit

(* The requests that move no packet. *)
LEMMA UnchangedQuiet == UNCHANGED <<inbox, pktQueue>> => Quiet /\ (StreamsOK => StreamsOK')
  BY DEF Quiet, InFlight, Pending, StreamsOK

LEMMA ConnectMaps ==
    ASSUME TypeOK, NEW c \in Users, NEW p \in Users \ {c}, Connect(c, p) \/ E2EAgain(c, p)
    PROVE  TypeOK' /\ Mapped
  <1>1. StreamsOK /\ CountsOK
    BY DEF TypeOK, CountsOK
  <1>2. StreamsOK' /\ Quiet /\ UNCHANGED sess
    BY <1>1, UnchangedQuiet DEF Connect, E2EAgain
  <1>3. CountsOK'
    BY <1>1, RequestCounts DEF Connect, E2EAgain, CountsOK
  <1>4. CASE Connect(c, p)
    BY <1>2, <1>3, <1>4, Points, QuietStep DEF Connect
  <1>5. CASE E2EAgain(c, p)
    <2>1. Wait("firstE2E", p, "report") \in PointOf(c)
      BY Points DEF E2EWaits
    <2> QED
      BY <1>2, <1>3, <1>5, <2>1, QuietStep DEF E2EAgain
  <1> QED
    BY <1>4, <1>5

LEMMA Reading == ASSUME NEW c \in Users, NEW now \in Clock[c] PROVE now \in Nat
  BY ClientAssumption

LEMMA E2EBeginMaps ==
    ASSUME TypeOK, NEW c \in Users, NEW p \in Users \ {c}, E2EBegin(c, p)
    PROVE  TypeOK' /\ Mapped
  <1>1. StreamsOK /\ CountsOK /\ sess[c][p] \in Session
    BY DEF TypeOK, CountsOK
  <1>2. PICK now \in Clock[c] :
          LET s == Initiate(sess[c][p], now)
          IN  UpdateSession(c, p, s) /\ inbox' = Relay(inbox, p, InitPacket(c, s))
    BY DEF E2EBegin
  <1> DEFINE u == Initiate(sess[c][p], now)
  <1>3. u \in Session
    BY <1>1, Reading, HandlersTyped
  <1>4. Exchange!Post(p, InitPacket(c, u)) => Exchange!Begin(c, p)
    BY <1>2, SameOperators DEF E2EBegin, UpdateSession, Exchange!Begin, Exchange!Update
  <1>5. UpdateSession(c, p, u) /\ inbox' = Relay(inbox, p, InitPacket(c, u))
    BY <1>2
  <1> HIDE DEF u
  <1>6. InitPacket(c, u) \in Packets /\ InitPacket(c, u).from = c
    BY <1>3, SentPackets
  <1>7. StreamsOK' /\ Posts(p, InitPacket(c, u))
    BY <1>1, <1>5, <1>6, RelayStep DEF E2EBegin
  <1>8. CountsOK'
    BY <1>1, RequestCounts DEF E2EBegin, CountsOK
  <1>9. Wait("firstE2E", p, "report") \in PointOf(c)
    BY Points DEF E2EWaits
  <1>10. TypeOK'
    BY <1>3, <1>5, <1>6, <1>7, <1>8, <1>9, SessionStep DEF E2EBegin
  <1> QED
    BY <1>4, <1>7, <1>10, PostsMaps DEF Mapped, Exchange!Next

LEMMA BeginRefreshMaps ==
    ASSUME TypeOK, NEW c \in Users, NEW p \in Users \ {c},
           NEW then \in {"send", "encrypt"}, BeginRefresh(c, p, then),
           UNCHANGED pktQueue, CountsOK'
    PROVE  TypeOK' /\ Mapped
  <1>1. StreamsOK /\ CountsOK /\ sess[c][p] \in Session
    BY DEF TypeOK, CountsOK
  <1>2. PICK seen \in Clock[c], now \in Clock[c] :
          /\ IsStale(sess[c][p], seen)
          /\ LET s == Refresh(sess[c][p], now)
             IN  UpdateSession(c, p, s) /\ inbox' = Relay(inbox, p, InitPacket(c, s))
          /\ Goto(c, Wait("firstE2E", p, then))
    BY DEF BeginRefresh
  <1> DEFINE u == Refresh(sess[c][p], now)
  <1>3. u \in Session
    BY <1>1, Reading, HandlersTyped
  <1>4. Exchange!Post(p, InitPacket(c, u)) => Exchange!Renew(c, p)
    BY <1>2, SameOperators DEF IsStale, UpdateSession, Exchange!Renew, Exchange!Update
  <1>5. UpdateSession(c, p, u) /\ inbox' = Relay(inbox, p, InitPacket(c, u))
    BY <1>2
  <1> HIDE DEF u
  <1>6. InitPacket(c, u) \in Packets /\ InitPacket(c, u).from = c
    BY <1>3, SentPackets
  <1>7. StreamsOK' /\ Posts(p, InitPacket(c, u))
    BY <1>1, <1>5, <1>6, RelayStep
  <1>8. Wait("firstE2E", p, then) \in PointOf(c)
    BY Points DEF E2EWaits
  <1>9. TypeOK'
    BY <1>2, <1>3, <1>5, <1>6, <1>7, <1>8, SessionStep
  <1> QED
    BY <1>4, <1>7, <1>9, PostsMaps DEF Mapped, Exchange!Next

LEMMA ConnectStaleMaps ==
    ASSUME TypeOK, NEW c \in Users, NEW p \in Users \ {c}, ConnectStale(c, p)
    PROVE  TypeOK' /\ Mapped
  <1>1. CountsOK
    BY DEF TypeOK, CountsOK
  <1>2. CountsOK'
    BY <1>1, RequestCounts DEF ConnectStale, CountsOK
  <1> QED
    BY <1>2, BeginRefreshMaps DEF ConnectStale

LEMMA SendStaleMaps == ASSUME TypeOK, NEW c \in Users, SendStale(c) PROVE TypeOK' /\ Mapped
  <1>1. thread[c].peer \in Users \ {c}
    BY Points DEF SendStale, PointOf, Threads, Loop, LoginWait, ListWait, E2EWaits
  <1>2. CountsOK'
    BY DEF TypeOK, CountsOK, SendStale
  <1> QED
    BY <1>1, <1>2, BeginRefreshMaps DEF SendStale

-----------------------------------------------------------------------------
(* Texts. *)
LEMMA TransmitMaps ==
    ASSUME TypeOK, NEW c \in Users, NEW p \in Users, Transmit(c, p)
    PROVE  TypeOK' /\ Mapped
  <1>1. StreamsOK /\ CountsOK /\ sess[c][p] \in Session
    BY DEF TypeOK, CountsOK
  <1> DEFINE m == Text(c, sess[c][p])
  <1>2. m \in Packets /\ ~IsE2E(m)
    BY <1>1, SentPackets
  <1>3. /\ inbox' = Relay(inbox, p, m)
        /\ Goto(c, Loop)
        /\ UNCHANGED <<sess, pktQueue, status, missed, budget>>
    BY DEF Transmit
  <1> HIDE DEF m
  <1>4. StreamsOK' /\ Quiet
    BY <1>1, <1>2, <1>3, RelayStep, PostsNothing
  <1>5. CountsOK'
    BY <1>1, <1>3 DEF CountsOK
  <1> QED
    BY <1>3, <1>4, <1>5, Points, QuietStep

LEMMA SendMaps ==
    ASSUME TypeOK, NEW c \in Users, Send(c) \/ SendRenewed(c)
    PROVE  TypeOK' /\ Mapped
  <1>1. thread[c].at \in {"send", "encrypt"} /\ Transmit(c, thread[c].peer)
    BY DEF Send, SendRenewed
  <1>2. thread[c].peer \in Users
    BY <1>1, Points DEF PointOf, Threads, Loop, LoginWait, ListWait, E2EWaits
  <1> QED
    BY <1>1, <1>2, TransmitMaps

-----------------------------------------------------------------------------
(* Reads that change no session. *)
LEMMA LoginReplyMaps == ASSUME TypeOK, NEW c \in Users, LoginReply(c) PROVE TypeOK' /\ Mapped
  <1>0. StreamsOK /\ CountsOK /\ UNCHANGED <<sess, status, budget>>
    BY DEF TypeOK, CountsOK, LoginReply
  <1>2. PICK r \in Polls(c), intact \in BOOLEAN :
          /\ inbox' = r.streams /\ Miss(c, r)
          /\ IF intact
             THEN Keep(c, r.queue) /\ Goto(c, Loop)
             ELSE Keep(c, Append(r.queue, Null)) /\ UNCHANGED thread
    BY DEF LoginReply
  <1>1. StreamsOK /\ CountsOK' /\ UNCHANGED sess
    BY <1>0, <1>2, MissStep DEF CountsOK
  <1>3. CASE intact
    BY <1>1, <1>2, <1>3, TakeStep, Points, QuietStep
  <1>4. CASE ~intact
    <2>1. StreamsOK' /\ Quiet
      BY <1>1, <1>2, <1>4, SetAsideStep
    <2>2. Goto(c, thread[c])
      BY <1>2, <1>4, StayStep
    <2> QED
      BY <1>1, <2>1, <2>2, Points, QuietStep
  <1> QED
    BY <1>3, <1>4

LEMMA UsersReplyMaps == ASSUME TypeOK, NEW c \in Users, UsersReply(c) PROVE TypeOK' /\ Mapped
  <1>0. StreamsOK /\ CountsOK /\ UNCHANGED <<status, budget>>
    BY DEF TypeOK, CountsOK, UsersReply, TakeOnly
  <1>1. StreamsOK /\ CountsOK' /\ UNCHANGED sess
    <2>1. PICK r \in Polls(c) : Miss(c, r)
      BY DEF UsersReply, TakeOnly
    <2> QED
      BY <1>0, <2>1, MissStep DEF UsersReply, TakeOnly, CountsOK
  <1>2. StreamsOK' /\ Quiet
    BY <1>1, TakeStep DEF UsersReply, TakeOnly
  <1> QED
    BY <1>1, <1>2, Points, QuietStep DEF UsersReply

LEMMA SetAsideMaps == ASSUME TypeOK, NEW c \in Users, SetAside(c) PROVE TypeOK' /\ Mapped
  <1>0. StreamsOK /\ CountsOK /\ UNCHANGED <<status, budget>>
    BY DEF TypeOK, CountsOK, SetAside
  <1>1. StreamsOK /\ CountsOK' /\ UNCHANGED sess /\ Goto(c, thread[c])
    <2>1. PICK r \in Polls(c) : Miss(c, r)
      BY DEF SetAside
    <2> QED
      BY <1>0, <2>1, MissStep, StayStep DEF SetAside, CountsOK
  <1>2. StreamsOK' /\ Quiet
    BY <1>1, SetAsideStep DEF SetAside
  <1> QED
    BY <1>1, <1>2, Points, QuietStep

LEMMA SkipNullMaps == ASSUME TypeOK, NEW c \in Users, SkipNull(c) PROVE TypeOK' /\ Mapped
  <1>0. StreamsOK /\ CountsOK /\ UNCHANGED <<status, budget>>
    BY DEF TypeOK, CountsOK, SkipNull, TakeOnly
  <1>1. StreamsOK /\ CountsOK' /\ UNCHANGED sess /\ Goto(c, thread[c])
    <2>1. PICK r \in Polls(c) : Miss(c, r)
      BY DEF SkipNull, TakeOnly
    <2> QED
      BY <1>0, <2>1, MissStep, StayStep DEF SkipNull, TakeOnly, CountsOK
  <1>2. StreamsOK' /\ Quiet
    BY <1>1, TakeStep DEF SkipNull, TakeOnly
  <1> QED
    BY <1>1, <1>2, Points, QuietStep

LEMMA CrashMaps ==
    ASSUME TypeOK, NEW c \in Users, Crash(c), UNCHANGED budget
    PROVE  TypeOK' /\ Mapped
  <1>1. StreamsOK' /\ Quiet /\ UNCHANGED sess /\ Goto(c, Loop)
    BY ClearStep DEF TypeOK, Crash, Goto
  <1>2. CountsOK'
    BY DEF TypeOK, CountsOK, Crash
  <1> QED
    BY <1>1, <1>2, Points, QuietStep

LEMMA DrainTextMaps == ASSUME TypeOK, NEW c \in Users, DrainText(c) PROVE TypeOK' /\ Mapped
  <1>1. StreamsOK
    BY DEF TypeOK
  <1>2. PICK r \in Polls(c) :
          /\ r.pkt.kind = "TEXT"
          /\ \/ Crash(c)
             \/ TakeOnly(c, r) /\ UNCHANGED thread
    BY DEF DrainText
  <1>3. CASE Crash(c)
    BY <1>3, CrashMaps DEF DrainText
  <1>4. CASE TakeOnly(c, r) /\ UNCHANGED thread
    <2>1. CountsOK /\ UNCHANGED <<status, budget>> /\ Miss(c, r)
      BY <1>4 DEF TypeOK, CountsOK, DrainText, TakeOnly
    <2>2. CountsOK'
      BY <1>1, <2>1, MissStep DEF CountsOK
    <2>3. StreamsOK' /\ Quiet /\ UNCHANGED sess /\ Goto(c, thread[c])
      BY <1>1, <1>4, TakeStep, StayStep DEF TakeOnly
    <2> QED
      BY <2>2, <2>3, Points, QuietStep
  <1> QED
    BY <1>2, <1>3, <1>4

-----------------------------------------------------------------------------
(* Reads that change a session. *)

\* A control packet taken from the queues was in flight, from somebody else.
LEMMA ControlTaken ==
    ASSUME TypeOK, NEW c \in Users, NEW r \in Polls(c), IsE2E(r.pkt)
    PROVE  /\ r.pkt \in InFlight(c) /\ r.pkt.from \in Users \ {c}
           /\ r.pkt.seq \in Nat /\ r.pkt.gen \in Generation
           /\ r.pkt.kind = "INIT" => r.pkt.ts \in Nat
           /\ sess[c][r.pkt.from] \in Session
  <1>1. r.pkt \in Packets \cup {Null} /\ r.pkt \in Pending(c)
    BY PollTakes DEF TypeOK, Taken
  <1>2. r.pkt \in InFlight(c)
    BY <1>1 DEF InFlight
  <1>3. /\ r.pkt.from \in Users /\ r.pkt.seq \in Nat /\ r.pkt.gen \in Generation
        /\ r.pkt.kind = "INIT" => r.pkt.ts \in Nat
    BY <1>1, PacketFields DEF IsE2E
  <1> QED
    BY <1>2, <1>3 DEF TypeOK, OthersOnly

LEMMA AcceptInitMaps ==
    ASSUME TypeOK, NEW c \in Users, NEW r \in Polls(c), r.pkt.kind = "INIT",
           Accepts(sess[c][r.pkt.from], r.pkt), ~EstablishThrows(sess[c][r.pkt.from]),
           AcceptInit(c, r), NEW t \in PointOf(c), Goto(c, t),
           UNCHANGED budget
    PROVE  TypeOK' /\ Mapped
  <1> DEFINE p == r.pkt.from
             u == HandleInit(sess[c][p], r.pkt)
  <1>1. StreamsOK /\ CountsOK'
    <2>1. StreamsOK /\ CountsOK /\ UNCHANGED <<status, budget>> /\ Miss(c, r)
      BY DEF TypeOK, CountsOK, AcceptInit
    <2> QED
      BY <2>1, MissStep DEF CountsOK
  <1>2. /\ r.pkt \in InFlight(c) /\ p \in Users \ {c} /\ sess[c][p] \in Session
        /\ r.pkt.seq \in Nat /\ r.pkt.gen \in Generation /\ r.pkt.ts \in Nat
    BY ControlTaken DEF IsE2E
  <1>3. u \in Session
    BY <1>2, HandlersTyped
  <1>4. UpdateSession(c, p, u) /\ inbox' = Relay(r.streams, p, AckPacket(c, u)) /\ Keep(c, r.queue)
    BY DEF AcceptInit
  <1>5. Exchange!Post(p, AckPacket(c, u)) => Exchange!ReceiveInit(c, p)
    <2>1. r.pkt \in [x \in Users |-> InFlight(x)][c]
      BY <1>2
    <2>2. Accepts(sess[c][p], r.pkt) /\ ~EstablishThrows(sess[c][p])
      OBVIOUS
    <2> QED
      BY <1>4, <2>1, <2>2, SameOperators
      DEF UpdateSession, Exchange!ReceiveInit, Exchange!Update
  <1> HIDE DEF u, p
  <1>6. AckPacket(c, u) \in Packets /\ AckPacket(c, u).from = c
    BY <1>3, SentPackets
  <1>7. StreamsOK' /\ Posts(p, AckPacket(c, u))
    BY <1>1, <1>2, <1>4, <1>6, TakeRelayStep
  <1>8. TypeOK'
    BY <1>1, <1>2, <1>3, <1>4, <1>6, <1>7, SessionStep
  <1> QED
    BY <1>2, <1>5, <1>7, <1>8, PostsMaps DEF Mapped, Exchange!Next

\* An ACK that establishes the session with "key".
LEMMA EstablishMaps ==
    ASSUME TypeOK, NEW c \in Users, NEW r \in Polls(c), IsE2E(r.pkt),
           NEW seq, NEW key \in PeerKey, ApplyAck(c, r, r.pkt.from, seq, key),
           AckApplies(sess[c][r.pkt.from], seq), ~EstablishThrows(sess[c][r.pkt.from]),
           \/ r.pkt.kind = "ACK" /\ seq = r.pkt.seq /\ key = r.pkt.gen
           \/ r.pkt.kind = "INIT" /\ key = BogusKey,
           NEW t \in PointOf(c), Goto(c, t), UNCHANGED budget
    PROVE  TypeOK' /\ Mapped
  <1> DEFINE p == r.pkt.from
             u == HandleAck(sess[c][p], key)
  <1>1. StreamsOK /\ CountsOK'
    <2>1. StreamsOK /\ CountsOK /\ UNCHANGED <<status, budget>> /\ Miss(c, r)
      BY DEF TypeOK, CountsOK, ApplyAck
    <2> QED
      BY <2>1, MissStep DEF CountsOK
  <1>2. r.pkt \in InFlight(c) /\ p \in Users \ {c} /\ sess[c][p] \in Session
    BY ControlTaken
  <1>3. u \in Session
    BY <1>2, HandlersTyped
  <1>4. UpdateSession(c, p, u) /\ inbox' = r.streams /\ Keep(c, r.queue)
    BY DEF ApplyAck
  <1>5. StreamsOK' /\ Quiet
    BY <1>1, <1>4, TakeStep
  <1>6. TypeOK'
    <2> HIDE DEF u, p
    <2>1. AckPacket(c, u).from = c
      BY <1>3, SentPackets
    <2> QED
      BY <1>1, <1>2, <1>3, <1>4, <1>5, <2>1, SessionStep
  <1>7. r.pkt \in [x \in Users |-> InFlight(x)][c]
    BY <1>2
  <1>8. CASE r.pkt.kind = "ACK" /\ seq = r.pkt.seq /\ key = r.pkt.gen
    <2>1. Exchange!ReceiveAck(c, p)
      BY <1>4, <1>5, <1>7, <1>8, QuietIsLoss, SameOperators
      DEF UpdateSession, Exchange!ReceiveAck, Exchange!Update
    <2> QED
      BY <1>2, <1>6, <2>1 DEF Mapped, Exchange!Next
  <1>9. CASE r.pkt.kind = "INIT" /\ key = BogusKey
    <2>1. Exchange!ReceiveGarbage(c, p)
      BY <1>4, <1>5, <1>7, <1>9, QuietIsLoss, SameOperators
      DEF UpdateSession, Exchange!ReceiveGarbage, Exchange!Update, AckApplies
    <2> QED
      BY <1>2, <1>6, <2>1 DEF Mapped, Exchange!Next
  <1> QED
    BY <1>8, <1>9

\* A control packet that changes nothing.
LEMMA IgnoredMaps ==
    ASSUME TypeOK, NEW c \in Users, NEW r \in Polls(c),
           TakeOnly(c, r), NEW t \in PointOf(c), Goto(c, t),
           UNCHANGED budget
    PROVE  TypeOK' /\ Mapped
  <1>1. StreamsOK' /\ Quiet /\ CountsOK' /\ UNCHANGED sess
    <2>1. StreamsOK /\ CountsOK /\ UNCHANGED <<sess, status, budget>> /\ Miss(c, r)
      BY DEF TypeOK, CountsOK, TakeOnly
    <2> QED
      BY <2>1, MissStep, TakeStep DEF CountsOK, TakeOnly
  <1> QED
    BY <1>1, QuietStep

LEMMA ReturnPoint ==
    ASSUME TypeOK, NEW c \in Users, thread[c].at \in E2EWaits, Return(c)
    PROVE  \E t \in PointOf(c) : Goto(c, t)
  <1>1. /\ thread[c].peer \in Users \ {c}
        /\ thread[c].then \in {"report", "send", "encrypt"}
    BY Points DEF PointOf, Threads, Loop, LoginWait, ListWait, E2EWaits
  <1>2. CASE thread[c].then = "report"
    BY <1>2, Points DEF Return
  <1>3. CASE thread[c].then # "report"
    BY <1>1, <1>3, Points DEF Return
  <1> QED
    BY <1>2, <1>3

LEMMA FirstInitMaps == ASSUME TypeOK, NEW c \in Users, FirstInit(c) PROVE TypeOK' /\ Mapped
  <1> DEFINE s == sess[c][thread[c].peer]
  <1>1. UNCHANGED budget /\ thread[c].at \in E2EWaits
    BY DEF FirstInit, E2EWaits
  <1>2. PICK r \in Polls(c) :
          /\ Wanted(thread[c], r.pkt) /\ r.pkt.kind = "INIT"
          /\ IF ~Accepts(s, r.pkt)
             THEN /\ TakeOnly(c, r)
                  /\ Goto(c, [thread[c] EXCEPT !.at = "secondE2E"])
             ELSE IF EstablishThrows(s) THEN Crash(c) ELSE AcceptInit(c, r) /\ Return(c)
    BY DEF FirstInit
  <1>3. thread[c].peer = r.pkt.from
    BY <1>1, <1>2 DEF Wanted, E2EWaits
  <1>4. CASE ~Accepts(s, r.pkt)
    <2>1. [thread[c] EXCEPT !.at = "secondE2E"] \in PointOf(c)
      BY <1>1, Points DEF PointOf, Threads, Loop, LoginWait, ListWait, E2EWaits
    <2> QED
      BY <1>1, <1>2, <1>4, <2>1, IgnoredMaps
  <1>5. CASE Accepts(s, r.pkt) /\ EstablishThrows(s)
    BY <1>1, <1>2, <1>5, CrashMaps
  <1>6. CASE Accepts(s, r.pkt) /\ ~EstablishThrows(s)
    <2>1. PICK t \in PointOf(c) : Goto(c, t)
      BY <1>1, <1>2, <1>6, ReturnPoint
    <2> QED
      BY <1>1, <1>2, <1>3, <1>6, <2>1, AcceptInitMaps
  <1> QED
    BY <1>4, <1>5, <1>6

LEMMA EitherAckMaps == ASSUME TypeOK, NEW c \in Users, EitherAck(c) PROVE TypeOK' /\ Mapped
  <1> DEFINE s == sess[c][thread[c].peer]
  <1>1. UNCHANGED budget /\ thread[c].at \in E2EWaits
    BY DEF EitherAck
  <1>2. PICK r \in Polls(c) :
          /\ Wanted(thread[c], r.pkt) /\ r.pkt.kind = "ACK"
          /\ IF AckApplies(s, r.pkt.seq) /\ EstablishThrows(s)
             THEN Crash(c)
             ELSE ApplyAck(c, r, r.pkt.from, r.pkt.seq, r.pkt.gen) /\ Return(c)
    BY DEF EitherAck
  <1>3. thread[c].peer = r.pkt.from /\ IsE2E(r.pkt)
    BY <1>1, <1>2 DEF Wanted, E2EWaits, IsE2E
  <1>4. CASE AckApplies(s, r.pkt.seq) /\ EstablishThrows(s)
    BY <1>1, <1>2, <1>4, CrashMaps
  <1>5. CASE ~(AckApplies(s, r.pkt.seq) /\ EstablishThrows(s))
    <2>1. PICK t \in PointOf(c) : Goto(c, t)
      BY <1>1, <1>2, <1>5, ReturnPoint
    <2>2. ApplyAck(c, r, r.pkt.from, r.pkt.seq, r.pkt.gen)
      BY <1>2, <1>5
    <2>3. CASE AckApplies(s, r.pkt.seq)
      <3>1. r.pkt.gen \in PeerKey
        BY <1>3, ControlTaken DEF Generation, PeerKey
      <3> QED
        BY <1>1, <1>2, <1>3, <1>5, <2>1, <2>2, <2>3, <3>1, EstablishMaps
    <2>4. CASE ~AckApplies(s, r.pkt.seq)
      BY <1>1, <1>3, <2>1, <2>2, <2>4, IgnoredMaps DEF ApplyAck, TakeOnly
    <2> QED
      BY <2>3, <2>4
  <1> QED
    BY <1>4, <1>5

LEMMA SecondInitMaps == ASSUME TypeOK, NEW c \in Users, SecondInit(c) PROVE TypeOK' /\ Mapped
  <1> DEFINE s == sess[c][thread[c].peer]
  <1>1. UNCHANGED budget /\ thread[c].at \in E2EWaits
    BY DEF SecondInit, E2EWaits
  <1>2. PICK r \in Polls(c), lucky \in BOOLEAN :
          /\ Wanted(thread[c], r.pkt) /\ r.pkt.kind = "INIT"
          /\ IF lucky /\ s.state \in Sent /\ EstablishThrows(s)
             THEN Crash(c)
             ELSE /\ IF lucky
                     THEN ApplyAck(c, r, r.pkt.from, s.seq, BogusKey)
                     ELSE TakeOnly(c, r)
                  /\ Return(c)
    BY DEF SecondInit
  <1>3. thread[c].peer = r.pkt.from /\ IsE2E(r.pkt)
    BY <1>1, <1>2 DEF Wanted, E2EWaits, IsE2E
  <1>4. CASE lucky /\ s.state \in Sent /\ EstablishThrows(s)
    BY <1>1, <1>2, <1>4, CrashMaps
  <1>5. CASE ~(lucky /\ s.state \in Sent /\ EstablishThrows(s))
    <2>1. PICK t \in PointOf(c) : Goto(c, t)
      BY <1>1, <1>2, <1>5, ReturnPoint
    <2>2. CASE lucky /\ s.state \in Sent
      <3>1. ApplyAck(c, r, r.pkt.from, s.seq, BogusKey) /\ BogusKey \in PeerKey
        BY <1>2, <1>5, <2>2 DEF PeerKey
      <3>2. AckApplies(s, s.seq) /\ ~EstablishThrows(s)
        BY <1>5, <2>2 DEF AckApplies
      <3> QED
        BY <1>1, <1>2, <1>3, <2>1, <3>1, <3>2, EstablishMaps
    <2>3. CASE ~(lucky /\ s.state \in Sent)
      <3>1. TakeOnly(c, r)
        BY <1>2, <1>3, <1>5, <2>3 DEF ApplyAck, AckApplies, TakeOnly
      <3> QED
        BY <1>1, <2>1, <3>1, IgnoredMaps
    <2> QED
      BY <2>2, <2>3
  <1> QED
    BY <1>4, <1>5

LEMMA DrainE2EMaps == ASSUME TypeOK, NEW c \in Users, DrainE2E(c) PROVE TypeOK' /\ Mapped
  <1>1. UNCHANGED budget
    BY DEF DrainE2E
  <1>2. PICK r \in Polls(c) :
          /\ IsE2E(r.pkt)
          /\ LET s == sess[c][r.pkt.from]
                 applies == IF r.pkt.kind = "INIT" THEN Accepts(s, r.pkt)
                            ELSE AckApplies(s, r.pkt.seq)
             IN  IF applies /\ EstablishThrows(s)
                 THEN Crash(c)
                 ELSE /\ IF r.pkt.kind = "ACK"
                         THEN ApplyAck(c, r, r.pkt.from, r.pkt.seq, r.pkt.gen)
                         ELSE IF applies THEN AcceptInit(c, r) ELSE TakeOnly(c, r)
                      /\ UNCHANGED thread
    BY DEF DrainE2E
  <1> DEFINE s == sess[c][r.pkt.from]
  <1>3. thread[c] \in PointOf(c) /\ (UNCHANGED thread => Goto(c, thread[c]))
    BY Points, StayStep
  <1>4. r.pkt.kind = "INIT" \/ r.pkt.kind = "ACK"
    BY <1>2 DEF IsE2E
  <1>5. CASE r.pkt.kind = "INIT"
    <2>1. CASE ~Accepts(s, r.pkt)
      BY <1>1, <1>2, <1>3, <1>5, <2>1, IgnoredMaps
    <2>2. CASE Accepts(s, r.pkt) /\ EstablishThrows(s)
      BY <1>1, <1>2, <1>5, <2>2, CrashMaps
    <2>3. CASE Accepts(s, r.pkt) /\ ~EstablishThrows(s)
      BY <1>1, <1>2, <1>3, <1>5, <2>3, AcceptInitMaps
    <2> QED
      BY <2>1, <2>2, <2>3
  <1>6. CASE r.pkt.kind = "ACK"
    <2>1. CASE AckApplies(s, r.pkt.seq) /\ EstablishThrows(s)
      BY <1>1, <1>2, <1>6, <2>1, CrashMaps
    <2>2. CASE AckApplies(s, r.pkt.seq) /\ ~EstablishThrows(s)
      <3>1. r.pkt.gen \in PeerKey
        BY <1>6, ControlTaken DEF Generation, PeerKey, IsE2E
      <3> QED
        BY <1>1, <1>2, <1>3, <1>6, <2>2, <3>1, EstablishMaps
    <2>3. CASE ~AckApplies(s, r.pkt.seq)
      BY <1>1, <1>2, <1>3, <1>6, <2>3, IgnoredMaps DEF ApplyAck, TakeOnly
    <2> QED
      BY <2>1, <2>2, <2>3
  <1> QED
    BY <1>4, <1>5, <1>6

-----------------------------------------------------------------------------
(* A client that starts has sent and received nothing, so the exchange has  *)
(* no packet in flight (client.cpp, the members of Client).                 *)
THEOREM InitialState == Init => TypeOK /\ Exchange!Init
  <1> SUFFICES ASSUME Init PROVE TypeOK /\ Exchange!Init
    OBVIOUS
  <1>1. Elements(<<>>) = {}
    BY EmptyElements
  <1>2. \A c \in Users : InFlight(c) = {}
    BY <1>1 DEF Init, InFlight, Pending
  <1>3. NewSession \in Session
    BY SessionAssumption DEF NewSession, Session, States, Generation, PeerKey, NoKey
  <1>4. OthersOnly
    BY <1>2 DEF OthersOnly, Init, Loop, E2EWaits
  <1>5. MaxRequests \in Nat /\ Loop \in Threads /\ <<>> \in Seq(Packets) /\ <<>> \in Seq(Packets \cup {Null})
    BY ClientAssumption, EmptyElements DEF Threads
  <1>6. TypeOK
    BY <1>3, <1>4, <1>5 DEF TypeOK, StreamsOK, Init
  <1>7. Exchange!NewSession = NewSession
    BY DEF Exchange!NewSession, NewSession, Exchange!NoKey, NoKey
  <1>8. Exchange!Init
    BY <1>2, <1>7 DEF Init, Exchange!Init
  <1> QED
    BY <1>6, <1>8

(* Each step of a client thread keeps the types and posts, handles or loses *)
(* at most what one step of the exchange may.                               *)
THEOREM StepMaps == TypeOK /\ [Next]_vars => TypeOK' /\ Mapped
  <1> SUFFICES ASSUME TypeOK, [Next]_vars PROVE TypeOK' /\ Mapped
    OBVIOUS
  <1>1. ASSUME UNCHANGED vars PROVE TypeOK' /\ Mapped
    <2>1. TypeOK'
      BY <1>1 DEF vars, TypeOK, StreamsOK, OthersOnly, InFlight, Pending
    <2>2. Quiet /\ UNCHANGED sess
      BY <1>1, UnchangedQuiet DEF vars
    <2> QED
      BY <2>1, <2>2, QuietLoses DEF Mapped, Exchange!Next
  <1>2. ASSUME NEW c \in Users, Requests(c) PROVE TypeOK' /\ Mapped
    <2>1. CASE Login(c)
      BY <2>1, LoginMaps
    <2>2. CASE GetUsers(c)
      BY <2>2, GetUsersMaps
    <2>3. CASE Quit(c)
      BY <2>3, QuitMaps
    <2>4. ASSUME NEW p \in Users \ {c},
                 Connect(c, p) \/ ConnectStale(c, p) \/ E2EBegin(c, p) \/ E2EAgain(c, p)
          PROVE  TypeOK' /\ Mapped
      BY <2>4, ConnectMaps, ConnectStaleMaps, E2EBeginMaps
    <2> QED
      BY <1>2, <2>1, <2>2, <2>3, <2>4 DEF Requests
  <1>3. ASSUME NEW c \in Users, Reads(c) PROVE TypeOK' /\ Mapped
    BY <1>3, LoginReplyMaps, UsersReplyMaps, FirstInitMaps, EitherAckMaps, SecondInitMaps,
       SetAsideMaps, SkipNullMaps, DrainE2EMaps, DrainTextMaps DEF Reads
  <1>4. ASSUME NEW c \in Users, Send(c) \/ SendStale(c) \/ SendRenewed(c)
        PROVE  TypeOK' /\ Mapped
    BY <1>4, SendMaps, SendStaleMaps
  <1> QED
    BY <1>1, <1>2, <1>3, <1>4 DEF Next, Step

(* The client thread keeps its types, and is never its own peer. *)
THEOREM TypeCorrect == Spec => []TypeOK
  BY InitialState, StepMaps, PTL DEF Spec

(* Whatever the queues, the waits and the coalesced reads do to the packets *)
(* of E2ESession, the clients' sessions are those of KeyExchange.           *)
THEOREM Refinement == Spec => ImplementsExchange
  <1>1. Init => TypeOK /\ Exchange!Init
    BY InitialState
  <1>2. TypeOK /\ [Next]_vars => TypeOK' /\ [Exchange!Next]_(Exchange!vars)
    BY StepMaps DEF Mapped
  <1> QED
    BY <1>1, <1>2, PTL DEF Spec, ImplementsExchange, Exchange!Spec

LEMMA SameNext == Exchange!Next => Proved!Next
  <1> USE SameOperators, SameAgain
  <1>1. Exchange!Losses([x \in Users |-> InFlight(x)])
            = Proved!Losses([x \in Users |-> InFlight(x)])
    BY DEF Exchange!Losses, Proved!Losses
  <1>2. /\ \A p, m : Exchange!Post(p, m) <=> Proved!Post(p, m)
        /\ \A c, p, s : Exchange!Update(c, p, s) <=> Proved!Update(c, p, s)
    BY DEF Exchange!Post, Proved!Post, Exchange!Losses, Proved!Losses,
           Exchange!Update, Proved!Update
  <1> USE <1>1, <1>2
  <1>3. ASSUME NEW c, NEW p PROVE Exchange!Begin(c, p) => Proved!Begin(c, p)
    BY DEF Exchange!Begin, Proved!Begin
  <1>4. ASSUME NEW c, NEW p PROVE Exchange!Renew(c, p) => Proved!Renew(c, p)
    BY DEF Exchange!Renew, Proved!Renew
  <1>5. ASSUME NEW c, NEW p PROVE Exchange!ReceiveInit(c, p) => Proved!ReceiveInit(c, p)
    BY DEF Exchange!ReceiveInit, Proved!ReceiveInit
  <1>6. ASSUME NEW c, NEW p PROVE Exchange!ReceiveAck(c, p) => Proved!ReceiveAck(c, p)
    BY DEF Exchange!ReceiveAck, Proved!ReceiveAck
  <1>7. ASSUME NEW c, NEW p
        PROVE  Exchange!ReceiveGarbage(c, p) => Proved!ReceiveGarbage(c, p)
    BY DEF Exchange!ReceiveGarbage, Proved!ReceiveGarbage
  <1>8. Exchange!Lose => Proved!Lose
    BY DEF Exchange!Lose, Proved!Lose
  <1> QED
    BY ONLY <1>3, <1>4, <1>5, <1>6, <1>7, <1>8 DEF Exchange!Next, Proved!Next

(* Two clients with established sessions of one number hold the same key. *)
THEOREM Agreement == Spec => []KeyAgreement
  <1>1. Init => Proved!Init
    <2>1. Exchange!Init => Proved!Init
      BY DEF Exchange!Init, Proved!Init, Exchange!NewSession, Proved!NewSession,
             Exchange!NoKey, Proved!NoKey
    <2> QED
      BY <2>1, InitialState
  <1>2. TypeOK /\ [Next]_vars => [Proved!Next]_(Proved!vars)
    BY SameNext, StepMaps DEF Mapped, Exchange!vars, Proved!vars
  <1>3. Proved!Spec => []Proved!KeyAgreement
    <2>1. Proved!SessionAssumption /\ Proved!ExchangeAssumption
      BY SessionAssumption, ClientAssumption DEF Proved!SessionAssumption, Proved!ExchangeAssumption
    <2> QED
      BY <2>1, Proved!Agreement, PTL
  <1>4. Proved!KeyAgreement => KeyAgreement
    BY DEF Proved!KeyAgreement, KeyAgreement, Proved!Agree, Agree, Proved!Sound, Sound,
       Proved!BogusKey, BogusKey
  <1> QED
    BY <1>1, <1>2, <1>3, <1>4, TypeCorrect, PTL DEF Spec, Proved!Spec

-----------------------------------------------------------------------------
(***************************************************************************)
(* The order of a client's packets.                                        *)
(*                                                                         *)
(* The argument is about a pair of clients.  Its invariant, Links, relates *)
(* their two sessions, their waits on each other and the packets each has  *)
(* on the way to the other; it is stated in Order over plain values, and   *)
(* what follows first shows, of each thing a client may do with a          *)
(* session, that the values after it are related again.  The second part  *)
(* lifts this to the actions of Client: a step of c with z leaves every    *)
(* other pair as it is, or takes packets from its streams (PairLinks).     *)
(*                                                                         *)
(* A recv that swallows packets may lose an INIT or an ACK.  Links holds   *)
(* all the same, and so do the first theorems.  The third part is about    *)
(* what a lost ACK changes: Orders, of a client that has missed none.      *)
(***************************************************************************)

\* What the lemmas suppose of a stream, a session and a pair of clients.
Stream(q) == \A i \in DOMAIN q : i \in Nat \ {0} /\ q[i] \in Packets

End(s) == s \in Session /\ Exchange!SessionOK(s)

Scene(c, p, s, t, w, x, q, back) ==
    /\ c \in Users /\ p \in Users /\ c # p
    /\ End(s) /\ End(t) /\ Stream(q) /\ Stream(back)
    /\ w \in E2EWaits \cup {"no"} /\ x \in E2EWaits \cup {"no"}

(* The fields of a packet of another user. *)
LEMMA FromFields ==
    ASSUME NEW q, Stream(q), NEW p, NEW i \in From(q, p)
    PROVE  /\ i \in Nat \ {0} /\ Number(q[i]) \in Nat
           /\ q[i].kind \in {"INIT", "ACK", "TEXT"} /\ q[i].from = p
           /\ q[i].kind # "TEXT" => q[i].seq \in Nat /\ q[i].gen \in Generation /\ Number(q[i]) = q[i].seq
           /\ q[i].kind = "INIT" => q[i].ts \in Nat
           /\ q[i].kind = "TEXT" => q[i].body.seq \in Nat /\ Number(q[i]) = q[i].body.seq
  <1>1. i \in Nat \ {0} /\ q[i] \in Packets /\ q[i].kind \in {"INIT", "ACK", "TEXT"} /\ q[i].from = p
    BY DEF From, Stream
  <1> DEFINE m == q[i]
  <1>2. \/ m \in InitPackets(Users) /\ m.kind = "INIT"
        \/ m \in AckPackets(Users) /\ m.kind = "ACK"
        \/ m \in Texts /\ m.kind = "TEXT"
    BY <1>1 DEF Packets, Reply, UserList, InitPackets, AckPackets, Texts
  <1> HIDE DEF m
  <1>3. CASE m \in InitPackets(Users) /\ m.kind = "INIT"
    BY <1>1, <1>3 DEF m, InitPackets, Number
  <1>4. CASE m \in AckPackets(Users) /\ m.kind = "ACK"
    BY <1>1, <1>4 DEF m, AckPackets, Number
  <1>5. CASE m \in Texts /\ m.kind = "TEXT"
    BY <1>1, <1>5 DEF m, Texts, Number
  <1> QED
    BY <1>2, <1>3, <1>4, <1>5

(* What is left of a stream when some of it was read: the rest, further on. *)
Past(new, q, p, k) ==
    /\ k \in Nat
    /\ \A i \in From(new, p) : i + k \in From(q, p) /\ new[i] = q[i + k]
    /\ \A j \in From(q, p) : j > k => j - k \in From(new, p)

\* What holds between two clients still holds when one of them read some of its
\* stream.
LEMMA LosesSome ==
    ASSUME NEW c, NEW p, NEW s, NEW t, NEW w, NEW x, NEW q, NEW back, NEW new,
           Scene(c, p, s, t, w, x, q, back), Linked(c, p, s, t, w, x, q, back),
           Stream(new), NEW k \in Nat, Past(new, q, p, k)
    PROVE  Linked(c, p, s, t, w, x, new, back)
  <1>1. /\ k \in Nat
        /\ \A i \in From(new, p) : i + k \in From(q, p) /\ new[i] = q[i + k]
        /\ \A j \in From(q, p) : j > k => j - k \in From(new, p)
    BY DEF Past
  <1>2. /\ \A i \in From(new, p) : i \in Nat /\ i > 0 /\ Number(new[i]) \in Nat
        /\ \A i \in From(q, p) : i \in Nat /\ i > 0 /\ Number(q[i]) \in Nat
    BY FromFields DEF Scene
  <1>3. /\ \A i \in InitsOf(new, p) : i \in From(new, p) /\ i + k \in InitsOf(q, p)
        /\ \A i \in AcksOf(new, p) : i \in From(new, p) /\ i + k \in AcksOf(q, p)
        /\ \A j \in AcksOf(q, p) : j \in From(q, p) /\ (j > k => j - k \in AcksOf(new, p))
        /\ \A j \in InitsOf(q, p) : j \in From(q, p)
    BY <1>1, <1>2 DEF InitsOf, AcksOf
  <1>4. InitsOf(q, p) = {} => InitsOf(new, p) = {}
    BY <1>3
  <1>5. AcksOf(q, p) = {} => AcksOf(new, p) = {}
    BY <1>3
  <1>6. Numbered(new, p, t)
    BY <1>1, <1>2 DEF Numbered, Linked, Half
  <1>7. InitsRight(new, p, s, w, t, x)
    BY <1>1, <1>3 DEF InitsRight, Linked, Half
  <1>8. AcksRight(new, p, s, w, t, x, back, c)
    <2> SUFFICES ASSUME NEW i \in AcksOf(new, p)
                 PROVE  AckRight(new, p, i, s, w, t, x, back, c)
      BY DEF AcksRight
    <2>1. i + k \in AcksOf(q, p) /\ new[i] = q[i + k] /\ i \in Nat
      BY <1>1, <1>2, <1>3
    <2>2. \A j \in AcksOf(new, p) : j = i
      <3> TAKE j \in AcksOf(new, p)
      <3>1. j + k = i + k
        BY <2>1, <1>3 DEF AcksRight, AckRight, Linked, Half
      <3> QED
        BY <3>1, <1>2, <1>3
    <2>3. ASSUME NEW j \in InitsOf(new, p), j < i PROVE ~Accepts(s, new[j])
      BY <2>1, <2>3, <1>1, <1>2, <1>3 DEF AcksRight, AckRight, Linked, Half
    <2> QED
      BY <2>1, <2>2, <2>3 DEF AcksRight, AckRight, Linked, Half
  <1>9. ASSUME NEW a \in AcksOf(q, p), NEW j \in InitsOf(q, p), j > a
        PROVE  t.seq > s.seq
    <2>1. Number(q[a]) = s.seq
      BY DEF AcksRight, AckRight, Linked, Half, AcksOf, Number
    <2> QED
      BY <2>1, <1>2, <1>3, <1>9 DEF Numbered, Linked, Half, InitsOf, Scene, End, Session
  <1>10. ASSUME NEW a \in AcksOf(q, p), AcksOf(new, p) = {} PROVE a <= k
    BY <1>2, <1>3, <1>10
  <1>11. Settled(new, p, s, w, t, x)
    <2> SUFFICES ASSUME t.state = "ESTABLISHED", AcksOf(q, p) # {}, AcksOf(new, p) = {}
                 PROVE  /\ Attempting(s, w) /\ s.seq = t.seq
                        /\ InitsOf(new, p) = {}
      BY <1>4, <1>5 DEF Settled, Linked, Half
    <2>1. PICK a \in AcksOf(q, p) : TRUE
      OBVIOUS
    <2>2. Attempting(s, w) /\ s.seq = t.seq
      BY <2>1 DEF AcksRight, AckRight, Linked, Half, Attempting, Sent
    <2>3. s.seq \in Nat
      BY DEF Scene, End, Session
    <2> QED
      BY <2>1, <2>2, <2>3, <1>2, <1>3, <1>9, <1>10
  <1>12. TextsRight(new, p, s, w)
    <2> SUFFICES ASSUME NEW i \in From(new, p), new[i].kind = "TEXT", new[i].body.sealed
                 PROVE  TextRight(new, p, i, s, w)
      BY DEF TextsRight
    <2>1. i + k \in From(q, p) /\ new[i] = q[i + k] /\ TextRight(q, p, i + k, s, w)
      BY <1>1 DEF TextsRight, Linked, Half
    <2>2. CASE \E j \in AcksOf(q, p) :
                 /\ j < i + k /\ new[i].body.seq = s.seq /\ new[i].body.peer = s.gen
                 /\ new[i].body.gen = q[j].gen
      <3>1. PICK a \in AcksOf(q, p) :
                 /\ a < i + k /\ new[i].body.seq = s.seq /\ new[i].body.peer = s.gen
                 /\ new[i].body.gen = q[a].gen
        BY <2>2
      <3>2. CASE a > k
        <4>1. a - k \in AcksOf(new, p) /\ a - k < i /\ q[a] = new[a - k]
          BY <3>1, <3>2, <1>1, <1>2, <1>3
        <4> QED
          BY <3>1, <4>1 DEF TextRight
      <3>3. CASE a <= k
        <4>1. AcksOf(new, p) = {}
          BY <3>3, <1>2, <1>3 DEF AcksRight, AckRight, Linked, Half
        <4>2. ASSUME NEW j \in InitsOf(new, p) PROVE j > i
          <5>1. j + k > a /\ j + k \in InitsOf(q, p)
            BY <3>3, <1>2, <1>3
          <5>2. Number(q[a]) < Number(q[j + k]) /\ Number(q[a]) = s.seq
            BY <5>1, <1>2, <1>3 DEF Numbered, InitsOf, Linked, Half, AcksOf, AcksRight, AckRight, Number
          <5>3. Number(q[i + k]) = s.seq
            BY <2>1, <3>1 DEF Number
          <5>4. s.seq \in Nat
            BY DEF Scene, End, Session
          <5>5. ~(j + k < i + k)
            BY <5>1, <5>2, <5>3, <5>4, <2>1, <1>2, <1>3 DEF Numbered, Linked, Half
          <5>6. j # i
            BY DEF InitsOf
          <5> QED
            BY <5>5, <5>6, <1>2, <1>3
        <4>3. Attempting(s, w)
          BY <3>1 DEF AcksRight, AckRight, Linked, Half
        <4> QED
          BY <4>1, <4>2, <4>3 DEF TextRight
      <3> QED
        BY <3>2, <3>3, <1>2, <1>3
    <2>3. CASE Attempting(s, w) /\ \A j \in InitsOf(q, p) \cup AcksOf(q, p) : j > i + k
      BY <2>3, <1>2, <1>3 DEF TextRight
    <2> QED
      BY <2>1, <2>2, <2>3 DEF TextRight
  <1>13. AcksRight(back, c, t, x, s, w, new, p)
    BY <1>4 DEF AcksRight, AckRight, Linked, Half
  <1> QED
    BY <1>6, <1>7, <1>8, <1>11, <1>12, <1>13 DEF Linked, Half

-----------------------------------------------------------------------------
(* A stream after a packet of p was, or was not, put on its end, at e. *)
Adds(new, q, p, m, e) ==
    /\ e \in Nat \ {0}
    /\ \A j \in From(q, p) : j < e /\ j \in From(new, p) /\ new[j] = q[j]
    /\ \A i \in From(new, p) : i \in From(q, p) \/ (i = e /\ new[i] = m)

\* The INITs and the ACKs of a stream that got a packet of p, or got none.
LEMMA AddsParts ==
    ASSUME NEW new, NEW q, NEW p, NEW m, NEW e, Adds(new, q, p, m, e)
    PROVE  /\ \A j \in InitsOf(q, p) : j \in InitsOf(new, p) /\ new[j] = q[j] /\ j < e
           /\ \A j \in AcksOf(q, p) : j \in AcksOf(new, p) /\ new[j] = q[j] /\ j < e
           /\ \A i \in InitsOf(new, p) :
                 i \in InitsOf(q, p) \/ (i = e /\ new[i] = m /\ m.kind = "INIT")
           /\ \A i \in AcksOf(new, p) :
                 i \in AcksOf(q, p) \/ (i = e /\ new[i] = m /\ m.kind = "ACK")
           /\ m.kind # "INIT" => InitsOf(new, p) = InitsOf(q, p)
           /\ m.kind # "ACK" => AcksOf(new, p) = AcksOf(q, p)
  BY DEF Adds, InitsOf, AcksOf

(* What the two sessions of a scene are. *)
LEMMA SceneFields ==
    ASSUME NEW c, NEW p, NEW s, NEW t, NEW w, NEW x, NEW q, NEW back,
           Scene(c, p, s, t, w, x, q, back)
    PROVE  /\ s.seq \in Nat /\ t.seq \in Nat /\ s.state \in States /\ t.state \in States
           /\ s.ts \in Nat /\ t.ts \in Nat
           /\ s.gen \in Generation /\ t.gen \in Generation
           /\ s.state = "UNINITIALIZED" <=> s.seq = 0
           /\ t.state = "UNINITIALIZED" <=> t.seq = 0
           /\ s.state = "ESTABLISHED" <=> s.peer # NoKey
           /\ t.state = "ESTABLISHED" <=> t.peer # NoKey
           /\ ~EstablishThrows(s) /\ ~EstablishThrows(t)
  <1>1. ASSUME NEW e, End(e)
        PROVE  /\ e.seq \in Nat /\ e.state \in States /\ e.ts \in Nat /\ e.gen \in Generation
               /\ e.state = "UNINITIALIZED" <=> e.seq = 0
               /\ e.state = "ESTABLISHED" <=> e.peer # NoKey
               /\ ~EstablishThrows(e)
    BY <1>1 DEF End, Session, Exchange!SessionOK, Exchange!NoKey, NoKey, EstablishThrows
  <1> QED
    BY <1>1 DEF Scene

(* The first packets of c to p, of a pair whose other end is t. *)
LEMMA Ahead ==
    ASSUME NEW c, NEW p, NEW s, NEW t, NEW w, NEW x, NEW q, NEW back,
           Scene(c, p, s, t, w, x, q, back), Linked(c, p, s, t, w, x, q, back),
           ~Attempting(s, w)
    PROVE  /\ s.seq <= t.seq /\ AcksOf(q, p) = {}
           /\ \A i \in InitsOf(q, p) : q[i].seq > s.seq /\ Attempting(t, x) /\ q[i] = InitPacket(p, t)
           /\ (~Attempting(t, x) \/ x = "secondE2E") => t.seq <= s.seq
  <1>1. /\ s.seq \in Nat /\ t.seq \in Nat /\ s.state \in States /\ t.state \in States
        /\ s.state = "UNINITIALIZED" <=> s.seq = 0
        /\ t.state = "UNINITIALIZED" <=> t.seq = 0
    BY SceneFields
  <1>2. AcksOf(q, p) = {}
    BY DEF Linked, Half, AcksRight, AckRight
  <1>3. ASSUME NEW i \in InitsOf(q, p)
        PROVE  q[i].seq > s.seq /\ Attempting(t, x) /\ q[i] = InitPacket(p, t)
    <2>1. InitRight(q[i], p, s, w, t, x) /\ q[i].seq \in Nat
      BY FromFields DEF Linked, Half, InitsRight, InitsOf, Scene
    <2> QED
      BY <2>1, <1>1 DEF InitRight, Accepts
  <1>4. s.seq <= t.seq
    <2>1. CASE s.state = "UNINITIALIZED"
      BY <2>1, <1>1
    <2>2. CASE s.state # "UNINITIALIZED"
      <3>1. s.state = "ESTABLISHED" \/ (s.state \in Sent /\ w = "no")
        BY <2>2, <1>1 DEF States, Sent, Attempting
      <3>2. Settled(back, c, t, x, s, w)
        BY DEF Linked, Half
      <3>3. CASE Matches(t, s)
        BY <3>3, <1>1 DEF Matches
      <3>4. CASE s.state = "ESTABLISHED" /\ AcksOf(back, c) # {}
        <4>1. PICK i \in AcksOf(back, c) : AckRight(back, c, i, t, x, s, w, q, p)
          BY <3>4 DEF Linked, Half, AcksRight
        <4> QED
          BY <4>1, <1>1, <3>4 DEF AckRight, Attempting, Sent
      <3>5. CASE t.seq \in {s.seq, s.seq + 1}
        BY <3>5, <1>1
      <3> QED
        BY <3>1, <3>2, <3>3, <3>4, <3>5 DEF Settled
    <2> QED
      BY <2>1, <2>2
  <1>5. ASSUME ~Attempting(t, x) \/ x = "secondE2E" PROVE t.seq <= s.seq
    <2>1. CASE Attempting(t, x) /\ x = "secondE2E"
      BY <2>1, <1>1 DEF Linked, Half, Lockstep
    <2>2. CASE t.state = "UNINITIALIZED"
      BY <2>2, <1>1
    <2>3. CASE ~Attempting(t, x) /\ t.state # "UNINITIALIZED"
      <3>1. t.state = "ESTABLISHED" \/ (t.state \in Sent /\ x = "no")
        BY <2>3, <1>1 DEF States, Sent, Attempting
      <3>2. Matches(s, t)
        BY <3>1, <1>2 DEF Linked, Half, Settled
      <3> QED
        BY <3>2, <1>1 DEF Matches
    <2> QED
      BY <1>5, <2>1, <2>2, <2>3
  <1> QED
    BY <1>2, <1>3, <1>4, <1>5

(* What is known of the packets of p in a stream. *)
LEMMA StreamFields ==
    ASSUME NEW q, Stream(q), NEW p
    PROVE  /\ \A i \in From(q, p) : i \in Nat /\ i > 0 /\ Number(q[i]) \in Nat
           /\ \A i \in InitsOf(q, p) : /\ i \in From(q, p) /\ q[i].kind = "INIT"
                                       /\ q[i].seq \in Nat /\ q[i].ts \in Nat
                                       /\ Number(q[i]) = q[i].seq
           /\ \A i \in AcksOf(q, p) : /\ i \in From(q, p) /\ q[i].kind = "ACK"
                                      /\ q[i].seq \in Nat /\ Number(q[i]) = q[i].seq
           /\ \A i \in From(q, p) : \/ i \in InitsOf(q, p) \/ i \in AcksOf(q, p)
                                    \/ /\ q[i].kind = "TEXT" /\ i \notin InitsOf(q, p)
                                       /\ i \notin AcksOf(q, p)
                                       /\ Number(q[i]) = q[i].body.seq /\ q[i].body.seq \in Nat
           /\ \A i \in InitsOf(q, p) : i \notin AcksOf(q, p)
  BY FromFields DEF InitsOf, AcksOf

(* E2ESession::initiate and refresh: c begins an attempt and p may get its INIT. *)
LEMMA Begins ==
    ASSUME NEW c, NEW p, NEW s, NEW t, NEW x, NEW q, NEW back,
           Scene(c, p, s, t, "no", x, q, back), Linked(c, p, s, t, "no", x, q, back),
           NEW u, End(u), u.state \in Sent, u.seq = s.seq + 1,
           NEW new, NEW e, Stream(new), Adds(new, back, c, InitPacket(c, u), e)
    PROVE  Linked(c, p, u, t, "firstE2E", x, q, new)
  <1> DEFINE m == InitPacket(c, u)
             w == "firstE2E"
  <1> HIDE DEF w
  <1>a. w = "firstE2E" /\ w # "no" /\ w # "secondE2E"
    BY DEF w
  <1>b. m.kind = "INIT" /\ m.from = c /\ m.seq = u.seq /\ m.ts = u.ts /\ Number(m) = u.seq
    BY DEF InitPacket, Number
  <1> HIDE DEF m
  <1>1. /\ s.seq \in Nat /\ t.seq \in Nat /\ s.state \in States /\ t.state \in States
        /\ t.ts \in Nat /\ u.ts \in Nat /\ u.seq \in Nat /\ Attempting(u, w)
        /\ u.state # "ESTABLISHED" /\ ~Attempting(s, "no")
    BY <1>a, SceneFields DEF Attempting, Sent, End, Session
  <1>2. /\ s.seq <= t.seq /\ AcksOf(q, p) = {}
        /\ \A i \in InitsOf(q, p) : q[i].seq > s.seq /\ Attempting(t, x) /\ q[i] = InitPacket(p, t)
        /\ (~Attempting(t, x) \/ x = "secondE2E") => t.seq <= s.seq
    BY <1>1, Ahead
  <1>3. t.seq <= s.seq + 1
    BY <1>1 DEF Linked, Half, Lockstep
  <1> DEFINE Streams(r, y) ==
               /\ \A i \in From(r, y) : i \in Nat /\ i > 0 /\ Number(r[i]) \in Nat
               /\ \A i \in InitsOf(r, y) : /\ i \in From(r, y) /\ r[i].kind = "INIT"
                                           /\ r[i].seq \in Nat /\ r[i].ts \in Nat
                                           /\ Number(r[i]) = r[i].seq
  <1>4. Streams(q, p) /\ Streams(back, c) /\ Streams(new, c)
    BY StreamFields DEF Scene
  <1>5. /\ \A j \in InitsOf(back, c) : j \in InitsOf(new, c) /\ new[j] = back[j] /\ j < e
        /\ \A i \in InitsOf(new, c) : i \in InitsOf(back, c) \/ (i = e /\ new[i] = m)
        /\ AcksOf(new, c) = AcksOf(back, c)
        /\ \A j \in AcksOf(back, c) : j \in AcksOf(new, c) /\ new[j] = back[j] /\ j < e
    BY <1>b, AddsParts DEF m
  <1>6. /\ \A j \in From(back, c) : j < e /\ j \in From(new, c) /\ new[j] = back[j]
        /\ \A i \in From(new, c) : i \in From(back, c) \/ (i = e /\ new[i] = m)
    BY DEF Adds, m
  <1>7. Half(c, p, s, t, "no", x, q, back) /\ Half(p, c, t, s, x, "no", back, q)
    BY DEF Linked
  \* What p sent to c.
  <1>8. Numbered(q, p, t)
    BY <1>7 DEF Half
  <1>9. InitsRight(q, p, u, w, t, x)
    <2> SUFFICES ASSUME NEW i \in InitsOf(q, p) PROVE InitRight(q[i], p, u, w, t, x)
      BY DEF InitsRight
    <2>1. InitRight(q[i], p, s, "no", t, x)
      BY <1>7 DEF Half, InitsRight
    <2> QED
      BY <2>1, <1>1, <1>2, <1>4, <1>a DEF InitRight
  <1>10. AcksRight(q, p, u, w, t, x, new, c)
    BY <1>2 DEF AcksRight
  <1>11. Settled(q, p, u, w, t, x)
    <2> SUFFICES ASSUME t.state = "ESTABLISHED" \/ (t.state \in Sent /\ x = "no")
                 PROVE  /\ Attempting(u, w) /\ u.seq \in {t.seq, t.seq + 1}
                        /\ InitsOf(q, p) = {} /\ AcksOf(q, p) = {}
      BY DEF Settled
    <2>1. ~Attempting(t, x)
      BY DEF Attempting, Sent
    <2> QED
      BY <2>1, <1>1, <1>2
  <1>12. TextsRight(q, p, u, w)
    <2> SUFFICES ASSUME NEW i \in From(q, p), q[i].kind = "TEXT", q[i].body.sealed
                 PROVE  Attempting(u, w) /\ \A j \in InitsOf(q, p) \cup AcksOf(q, p) : j > i
      BY DEF TextsRight, TextRight
    <2>1. q[i].body.seq = s.seq
      BY <1>1, <1>2, <1>7 DEF Half, TextsRight, TextRight
    <2>2. Number(q[i]) = s.seq
      BY <2>1 DEF Number
    <2>3. ASSUME NEW j \in InitsOf(q, p) PROVE j > i
      <3>1. ~(j < i) /\ j # i
        BY <2>2, <1>1, <1>2, <1>4, <1>7 DEF Half, Numbered
      <3> QED
        BY <3>1, <1>4
    <2> QED
      BY <2>3, <1>1, <1>2
  <1>13. Lockstep(u, w, t) /\ Lockstep(t, x, u)
    BY <1>1, <1>2, <1>3, <1>7, <1>a DEF Lockstep, Half
  \* What c sent to p.
  <1>14. Numbered(new, c, u)
    <2>1. \A i \in From(back, c) : Number(back[i]) <= s.seq
      BY <1>7 DEF Half, Numbered
    <2> QED
      BY <2>1, <1>1, <1>4, <1>6, <1>7, <1>b DEF Half, Numbered
  <1>15. InitsRight(new, c, t, x, u, w)
    <2> SUFFICES ASSUME NEW i \in InitsOf(new, c) PROVE InitRight(new[i], c, t, x, u, w)
      BY DEF InitsRight
    <2>1. CASE i \in InitsOf(back, c)
      <3>1. InitRight(back[i], c, t, x, s, "no") /\ new[i] = back[i] /\ back[i].seq <= s.seq
        BY <2>1, <1>4, <1>5, <1>7 DEF Half, InitsRight, Numbered
      <3> QED
        BY <3>1, <2>1, <1>1, <1>4 DEF InitRight
    <2>2. CASE new[i] = m
      BY <2>2, <1>1, <1>2, <1>3, <1>b DEF InitRight, m
    <2> QED
      BY <2>1, <2>2, <1>5
  <1>16. AcksRight(new, c, t, x, u, w, q, p)
    <2> SUFFICES ASSUME NEW i \in AcksOf(back, c)
                 PROVE  AckRight(new, c, i, t, x, u, w, q, p)
      BY <1>5 DEF AcksRight
    <2>1. AckRight(back, c, i, t, x, s, "no", q, p)
      BY <1>7 DEF Half, AcksRight
    <2>2. back[i].seq <= s.seq
      BY <1>7, StreamFields DEF Half, Numbered, Scene
    <2>3. \A j \in InitsOf(new, c) : j < i => ~Accepts(t, new[j])
      <3>1. i < e /\ e \in Nat /\ i \in Nat
        BY <1>5, StreamFields DEF Adds, Scene
      <3> QED
        BY <3>1, <2>1, <1>5 DEF AckRight
    <2> QED
      BY <2>1, <2>2, <2>3, <1>1, <1>5, <1>a DEF AckRight
  <1>17. Settled(new, c, t, x, u, w)
    BY <1>1, <1>a DEF Settled
  <1>18. TextsRight(new, c, t, x)
    <2> SUFFICES ASSUME NEW i \in From(new, c), new[i].kind = "TEXT", new[i].body.sealed
                 PROVE  TextRight(new, c, i, t, x)
      BY DEF TextsRight
    <2>1. i \in From(back, c) /\ new[i] = back[i] /\ i < e
      BY <1>6, <1>b
    <2>2. TextRight(back, c, i, t, x)
      BY <2>1, <1>7 DEF Half, TextsRight
    <2>3. \A j \in InitsOf(new, c) : j \in InitsOf(back, c) \/ j > i
      BY <2>1, <1>4, <1>5
    <2> QED
      BY <2>1, <2>2, <2>3, <1>5 DEF TextRight
  <1>19. Linked(c, p, u, t, w, x, q, new)
    BY <1>8, <1>9, <1>10, <1>11, <1>12, <1>13, <1>14, <1>15, <1>16, <1>17, <1>18 DEF Linked, Half
  <1> QED
    BY <1>19 DEF w

(* What c reads when it takes the packet at h, and all up to k with it. *)
LEMMA Behind ==
    ASSUME NEW c, NEW p, NEW s, NEW t, NEW w, NEW x, NEW old, NEW back, NEW q,
           Scene(c, p, s, t, w, x, old, back), Linked(c, p, s, t, w, x, old, back),
           Stream(q), NEW k \in Nat, Past(q, old, p, k), NEW h \in From(old, p), h <= k
    PROVE  /\ Linked(c, p, s, t, w, x, q, back)
           /\ Number(old[h]) <= t.seq
           /\ \A i \in From(q, p) :
                 /\ i + k \in From(old, p) /\ q[i] = old[i + k] /\ h < i + k
                 /\ Number(old[h]) <= Number(q[i]) /\ Number(q[i]) <= t.seq
                 /\ q[i].kind = "INIT" => Number(old[h]) < Number(q[i])
  <1>1. Linked(c, p, s, t, w, x, q, back)
    BY LosesSome
  <1>2. Numbered(old, p, t) /\ Numbered(q, p, t)
    BY <1>1 DEF Linked, Half
  <1>3. /\ \A i \in From(old, p) : i \in Nat /\ i > 0
        /\ \A i \in From(q, p) : i \in Nat /\ i > 0
    BY StreamFields DEF Scene
  <1>4. ASSUME NEW i \in From(q, p)
        PROVE  i + k \in From(old, p) /\ q[i] = old[i + k] /\ h < i + k
    BY <1>3 DEF Past
  <1> QED
    BY <1>1, <1>2, <1>4 DEF Numbered

(* Session::handleInit: c takes the INIT at h, accepts it and answers. *)
LEMMA Accepting ==
    ASSUME NEW c, NEW p, NEW s, NEW t, NEW w, NEW x, NEW old, NEW back, NEW q,
           Scene(c, p, s, t, w, x, old, back), Linked(c, p, s, t, w, x, old, back),
           Stream(q), NEW k \in Nat, Past(q, old, p, k), NEW h \in InitsOf(old, p), h <= k,
           w # "secondE2E", Accepts(s, old[h]),
           NEW u, End(u), u.state = "ESTABLISHED", u.seq = old[h].seq, u.ts = old[h].ts,
           u.peer = old[h].gen,
           NEW new, NEW e, Stream(new), Adds(new, back, c, AckPacket(c, u), e),
           e \in From(new, c), new[e] = AckPacket(c, u)
    PROVE  /\ Attempting(t, x)
           /\ Linked(c, p, u, t, "no", x, q, new)
  <1> DEFINE m == AckPacket(c, u)
  <1>b. m.kind = "ACK" /\ m.from = c /\ m.seq = u.seq /\ m.gen = u.gen /\ Number(m) = u.seq
    BY DEF AckPacket, Number
  <1>c. new[e] = m
    OBVIOUS
  <1> HIDE DEF m
  <1>1. /\ s.seq \in Nat /\ t.seq \in Nat /\ s.state \in States /\ t.state \in States
        /\ s.ts \in Nat /\ t.ts \in Nat /\ u.ts \in Nat /\ u.seq \in Nat
        /\ ~Attempting(u, "no")
    BY SceneFields DEF Attempting, End, Session
  <1>2. Half(c, p, s, t, w, x, old, back) /\ Half(p, c, t, s, x, w, back, old)
    BY DEF Linked
  <1>3. /\ h \in From(old, p) /\ old[h].kind = "INIT" /\ Number(old[h]) = old[h].seq
        /\ old[h].seq \in Nat /\ old[h].ts \in Nat /\ h \in Nat
    BY StreamFields DEF Scene
  <1>4. Attempting(t, x) /\ old[h] = InitPacket(p, t)
    BY <1>2 DEF Half, InitsRight, InitRight
  <1>5. /\ old[h].seq = t.seq /\ old[h].ts = t.ts /\ old[h].gen = t.gen
        /\ t.state # "ESTABLISHED" /\ x # "no"
        /\ u.seq = t.seq /\ u.ts = t.ts /\ u.peer = t.gen
    BY <1>4 DEF InitPacket, Attempting, Sent
  <1>6. t.seq > s.seq \/ (t.seq = s.seq /\ t.ts < s.ts /\ Attempting(s, w))
    BY <1>1, <1>2, <1>5 DEF Accepts, Half, InitsRight, InitRight
  <1>7. /\ Linked(c, p, s, t, w, x, q, back)
        /\ \A i \in From(q, p) :
              /\ i + k \in From(old, p) /\ q[i] = old[i + k] /\ h < i + k
              /\ t.seq <= Number(q[i]) /\ Number(q[i]) <= t.seq
              /\ q[i].kind = "INIT" => t.seq < Number(q[i])
    BY <1>3, <1>5, Behind
  <1>8. Half(c, p, s, t, w, x, q, back) /\ Half(p, c, t, s, x, w, back, q)
    BY <1>7 DEF Linked
  <1>9. /\ \A i \in From(q, p) : i \in Nat /\ i > 0 /\ Number(q[i]) \in Nat
        /\ \A i \in From(back, c) : i \in Nat /\ i > 0 /\ Number(back[i]) \in Nat
        /\ \A i \in InitsOf(back, c) : i \in From(back, c) /\ back[i].kind = "INIT"
              /\ back[i].seq \in Nat /\ back[i].ts \in Nat /\ Number(back[i]) = back[i].seq
        /\ \A i \in From(new, c) : i \in Nat /\ i > 0 /\ Number(new[i]) \in Nat
        /\ \A i \in InitsOf(q, p) : i \in From(q, p) /\ q[i].kind = "INIT"
        /\ \A i \in AcksOf(q, p) : i \in From(q, p) /\ Number(q[i]) = q[i].seq
    BY StreamFields DEF Scene
  <1>10. InitsOf(q, p) = {}
    BY <1>1, <1>7, <1>9
  <1>11. AcksOf(q, p) = {}
    <2> SUFFICES ASSUME NEW i \in AcksOf(q, p) PROVE FALSE
      OBVIOUS
    <2>1. AckRight(q, p, i, s, w, t, x, back, c) /\ q[i].seq = t.seq
      BY <1>1, <1>7, <1>8, <1>9 DEF Half, AcksRight
    <2> QED
      BY <2>1, <1>1, <1>5, <1>6 DEF AckRight
  <1>12. AcksOf(back, c) = {}
    <2> SUFFICES ASSUME NEW i \in AcksOf(back, c) PROVE FALSE
      OBVIOUS
    <2>1. AckRight(back, c, i, t, x, s, w, q, p)
      BY <1>8 DEF Half, AcksRight
    <2> QED
      BY <2>1, <1>1, <1>6 DEF AckRight, Attempting, Sent
  <1>13. /\ InitsOf(new, c) = InitsOf(back, c)
         /\ \A j \in InitsOf(back, c) : new[j] = back[j] /\ j < e
         /\ AcksOf(new, c) = {e}
    <2>1. e \in AcksOf(new, c)
      BY <1>b, <1>c DEF AcksOf
    <2> QED
      BY <2>1, <1>12, <1>b, AddsParts DEF m
  <1>14. /\ \A j \in From(back, c) : j < e /\ j \in From(new, c) /\ new[j] = back[j]
         /\ \A i \in From(new, c) : i \in From(back, c) \/ (i = e /\ new[i] = m)
    BY DEF Adds, m
  <1>15. ASSUME NEW i \in InitsOf(back, c)
         PROVE  /\ ~Accepts(t, back[i]) /\ back[i].seq >= t.seq
                /\ (back[i].seq = t.seq => t.ts <= back[i].ts)
    <2>1. InitRight(back[i], c, t, x, s, w)
      BY <1>8 DEF Half, InitsRight
    <2>2. CASE Attempting(s, w) /\ back[i] = InitPacket(c, s)
      <3>1. back[i].seq = s.seq /\ back[i].ts = s.ts
        BY <2>2 DEF InitPacket
      <3> QED
        BY <2>1, <3>1, <1>1, <1>6 DEF InitRight, Accepts
    <2>3. CASE ~Accepts(t, back[i])
      BY <2>1, <2>3, <1>1, <1>9 DEF InitRight, Accepts
    <2> QED
      BY <2>1, <2>2, <2>3 DEF InitRight
  \* What p sent to c.
  <1>16. Numbered(q, p, t)
    BY <1>8 DEF Half
  <1>17. InitsRight(q, p, u, "no", t, x) /\ AcksRight(q, p, u, "no", t, x, new, c)
    BY <1>10, <1>11 DEF InitsRight, AcksRight
  <1>18. Settled(q, p, u, "no", t, x)
    BY <1>5 DEF Settled
  <1>19. TextsRight(q, p, u, "no")
    <2> SUFFICES ASSUME NEW i \in From(q, p), q[i].kind = "TEXT", q[i].body.sealed
                 PROVE  FALSE
      BY DEF TextsRight
    <2>1. TextRight(old, p, i + k, s, w) /\ Number(q[i]) = q[i].body.seq /\ q[i].body.seq = t.seq
      BY <1>1, <1>2, <1>7, <1>9 DEF Half, TextsRight, Number
    <2>2. \A j \in AcksOf(old, p) : t.seq > s.seq
      BY <1>2, <1>5 DEF Half, AcksRight, AckRight
    <2>4. ~(\A j \in InitsOf(old, p) \cup AcksOf(old, p) : j > i + k)
      BY <1>3, <1>7, <1>9
    <2>3. s.state = "ESTABLISHED" /\ s.seq = t.seq
      BY <2>1, <2>2, <2>4, <1>1, <1>7 DEF TextRight
    <2> QED
      BY <2>3, <1>1, <1>6 DEF Attempting, Sent
  <1>20. Lockstep(u, "no", t) /\ Lockstep(t, x, u)
    BY <1>1, <1>5 DEF Lockstep
  \* What c sent to p.
  <1>21. Numbered(new, c, u)
    <2>1. \A i \in From(back, c) : Number(back[i]) <= u.seq
      BY <1>1, <1>5, <1>6, <1>8, <1>9 DEF Half, Numbered
    <2> QED
      BY <2>1, <1>1, <1>8, <1>9, <1>14, <1>b DEF Half, Numbered
  <1>22. InitsRight(new, c, t, x, u, "no")
    <2> SUFFICES ASSUME NEW i \in InitsOf(back, c) PROVE InitRight(new[i], c, t, x, u, "no")
      BY <1>13 DEF InitsRight
    <2> QED
      BY <1>5, <1>8, <1>13, <1>15 DEF Half, InitsRight, InitRight
  <1>23. AcksRight(new, c, t, x, u, "no", q, p)
    BY <1>4, <1>5, <1>10, <1>13, <1>15, <1>b, <1>c DEF AcksRight, AckRight
  <1>24. Settled(new, c, t, x, u, "no")
    BY <1>13 DEF Settled
  <1>25. TextsRight(new, c, t, x)
    <2> SUFFICES ASSUME NEW i \in From(new, c), new[i].kind = "TEXT", new[i].body.sealed
                 PROVE  TextRight(new, c, i, t, x)
      BY DEF TextsRight
    <2>1. i \in From(back, c) /\ new[i] = back[i] /\ i < e
      BY <1>14, <1>b
    <2>2. TextRight(back, c, i, t, x)
      BY <2>1, <1>8 DEF Half, TextsRight
    <2> QED
      BY <2>1, <2>2, <1>5, <1>12, <1>13 DEF TextRight
  <1>26. Linked(c, p, u, t, "no", x, q, new)
    BY <1>16, <1>17, <1>18, <1>19, <1>20, <1>21, <1>22, <1>23, <1>24, <1>25 DEF Linked, Half
  <1> QED
    BY <1>4, <1>26

(* The first wait refuses an INIT and the second begins (client.cpp:134).   *)
LEMMA Refusing ==
    ASSUME NEW c, NEW p, NEW s, NEW t, NEW x, NEW old, NEW back, NEW q,
           Scene(c, p, s, t, "firstE2E", x, old, back),
           Linked(c, p, s, t, "firstE2E", x, old, back),
           Stream(q), NEW k \in Nat, Past(q, old, p, k), NEW h \in InitsOf(old, p), h <= k,
           ~Accepts(s, old[h])
    PROVE  Linked(c, p, s, t, "secondE2E", x, q, back)
  <1>1. /\ s.seq \in Nat /\ t.seq \in Nat
        /\ Attempting(s, "firstE2E") <=> Attempting(s, "secondE2E")
    BY SceneFields DEF Attempting
  <1>2. /\ h \in From(old, p) /\ old[h].kind = "INIT" /\ Number(old[h]) = old[h].seq
        /\ old[h].seq \in Nat
        /\ \A i \in InitsOf(q, p) : i \in From(q, p) /\ q[i].kind = "INIT" /\ q[i].seq = Number(q[i])
                                    /\ q[i].seq \in Nat
    BY StreamFields DEF Scene
  <1>3. /\ Linked(c, p, s, t, "firstE2E", x, q, back)
        /\ old[h].seq <= t.seq
        /\ \A i \in InitsOf(q, p) : old[h].seq < q[i].seq
    BY <1>2, Behind
  <1>4. Half(c, p, s, t, "firstE2E", x, q, back) /\ Half(p, c, t, s, x, "firstE2E", back, q)
    BY <1>3 DEF Linked
  <1>5. Half(c, p, s, t, "firstE2E", x, old, back) /\ Half(p, c, t, s, x, "firstE2E", back, old)
    BY DEF Linked
  <1>6. old[h].seq >= s.seq
    BY <1>5 DEF Half, InitsRight, InitRight
  <1>7. AcksOf(back, c) = {}
    BY <1>5 DEF Half, AcksRight, AckRight
  <1>8. InitsRight(q, p, s, "secondE2E", t, x)
    BY <1>1, <1>2, <1>3, <1>4, <1>6 DEF Half, InitsRight, InitRight
  <1>9. AcksRight(q, p, s, "secondE2E", t, x, back, c)
    BY <1>1, <1>4 DEF Half, AcksRight, AckRight
  <1>10. AcksRight(back, c, t, x, s, "secondE2E", q, p)
    BY <1>7 DEF AcksRight
  <1>11. Settled(q, p, s, "secondE2E", t, x) /\ Settled(back, c, t, x, s, "secondE2E")
    BY <1>1, <1>4 DEF Half, Settled
  <1>12. InitsRight(back, c, t, x, s, "secondE2E")
    BY <1>1, <1>4 DEF Half, InitsRight, InitRight
  <1>13. TextsRight(q, p, s, "secondE2E")
    BY <1>1, <1>4 DEF Half, TextsRight, TextRight
  <1>14. Lockstep(s, "secondE2E", t)
    BY <1>1, <1>2, <1>3, <1>4, <1>6 DEF Half, Lockstep
  <1> QED
    BY <1>4, <1>8, <1>9, <1>10, <1>11, <1>12, <1>13, <1>14 DEF Linked, Half

(* Session::handleAck: an ACK that c reads always ends its attempt.         *)
LEMMA Answered ==
    ASSUME NEW c, NEW p, NEW s, NEW t, NEW w, NEW x, NEW old, NEW back, NEW q,
           Scene(c, p, s, t, w, x, old, back), Linked(c, p, s, t, w, x, old, back),
           Stream(q), NEW k \in Nat, Past(q, old, p, k), NEW h \in AcksOf(old, p), h <= k,
           NEW u, End(u), u = HandleAck(s, old[h].gen)
    PROVE  /\ Attempting(s, w) /\ AckApplies(s, old[h].seq)
           /\ Linked(c, p, u, t, "no", x, q, back)
  <1>1. /\ s.seq \in Nat /\ t.seq \in Nat /\ s.state \in States /\ t.state \in States
        /\ ~Attempting(u, "no")
    BY SceneFields DEF Attempting
  <1>2. Half(c, p, s, t, w, x, old, back) /\ Half(p, c, t, s, x, w, back, old)
    BY DEF Linked
  <1>3. AckRight(old, p, h, s, w, t, x, back, c)
    BY <1>2 DEF Half, AcksRight
  <1>4. /\ Attempting(s, w) /\ AckApplies(s, old[h].seq) /\ s.state # "ESTABLISHED" /\ w # "no"
        /\ old[h].seq = s.seq
    BY <1>3 DEF AckRight, Attempting, AckApplies, Sent
  <1>5. /\ u.state = "ESTABLISHED" /\ u.seq = s.seq /\ u.ts = s.ts /\ u.gen = s.gen
        /\ u.peer = old[h].gen
        /\ \A i : Accepts(u, i) <=> Accepts(s, i)
    <2>1. s \in Session
      BY DEF Scene, End
    <2>2. /\ u.state = "ESTABLISHED" /\ u.seq = s.seq /\ u.ts = s.ts /\ u.gen = s.gen
          /\ u.peer = old[h].gen
      BY <2>1 DEF HandleAck, Session
    <2> QED
      BY <2>2 DEF Accepts
  <1>6. /\ h \in From(old, p) /\ Number(old[h]) = s.seq /\ h \in Nat
        /\ \A i \in From(q, p) : i \in Nat /\ i > 0 /\ Number(q[i]) \in Nat
        /\ \A i \in From(old, p) : i \in Nat
        /\ \A i \in InitsOf(q, p) : i \in From(q, p) /\ q[i].kind = "INIT" /\ q[i].seq = Number(q[i])
        /\ \A i \in AcksOf(q, p) : i \in From(q, p) /\ q[i].kind = "ACK"
    BY <1>4, StreamFields DEF Scene
  <1>7. /\ Linked(c, p, s, t, w, x, q, back)
        /\ \A i \in From(q, p) :
              /\ i + k \in From(old, p) /\ q[i] = old[i + k] /\ h < i + k
              /\ q[i].kind = "INIT" => s.seq < Number(q[i])
    BY <1>6, Behind
  <1>8. Half(c, p, s, t, w, x, q, back) /\ Half(p, c, t, s, x, w, back, q)
    BY <1>7 DEF Linked
  <1>9. AcksOf(q, p) = {}
    <2> SUFFICES ASSUME NEW i \in AcksOf(q, p) PROVE FALSE
      OBVIOUS
    <2>1. i + k \in AcksOf(old, p) /\ h < i + k
      BY <1>6, <1>7 DEF AcksOf
    <2> QED
      BY <2>1, <1>3, <1>6 DEF AckRight
  <1>10. InitsOf(back, c) = {}
    BY <1>3 DEF AckRight
  <1>11. AcksOf(back, c) = {}
    <2> SUFFICES ASSUME NEW i \in AcksOf(back, c) PROVE FALSE
      OBVIOUS
    <2>1. AckRight(back, c, i, t, x, s, w, old, p)
      BY <1>2 DEF Half, AcksRight
    <2> QED
      BY <2>1, <1>1, <1>3, <1>4 DEF AckRight, Attempting, Sent
  \* What p sent to c.
  <1>12. Numbered(q, p, t) /\ Numbered(back, c, u)
    BY <1>5, <1>8 DEF Half, Numbered
  <1>13. InitsRight(q, p, u, "no", t, x)
    <2> SUFFICES ASSUME NEW i \in InitsOf(q, p) PROVE InitRight(q[i], p, u, "no", t, x)
      BY DEF InitsRight
    <2>1. InitRight(q[i], p, s, w, t, x) /\ s.seq < q[i].seq
      BY <1>6, <1>7, <1>8 DEF Half, InitsRight
    <2> QED
      BY <2>1, <1>5 DEF InitRight
  <1>14. AcksRight(q, p, u, "no", t, x, back, c)
    BY <1>9 DEF AcksRight
  <1>15. Settled(q, p, u, "no", t, x)
    <2>1. CASE t.state = "ESTABLISHED" /\ t.seq = s.seq /\ t.gen = old[h].gen /\ t.peer = s.gen
      BY <2>1, <1>5 DEF Settled, Matches
    <2>2. CASE Attempting(t, x)
      BY <2>2 DEF Settled, Attempting, Sent
    <2> QED
      BY <2>1, <2>2, <1>3 DEF AckRight
  <1>16. TextsRight(q, p, u, "no")
    <2> SUFFICES ASSUME NEW i \in From(q, p), q[i].kind = "TEXT", q[i].body.sealed
                 PROVE  TextRight(q, p, i, u, "no")
      BY DEF TextsRight
    <2>1. i + k \in From(old, p) /\ q[i] = old[i + k] /\ h < i + k /\ TextRight(old, p, i + k, s, w)
      BY <1>2, <1>7 DEF Half, TextsRight
    <2>2. ~(\A j \in InitsOf(old, p) \cup AcksOf(old, p) : j > i + k)
      <3>1. h \in Nat /\ i \in Nat /\ h < i + k
        BY <1>6, <1>7
      <3>2. ~(h > i + k)
        BY <3>1
      <3> QED
        BY <3>2
    <2>3. \E j \in AcksOf(old, p) :
             q[i].body.seq = s.seq /\ q[i].body.peer = s.gen /\ q[i].body.gen = old[j].gen
      BY <2>1, <2>2, <1>4 DEF TextRight
    <2>4. q[i].body.seq = s.seq /\ q[i].body.peer = s.gen /\ q[i].body.gen = old[h].gen
      BY <2>3, <1>3 DEF AckRight
    <2> QED
      BY <2>4, <1>5 DEF TextRight
  <1>17. Lockstep(u, "no", t) /\ Lockstep(t, x, u)
    BY <1>5, <1>8 DEF Half, Lockstep
  \* What c sent to p.
  <1>18. InitsRight(back, c, t, x, u, "no") /\ AcksRight(back, c, t, x, u, "no", q, p)
    BY <1>10, <1>11 DEF InitsRight, AcksRight
  <1>19. Settled(back, c, t, x, u, "no")
    <2>1. CASE t.state = "ESTABLISHED" /\ t.seq = s.seq /\ t.gen = old[h].gen /\ t.peer = s.gen
      BY <2>1, <1>5 DEF Settled, Matches
    <2>2. CASE Attempting(t, x) /\ t.seq > s.seq
      <3>1. t.seq = s.seq + 1
        BY <2>2, <1>1, <1>8 DEF Half, Lockstep
      <3> QED
        BY <2>2, <3>1, <1>5, <1>10, <1>11 DEF Settled
    <2> QED
      BY <2>1, <2>2, <1>3 DEF AckRight
  <1>20. TextsRight(back, c, t, x)
    BY <1>8 DEF Half
  <1>21. Linked(c, p, u, t, "no", x, q, back)
    BY <1>12, <1>13, <1>14, <1>15, <1>16, <1>17, <1>18, <1>19, <1>20 DEF Linked, Half
  <1> QED
    BY <1>4, <1>21

(* The second wait passes an INIT to handleAck: the session stays as it is *)
(* or is established with a garbled key, while p attempts the next number. *)
LEMMA Garbled ==
    ASSUME NEW c, NEW p, NEW s, NEW t, NEW x, NEW old, NEW back, NEW q,
           Scene(c, p, s, t, "secondE2E", x, old, back),
           Linked(c, p, s, t, "secondE2E", x, old, back),
           Stream(q), NEW k \in Nat, Past(q, old, p, k), NEW h \in InitsOf(old, p), h <= k,
           NEW u, End(u), u = s \/ (s.state \in Sent /\ u = HandleAck(s, BogusKey))
    PROVE  Linked(c, p, u, t, "no", x, q, back)
  <1> DEFINE w == "secondE2E"
  <1>w. w = "secondE2E" /\ w # "no"
    OBVIOUS
  <1>0. Scene(c, p, s, t, w, x, old, back) /\ Linked(c, p, s, t, w, x, old, back)
    OBVIOUS
  <1> HIDE DEF w
  <1>1. /\ s.seq \in Nat /\ t.seq \in Nat /\ s.state \in States /\ t.state \in States
        /\ ~Attempting(u, "no")
    BY SceneFields DEF Attempting
  <1>2. Half(c, p, s, t, w, x, old, back) /\ Half(p, c, t, s, x, w, back, old)
    BY <1>0 DEF Linked
  <1>3. /\ u.seq = s.seq /\ u.ts = s.ts /\ u.gen = s.gen
        /\ \A i : Accepts(u, i) <=> Accepts(s, i)
        /\ s.state \in Sent => u.state = "ESTABLISHED" \/ u.state \in Sent
        /\ s.state \notin Sent => u = s
    <2>1. s \in Session
      BY DEF Scene, End
    <2>2. u.seq = s.seq /\ u.ts = s.ts /\ u.gen = s.gen
      BY <2>1 DEF HandleAck, Session
    <2>3. s.state \in Sent => u.state = "ESTABLISHED" \/ u.state \in Sent
      BY <2>1 DEF HandleAck, Session
    <2> QED
      BY <2>2, <2>3 DEF Accepts
  <1>4. /\ h \in From(old, p) /\ old[h].kind = "INIT" /\ Number(old[h]) = old[h].seq
        /\ old[h].seq \in Nat /\ h \in Nat
        /\ \A i \in From(q, p) : i \in Nat /\ i > 0 /\ Number(q[i]) \in Nat
        /\ \A i \in From(old, p) : i \in Nat
        /\ \A i \in InitsOf(q, p) : i \in From(q, p) /\ q[i].kind = "INIT" /\ q[i].seq = Number(q[i])
        /\ \A i \in AcksOf(q, p) : i \in From(q, p) /\ q[i].seq = Number(q[i])
        /\ \A i \in AcksOf(old, p) : i \in From(old, p) /\ old[i].seq = Number(old[i])
        /\ \A i \in InitsOf(back, c) : i \in From(back, c) /\ back[i].seq = Number(back[i])
                                       /\ Number(back[i]) \in Nat
        /\ \A i \in AcksOf(back, c) : i \in From(back, c) /\ back[i].seq = Number(back[i])
                                       /\ Number(back[i]) \in Nat
    BY StreamFields DEF Scene
  <1>5. /\ Linked(c, p, s, t, w, x, q, back)
        /\ old[h].seq <= t.seq
        /\ \A i \in From(q, p) :
              /\ i + k \in From(old, p) /\ q[i] = old[i + k] /\ h < i + k
              /\ old[h].seq <= Number(q[i]) /\ Number(q[i]) <= t.seq
              /\ q[i].kind = "INIT" => old[h].seq < Number(q[i])
    BY <1>0, <1>4, Behind
  <1>6. Half(c, p, s, t, w, x, q, back) /\ Half(p, c, t, s, x, w, back, q)
    BY <1>5 DEF Linked
  <1>7. CASE s.state \notin Sent
    <2>1. u = s /\ ~Attempting(s, w) /\ ~Attempting(s, "no")
      BY <1>3, <1>7 DEF Attempting
    <2>2. InitsRight(q, p, s, "no", t, x) /\ InitsRight(back, c, t, x, s, "no")
      BY <2>1, <1>6 DEF Half, InitsRight, InitRight
    <2>3. AcksRight(q, p, s, "no", t, x, back, c) /\ AcksRight(back, c, t, x, s, "no", q, p)
      BY <2>1, <1>6 DEF Half, AcksRight, AckRight
    <2>4. Settled(q, p, s, "no", t, x) /\ Settled(back, c, t, x, s, "no")
      BY <2>1, <1>6, <1>7 DEF Half, Settled
    <2>5. TextsRight(q, p, s, "no")
      BY <2>1, <1>6 DEF Half, TextsRight, TextRight
    <2>6. Lockstep(s, "no", t)
      BY <2>1, <1>6 DEF Half, Lockstep
    <2> QED
      BY <2>1, <2>2, <2>3, <2>4, <2>5, <2>6, <1>6 DEF Linked, Half
  <1>8. CASE s.state \in Sent
    <2>1. Attempting(s, w) /\ s.state # "ESTABLISHED"
      BY <1>8, <1>w DEF Attempting, Sent
    <2>2. /\ s.seq < old[h].seq /\ Attempting(t, x) /\ old[h].seq = t.seq
          /\ t.state # "ESTABLISHED" /\ x # "no"
      <3>1. s.seq < old[h].seq /\ Attempting(t, x) /\ old[h] = InitPacket(p, t)
        BY <2>1, <1>1, <1>2, <1>4, <1>w DEF Half, InitsRight, InitRight, Accepts
      <3> QED
        BY <3>1 DEF InitPacket, Attempting, Sent
    <2>13. ASSUME NEW i \in From(q, p)
           PROVE  s.seq < Number(q[i]) /\ q[i].kind # "INIT"
      <3>1. /\ t.seq <= Number(q[i]) /\ Number(q[i]) <= t.seq /\ Number(q[i]) \in Nat
            /\ q[i].kind = "INIT" => t.seq < Number(q[i])
        BY <2>2, <1>4, <1>5
      <3> QED
        BY <3>1, <2>2, <1>1
    <2>3. InitsOf(q, p) = {}
      BY <2>13, <1>4
    <2>4. AcksOf(q, p) = {}
      <3> SUFFICES ASSUME NEW i \in AcksOf(q, p) PROVE FALSE
        OBVIOUS
      <3>1. q[i].seq = s.seq
        BY <1>6 DEF Half, AcksRight, AckRight
      <3>2. s.seq < q[i].seq
        BY <2>13, <1>4
      <3> QED
        BY <3>1, <3>2, <1>1
    <2>5. InitsOf(back, c) = {} /\ AcksOf(back, c) = {}
      <3>1. \A i \in From(back, c) : Number(back[i]) <= s.seq
        BY <1>6 DEF Half, Numbered
      <3>2. /\ \A i \in InitsOf(back, c) : back[i].seq >= t.seq
            /\ \A i \in AcksOf(back, c) : back[i].seq = t.seq
        BY <1>6 DEF Half, InitsRight, InitRight, AcksRight, AckRight
      <3>3. s.seq < t.seq
        BY <2>2
      <3>4. ASSUME NEW i \in From(back, c), back[i].seq >= t.seq, back[i].seq = Number(back[i])
            PROVE  FALSE
        BY <3>1, <3>3, <3>4, <1>1, StreamFields DEF Scene
      <3>5. \A i \in AcksOf(back, c) : back[i].seq >= t.seq
        BY <3>2, <1>1
      <3> QED
        BY <3>2, <3>4, <3>5, <1>4
    <2>6. Numbered(q, p, t) /\ Numbered(back, c, u)
      BY <1>3, <1>6 DEF Half, Numbered
    <2>7. /\ InitsRight(q, p, u, "no", t, x) /\ InitsRight(back, c, t, x, u, "no")
          /\ AcksRight(q, p, u, "no", t, x, back, c) /\ AcksRight(back, c, t, x, u, "no", q, p)
      BY <2>3, <2>4, <2>5 DEF InitsRight, AcksRight
    <2>8. Settled(q, p, u, "no", t, x)
      BY <2>2 DEF Settled
    <2>9. Settled(back, c, t, x, u, "no")
      <3>1. t.seq = u.seq + 1
        BY <2>2, <1>1, <1>3, <1>6 DEF Half, Lockstep
      <3> QED
        BY <3>1, <2>2, <2>5 DEF Settled
    <2>10. TextsRight(q, p, u, "no")
      <3> SUFFICES ASSUME NEW i \in From(q, p), q[i].kind = "TEXT", q[i].body.sealed
                   PROVE  FALSE
        BY DEF TextsRight
      <3>1. i + k \in From(old, p) /\ q[i] = old[i + k] /\ h < i + k /\ TextRight(old, p, i + k, s, w)
        BY <1>2, <1>5 DEF Half, TextsRight
      <3>2. ~(\A j \in InitsOf(old, p) \cup AcksOf(old, p) : j > i + k)
        <4>1. h \in Nat /\ i \in Nat /\ h < i + k
          BY <1>4, <1>5
        <4>2. ~(h > i + k)
          BY <4>1
        <4> QED
          BY <4>2
      <3>3. q[i].body.seq = s.seq
        BY <3>1, <3>2, <2>1 DEF TextRight
      <3>4. Number(q[i]) = s.seq
        BY <3>3 DEF Number
      <3> QED
        BY <3>4, <2>13, <1>1
    <2>11. TextsRight(back, c, t, x)
      BY <1>6 DEF Half
    <2>12. Lockstep(u, "no", t) /\ Lockstep(t, x, u)
      BY <1>3, <1>6 DEF Half, Lockstep
    <2> QED
      BY <2>6, <2>7, <2>8, <2>9, <2>10, <2>11, <2>12 DEF Linked, Half
  <1> QED
    BY <1>7, <1>8

(* An /e2e to a peer whose session is not new waits without an INIT.        *)
LEMMA WaitingAgain ==
    ASSUME NEW c, NEW p, NEW s, NEW t, NEW x, NEW q, NEW back,
           Scene(c, p, s, t, "no", x, q, back), Linked(c, p, s, t, "no", x, q, back),
           s.state # "UNINITIALIZED"
    PROVE  Linked(c, p, s, t, "firstE2E", x, q, back)
  <1>1. /\ s.seq \in Nat /\ t.seq \in Nat /\ s.state \in States /\ t.state \in States
        /\ ~Attempting(s, "no")
    BY SceneFields DEF Attempting
  <1>2. Half(c, p, s, t, "no", x, q, back) /\ Half(p, c, t, s, x, "no", back, q)
    BY DEF Linked
  <1>3. AcksOf(q, p) = {}
    BY <1>1, Ahead
  <1>4. s.state = "ESTABLISHED" \/ s.state \in Sent
    BY <1>1 DEF States, Sent
  <1>5. InitsRight(q, p, s, "firstE2E", t, x)
    BY <1>1, <1>2 DEF Half, InitsRight, InitRight
  <1>6. InitsRight(back, c, t, x, s, "firstE2E")
    BY <1>1, <1>2 DEF Half, InitsRight, InitRight
  <1>7. AcksRight(q, p, s, "firstE2E", t, x, back, c)
    BY <1>3 DEF AcksRight
  <1>8. AcksRight(back, c, t, x, s, "firstE2E", q, p)
    BY <1>1, <1>2 DEF Half, AcksRight, AckRight
  <1>9. Settled(q, p, s, "firstE2E", t, x)
    BY <1>1, <1>2 DEF Half, Settled
  <1>10. Settled(back, c, t, x, s, "firstE2E")
    BY <1>2 DEF Half, Settled
  <1>11. TextsRight(q, p, s, "firstE2E")
    BY <1>1, <1>2 DEF Half, TextsRight, TextRight
  <1>12. Lockstep(s, "firstE2E", t)
    BY <1>2 DEF Half, Lockstep
  <1> QED
    BY <1>2, <1>5, <1>6, <1>7, <1>8, <1>9, <1>10, <1>11, <1>12 DEF Linked, Half

(* Client::send: c puts a text on the stream of p, sealed if it can be.     *)
LEMMA Texting ==
    ASSUME NEW c, NEW p, NEW s, NEW t, NEW x, NEW q, NEW back,
           Scene(c, p, s, t, "no", x, q, back), Linked(c, p, s, t, "no", x, q, back),
           NEW new, NEW e, Stream(new), Adds(new, back, c, Text(c, s), e)
    PROVE  Linked(c, p, s, t, "no", x, q, new)
  <1> DEFINE m == Text(c, s)
  <1>b. /\ m.kind = "TEXT" /\ Number(m) = s.seq
        /\ m.body.seq = s.seq /\ m.body.gen = s.gen /\ m.body.peer = s.peer
        /\ m.body.sealed <=> s.state = "ESTABLISHED"
    BY DEF Text, Number, Encrypt
  <1> HIDE DEF m
  <1>1. /\ s.seq \in Nat /\ t.seq \in Nat /\ s.state \in States /\ t.state \in States
        /\ ~Attempting(s, "no")
    BY SceneFields DEF Attempting
  <1>2. Half(c, p, s, t, "no", x, q, back) /\ Half(p, c, t, s, x, "no", back, q)
    BY DEF Linked
  <1>3. InitsOf(new, c) = InitsOf(back, c) /\ AcksOf(new, c) = AcksOf(back, c)
    BY <1>b, AddsParts DEF m
  <1>4. /\ \A j \in From(back, c) : j < e /\ j \in From(new, c) /\ new[j] = back[j]
        /\ \A i \in From(new, c) : i \in From(back, c) \/ (i = e /\ new[i] = m)
    BY DEF Adds, m
  <1>5. /\ \A j \in InitsOf(back, c) : j \in From(back, c) /\ new[j] = back[j] /\ j < e
        /\ \A j \in AcksOf(back, c) : j \in From(back, c) /\ new[j] = back[j] /\ j < e
    BY <1>4 DEF InitsOf, AcksOf
  <1>6. /\ \A i \in From(back, c) : i \in Nat /\ Number(back[i]) \in Nat
        /\ \A i \in From(new, c) : i \in Nat /\ Number(new[i]) \in Nat
    BY StreamFields DEF Scene
  <1>7. Numbered(new, c, s)
    <2>1. \A i \in From(new, c) : Number(new[i]) <= s.seq
      BY <1>1, <1>2, <1>4, <1>b DEF Half, Numbered
    <2>2. ASSUME NEW i \in From(new, c), NEW j \in From(new, c), i < j
          PROVE  /\ Number(new[i]) <= Number(new[j])
                 /\ new[j].kind = "INIT" => Number(new[i]) < Number(new[j])
      <3>1. CASE j \in From(back, c)
        <4>1. i \in From(back, c)
          BY <2>2, <3>1, <1>4, <1>6
        <4> QED
          BY <2>2, <3>1, <4>1, <1>2, <1>4 DEF Half, Numbered
      <3>2. CASE new[j] = m
        BY <2>1, <3>2, <1>b
      <3> QED
        BY <3>1, <3>2, <1>4
    <2> QED
      BY <2>1, <2>2 DEF Numbered
  <1>8. InitsRight(new, c, t, x, s, "no")
    BY <1>2, <1>3, <1>5 DEF Half, InitsRight
  <1>9. AcksRight(q, p, s, "no", t, x, new, c)
    BY <1>2, <1>3 DEF Half, AcksRight, AckRight
  <1>10. AcksRight(new, c, t, x, s, "no", q, p)
    BY <1>2, <1>3, <1>5 DEF Half, AcksRight, AckRight
  <1>11. Settled(new, c, t, x, s, "no")
    BY <1>2, <1>3 DEF Half, Settled
  <1>12. TextsRight(new, c, t, x)
    <2> SUFFICES ASSUME NEW i \in From(new, c), new[i].kind = "TEXT", new[i].body.sealed
                 PROVE  TextRight(new, c, i, t, x)
      BY DEF TextsRight
    <2>1. CASE i \in From(back, c)
      <3>1. TextRight(back, c, i, t, x) /\ new[i] = back[i]
        BY <2>1, <1>2, <1>4 DEF Half, TextsRight
      <3> QED
        BY <3>1, <1>3, <1>5 DEF TextRight
    <2>2. CASE i = e /\ new[i] = m
      <3>1. s.state = "ESTABLISHED"
        BY <2>2, <1>b
      <3>2. CASE Matches(t, s)
        BY <2>2, <3>2, <1>b DEF Matches, TextRight
      <3>3. CASE AcksOf(back, c) # {}
        <4>1. PICK j \in AcksOf(back, c) : AckRight(back, c, j, t, x, s, "no", q, p)
          BY <3>3, <1>2 DEF Half, AcksRight
        <4>2. /\ s.seq = t.seq /\ s.gen = back[j].gen /\ s.peer = t.gen
              /\ j \in AcksOf(new, c) /\ j < e /\ new[j] = back[j]
          BY <4>1, <1>1, <1>3, <1>5 DEF AckRight
        <4> QED
          BY <2>2, <4>2, <1>b DEF TextRight
      <3>4. CASE Attempting(t, x) /\ InitsOf(back, c) = {} /\ AcksOf(back, c) = {}
        BY <3>4, <1>3 DEF TextRight
      <3> QED
        BY <3>1, <3>2, <3>3, <3>4, <1>2 DEF Half, Settled
    <2> QED
      BY <2>1, <2>2, <1>4
  <1> QED
    BY <1>2, <1>7, <1>8, <1>9, <1>10, <1>11, <1>12 DEF Linked, Half

-----------------------------------------------------------------------------
(* Streams after the operations the code applies to them.                   *)
LEMMA SeqIsStream ==
    ASSUME NEW q \in Seq(Packets)
    PROVE  /\ Stream(q) /\ DOMAIN q = 1 .. Len(q) /\ Len(q) \in Nat
           /\ \A p : From(q, p) \subseteq 1 .. Len(q)
  <1>1. DOMAIN q = 1 .. Len(q) /\ Len(q) \in Nat /\ \A i \in 1 .. Len(q) : q[i] \in Packets
    BY LenProperties, ElementOfSeq
  <1> QED
    BY <1>1 DEF Stream, From

\* A recv that returns several packets leaves a suffix of the stream.
LEMMA SuffixPast ==
    ASSUME NEW q \in Seq(Packets), NEW k \in Nat, NEW new, new = SubSeq(q, 2 + k, Len(q))
    PROVE  /\ new \in Seq(Packets)
           /\ \A i \in DOMAIN new : i \in Nat \ {0} /\ i + (k + 1) \in DOMAIN q /\ new[i] = q[i + (k + 1)]
           /\ \A p : Past(new, q, p, k + 1)
  <1>1. DOMAIN q = 1 .. Len(q) /\ Len(q) \in Nat
    BY SeqIsStream
  <1>2. \A i \in 1 .. Len(q) : q[i] \in Packets
    BY ElementOfSeq
  <1>3. /\ new \in Seq(Packets)
        /\ Len(new) = IF 2 + k <= Len(q) THEN Len(q) - (2 + k) + 1 ELSE 0
        /\ \A i \in 1 .. Len(q) - (2 + k) + 1 : new[i] = q[(2 + k) + i - 1]
    BY <1>1, <1>2, SubSeqProperties
  <1>4. \A i \in Int : i \in DOMAIN new <=> i >= 1 /\ i + (k + 1) <= Len(q)
    <2>1. DOMAIN new = 1 .. Len(new)
      BY <1>3, LenProperties
    <2>2. CASE 2 + k <= Len(q)
      <3>1. Len(new) = Len(q) - (k + 1)
        BY <2>2, <1>1, <1>3
      <3> QED
        BY ONLY <2>1, <3>1, <1>1, k \in Nat
    <2>3. CASE ~(2 + k <= Len(q))
      <3>1. Len(new) = 0
        BY <2>3, <1>3
      <3> QED
        BY ONLY <2>1, <2>3, <3>1, <1>1, k \in Nat
    <2> QED
      BY <2>2, <2>3
  <1>7. DOMAIN new \subseteq Nat
    BY <1>3, LenProperties
  <1>5. ASSUME NEW i \in DOMAIN new
        PROVE  i \in Nat \ {0} /\ i + (k + 1) \in DOMAIN q /\ new[i] = q[i + (k + 1)]
    <2>1. i \in Nat \ {0} /\ i + (k + 1) \in 1 .. Len(q) /\ i \in 1 .. Len(q) - (2 + k) + 1
      BY <1>1, <1>4, <1>7
    <2>2. (2 + k) + i - 1 = i + (k + 1)
      BY <2>1
    <2> QED
      BY <2>1, <2>2, <1>1, <1>3
  <1>6. ASSUME NEW j \in DOMAIN q, j > k + 1
        PROVE  j - (k + 1) \in DOMAIN new /\ new[j - (k + 1)] = q[j]
    <2>1. j - (k + 1) \in DOMAIN new
      BY <1>1, <1>4, <1>6
    <2>2. (j - (k + 1)) + (k + 1) = j
      BY <1>1
    <2> QED
      BY <2>1, <2>2, <1>5
  <1>8. ASSUME NEW p PROVE Past(new, q, p, k + 1)
    <2>1. k + 1 \in Nat
      OBVIOUS
    <2>2. ASSUME NEW i \in From(new, p)
          PROVE  i + (k + 1) \in From(q, p) /\ new[i] = q[i + (k + 1)]
      <3>1. i \in DOMAIN new /\ new[i].kind \in {"INIT", "ACK", "TEXT"} /\ new[i].from = p
        BY DEF From
      <3> QED
        BY <1>5, <3>1 DEF From
    <2>3. ASSUME NEW j \in From(q, p), j > k + 1
          PROVE  j - (k + 1) \in From(new, p)
      <3>1. j \in DOMAIN q /\ q[j].kind \in {"INIT", "ACK", "TEXT"} /\ q[j].from = p
        BY DEF From
      <3> QED
        BY <1>6, <2>3, <3>1 DEF From
    <2> QED
      BY <2>1, <2>2, <2>3 DEF Past
  <1> QED
    BY <1>3, <1>5, <1>8

\* A stream nobody touched: nothing of it was read.
LEMMA SamePast == ASSUME NEW q \in Seq(Packets), NEW p PROVE Past(q, q, p, 0)
  BY SeqIsStream DEF Past, From

\* A stream that was thrown away: all of it was read.
LEMMA EmptyPast == ASSUME NEW q \in Seq(Packets), NEW p PROVE Past(<<>>, q, p, Len(q))
  <1>1. From(<<>>, p) = {} /\ From(q, p) \subseteq 1 .. Len(q) /\ Len(q) \in Nat
    BY SeqIsStream DEF From
  <1> QED
    BY <1>1 DEF Past

\* A stream after one packet was appended, as its sender and the others see it.
LEMMA AppendStreams ==
    ASSUME NEW q \in Seq(Packets), NEW m \in Packets
    PROVE  /\ Append(q, m) \in Seq(Packets)
           /\ Len(q) + 1 \in DOMAIN Append(q, m) /\ Append(q, m)[Len(q) + 1] = m
           /\ \A i \in DOMAIN q : i \in DOMAIN Append(q, m) /\ Append(q, m)[i] = q[i] /\ i <= Len(q)
           /\ \A i \in DOMAIN Append(q, m) : i \in DOMAIN q \/ i = Len(q) + 1
           /\ \A p : Adds(Append(q, m), q, p, m, Len(q) + 1) /\ Adds(q, q, p, m, Len(q) + 1)
           /\ \A p : ~(m.kind \in {"INIT", "ACK", "TEXT"} /\ m.from = p) =>
                        Past(Append(q, m), q, p, 0)
           /\ \A p : m.kind \in {"INIT", "ACK", "TEXT"} /\ m.from = p =>
                        Len(q) + 1 \in From(Append(q, m), p)
  <1> DEFINE new == Append(q, m)
             e == Len(q) + 1
  <1>1. DOMAIN q = 1 .. Len(q) /\ Len(q) \in Nat
    BY SeqIsStream
  <1>2. /\ new \in Seq(Packets) /\ Len(new) = Len(q) + 1
        /\ \A i \in 1 .. Len(q) : new[i] = q[i]
        /\ new[Len(q) + 1] = m
    BY AppendProperties
  <1>3. DOMAIN new = 1 .. Len(q) + 1
    BY <1>2, LenProperties
  <1> HIDE DEF new
  <1>4. /\ e \in DOMAIN new /\ new[e] = m /\ e \in Nat \ {0}
        /\ \A i \in DOMAIN q : i \in DOMAIN new /\ new[i] = q[i] /\ i <= Len(q) /\ i < e /\ i \in Nat
        /\ \A i \in DOMAIN new : i \in DOMAIN q \/ i = e
    BY <1>1, <1>2, <1>3
  <1> HIDE DEF e
  <1>5. ASSUME NEW p PROVE Adds(new, q, p, m, e) /\ Adds(q, q, p, m, e)
    BY <1>4 DEF Adds, From
  <1>6. ASSUME NEW p, ~(m.kind \in {"INIT", "ACK", "TEXT"} /\ m.from = p)
        PROVE  Past(new, q, p, 0)
    <2>1. From(new, p) = From(q, p)
      BY <1>4, <1>6 DEF From
    <2>2. \A i \in From(q, p) : i \in Nat /\ new[i] = q[i]
      BY <1>4 DEF From
    <2> QED
      BY <2>1, <2>2 DEF Past
  <1>7. ASSUME NEW p, m.kind \in {"INIT", "ACK", "TEXT"} /\ m.from = p
        PROVE  e \in From(new, p)
    BY <1>4, <1>7 DEF From
  <1>8. /\ new \in Seq(Packets)
        /\ e \in DOMAIN new /\ new[e] = m
        /\ \A i \in DOMAIN q : i \in DOMAIN new /\ new[i] = q[i] /\ i <= Len(q)
        /\ \A i \in DOMAIN new : i \in DOMAIN q \/ i = e
    BY <1>2, <1>4
  <1> QED
    BY <1>5, <1>6, <1>7, <1>8 DEF new, e

-----------------------------------------------------------------------------
(* The pairs of clients of a state, and the parts of a step.                *)

\* What holds between two clients is the same from either end.
LEMMA Symmetric ==
    ASSUME NEW c, NEW p, NEW s, NEW t, NEW w, NEW x, NEW q, NEW back
    PROVE  /\ Linked(c, p, s, t, w, x, q, back) <=> Linked(p, c, t, s, x, w, back, q)
           /\ Scene(c, p, s, t, w, x, q, back) <=> Scene(p, c, t, s, x, w, back, q)
  BY DEF Linked, Scene

\* Any two clients are such a pair in a typed state.
LEMMA Scenes ==
    ASSUME TypeOK, Exchange!SessionsOK, NEW c \in Users, NEW p \in Users \ {c}
    PROVE  /\ Scene(c, p, sess[c][p], sess[p][c], Mode(c, p), Mode(p, c), inbox[c], inbox[p])
           /\ End(sess[c][p]) /\ inbox[c] \in Seq(Packets)
  <1>1. End(sess[c][p]) /\ End(sess[p][c])
    BY DEF TypeOK, End, Exchange!SessionsOK
  <1>2. /\ inbox[c] \in Seq(Packets) /\ inbox[p] \in Seq(Packets)
        /\ Stream(inbox[c]) /\ Stream(inbox[p])
    BY SeqIsStream DEF TypeOK, StreamsOK
  <1>3. Mode(c, p) \in E2EWaits \cup {"no"} /\ Mode(p, c) \in E2EWaits \cup {"no"}
    BY DEF Mode
  <1> QED
    BY <1>1, <1>2, <1>3 DEF Scene

(* A pair that a step touches only by reading from the two streams.         *)
LEMMA UntouchedPair ==
    ASSUME TypeOK, TypeOK', Exchange!SessionsOK, Links,
           NEW c \in Users, NEW p \in Users \ {c},
           sess'[c][p] = sess[c][p], sess'[p][c] = sess[p][c],
           Mode(c, p)' = Mode(c, p), Mode(p, c)' = Mode(p, c),
           NEW k \in Nat, Past(inbox'[c], inbox[c], p, k),
           NEW l \in Nat, Past(inbox'[p], inbox[p], c, l)
    PROVE  Link(c, p)'
  <1> DEFINE s == sess[c][p]
             t == sess[p][c]
             w == Mode(c, p)
             x == Mode(p, c)
  <1>1. Scene(c, p, s, t, w, x, inbox[c], inbox[p]) /\ Linked(c, p, s, t, w, x, inbox[c], inbox[p])
    BY Scenes DEF Links, Link
  <1>2. Stream(inbox'[c]) /\ Stream(inbox'[p])
    BY SeqIsStream DEF TypeOK, StreamsOK
  <1> HIDE DEF s, t, w, x
  <1>3. Linked(c, p, s, t, w, x, inbox'[c], inbox[p])
    BY <1>1, <1>2, LosesSome
  <1>4. Scene(c, p, s, t, w, x, inbox'[c], inbox[p])
    BY <1>1, <1>2 DEF Scene
  <1>5. Scene(p, c, t, s, x, w, inbox[p], inbox'[c]) /\ Linked(p, c, t, s, x, w, inbox[p], inbox'[c])
    BY <1>3, <1>4, Symmetric
  <1>6. Linked(p, c, t, s, x, w, inbox'[p], inbox'[c])
    BY <1>2, <1>5, LosesSome
  <1>7. Linked(c, p, s, t, w, x, inbox'[c], inbox'[p])
    BY <1>6, Symmetric
  <1> QED
    BY <1>7 DEF Link, s, t, w, x

(* What every proof of a step starts from. *)
Before ==
    /\ TypeOK /\ TypeOK' /\ Exchange!SessionsOK /\ Exchange!SessionsOK'
    /\ Local /\ Links

\* What a step may do to the stream of x, as far as other pairs are concerned.
Reads1(x, p) == \E k \in Nat : Past(inbox'[x], inbox[x], p, k)

\* A step that only reads brings no packet of x back to x.
LEMMA NoEchoStays ==
    ASSUME NoEcho, \A x \in Users : Reads1(x, x)
    PROVE  NoEcho'
  BY DEF NoEcho, Reads1, Past

\* A step that changes no session and no wait, and only reads, keeps every
\* pair.
LEMMA UntouchedLinks ==
    ASSUME Before, UNCHANGED sess, \A x, p \in Users : Reads1(x, p),
           \A x \in Users : \A p \in Users \ {x} : Mode(x, p)' = Mode(x, p)
    PROVE  Links'
  <1> SUFFICES ASSUME NEW c \in Users, NEW p \in Users \ {c} PROVE Link(c, p)'
    BY NoEchoStays DEF Links, Before
  <1>1. PICK k \in Nat : Past(inbox'[c], inbox[c], p, k)
    BY DEF Reads1
  <1>2. PICK l \in Nat : Past(inbox'[p], inbox[p], c, l)
    BY DEF Reads1
  <1> QED
    BY <1>1, <1>2, UntouchedPair DEF Before

\* A step of c with z: only what holds between those two has to be shown anew.
LEMMA PairLinks ==
    ASSUME Before, NEW c \in Users, NEW z \in Users \ {c}, Link(c, z)',
           \A x \in Users : \A p \in Users \ {x} :
              <<x, p>> # <<c, z>> => sess'[x][p] = sess[x][p] /\ Mode(x, p)' = Mode(x, p),
           \A x, p \in Users : <<x, p>> # <<c, z>> /\ <<x, p>> # <<z, c>> => Reads1(x, p)
    PROVE  Links'
  <1> SUFFICES ASSUME NEW x \in Users, NEW p \in Users \ {x} PROVE Link(x, p)'
    <2>1. \A x \in Users : Reads1(x, x)
      OBVIOUS
    <2> QED
      BY <2>1, NoEchoStays DEF Links, Before
  <1>1. CASE x = c /\ p = z
    BY <1>1
  <1>2. CASE x = z /\ p = c
    <2>1. Link(c, z)' => Link(z, c)'
      BY Symmetric DEF Link
    <2> QED
      BY <1>2, <2>1
  <1>3. CASE ~(x = c /\ p = z) /\ ~(x = z /\ p = c)
    <2>1. <<x, p>> # <<c, z>> /\ <<x, p>> # <<z, c>> /\ <<p, x>> # <<c, z>> /\ <<p, x>> # <<z, c>>
      BY <1>3
    <2>2. PICK k \in Nat : Past(inbox'[x], inbox[x], p, k)
      BY <2>1 DEF Reads1
    <2>3. PICK l \in Nat : Past(inbox'[p], inbox[p], x, l)
      BY <2>1 DEF Reads1
    <2>4. /\ sess'[x][p] = sess[x][p] /\ sess'[p][x] = sess[p][x]
          /\ Mode(x, p)' = Mode(x, p) /\ Mode(p, x)' = Mode(p, x)
      BY <2>1
    <2> QED
      BY <2>2, <2>3, <2>4, UntouchedPair DEF Before
  <1> QED
    BY <1>1, <1>2, <1>3

(* The thread of one user moves and the waits of the others stay.           *)
LEMMA Moves ==
    ASSUME TypeOK, NEW c \in Users, NEW t \in PointOf(c), Goto(c, t)
    PROVE  /\ thread'[c] = t
           /\ \A x \in Users \ {c} : thread'[x] = thread[x] /\ \A p : Mode(x, p)' = Mode(x, p)
           /\ \A p : Mode(c, p)' = IF t.at \in E2EWaits /\ t.peer = p THEN t.at ELSE "no"
  BY DEF TypeOK, Goto, Mode

\* A thread that leaves its wait.
LEMMA Leaves ==
    ASSUME TypeOK, NEW c \in Users, thread[c].at \in E2EWaits, Return(c)
    PROVE  /\ \A x \in Users \ {c} : thread'[x] = thread[x] /\ \A p : Mode(x, p)' = Mode(x, p)
           /\ \A p : Mode(c, p)' = "no"
           /\ \A p : Mode(c, p) = IF p = thread[c].peer THEN thread[c].at ELSE "no"
  <1>1. /\ thread[c].peer \in Users \ {c}
        /\ thread[c].then \in {"report", "send", "encrypt"}
    BY Points DEF PointOf, Threads, Loop, LoginWait, ListWait, E2EWaits
  <1>2. PICK t \in PointOf(c) : Goto(c, t) /\ t.at \notin E2EWaits
    <2>1. CASE thread[c].then = "report"
      BY <2>1, Points DEF Return, Loop, E2EWaits
    <2>2. CASE thread[c].then # "report"
      <3>1. Sending(thread[c].then, thread[c].peer) \in PointOf(c)
        BY <1>1, <2>2, Points
      <3> QED
        BY <1>1, <2>2, <3>1 DEF Return, Sending, E2EWaits
    <2> QED
      BY <2>1, <2>2
  <1>3. \A p : Mode(c, p) = IF p = thread[c].peer THEN thread[c].at ELSE "no"
    BY DEF Mode
  <1> QED
    BY <1>2, <1>3, Moves

-----------------------------------------------------------------------------
(* What a read takes: with an empty queue, the first packet of the stream.  *)
Receives(c, r, k) ==
    /\ k \in Nat \ {0} /\ r.queue = <<>> /\ pktQueue[c] = <<>>
    /\ 1 \in DOMAIN inbox[c] /\ r.pkt = inbox[c][1] /\ r.pkt \in Packets
    /\ r.streams \in [Users -> Seq(Packets)]
    /\ \A x \in Users \ {c} : r.streams[x] = inbox[x]
    /\ \A i \in DOMAIN r.streams[c] :
          i \in Nat \ {0} /\ i + k \in DOMAIN inbox[c] /\ r.streams[c][i] = inbox[c][i + k]
    /\ \A p : Past(r.streams[c], inbox[c], p, k)
    /\ \A i \in DOMAIN inbox[c] :
          1 < i /\ i <= k /\ inbox[c][i].kind = "ACK" =>
              [kind |-> "ACK", from |-> inbox[c][i].from] \in r.lost

\* A poll with an empty queue reads the first packet of the stream.
LEMMA FromSocket ==
    ASSUME TypeOK, NEW c \in Users, pktQueue[c] = <<>>, NEW r \in Polls(c)
    PROVE  \E k : Receives(c, r, k)
  <1>1. inbox \in [Users -> Seq(Packets)] /\ inbox[c] \in Seq(Packets)
    BY DEF TypeOK, StreamsOK
  <1>2. PICK k \in 0 .. Coalesce :
          /\ k < Len(inbox[c])
          /\ r = [pkt |-> Head(inbox[c]), queue |-> <<>>,
                  streams |-> [inbox EXCEPT ![c] = SubSeq(@, 2 + k, Len(@))],
                  lost |-> Swallowed(c, k)]
    BY DEF Polls
  <1>3. k \in Nat
    BY <1>2, ClientAssumption
  <1>4. /\ DOMAIN inbox[c] = 1 .. Len(inbox[c]) /\ Len(inbox[c]) \in Nat
        /\ \A i \in 1 .. Len(inbox[c]) : inbox[c][i] \in Packets
    BY <1>1, SeqIsStream, ElementOfSeq
  <1>5. 1 \in DOMAIN inbox[c] /\ Head(inbox[c]) = inbox[c][1] /\ inbox[c][1] \in Packets
    BY <1>1, <1>2, <1>3, <1>4
  <1> DEFINE rest == SubSeq(inbox[c], 2 + k, Len(inbox[c]))
  <1>6. /\ rest \in Seq(Packets)
        /\ \A i \in DOMAIN rest :
              i \in Nat \ {0} /\ i + (k + 1) \in DOMAIN inbox[c] /\ rest[i] = inbox[c][i + (k + 1)]
        /\ \A p : Past(rest, inbox[c], p, k + 1)
    BY <1>1, <1>3, SuffixPast
  <1>7. r.pkt = Head(inbox[c]) /\ r.queue = <<>> /\ r.streams = [inbox EXCEPT ![c] = rest]
    BY <1>2
  <1> HIDE DEF rest
  <1>8. /\ r.streams \in [Users -> Seq(Packets)] /\ r.streams[c] = rest
        /\ \A x \in Users \ {c} : r.streams[x] = inbox[x]
    BY <1>1, <1>6, <1>7
  <1>9. k + 1 \in Nat \ {0}
    BY <1>3
  <1>10. ASSUME NEW i \in DOMAIN inbox[c], 1 < i, i <= k + 1, inbox[c][i].kind = "ACK"
         PROVE  [kind |-> "ACK", from |-> inbox[c][i].from] \in r.lost
    <2>1. i \in 2 .. 1 + k /\ IsE2E(inbox[c][i])
      BY <1>3, <1>4, <1>10 DEF IsE2E
    <2>2. [kind |-> inbox[c][i].kind, from |-> inbox[c][i].from] \in Swallowed(c, k)
      BY <2>1 DEF Swallowed
    <2> QED
      BY <2>2, <1>2, <1>10
  <1>11. Receives(c, r, k + 1)
    BY <1>5, <1>6, <1>7, <1>8, <1>9, <1>10 DEF Receives
  <1> QED
    BY <1>11

\* A poll with a packet set aside gives that packet, which the wait is not for.
LEMMA FromQueue ==
    ASSUME NEW c \in Users, QueueOK(c), pktQueue[c] # <<>>, NEW r \in Polls(c)
    PROVE  /\ r.queue = <<>> /\ r.streams = inbox /\ r.lost = {}
           /\ Waiting(c) /\ ~Wanted(thread[c], r.pkt) /\ pktQueue[c] = <<r.pkt>>
  <1>1. PICK m : pktQueue[c] = <<m>> /\ Waiting(c) /\ ~Wanted(thread[c], m)
    BY DEF QueueOK
  <1>2. r = [pkt |-> Head(<<m>>), queue |-> Tail(<<m>>), streams |-> inbox, lost |-> {}]
    BY <1>1 DEF Polls
  <1>3. Head(<<m>>) = m /\ Tail(<<m>>) = <<>>
    OBVIOUS
  <1> QED
    BY <1>1, <1>2, <1>3

\* The packet a wait is for, or the drain loop takes, comes from the stream.
LEMMA ReadsWanted ==
    ASSUME TypeOK, NEW c \in Users, QueueOK(c), NEW r \in Polls(c),
           Wanted(thread[c], r.pkt) \/ Draining(c)
    PROVE  \E k : Receives(c, r, k)
  <1>1. ~(Draining(c) /\ Waiting(c))
    BY DEF Draining, Waiting, Loop, E2EWaits
  <1> QED
    BY <1>1, FromSocket, FromQueue

-----------------------------------------------------------------------------
(* Replies. *)
NoReply(q) == \A i \in DOMAIN q : ~IsReply(q[i])

\* A thread that waits for no reply has none on its stream.
LEMMA RepliesElsewhere ==
    ASSUME NEW c, RepliesOK(c), thread[c] # LoginWait, thread[c] # ListWait
    PROVE  NoReply(inbox[c])
  BY DEF RepliesOK, NoReply

\* After its reply was read, or with none there, c has no reply on its stream.
LEMMA NoReplyLeft ==
    ASSUME NEW c, NEW r, NEW k, Receives(c, r, k),
           NoReply(inbox[c]) \/ (RepliesOK(c) /\ IsReply(r.pkt))
    PROVE  NoReply(r.streams[c])
  <1> SUFFICES ASSUME NEW i \in DOMAIN r.streams[c], IsReply(r.streams[c][i]) PROVE FALSE
    BY DEF NoReply
  <1>1. /\ i \in Nat \ {0} /\ k \in Nat /\ k > 0 /\ i + k \in DOMAIN inbox[c] /\ 1 \in DOMAIN inbox[c]
        /\ IsReply(inbox[c][i + k]) /\ r.pkt = inbox[c][1]
    BY DEF Receives
  <1>2. CASE NoReply(inbox[c])
    BY <1>1, <1>2 DEF NoReply
  <1>3. CASE RepliesOK(c) /\ IsReply(r.pkt)
    <2>1. 1 = i + k
      BY <1>1, <1>3 DEF RepliesOK
    <2> QED
      BY <2>1, <1>1
  <1> QED
    BY <1>2, <1>3

(* The queue, replies and name of c after a step. *)
Calm(c) == QueueOK(c) /\ RepliesOK(c) /\ NamedOK(c)

\* Of a user whose stream may get a packet of another.
LEMMA CalmElsewhere ==
    ASSUME TypeOK, NEW x \in Users, Calm(x),
           pktQueue'[x] = pktQueue[x], thread'[x] = thread[x], status'[x] = status[x],
           NEW m \in Packets, ~IsReply(m),
           inbox'[x] = inbox[x] \/ inbox'[x] = Append(inbox[x], m)
    PROVE  Calm(x)'
  <1>1. QueueOK(x)' /\ NamedOK(x)'
    BY DEF Calm, QueueOK, NamedOK, Waiting, Running
  <1>2. RepliesOK(x)'
    <2>1. CASE inbox'[x] = inbox[x]
      BY <2>1 DEF Calm, RepliesOK
    <2>2. CASE inbox'[x] = Append(inbox[x], m)
      <3>1. inbox[x] \in Seq(Packets)
        BY DEF TypeOK, StreamsOK
      <3>2. /\ \A i \in DOMAIN inbox'[x] : i \in DOMAIN inbox[x] \/ inbox'[x][i] = m
            /\ \A i \in DOMAIN inbox[x] : inbox'[x][i] = inbox[x][i]
        BY <2>2, <3>1, AppendStreams
      <3> QED
        BY <3>2 DEF Calm, RepliesOK
    <2> QED
      BY <2>1, <2>2
  <1> QED
    BY <1>1, <1>2 DEF Calm

\* Of a user the step leaves alone.
LEMMA CalmStill ==
    ASSUME NEW x \in Users, Calm(x),
           pktQueue'[x] = pktQueue[x], thread'[x] = thread[x], status'[x] = status[x],
           inbox'[x] = inbox[x]
    PROVE  Calm(x)'
  BY DEF Calm, QueueOK, NamedOK, Waiting, Running, RepliesOK

\* Of a user whose queue is empty and who has no reply to come.
LEMMA CalmNow ==
    ASSUME NEW c, pktQueue'[c] = <<>>, NoReply(inbox'[c]), NamedOK(c)'
    PROVE  Calm(c)'
  BY DEF Calm, QueueOK, RepliesOK, NoReply

\* The reply the server appends is the only one and c waits for it.
LEMMA OneReply ==
    ASSUME NEW c \in Users, inbox[c] \in Seq(Packets), NoReply(inbox[c]),
           NEW m \in Packets, inbox'[c] = Append(inbox[c], m), IsReply(m),
           thread'[c] = IF m.kind = "CONTROL" THEN LoginWait ELSE ListWait
    PROVE  RepliesOK(c)'
  <1>1. /\ \A i \in DOMAIN inbox'[c] : i \in DOMAIN inbox[c] \/ (i = Len(inbox[c]) + 1 /\ inbox'[c][i] = m)
        /\ \A i \in DOMAIN inbox[c] : inbox'[c][i] = inbox[c][i]
    BY AppendStreams
  <1>2. \A i \in DOMAIN inbox'[c] : IsReply(inbox'[c][i]) => i = Len(inbox[c]) + 1 /\ inbox'[c][i] = m
    BY <1>1 DEF NoReply
  <1> QED
    BY <1>2 DEF RepliesOK

-----------------------------------------------------------------------------
(* The steps that concern no session. *)
Kept == Local' /\ Links'

\* What a typed state says of one stream.
LEMMA StreamsTyped ==
    ASSUME TypeOK, NEW x \in Users
    PROVE  /\ inbox[x] \in Seq(Packets) /\ \A p : Past(inbox[x], inbox[x], p, 0)
           /\ inbox \in [Users -> Seq(Packets)]
  BY SamePast DEF TypeOK, StreamsOK

\* Which packets are replies of the server.
LEMMA NotReplies ==
    /\ ~IsReply(Null)
    /\ \A c, s : ~IsReply(InitPacket(c, s)) /\ ~IsReply(AckPacket(c, s))
    /\ \A c, s : ~IsReply(Text(c, s))
    /\ \A ok \in BOOLEAN : Reply(ok) \in Packets /\ IsReply(Reply(ok)) /\ Reply(ok).kind = "CONTROL"
    /\ UserList \in Packets /\ IsReply(UserList) /\ UserList.kind = "USER_LIST"
  BY DEF IsReply, Null, InitPacket, AckPacket, Text, Reply, UserList, Packets

\* A request that asks the server for a reply.
LEMMA AskKeeps ==
    ASSUME Before, NEW c \in Users, thread[c] = Loop, UNCHANGED <<sess, pktQueue>>,
           NEW m \in Packets, IsReply(m), inbox' = [inbox EXCEPT ![c] = Append(@, m)],
           Goto(c, IF m.kind = "CONTROL" THEN LoginWait ELSE ListWait),
           \A x \in Users \ {c} : status'[x] = status[x], status'[c] # "crashed"
    PROVE  Kept
  <1> DEFINE t == IF m.kind = "CONTROL" THEN LoginWait ELSE ListWait
  <1>1. TypeOK /\ Local
    BY DEF Before
  <1>2. t \in PointOf(c) /\ t.at \notin E2EWaits /\ t.at \notin {"send", "encrypt"}
    BY <1>1, Points DEF LoginWait, ListWait, E2EWaits
  <1>3. Goto(c, t)
    OBVIOUS
  <1>4. thread[c] # LoginWait /\ thread[c] # ListWait /\ thread[c].at \notin E2EWaits /\ ~Waiting(c)
    BY DEF Loop, LoginWait, ListWait, E2EWaits, Waiting
  <1>5. thread'[c] = IF m.kind = "CONTROL" THEN LoginWait ELSE ListWait
    BY <1>1, <1>2, <1>3, Moves
  <1> HIDE DEF t
  <1>6. /\ \A x \in Users \ {c} : thread'[x] = thread[x] /\ \A p : Mode(x, p)' = Mode(x, p)
        /\ \A p : Mode(c, p)' = "no" /\ Mode(c, p) = "no"
    BY <1>1, <1>2, <1>3, <1>4, Moves DEF Mode
  <1>7. inbox'[c] = Append(inbox[c], m) /\ \A x \in Users \ {c} : inbox'[x] = inbox[x]
    BY <1>1, StreamsTyped
  <1>8. Links'
    <2>1. m.kind \notin {"INIT", "ACK", "TEXT"}
      BY DEF IsReply
    <2>2. \A p : Past(inbox'[c], inbox[c], p, 0)
      BY <2>1, <1>1, <1>7, StreamsTyped, AppendStreams
    <2>3. \A x, p \in Users : Reads1(x, p)
      BY <2>2, <1>1, <1>7, StreamsTyped DEF Reads1
    <2> QED
      BY <2>3, <1>6, UntouchedLinks
  <1>9. Calm(c)'
    <2>1. NoReply(inbox[c])
      BY <1>1, <1>4, RepliesElsewhere DEF Local
    <2>2. RepliesOK(c)'
      BY <2>1, <1>1, <1>5, <1>7, StreamsTyped, OneReply
    <2>3. QueueOK(c)'
      BY <1>1, <1>4 DEF Local, QueueOK
    <2>4. NamedOK(c)'
      BY <1>2, <1>5 DEF NamedOK, t
    <2> QED
      BY <2>2, <2>3, <2>4 DEF Calm
  <1>10. ASSUME NEW x \in Users \ {c} PROVE Calm(x)'
    <2>1. Calm(x) /\ pktQueue'[x] = pktQueue[x] /\ inbox'[x] = inbox[x]
      BY <1>1, <1>7 DEF Local, Calm
    <2>2. thread'[x] = thread[x] /\ status'[x] = status[x]
      BY <1>6
    <2> QED
      BY <2>1, <2>2, CalmStill
  <1> QED
    BY <1>8, <1>9, <1>10 DEF Kept, Local, Calm

\* A read of c concerns no stream but its own.
LEMMA StreamsRead ==
    ASSUME Before, NEW c \in Users, NEW r, NEW k, Receives(c, r, k), inbox' = r.streams
    PROVE  /\ \A x, p \in Users : Reads1(x, p)
           /\ \A x \in Users \ {c} : inbox'[x] = inbox[x]
  <1>1. TypeOK /\ k \in Nat /\ 0 \in Nat
    BY DEF Before, Receives
  <1>2. \A p : Past(inbox'[c], inbox[c], p, k)
    BY DEF Receives
  <1>3. \A x \in Users \ {c} : inbox'[x] = inbox[x] /\ \A p : Past(inbox'[x], inbox[x], p, 0)
    BY <1>1, StreamsTyped DEF Receives
  <1> QED
    BY <1>1, <1>2, <1>3 DEF Reads1

\* A read of c that moves no thread adds no reply.
LEMMA RepliesStay ==
    ASSUME NEW c, NEW r, NEW k, Receives(c, r, k), inbox' = r.streams,
           RepliesOK(c), thread'[c] = thread[c]
    PROVE  RepliesOK(c)'
  <1>1. /\ k \in Nat
        /\ \A i \in DOMAIN inbox'[c] :
              i \in Nat /\ i + k \in DOMAIN inbox[c] /\ inbox'[c][i] = inbox[c][i + k]
    BY DEF Receives
  <1>2. ASSUME NEW i \in DOMAIN inbox'[c], IsReply(inbox'[c][i]),
               NEW j \in DOMAIN inbox'[c], IsReply(inbox'[c][j])
        PROVE  i = j
    <2>1. i + k = j + k
      BY <1>1, <1>2 DEF RepliesOK
    <2> QED
      BY <2>1, <1>1
  <1> QED
    BY <1>1, <1>2 DEF RepliesOK

\* A read of c that concerns no session, after which c waits on nobody or as before.
LEMMA ReadKeeps ==
    ASSUME Before, NEW c \in Users, UNCHANGED <<sess, status>>,
           NEW r, NEW k, Receives(c, r, k), inbox' = r.streams,
           NEW q, Keep(c, q), NEW t \in PointOf(c), Goto(c, t),
           thread[c] = t \/ (thread[c].at \notin E2EWaits /\ t = Loop /\ IsReply(r.pkt)),
           q = <<>> \/ (thread[c] = t /\ Waiting(c) /\ \E m : q = <<m>> /\ ~Wanted(thread[c], m))
    PROVE  Kept
  <1>1. TypeOK /\ Calm(c)
    BY DEF Before, Local, Calm
  <1>2. /\ thread'[c] = t
        /\ \A x \in Users \ {c} : thread'[x] = thread[x] /\ \A p : Mode(x, p)' = Mode(x, p)
        /\ \A p : Mode(c, p)' = Mode(c, p)
    <2>1. t.at \notin E2EWaits \/ thread[c] = t
      BY DEF Loop, E2EWaits
    <2> QED
      BY <1>1, <2>1, Moves DEF Mode
  <1>3. /\ \A x, p \in Users : Reads1(x, p)
        /\ \A x \in Users \ {c} : inbox'[x] = inbox[x]
    BY StreamsRead
  <1>4. Links'
    <2>1. \A x \in Users : \A p \in Users \ {x} : Mode(x, p)' = Mode(x, p)
      BY <1>2
    <2> QED
      BY <1>3, <2>1, UntouchedLinks
  <1>5. pktQueue'[c] = q /\ \A x \in Users \ {c} : pktQueue'[x] = pktQueue[x]
    BY <1>1 DEF Keep, TypeOK, StreamsOK
  <1>6. Calm(c)'
    <2>1. QueueOK(c)'
      <3>1. Waiting(c)' <=> Running(c) /\ t.at \in {"waitUntilAck", "waitForType"} \cup E2EWaits
        BY <1>2 DEF Waiting, Running
      <3> QED
        BY <3>1, <1>2, <1>5 DEF QueueOK, Waiting
    <2>2. NamedOK(c)'
      BY <1>1, <1>2 DEF Calm, NamedOK, Loop, E2EWaits
    <2>3. RepliesOK(c)'
      <3>1. CASE thread[c] = t
        BY <3>1, <1>1, <1>2, RepliesStay DEF Calm
      <3>2. CASE IsReply(r.pkt)
        <4>1. NoReply(inbox'[c])
          BY <3>2, <1>1, NoReplyLeft DEF Calm
        <4> QED
          BY <4>1 DEF NoReply, RepliesOK
      <3> QED
        BY <3>1, <3>2
    <2> QED
      BY <2>1, <2>2, <2>3 DEF Calm
  <1>7. ASSUME NEW x \in Users \ {c} PROVE Calm(x)'
    BY <1>2, <1>3, <1>5, CalmStill DEF Before, Local, Calm
  <1> QED
    BY <1>4, <1>6, <1>7 DEF Kept, Local, Calm

\* Nothing moves in the streams, or c loses its own.
LEMMA IdleKeeps ==
    ASSUME Before, NEW c \in Users, UNCHANGED sess,
           inbox'[c] = inbox[c] \/ inbox'[c] = <<>>,
           \A x \in Users \ {c} : /\ inbox'[x] = inbox[x] /\ pktQueue'[x] = pktQueue[x]
                                  /\ status'[x] = status[x],
           NEW t \in PointOf(c), Goto(c, t), t = thread[c] \/ (t.at \notin E2EWaits /\ thread[c] = Loop),
           Calm(c)'
    PROVE  Kept
  <1>1. TypeOK
    BY DEF Before
  <1>2. /\ \A x \in Users \ {c} : thread'[x] = thread[x] /\ \A p : Mode(x, p)' = Mode(x, p)
        /\ \A p : Mode(c, p)' = Mode(c, p)
    <2>1. thread[c] = Loop => thread[c].at \notin E2EWaits
      BY DEF Loop, E2EWaits
    <2> QED
      BY <1>1, <2>1, Moves DEF Mode
  <1>3. ASSUME NEW x \in Users, NEW p \in Users PROVE Reads1(x, p)
    <2>1. inbox[x] \in Seq(Packets) /\ Past(inbox[x], inbox[x], p, 0)
      BY <1>1, StreamsTyped
    <2>2. Past(<<>>, inbox[x], p, Len(inbox[x])) /\ Len(inbox[x]) \in Nat
      BY <2>1, EmptyPast, SeqIsStream
    <2>3. inbox'[x] = inbox[x] \/ inbox'[x] = <<>>
      OBVIOUS
    <2> QED
      BY <2>1, <2>2, <2>3 DEF Reads1
  <1>4. Links'
    <2>1. \A x \in Users : \A p \in Users \ {x} : Mode(x, p)' = Mode(x, p)
      BY <1>2
    <2> QED
      BY <1>3, <2>1, UntouchedLinks
  <1>5. ASSUME NEW x \in Users \ {c} PROVE Calm(x)'
    BY <1>2, CalmStill DEF Before, Local, Calm
  <1> QED
    BY <1>4, <1>5 DEF Kept, Local, Calm

(* The actions that concern no session. *)
LEMMA LoginKeeps == ASSUME Before, NEW c \in Users, Login(c) PROVE Kept
  <1> DEFINE m == Reply(status[c] # "in")
  <1>1. TypeOK /\ Running(c) /\ thread[c] = Loop
    BY DEF Before, Login, Request
  <1>2. m \in Packets /\ IsReply(m) /\ m.kind = "CONTROL"
    BY NotReplies
  <1>3. \A x \in Users \ {c} : status'[x] = status[x]
    BY <1>1 DEF Login, TypeOK
  <1>4. status'[c] # "crashed"
    BY <1>1 DEF Login, TypeOK
  <1>5. inbox' = [inbox EXCEPT ![c] = Append(@, m)] /\ UNCHANGED <<sess, pktQueue>> /\ Goto(c, LoginWait)
    BY DEF Login
  <1> HIDE DEF m
  <1>6. Goto(c, IF m.kind = "CONTROL" THEN LoginWait ELSE ListWait)
    BY <1>2, <1>5
  <1> QED
    BY <1>1, <1>2, <1>3, <1>4, <1>5, <1>6, AskKeeps

\* The request for the user list.
LEMMA GetUsersKeeps == ASSUME Before, NEW c \in Users, GetUsers(c) PROVE Kept
  <1>1. TypeOK /\ Running(c) /\ thread[c] = Loop
    BY DEF Before, GetUsers, Request
  <1>2. UserList \in Packets /\ IsReply(UserList) /\ UserList.kind # "CONTROL"
    BY NotReplies
  <1>3. /\ \A x \in Users \ {c} : status'[x] = status[x]
        /\ status'[c] # "crashed"
    BY <1>1 DEF GetUsers, Running
  <1>4. /\ inbox' = [inbox EXCEPT ![c] = Append(@, UserList)]
        /\ UNCHANGED <<sess, pktQueue>> /\ Goto(c, ListWait)
    BY DEF GetUsers
  <1>5. Goto(c, IF UserList.kind = "CONTROL" THEN LoginWait ELSE ListWait)
    BY <1>2, <1>4
  <1> QED
    BY <1>1, <1>2, <1>3, <1>4, <1>5, AskKeeps

\* At the top of the loop the queue is empty.
LEMMA QueueEmpty ==
    ASSUME Before, NEW c \in Users, ~Waiting(c)
    PROVE  pktQueue[c] = <<>>
  BY DEF Before, Local, QueueOK

\* A client that leaves.
LEMMA QuitKeeps == ASSUME Before, NEW c \in Users, Quit(c) PROVE Kept
  <1>1. TypeOK /\ thread[c] = Loop /\ Goto(c, thread[c]) /\ thread[c] \in PointOf(c)
    BY Points, StayStep DEF Before, Quit, Request
  <1>2. /\ inbox'[c] = <<>> /\ pktQueue'[c] = <<>> /\ status'[c] = "left" /\ thread'[c] = Loop
        /\ \A x \in Users \ {c} : /\ inbox'[x] = inbox[x] /\ pktQueue'[x] = pktQueue[x]
                                  /\ status'[x] = status[x]
        /\ UNCHANGED sess
    BY <1>1 DEF Quit, TypeOK, StreamsOK
  <1>3. Calm(c)'
    <2>1. NoReply(inbox'[c])
      BY <1>2 DEF NoReply
    <2>2. NamedOK(c)'
      BY <1>2 DEF NamedOK, Loop, E2EWaits
    <2> QED
      BY <2>1, <2>2, <1>2, CalmNow
  <1> QED
    BY <1>1, <1>2, <1>3, IdleKeeps

\* connectTo with a session that is not stale.
LEMMA ConnectKeeps ==
    ASSUME Before, NEW c \in Users, NEW p \in Users \ {c}, Connect(c, p)
    PROVE  Kept
  <1>1. TypeOK /\ thread[c] = Loop /\ Sending("send", p) \in PointOf(c)
    BY Points DEF Before, Connect, Request
  <1>2. Goto(c, Sending("send", p)) /\ UNCHANGED <<sess, inbox, pktQueue, status>> /\ status[c] = "in"
    BY DEF Connect
  <1>3. Sending("send", p).at \notin E2EWaits
    BY DEF Sending, E2EWaits
  <1>4. Calm(c)'
    <2>1. thread[c] # LoginWait /\ thread[c] # ListWait /\ ~Waiting(c)
      BY <1>1 DEF Loop, LoginWait, ListWait, Waiting, E2EWaits
    <2>2. NoReply(inbox[c]) /\ pktQueue[c] = <<>>
      BY <2>1, RepliesElsewhere, QueueEmpty DEF Before, Local
    <2>3. NamedOK(c)'
      BY <1>2 DEF NamedOK
    <2> QED
      BY <2>2, <2>3, <1>2, CalmNow
  <1> QED
    BY <1>1, <1>2, <1>3, <1>4, IdleKeeps

\* The login wait reads its reply, whose replyTo may not match.
LEMMA LoginReplyKeeps == ASSUME Before, NEW c \in Users, LoginReply(c) PROVE Kept
  <1>1. TypeOK /\ QueueOK(c) /\ thread[c] = LoginWait /\ Waiting(c)
    BY DEF Before, Local, LoginReply
  <1>2. PICK r \in Polls(c), intact \in BOOLEAN :
          /\ Wanted(thread[c], r.pkt)
          /\ inbox' = r.streams
          /\ IF intact
             THEN Keep(c, r.queue) /\ Goto(c, Loop)
             ELSE Keep(c, Append(r.queue, Null)) /\ UNCHANGED thread
    BY DEF LoginReply
  <1>3. PICK k : Receives(c, r, k)
    BY <1>1, <1>2, ReadsWanted
  <1>4. r.queue = <<>> /\ Append(<<>>, Null) = <<Null>>
    BY <1>3 DEF Receives
  <1>5. ~Wanted(thread[c], Null)
    BY <1>1 DEF Wanted, LoginWait, Null, E2EWaits
  <1>6. IsReply(r.pkt) /\ thread[c].at \notin E2EWaits
    BY <1>1, <1>2 DEF Wanted, LoginWait, E2EWaits, IsReply
  <1>7. UNCHANGED <<sess, status>>
    BY DEF LoginReply
  <1>8. CASE intact
    <2>1. Keep(c, <<>>) /\ Goto(c, Loop) /\ Loop \in PointOf(c)
      BY <1>1, <1>2, <1>4, <1>8, Points
    <2> QED
      BY <2>1, <1>2, <1>3, <1>6, <1>7, ReadKeeps
  <1>9. CASE ~intact
    <2>1. Keep(c, <<Null>>) /\ Goto(c, thread[c]) /\ thread[c] \in PointOf(c)
      BY <1>1, <1>2, <1>4, <1>9, Points, StayStep
    <2> QED
      BY <2>1, <1>1, <1>2, <1>3, <1>5, <1>7, ReadKeeps
  <1> QED
    BY <1>8, <1>9

\* The list wait reads the user list.
LEMMA UsersReplyKeeps == ASSUME Before, NEW c \in Users, UsersReply(c) PROVE Kept
  <1>1. TypeOK /\ QueueOK(c) /\ thread[c] = ListWait /\ Loop \in PointOf(c) /\ Goto(c, Loop)
    BY Points DEF Before, Local, UsersReply
  <1>2. PICK r \in Polls(c) : Wanted(thread[c], r.pkt) /\ TakeOnly(c, r)
    BY DEF UsersReply
  <1>3. PICK k : Receives(c, r, k)
    BY <1>1, <1>2, ReadsWanted
  <1>4. inbox' = r.streams /\ Keep(c, <<>>) /\ UNCHANGED <<sess, status>>
    BY <1>2, <1>3 DEF TakeOnly, Receives
  <1>5. IsReply(r.pkt) /\ thread[c].at \notin E2EWaits
    BY <1>1, <1>2 DEF Wanted, ListWait, E2EWaits, IsReply
  <1> QED
    BY <1>1, <1>3, <1>4, <1>5, ReadKeeps

\* c takes one packet for nothing, or puts it on its queue.
LEMMA PassKeeps ==
    ASSUME Before, NEW c \in Users, NEW r \in Polls(c), inbox' = r.streams,
           UNCHANGED <<sess, status, thread>>,
           Keep(c, r.queue) \/ (Waiting(c) /\ ~Wanted(thread[c], r.pkt) /\ Keep(c, Append(r.queue, r.pkt)))
    PROVE  Kept
  <1>1. TypeOK /\ Calm(c) /\ thread[c] \in PointOf(c) /\ Goto(c, thread[c])
    BY Points, StayStep DEF Before, Local, Calm
  <1>2. Append(<<>>, r.pkt) = <<r.pkt>>
    OBVIOUS
  <1>3. CASE pktQueue[c] = <<>>
    <2>1. PICK k : Receives(c, r, k)
      BY <1>1, <1>3, FromSocket
    <2>2. PICK q : /\ Keep(c, q)
                   /\ q = <<>> \/ (Waiting(c) /\ \E m : q = <<m>> /\ ~Wanted(thread[c], m))
      <3>1. r.queue = <<>>
        BY <2>1 DEF Receives
      <3> QED
        BY <3>1, <1>2
    <2> QED
      BY <1>1, <2>1, <2>2, ReadKeeps
  <1>4. CASE pktQueue[c] # <<>>
    <2>1. /\ r.queue = <<>> /\ r.streams = inbox
          /\ Waiting(c) /\ ~Wanted(thread[c], r.pkt) /\ pktQueue[c] = <<r.pkt>>
      BY <1>1, <1>4, FromQueue DEF Calm
    <2>2. /\ pktQueue'[c] = <<>> \/ pktQueue'[c] = pktQueue[c]
          /\ \A x \in Users \ {c} : pktQueue'[x] = pktQueue[x]
      BY <2>1, <1>1, <1>2 DEF Keep, TypeOK, StreamsOK
    <2>3. Calm(c)'
      BY <2>1, <2>2, <1>1 DEF Calm, QueueOK, RepliesOK, NamedOK, Waiting, Running
    <2> QED
      BY <2>1, <2>2, <2>3, <1>1, IdleKeeps
  <1> QED
    BY <1>3, <1>4

\* A wait puts a packet it is not for on the queue.
LEMMA SetAsideKeeps == ASSUME Before, NEW c \in Users, SetAside(c) PROVE Kept
  BY PassKeeps DEF SetAside

\* A wait takes the nullptr the login wait left.
LEMMA SkipNullKeeps == ASSUME Before, NEW c \in Users, SkipNull(c) PROVE Kept
  BY PassKeeps DEF SkipNull, TakeOnly

\* No text that the drain loop takes fails to open.
LEMMA TextOpens ==
    ASSUME TypeOK, Exchange!SessionsOK, Links, NEW c \in Users, NEW p \in Users \ {c},
           Mode(c, p) = "no", NEW i \in From(inbox[c], p), inbox[c][i].kind = "TEXT"
    PROVE  Decrypt(sess[c][p], inbox[c][i].body) = "text"
  <1> DEFINE s == sess[c][p]
             b == inbox[c][i].body
  <1>1. Scene(c, p, s, sess[p][c], "no", Mode(p, c), inbox[c], inbox[p])
    BY Scenes
  <1>2. b.sealed => TextRight(inbox[c], p, i, s, "no")
    BY DEF Links, Link, Linked, Half, TextsRight
  <1>3. AcksOf(inbox[c], p) = {}
    BY DEF Links, Link, Linked, Half, AcksRight, AckRight, Attempting
  <1>4. b.sealed => /\ s.state = "ESTABLISHED" /\ s.seq = b.seq
                    /\ s.gen = b.peer /\ s.peer = b.gen
    BY <1>2, <1>3 DEF TextRight, Attempting
  <1>5. s.state = "ESTABLISHED" => s.peer # NoKey
    BY <1>1, SceneFields
  <1> QED
    BY <1>4, <1>5 DEF Decrypt, Opens, SameKey

\* The drain loop shows a text, which opens.
LEMMA DrainTextKeeps == ASSUME Before, NEW c \in Users, DrainText(c) PROVE Kept
  <1>1. TypeOK /\ QueueOK(c) /\ Draining(c) /\ thread[c] = Loop
    BY DEF Before, Local, DrainText, Draining
  <1>2. PICK r \in Polls(c) :
          /\ r.pkt.kind = "TEXT"
          /\ IF Decrypt(sess[c][r.pkt.from], r.pkt.body) = "throws"
             THEN Crash(c)
             ELSE TakeOnly(c, r) /\ UNCHANGED thread
    BY DEF DrainText
  <1>3. PICK k : Receives(c, r, k)
    BY <1>1, <1>2, ReadsWanted
  <1>4. TakeOnly(c, r) /\ UNCHANGED thread
    <2> DEFINE p == r.pkt.from
    <2>1. 1 \in From(inbox[c], p) /\ r.pkt = inbox[c][1]
      BY <1>2, <1>3 DEF Receives, From
    <2>2. p \in Users \ {c}
      BY <2>1, <1>2, <1>3, PacketFields DEF Receives, Before, Links, NoEcho
    <2>3. Mode(c, p) = "no"
      BY <1>1 DEF Mode, Loop, E2EWaits
    <2>4. Decrypt(sess[c][p], r.pkt.body) = "text"
      BY <2>1, <2>2, <2>3, <1>2, TextOpens DEF Before
    <2> QED
      BY <2>4, <1>2
  <1> QED
    BY <1>4, <1>2, PassKeeps DEF TakeOnly

-----------------------------------------------------------------------------
(* The steps of c that concern its session with z.                          *)
LEMMA EndsNext ==
    ASSUME Before, NEW c \in Users, NEW p \in Users \ {c}
    PROVE  /\ End(sess'[c][p]) /\ inbox'[c] \in Seq(Packets) /\ Stream(inbox'[c])
           /\ End(sess[c][p]) /\ inbox[c] \in Seq(Packets) /\ Stream(inbox[c])
  BY SeqIsStream DEF Before, TypeOK, StreamsOK, End, Exchange!SessionsOK

\* One session was replaced.
LEMMA Updates ==
    ASSUME TypeOK, NEW c \in Users, NEW z \in Users, NEW u, UpdateSession(c, z, u)
    PROVE  /\ sess'[c][z] = u
           /\ \A x, p \in Users : x # c \/ p # z => sess'[x][p] = sess[x][p]
  BY DEF TypeOK, UpdateSession

\* A step of c and z of the common form: c may read, and may post one packet to
\* z.
LEMMA PairKeeps ==
    ASSUME Before, NEW c \in Users, NEW z \in Users \ {c}, Link(c, z)',
           thread[c] # LoginWait, thread[c] # ListWait,
           thread[c].at \in E2EWaits => thread[c].peer = z,
           NEW t \in PointOf(c), Goto(c, t), t.at \in E2EWaits => t.peer = z,
           NamedOK(c)', UNCHANGED status,
           NEW u, UpdateSession(c, z, u) \/ UNCHANGED sess,
           inbox'[c] = inbox[c] \/ \E r, k : Receives(c, r, k) /\ inbox'[c] = r.streams[c],
           NEW m \in Packets, ~IsReply(m), m.from = c,
           inbox'[z] = inbox[z] \/ inbox'[z] = Append(inbox[z], m),
           \A x \in Users \ {c, z} : inbox'[x] = inbox[x],
           pktQueue'[c] = <<>>, \A x \in Users \ {c} : pktQueue'[x] = pktQueue[x]
    PROVE  Kept
  <1>1. TypeOK
    BY DEF Before
  <1>2. /\ \A x \in Users \ {c} : thread'[x] = thread[x] /\ \A p : Mode(x, p)' = Mode(x, p)
        /\ \A p : p # z => Mode(c, p)' = Mode(c, p)
    BY <1>1, Moves DEF Mode
  <1>3. ASSUME NEW x \in Users, NEW p \in Users \ {x}, <<x, p>> # <<c, z>>
        PROVE  sess'[x][p] = sess[x][p] /\ Mode(x, p)' = Mode(x, p)
    <2>1. sess'[x][p] = sess[x][p]
      <3>1. x # c \/ p # z
        BY <1>3
      <3> QED
        BY <3>1, <1>1, Updates
    <2>2. Mode(x, p)' = Mode(x, p)
      BY <1>2, <1>3
    <2> QED
      BY <2>1, <2>2
  <1>4. ASSUME NEW x \in Users, NEW p \in Users, <<x, p>> # <<c, z>>, <<x, p>> # <<z, c>>
        PROVE  Reads1(x, p)
    <2>1. inbox[x] \in Seq(Packets) /\ Past(inbox[x], inbox[x], p, 0) /\ 0 \in Nat
      BY <1>1, StreamsTyped
    <2>2. CASE inbox'[x] = inbox[x]
      BY <2>1, <2>2 DEF Reads1
    <2>3. CASE x = c /\ \E r, k : Receives(c, r, k) /\ inbox'[c] = r.streams[c]
      BY <2>3 DEF Receives, Reads1
    <2>4. CASE x = z /\ inbox'[z] = Append(inbox[z], m)
      <3>1. p # c
        BY <2>4, <1>4
      <3>2. Past(inbox'[x], inbox[x], p, 0)
        BY <2>1, <2>4, <3>1, AppendStreams
      <3> QED
        BY <2>1, <3>2 DEF Reads1
    <2> QED
      BY <2>2, <2>3, <2>4
  <1>5. Links'
    BY <1>3, <1>4, PairLinks
  <1>6. Calm(c)'
    <2>1. NoReply(inbox[c])
      BY RepliesElsewhere DEF Before, Local
    <2>2. NoReply(inbox'[c])
      BY <2>1, NoReplyLeft
    <2> QED
      BY <2>2, CalmNow
  <1>7. ASSUME NEW x \in Users \ {c} PROVE Calm(x)'
    <2>1. Calm(x) /\ thread'[x] = thread[x] /\ status'[x] = status[x] /\ pktQueue'[x] = pktQueue[x]
      BY <1>2 DEF Before, Local, Calm
    <2>2. CASE x = z
      BY <2>1, <2>2, <1>1, CalmElsewhere
    <2>3. CASE x # z
      BY <2>1, <2>3, CalmStill
    <2> QED
      BY <2>2, <2>3
  <1> QED
    BY <1>5, <1>6, <1>7 DEF Kept, Local, Calm

(* Initiate or refresh, and the INIT on its way. *)
LEMMA BeginKeeps ==
    ASSUME Before, NEW c \in Users, NEW z \in Users \ {c},
           thread[c] = Loop \/ (thread[c].at \notin E2EWaits /\ thread[c].at # "waitUntilAck"
                                /\ thread[c].at # "waitForType"),
           status[c] = "in", UNCHANGED <<pktQueue, status>>,
           NEW then \in {"report", "send", "encrypt"}, Goto(c, Wait("firstE2E", z, then)),
           NEW u, UpdateSession(c, z, u), u.state \in Sent, u.seq = sess[c][z].seq + 1,
           inbox' = Relay(inbox, z, InitPacket(c, u))
    PROVE  Kept
  <1> DEFINE t == Wait("firstE2E", z, then)
             m == InitPacket(c, u)
             e == Len(inbox[z]) + 1
  <1>1. TypeOK /\ z \in Users /\ c \in Users \ {z}
    BY DEF Before
  <1>2. t \in PointOf(c) /\ t.at = "firstE2E" /\ t.peer = z
    BY <1>1, Points DEF Wait, E2EWaits
  <1>3. /\ thread[c].at \notin E2EWaits /\ thread[c] # LoginWait /\ thread[c] # ListWait
        /\ ~Waiting(c)
    BY DEF Loop, LoginWait, ListWait, E2EWaits, Waiting
  <1>4. sess'[c][z] = u /\ sess'[z][c] = sess[z][c]
    BY <1>1 DEF UpdateSession, TypeOK
  <1>5. End(u) /\ u \in Session
    BY <1>4, EndsNext DEF End
  <1>6. m \in Packets /\ m.from = c /\ ~IsReply(m)
    BY <1>5, SentPackets, NotReplies
  <1>7. /\ inbox'[z] = inbox[z] \/ inbox'[z] = Append(inbox[z], m)
        /\ \A x \in Users \ {z} : inbox'[x] = inbox[x]
    BY <1>1, StreamsTyped DEF Relay
  <1>8. Adds(inbox'[z], inbox[z], c, m, e)
    <2>1. inbox[z] \in Seq(Packets)
      BY <1>1, EndsNext
    <2> HIDE DEF m
    <2>2. Adds(Append(inbox[z], m), inbox[z], c, m, e) /\ Adds(inbox[z], inbox[z], c, m, e)
      BY <2>1, <1>6, AppendStreams
    <2> QED
      BY <2>2, <1>7
  <1>9. Mode(c, z) = "no" /\ Mode(c, z)' = "firstE2E" /\ Mode(z, c)' = Mode(z, c)
    BY <1>1, <1>2, <1>3, Moves DEF Mode, E2EWaits
  <1>10. /\ Scene(c, z, sess[c][z], sess[z][c], "no", Mode(z, c), inbox[c], inbox[z])
         /\ Linked(c, z, sess[c][z], sess[z][c], "no", Mode(z, c), inbox[c], inbox[z])
    BY <1>9, Scenes DEF Before, Links, Link
  <1>11. Stream(inbox'[z])
    BY <1>1, EndsNext
  <1> HIDE DEF e, m, t
  <1>12. Linked(c, z, u, sess[z][c], "firstE2E", Mode(z, c), inbox[c], inbox'[z])
    BY <1>5, <1>8, <1>10, <1>11, Begins DEF m
  <1>13. Link(c, z)'
    BY <1>4, <1>7, <1>9, <1>12 DEF Link
  <1>14. NamedOK(c)' /\ pktQueue'[c] = <<>>
    <2>1. pktQueue[c] = <<>>
      BY <1>3, QueueEmpty
    <2> QED
      BY <2>1 DEF NamedOK
  <1>15. Goto(c, t)
    BY DEF t
  <1> QED
    BY <1>2, <1>3, <1>6, <1>7, <1>13, <1>14, <1>15, PairKeeps

\* What initiate and refresh make of a session.
LEMMA RefreshFields ==
    ASSUME NEW s \in Session, NEW now
    PROVE  /\ Refresh(s, now).state \in Sent /\ Refresh(s, now).seq = s.seq + 1
           /\ Initiate(s, now).state \in Sent /\ Initiate(s, now).seq = s.seq + 1
  BY DEF Session, Refresh, Rekeyed, Initiate, Sent

\* A stale session is renewed: the INIT is posted and c waits for the answer.
LEMMA BeginRefreshKeeps ==
    ASSUME Before, NEW c \in Users, NEW z \in Users \ {c},
           thread[c] = Loop \/ (thread[c].at \notin E2EWaits /\ thread[c].at # "waitUntilAck"
                                /\ thread[c].at # "waitForType"),
           status[c] = "in", UNCHANGED <<pktQueue, status>>,
           NEW then \in {"report", "send", "encrypt"}, BeginRefresh(c, z, then)
    PROVE  Kept
  <1>1. PICK now \in Clock[c] :
          LET u == Refresh(sess[c][z], now)
          IN  UpdateSession(c, z, u) /\ inbox' = Relay(inbox, z, InitPacket(c, u))
    BY DEF BeginRefresh
  <1> DEFINE u == Refresh(sess[c][z], now)
  <1>2. sess[c][z] \in Session
    BY DEF Before, TypeOK
  <1>3. u.state \in Sent /\ u.seq = sess[c][z].seq + 1
    BY <1>2, RefreshFields
  <1>4. UpdateSession(c, z, u) /\ inbox' = Relay(inbox, z, InitPacket(c, u))
    BY <1>1
  <1>5. Goto(c, Wait("firstE2E", z, then))
    BY DEF BeginRefresh
  <1> HIDE DEF u
  <1> QED
    BY <1>3, <1>4, <1>5, BeginKeeps

\* connectTo with a stale session.
LEMMA ConnectStaleKeeps ==
    ASSUME Before, NEW c \in Users, NEW p \in Users \ {c}, ConnectStale(c, p)
    PROVE  Kept
  BY BeginRefreshKeeps DEF ConnectStale, Request

\* An /e2e to a new peer.
LEMMA E2EBeginKeeps ==
    ASSUME Before, NEW c \in Users, NEW p \in Users \ {c}, E2EBegin(c, p)
    PROVE  Kept
  <1>1. PICK now \in Clock[c] :
          LET u == Initiate(sess[c][p], now)
          IN  UpdateSession(c, p, u) /\ inbox' = Relay(inbox, p, InitPacket(c, u))
    BY DEF E2EBegin
  <1> DEFINE u == Initiate(sess[c][p], now)
  <1>2. sess[c][p] \in Session
    BY DEF Before, TypeOK
  <1>3. u.state \in Sent /\ u.seq = sess[c][p].seq + 1
    BY <1>2, RefreshFields
  <1>4. UpdateSession(c, p, u) /\ inbox' = Relay(inbox, p, InitPacket(c, u))
    BY <1>1
  <1>5. /\ Goto(c, Wait("firstE2E", p, "report")) /\ thread[c] = Loop /\ status[c] = "in"
        /\ UNCHANGED <<pktQueue, status>>
    BY DEF E2EBegin, Request
  <1> HIDE DEF u
  <1> QED
    BY <1>3, <1>4, <1>5, BeginKeeps

\* Client::send finds the session stale.
LEMMA SendStaleKeeps == ASSUME Before, NEW c \in Users, SendStale(c) PROVE Kept
  <1>1. thread[c] \in PointOf(c) /\ thread[c].at = "send" /\ status[c] = "in"
    BY Points DEF SendStale, Before, Local, NamedOK
  <1>2. thread[c].peer \in Users \ {c}
    BY <1>1 DEF PointOf, Threads, Loop, LoginWait, ListWait, E2EWaits
  <1>3. BeginRefresh(c, thread[c].peer, "encrypt") /\ UNCHANGED <<pktQueue, status>>
    BY DEF SendStale
  <1>4. thread[c].at \notin E2EWaits /\ thread[c].at # "waitUntilAck" /\ thread[c].at # "waitForType"
    BY <1>1 DEF E2EWaits
  <1> QED
    BY <1>1, <1>2, <1>3, <1>4, BeginRefreshKeeps

\* A step of c and z that posts nothing.
LEMMA SilentKeeps ==
    ASSUME Before, NEW c \in Users, NEW z \in Users \ {c}, Link(c, z)',
           thread[c] # LoginWait, thread[c] # ListWait,
           thread[c].at \in E2EWaits => thread[c].peer = z,
           NEW t \in PointOf(c), Goto(c, t), t.at \in E2EWaits => t.peer = z,
           NamedOK(c)', UNCHANGED status,
           NEW u, UpdateSession(c, z, u) \/ UNCHANGED sess,
           inbox'[c] = inbox[c] \/ \E r, k : Receives(c, r, k) /\ inbox'[c] = r.streams[c],
           \A x \in Users \ {c} : inbox'[x] = inbox[x],
           pktQueue'[c] = <<>>, \A x \in Users \ {c} : pktQueue'[x] = pktQueue[x]
    PROVE  Kept
  <1> DEFINE m == InitPacket(c, sess[c][z])
  <1>1. sess[c][z] \in Session
    BY DEF Before, TypeOK
  <1>2. m \in Packets /\ m.from = c /\ ~IsReply(m)
    BY <1>1, SentPackets, NotReplies
  <1> HIDE DEF m
  <1> QED
    BY <1>2, PairKeeps

\* An /e2e to a peer c has a session with.
LEMMA E2EAgainKeeps ==
    ASSUME Before, NEW c \in Users, NEW p \in Users \ {c}, E2EAgain(c, p)
    PROVE  Kept
  <1> DEFINE t == Wait("firstE2E", p, "report")
  <1>1. TypeOK /\ thread[c] = Loop /\ status[c] = "in" /\ sess[c][p].state # "UNINITIALIZED"
    BY DEF Before, E2EAgain, Request
  <1>2. t \in PointOf(c) /\ t.at = "firstE2E" /\ t.peer = p
    BY <1>1, Points DEF Wait, E2EWaits
  <1>3. /\ thread[c].at \notin E2EWaits /\ thread[c] # LoginWait /\ thread[c] # ListWait
        /\ ~Waiting(c)
    BY <1>1 DEF Loop, LoginWait, ListWait, E2EWaits, Waiting
  <1>4. UNCHANGED <<sess, inbox, pktQueue, status>> /\ Goto(c, t)
    BY DEF E2EAgain
  <1> HIDE DEF t
  <1>5. Mode(c, p) = "no" /\ Mode(c, p)' = "firstE2E" /\ Mode(p, c)' = Mode(p, c)
    BY <1>1, <1>2, <1>3, <1>4, Moves DEF Mode, E2EWaits
  <1>6. /\ Scene(c, p, sess[c][p], sess[p][c], "no", Mode(p, c), inbox[c], inbox[p])
        /\ Linked(c, p, sess[c][p], sess[p][c], "no", Mode(p, c), inbox[c], inbox[p])
    BY <1>5, Scenes DEF Before, Links, Link
  <1>7. Linked(c, p, sess[c][p], sess[p][c], "firstE2E", Mode(p, c), inbox[c], inbox[p])
    BY <1>1, <1>6, WaitingAgain
  <1>8. Link(c, p)'
    BY <1>4, <1>5, <1>7 DEF Link
  <1>9. NamedOK(c)' /\ pktQueue'[c] = <<>>
    BY <1>1, <1>3, <1>4, QueueEmpty DEF NamedOK
  <1> QED
    BY <1>2, <1>3, <1>4, <1>8, <1>9, SilentKeeps

\* A text is encrypted and posted.
LEMMA TransmitKeeps ==
    ASSUME Before, NEW c \in Users, NEW z \in Users \ {c},
           thread[c].at \in {"send", "encrypt"}, Transmit(c, z)
    PROVE  Kept
  <1> DEFINE s == sess[c][z]
             m == Text(c, s)
             e == Len(inbox[z]) + 1
  <1>1. TypeOK /\ z \in Users /\ c \in Users \ {z}
    BY DEF Before
  <1>2. Loop \in PointOf(c) /\ Loop.at \notin E2EWaits \cup {"send", "encrypt"} /\ Goto(c, Loop)
    BY <1>1, Points DEF Transmit, Loop, E2EWaits
  <1>3. /\ thread[c].at \notin E2EWaits /\ thread[c] # LoginWait /\ thread[c] # ListWait
        /\ ~Waiting(c)
    BY DEF LoginWait, ListWait, E2EWaits, Waiting
  <1>4. UNCHANGED <<sess, pktQueue, status>> /\ inbox' = Relay(inbox, z, m)
    BY DEF Transmit
  <1>5. s \in Session
    BY <1>1 DEF TypeOK
  <1>6. m \in Packets /\ m.from = c /\ ~IsReply(m)
    BY <1>5, SentPackets, NotReplies DEF Text
  <1>7. Stream(inbox'[z]) /\ inbox[z] \in Seq(Packets)
    BY <1>1, EndsNext
  <1>8. Mode(c, z) = "no" /\ Mode(c, z)' = "no" /\ Mode(z, c)' = Mode(z, c)
    BY <1>1, <1>2, <1>3, Moves DEF Mode
  <1>9. /\ Scene(c, z, s, sess[z][c], "no", Mode(z, c), inbox[c], inbox[z])
        /\ Linked(c, z, s, sess[z][c], "no", Mode(z, c), inbox[c], inbox[z])
    BY <1>8, Scenes DEF Before, Links, Link
  <1> HIDE DEF e, m
  <1>10. /\ inbox'[z] = inbox[z] \/ inbox'[z] = Append(inbox[z], m)
         /\ \A x \in Users \ {z} : inbox'[x] = inbox[x]
    BY <1>1, <1>4, StreamsTyped DEF Relay
  <1>11. Adds(inbox'[z], inbox[z], c, m, e)
    <2>1. Adds(Append(inbox[z], m), inbox[z], c, m, e) /\ Adds(inbox[z], inbox[z], c, m, e)
      BY <1>6, <1>7, AppendStreams DEF e
    <2> QED
      BY <2>1, <1>10
  <1>12. Linked(c, z, s, sess[z][c], "no", Mode(z, c), inbox[c], inbox'[z])
    BY <1>7, <1>9, <1>11, Texting DEF m
  <1>13. Link(c, z)'
    BY <1>4, <1>8, <1>10, <1>12 DEF Link
  <1>14. NamedOK(c)' /\ pktQueue'[c] = <<>>
    <2>1. thread'[c] = Loop
      BY <1>1, <1>2, Moves
    <2>2. pktQueue[c] = <<>>
      BY <1>3, QueueEmpty
    <2> QED
      BY <2>1, <2>2, <1>2, <1>4 DEF NamedOK, Before, Local
  <1> QED
    BY <1>2, <1>3, <1>4, <1>6, <1>10, <1>13, <1>14, PairKeeps

\* The peer of a thread that deals with one is another user.
LEMMA SendPeer ==
    ASSUME TypeOK, NEW c \in Users, thread[c].at \in E2EWaits \cup {"send", "encrypt"}
    PROVE  thread[c].peer \in Users \ {c}
  <1>1. thread[c] \in PointOf(c)
    BY Points
  <1> QED
    BY <1>1 DEF PointOf, Threads, Loop, LoginWait, ListWait, E2EWaits

\* Client::send with a fresh session, or a renewed one.
LEMMA SendKeeps ==
    ASSUME Before, NEW c \in Users, Send(c) \/ SendRenewed(c)
    PROVE  Kept
  <1>1. thread[c].at \in {"send", "encrypt"} /\ Transmit(c, thread[c].peer)
    BY DEF Send, SendRenewed
  <1> QED
    BY <1>1, SendPeer, TransmitKeeps DEF Before

-----------------------------------------------------------------------------
(* c takes an INIT of z and accepts it, in its wait or in the drain loop.   *)
LEMMA HandledFields ==
    ASSUME NEW s \in Session, NEW m
    PROVE  LET u == HandleInit(s, m)
           IN  u.state = "ESTABLISHED" /\ u.seq = m.seq /\ u.ts = m.ts /\ u.peer = m.gen
  <1>1. /\ s.seq \in Nat /\ s.gen \in Nat /\ s.gen + 1 \in Nat /\ s.gen + 1 # 0
        /\ s.peer \in PeerKey /\ s.gen \in Generation
    BY DEF Session, Generation
  <1>2. Rekeyed(s) \in Session
    BY <1>1 DEF Session, Generation, PeerKey, Rekeyed, NoKey
  <1> DEFINE t == IF s.state = "ESTABLISHED" THEN Rekeyed(s) ELSE s
  <1>3. t \in Session
    BY <1>2
  <1> HIDE DEF t
  <1>4. LET u == [t EXCEPT !.state = "ESTABLISHED", !.peer = m.gen, !.ts = m.ts, !.seq = m.seq]
        IN  u.state = "ESTABLISHED" /\ u.seq = m.seq /\ u.ts = m.ts /\ u.peer = m.gen
    BY <1>3 DEF Session
  <1> QED
    BY <1>4 DEF t, HandleInit

\* c accepts an INIT of z and posts the ACK.
LEMMA AcceptKeeps ==
    ASSUME Before, NEW c \in Users, NEW z \in Users \ {c}, NEW r, NEW k,
           Receives(c, r, k), r.pkt.kind = "INIT", r.pkt.from = z,
           Accepts(sess[c][z], r.pkt), AcceptInit(c, r),
           Mode(c, z) # "secondE2E", thread[c] # LoginWait, thread[c] # ListWait,
           thread[c].at \in E2EWaits => thread[c].peer = z,
           NEW to \in PointOf(c), Goto(c, to), to.at \notin E2EWaits, NamedOK(c)'
    PROVE  Kept
  <1> DEFINE s == sess[c][z]
             t == sess[z][c]
             w == Mode(c, z)
             x == Mode(z, c)
             u == HandleInit(s, r.pkt)
             m == AckPacket(c, u)
             e == Len(inbox[z]) + 1
  <1>1. TypeOK /\ z \in Users /\ c \in Users \ {z}
    BY DEF Before
  <1>2. /\ UpdateSession(c, z, u) /\ inbox' = Relay(r.streams, z, m)
        /\ Keep(c, r.queue) /\ UNCHANGED status
    BY DEF AcceptInit
  <1>3. sess'[c][z] = u /\ sess'[z][c] = t
    <2> HIDE DEF u
    <2> QED
      BY <1>1, <1>2, Updates
  <1>4. End(u) /\ u \in Session
    BY <1>3, EndsNext DEF End
  <1>5. m \in Packets /\ m.from = c /\ ~IsReply(m)
    BY <1>4, SentPackets, NotReplies
  <1>6. u.state = "ESTABLISHED" /\ u.seq = r.pkt.seq /\ u.ts = r.pkt.ts /\ u.peer = r.pkt.gen
    <2>1. s \in Session
      BY <1>1 DEF TypeOK
    <2> QED
      BY <2>1, HandledFields
  <1> HIDE DEF u
  <1>7. /\ Scene(c, z, s, t, w, x, inbox[c], inbox[z])
        /\ Linked(c, z, s, t, w, x, inbox[c], inbox[z])
    BY Scenes DEF Before, Links, Link
  <1>8. /\ 1 \in InitsOf(inbox[c], z) /\ r.pkt = inbox[c][1] /\ k \in Nat /\ 1 <= k
        /\ Past(r.streams[c], inbox[c], z, k) /\ Stream(r.streams[c])
    BY SeqIsStream DEF Receives, InitsOf, From
  <1>9. /\ Stream(inbox'[z]) /\ inbox[z] \in Seq(Packets)
        /\ r.streams[z] = inbox[z] /\ r.streams \in [Users -> Seq(Packets)]
    BY <1>1, EndsNext DEF Receives
  <1>10. Attempting(t, x) => status[z] = "in"
    BY DEF Attempting, Mode, Before, Local, NamedOK
  <1> HIDE DEF m, e
  <1>11. /\ inbox'[z] = IF status[z] = "in" THEN Append(inbox[z], m) ELSE inbox[z]
         /\ inbox'[c] = r.streams[c]
         /\ \A y \in Users \ {c, z} : inbox'[y] = inbox[y]
    BY <1>1, <1>2, <1>9 DEF Relay, Receives
  <1> DEFINE new == Append(inbox[z], m)
  <1>12. Adds(new, inbox[z], c, m, e) /\ e \in From(new, c) /\ new[e] = m /\ Stream(new)
    <2>1. m.kind \in {"INIT", "ACK", "TEXT"}
      BY DEF m, AckPacket
    <2>2. Adds(new, inbox[z], c, m, Len(inbox[z]) + 1) /\ new[Len(inbox[z]) + 1] = m
      BY <1>5, <1>9, AppendStreams
    <2>3. Len(inbox[z]) + 1 \in From(new, c)
      BY <2>1, <1>5, <1>9, AppendStreams
    <2>4. new \in Seq(Packets)
      BY <1>5, <1>9, AppendStreams
    <2>5. Stream(new)
      BY <2>4, SeqIsStream
    <2> QED
      BY <2>2, <2>3, <2>5 DEF e
  <1> HIDE DEF new
  <1>13. Attempting(t, x) /\ Linked(c, z, u, t, "no", x, r.streams[c], new)
    BY <1>4, <1>6, <1>7, <1>8, <1>12, Accepting DEF m
  <1>14. inbox'[z] = new
    BY <1>10, <1>11, <1>13 DEF new
  <1>15. Mode(c, z)' = "no" /\ Mode(z, c)' = x
    BY <1>1, Moves
  <1>16. Link(c, z)'
    BY <1>3, <1>11, <1>13, <1>14, <1>15 DEF Link
  <1>17. pktQueue'[c] = <<>> /\ \A y \in Users \ {c} : pktQueue'[y] = pktQueue[y]
    BY <1>1, <1>2 DEF Keep, Receives, TypeOK, StreamsOK
  <1> QED
    BY <1>2, <1>5, <1>11, <1>14, <1>16, <1>17, PairKeeps DEF new

(* c leaves its wait, or begins the second, with the packet it waited for:  *)
(* its stream shrinks, its session may change, and it posts nothing.        *)
LEMMA WaitKeeps ==
    ASSUME Before, NEW c \in Users, NEW z \in Users \ {c},
           thread[c].at \in E2EWaits, thread[c].peer = z,
           NEW r, NEW k, Receives(c, r, k), inbox' = r.streams, Keep(c, r.queue), UNCHANGED status,
           NEW u, UpdateSession(c, z, u) \/ UNCHANGED sess,
           NEW t \in PointOf(c), Goto(c, t), t.at \in E2EWaits => t.peer = z, Link(c, z)'
    PROVE  Kept
  <1>1. TypeOK
    BY DEF Before
  <1>2. thread[c] # LoginWait /\ thread[c] # ListWait
    BY DEF LoginWait, ListWait, E2EWaits
  <1>3. inbox'[c] = r.streams[c] /\ \A x \in Users \ {c} : inbox'[x] = inbox[x]
    BY StreamsRead
  <1>4. pktQueue'[c] = <<>> /\ \A x \in Users \ {c} : pktQueue'[x] = pktQueue[x]
    BY <1>1 DEF Keep, Receives, TypeOK, StreamsOK
  <1>5. NamedOK(c)'
    BY DEF NamedOK, Before, Local
  <1> QED
    BY <1>2, <1>3, <1>4, <1>5, SilentKeeps

(* setupE2E returns, to a point that is no wait. *)
LEMMA ReturnKeeps ==
    ASSUME Before, NEW c \in Users, NEW z \in Users \ {c},
           thread[c].at \in E2EWaits, thread[c].peer = z,
           NEW r, NEW k, Receives(c, r, k), inbox' = r.streams, Keep(c, r.queue), UNCHANGED status,
           NEW u, UpdateSession(c, z, u) \/ (UNCHANGED sess /\ u = sess[c][z]), Return(c),
           Linked(c, z, u, sess[z][c], "no", Mode(z, c), r.streams[c], inbox[z])
    PROVE  Kept
  <1>1. TypeOK /\ z \in Users /\ c \in Users \ {z}
    BY DEF Before
  <1>2. PICK t \in PointOf(c) : Goto(c, t)
    BY <1>1, ReturnPoint
  <1>3. Mode(z, c)' = Mode(z, c) /\ \A p : Mode(c, p)' = "no"
    BY <1>1, Leaves
  <1>4. t.at \notin E2EWaits
    <2>1. t.at \in E2EWaits => Mode(c, t.peer)' = "no" /\ thread'[c] = t
      BY <1>1, <1>2, <1>3, Moves
    <2> QED
      BY <2>1 DEF Mode, E2EWaits
  <1>5. sess'[c][z] = u /\ sess'[z][c] = sess[z][c]
    BY <1>1, Updates
  <1>6. inbox'[c] = r.streams[c] /\ inbox'[z] = inbox[z]
    BY <1>1, StreamsRead
  <1>7. Link(c, z)'
    BY <1>3, <1>5, <1>6 DEF Link
  <1> QED
    BY <1>2, <1>4, <1>7, WaitKeeps

(* An ACK ends the wait of c, and its attempt. *)
LEMMA EitherAckKeeps == ASSUME Before, NEW c \in Users, EitherAck(c) PROVE Kept
  <1> DEFINE z == thread[c].peer
             s == sess[c][z]
  <1>1. TypeOK /\ thread[c].at \in E2EWaits /\ z \in Users \ {c} /\ z \in Users
    BY SendPeer DEF EitherAck, Before
  <1>2. PICK r \in Polls(c) :
          /\ Wanted(thread[c], r.pkt) /\ r.pkt.kind = "ACK"
          /\ IF AckApplies(s, r.pkt.seq) /\ EstablishThrows(s)
             THEN Crash(c)
             ELSE ApplyAck(c, r, r.pkt.from, r.pkt.seq, r.pkt.gen) /\ Return(c)
    BY DEF EitherAck
  <1>3. r.pkt.from = z
    BY <1>1, <1>2 DEF Wanted, E2EWaits
  <1>4. PICK k : Receives(c, r, k)
    BY <1>1, <1>2, ReadsWanted DEF Before, Local
  <1> DEFINE t == sess[z][c]
             w == Mode(c, z)
             x == Mode(z, c)
             u == HandleAck(s, r.pkt.gen)
  <1>5. /\ Scene(c, z, s, t, w, x, inbox[c], inbox[z])
        /\ Linked(c, z, s, t, w, x, inbox[c], inbox[z])
    BY <1>1, Scenes DEF Before, Links, Link
  <1>6. ~EstablishThrows(s)
    BY <1>5, SceneFields
  <1>7. /\ 1 \in AcksOf(inbox[c], z) /\ r.pkt = inbox[c][1] /\ k \in Nat /\ 1 <= k
        /\ Past(r.streams[c], inbox[c], z, k) /\ Stream(r.streams[c])
    <2>1. r.streams[c] \in Seq(Packets)
      BY <1>4 DEF Receives
    <2> QED
      BY <1>2, <1>3, <1>4, <2>1, SeqIsStream DEF Receives, AcksOf, From
  <1>8. ApplyAck(c, r, z, r.pkt.seq, r.pkt.gen) /\ Return(c)
    BY <1>2, <1>3, <1>6
  <1>9. AckApplies(s, r.pkt.seq)
    BY <1>5, <1>7 DEF Linked, Half, AcksRight, AckRight, Attempting, AckApplies
  <1>10. UpdateSession(c, z, u) /\ inbox' = r.streams /\ Keep(c, r.queue) /\ UNCHANGED status
    BY <1>8, <1>9 DEF ApplyAck
  <1>11. End(u)
    <2>1. sess'[c][z] = u
      BY <1>1, <1>10, Updates
    <2> QED
      BY <1>1, <2>1, EndsNext
  <1>12. Linked(c, z, u, t, "no", x, r.streams[c], inbox[z])
    <2> HIDE DEF z, s, t, w, x
    <2> QED
      BY <1>5, <1>7, <1>11, Answered
  <1> HIDE DEF z, s, u
  <1> QED
    BY <1>1, <1>4, <1>8, <1>10, <1>12, ReturnKeeps DEF z

(* What a wait of c does with an INIT of the user it waits for. *)
LEMMA InitTaken ==
    ASSUME Before, NEW c \in Users, NEW z \in Users \ {c}, NEW r \in Polls(c), NEW k,
           Receives(c, r, k), r.pkt.kind = "INIT", r.pkt.from = z
    PROVE  /\ Scene(c, z, sess[c][z], sess[z][c], Mode(c, z), Mode(z, c), inbox[c], inbox[z])
           /\ Linked(c, z, sess[c][z], sess[z][c], Mode(c, z), Mode(z, c), inbox[c], inbox[z])
           /\ 1 \in InitsOf(inbox[c], z) /\ r.pkt = inbox[c][1] /\ k \in Nat /\ 1 <= k
           /\ Past(r.streams[c], inbox[c], z, k) /\ Stream(r.streams[c])
           /\ ~EstablishThrows(sess[c][z])
  <1>1. /\ Scene(c, z, sess[c][z], sess[z][c], Mode(c, z), Mode(z, c), inbox[c], inbox[z])
        /\ Linked(c, z, sess[c][z], sess[z][c], Mode(c, z), Mode(z, c), inbox[c], inbox[z])
    BY Scenes DEF Before, Links, Link
  <1>2. ~EstablishThrows(sess[c][z])
    BY <1>1, SceneFields
  <1>3. r.streams[c] \in Seq(Packets)
    BY DEF Receives
  <1>4. Stream(r.streams[c])
    BY <1>3, SeqIsStream
  <1>5. 1 \in InitsOf(inbox[c], z) /\ r.pkt = inbox[c][1] /\ k \in Nat /\ 1 <= k
    BY DEF Receives, InitsOf, From
  <1>6. Past(r.streams[c], inbox[c], z, k)
    BY DEF Receives
  <1> QED
    BY <1>1, <1>2, <1>4, <1>5, <1>6

(* The second wait takes an INIT for an ACK. *)
LEMMA SecondInitKeeps == ASSUME Before, NEW c \in Users, SecondInit(c) PROVE Kept
  <1> DEFINE z == thread[c].peer
             s == sess[c][z]
             t == sess[z][c]
             x == Mode(z, c)
  <1>1. /\ TypeOK /\ thread[c].at = "secondE2E" /\ thread[c].at \in E2EWaits
        /\ z \in Users \ {c} /\ z \in Users /\ Mode(c, z) = "secondE2E"
    BY SendPeer DEF SecondInit, Before, E2EWaits, Mode
  <1>2. PICK r \in Polls(c), lucky \in BOOLEAN :
          /\ Wanted(thread[c], r.pkt) /\ r.pkt.kind = "INIT"
          /\ IF lucky /\ s.state \in Sent /\ EstablishThrows(s)
             THEN Crash(c)
             ELSE /\ IF lucky
                     THEN ApplyAck(c, r, r.pkt.from, s.seq, BogusKey)
                     ELSE TakeOnly(c, r)
                  /\ Return(c)
    BY DEF SecondInit
  <1>3. r.pkt.from = z
    BY <1>1, <1>2 DEF Wanted, E2EWaits
  <1>4. PICK k : Receives(c, r, k)
    BY <1>1, <1>2, ReadsWanted DEF Before, Local
  <1>5. /\ Scene(c, z, s, t, "secondE2E", x, inbox[c], inbox[z])
        /\ Linked(c, z, s, t, "secondE2E", x, inbox[c], inbox[z])
        /\ 1 \in InitsOf(inbox[c], z) /\ r.pkt = inbox[c][1] /\ k \in Nat /\ 1 <= k
        /\ Past(r.streams[c], inbox[c], z, k) /\ Stream(r.streams[c])
        /\ ~EstablishThrows(s)
    BY <1>1, <1>2, <1>3, <1>4, InitTaken
  <1> DEFINE u == IF lucky /\ s.state \in Sent THEN HandleAck(s, BogusKey) ELSE s
  <1>6. /\ UpdateSession(c, z, u) \/ (UNCHANGED sess /\ u = s)
        /\ inbox' = r.streams /\ Keep(c, r.queue) /\ UNCHANGED status /\ Return(c)
    BY <1>2, <1>3, <1>5 DEF ApplyAck, TakeOnly, AckApplies
  <1>7. End(u)
    <2>1. sess'[c][z] = u
      <3> HIDE DEF u
      <3> QED
        BY <1>1, <1>6, Updates
    <2> QED
      BY <1>1, <2>1, EndsNext
  <1>8. u = s \/ (s.state \in Sent /\ u = HandleAck(s, BogusKey))
    OBVIOUS
  <1>9. Linked(c, z, u, t, "no", x, r.streams[c], inbox[z])
    <2> HIDE DEF z, s, t, x, u
    <2> QED
      BY <1>5, <1>7, <1>8, Garbled
  <1> HIDE DEF z, u
  <1> QED
    BY <1>1, <1>4, <1>6, <1>9, ReturnKeeps DEF z

(* The first wait accepts an INIT and returns, or waits for a second answer. *)
LEMMA FirstInitKeeps == ASSUME Before, NEW c \in Users, FirstInit(c) PROVE Kept
  <1>a. TypeOK /\ thread[c].at = "firstE2E" /\ thread[c].at \in E2EWaits
    BY DEF FirstInit, Before, E2EWaits
  <1>b. PICK z \in Users \ {c} : z = thread[c].peer
    BY <1>a, SendPeer
  <1> DEFINE s == sess[c][z]
             t == sess[z][c]
             x == Mode(z, c)
  <1>1. /\ TypeOK /\ thread[c].at = "firstE2E" /\ thread[c].at \in E2EWaits
        /\ z \in Users \ {c} /\ z \in Users /\ c \in Users \ {z} /\ Mode(c, z) = "firstE2E"
    BY <1>a, <1>b DEF Mode
  <1>2. PICK r \in Polls(c) :
          /\ Wanted(thread[c], r.pkt) /\ r.pkt.kind = "INIT"
          /\ IF ~Accepts(s, r.pkt)
             THEN /\ TakeOnly(c, r)
                  /\ Goto(c, [thread[c] EXCEPT !.at = "secondE2E"])
             ELSE IF EstablishThrows(s) THEN Crash(c) ELSE AcceptInit(c, r) /\ Return(c)
    BY <1>b DEF FirstInit
  <1>3. r.pkt.from = z
    BY <1>1, <1>2, <1>b DEF Wanted, E2EWaits
  <1>4. PICK k : Receives(c, r, k)
    BY <1>1, <1>2, ReadsWanted DEF Before, Local
  <1>5. /\ Scene(c, z, s, t, "firstE2E", x, inbox[c], inbox[z])
        /\ Linked(c, z, s, t, "firstE2E", x, inbox[c], inbox[z])
        /\ 1 \in InitsOf(inbox[c], z) /\ r.pkt = inbox[c][1] /\ k \in Nat /\ 1 <= k
        /\ Past(r.streams[c], inbox[c], z, k) /\ Stream(r.streams[c])
        /\ ~EstablishThrows(s)
    BY <1>1, <1>2, <1>3, <1>4, InitTaken
  <1>6. CASE ~Accepts(s, r.pkt)
    <2> DEFINE to == [thread[c] EXCEPT !.at = "secondE2E"]
    <2>1. to \in PointOf(c) /\ to.at = "secondE2E" /\ to.peer = z /\ to.at \in E2EWaits
      BY <1>1, <1>b, Points DEF PointOf, Threads, Loop, LoginWait, ListWait, E2EWaits
    <2>2. /\ UNCHANGED sess /\ Goto(c, to) /\ inbox' = r.streams /\ Keep(c, r.queue)
          /\ UNCHANGED status
      BY <1>2, <1>6 DEF TakeOnly
    <2>3. Linked(c, z, s, t, "secondE2E", x, r.streams[c], inbox[z])
      <3> HIDE DEF s, t, x
      <3> QED
        BY <1>5, <1>6, Refusing
    <2>4. Mode(c, z)' = "secondE2E" /\ Mode(z, c)' = x
      <3> HIDE DEF to, x
      <3> QED
        BY <1>1, <2>1, <2>2, Moves DEF x
    <2>5. inbox'[c] = r.streams[c] /\ inbox'[z] = inbox[z]
      BY <1>1, <1>4, <2>2, StreamsRead
    <2>6. Linked(c, z, sess'[c][z], sess'[z][c], "secondE2E", Mode(z, c)', inbox'[c], inbox'[z])
      BY <2>2, <2>3, <2>4, <2>5
    <2> HIDE DEF to
    <2>7. Link(c, z)'
      BY <2>4, <2>6 DEF Link
    <2> QED
      BY <1>1, <1>b, <1>4, <2>1, <2>2, <2>7, WaitKeeps
  <1>7. CASE Accepts(s, r.pkt)
    <2>1. AcceptInit(c, r) /\ Return(c)
      BY <1>2, <1>5, <1>7
    <2>2. PICK to \in PointOf(c) : Goto(c, to)
      BY <1>1, <2>1, ReturnPoint
    <2>3. to.at \notin E2EWaits
      <3>1. \A p : Mode(c, p)' = "no"
        BY <1>1, <2>1, Leaves
      <3>2. thread'[c] = to
        BY <1>1, <2>2, Moves
      <3> QED
        BY <3>1, <3>2 DEF Mode, E2EWaits
    <2>4. NamedOK(c)'
      BY <1>1, <2>1 DEF AcceptInit, NamedOK, Before, Local
    <2>5. thread[c] # LoginWait /\ thread[c] # ListWait
      BY <1>1 DEF LoginWait, ListWait
    <2> QED
      BY <1>1, <1>2, <1>3, <1>4, <1>7, <2>1, <2>2, <2>3, <2>4, <2>5, <1>b, AcceptKeeps
  <1> QED
    BY <1>6, <1>7

(* The drain loop takes an INIT of any user; an ACK never gets there. *)
LEMMA DrainE2EKeeps == ASSUME Before, NEW c \in Users, DrainE2E(c) PROVE Kept
  <1>1. TypeOK /\ Draining(c) /\ thread[c] = Loop
    BY DEF DrainE2E, Before, Draining
  <1>2. PICK r \in Polls(c) :
          /\ IsE2E(r.pkt)
          /\ LET s == sess[c][r.pkt.from]
                 applies == IF r.pkt.kind = "INIT" THEN Accepts(s, r.pkt)
                            ELSE AckApplies(s, r.pkt.seq)
             IN  IF applies /\ EstablishThrows(s)
                 THEN Crash(c)
                 ELSE /\ IF r.pkt.kind = "ACK"
                         THEN ApplyAck(c, r, r.pkt.from, r.pkt.seq, r.pkt.gen)
                         ELSE IF applies THEN AcceptInit(c, r) ELSE TakeOnly(c, r)
                      /\ UNCHANGED thread
    BY DEF DrainE2E
  <1> DEFINE z == r.pkt.from
             s == sess[c][z]
  <1>3. z \in Users \ {c} /\ z \in Users
    BY <1>1, <1>2, ControlTaken
  <1>4. PICK k : Receives(c, r, k)
    BY <1>1, <1>2, ReadsWanted DEF Before, Local
  <1>5. Mode(c, z) = "no" /\ thread[c].at \notin E2EWaits
    BY <1>1 DEF Mode, Loop, E2EWaits
  <1>6. r.pkt.kind = "INIT"
    <2>1. /\ Scene(c, z, s, sess[z][c], Mode(c, z), Mode(z, c), inbox[c], inbox[z])
          /\ Linked(c, z, s, sess[z][c], Mode(c, z), Mode(z, c), inbox[c], inbox[z])
      BY <1>1, <1>3, Scenes DEF Before, Links, Link
    <2>2. ~Attempting(s, Mode(c, z))
      BY <1>5 DEF Attempting
    <2>3. AcksOf(inbox[c], z) = {}
      <3> HIDE DEF z, s
      <3> QED
        BY <2>1, <2>2, Ahead
    <2>4. r.pkt.kind # "ACK"
      BY <1>4, <2>3 DEF Receives, AcksOf, From
    <2> QED
      BY <1>2, <2>4 DEF IsE2E
  <1>7. ~EstablishThrows(s)
    BY <1>3, <1>4, <1>6, InitTaken
  <1>8. thread[c] \in PointOf(c) /\ (UNCHANGED thread => Goto(c, thread[c]))
    BY <1>1, Points, StayStep
  <1>9. CASE ~Accepts(s, r.pkt)
    BY <1>2, <1>6, <1>9, PassKeeps DEF TakeOnly
  <1>10. CASE Accepts(s, r.pkt)
    <2>1. AcceptInit(c, r) /\ UNCHANGED thread
      BY <1>2, <1>6, <1>7, <1>10
    <2>2. NamedOK(c)'
      BY <2>1 DEF AcceptInit, NamedOK, Before, Local
    <2>3. thread[c] # LoginWait /\ thread[c] # ListWait /\ Mode(c, z) # "secondE2E"
      BY <1>1, <1>5 DEF LoginWait, ListWait, Loop
    <2> HIDE DEF z
    <2> QED
      BY <1>3, <1>4, <1>5, <1>6, <1>8, <1>10, <2>1, <2>2, <2>3, AcceptKeeps DEF z
  <1> QED
    BY <1>9, <1>10

-----------------------------------------------------------------------------
(* Nothing is awaited and no packet is on its way when the clients start.   *)
LEMMA OrderAtFirst == Init => Local /\ Links
  <1> SUFFICES ASSUME Init PROVE Local /\ Links
    OBVIOUS
  <1>1. \A c \in Users : inbox[c] = <<>> /\ pktQueue[c] = <<>> /\ thread[c] = Loop
                         /\ status[c] \in {"connected", "in"}
    BY DEF Init
  <1>2. DOMAIN <<>> = {} /\ \A p : From(<<>>, p) = {}
    BY DEF From
  <1>3. \A c \in Users : Calm(c)
    BY <1>1, <1>2 DEF Calm, QueueOK, RepliesOK, NamedOK, Loop, E2EWaits
  <1>4. NoEcho
    BY <1>1, <1>2 DEF NoEcho
  <1>5. \A c, p \in Users : Mode(c, p) = "no" /\ sess[c][p] = NewSession
    BY <1>1 DEF Init, Mode, Loop, E2EWaits
  <1>6. ASSUME NEW c, NEW p
        PROVE  Linked(c, p, NewSession, NewSession, "no", "no", <<>>, <<>>)
    <2>1. \A x, y : Half(x, y, NewSession, NewSession, "no", "no", <<>>, <<>>)
      BY <1>2 DEF Half, Numbered, InitsRight, AcksRight, Settled, TextsRight, Lockstep,
                  InitsOf, AcksOf, Attempting, NewSession, Sent
    <2> QED
      BY <2>1 DEF Linked
  <1>7. ASSUME NEW c \in Users, NEW p \in Users \ {c} PROVE Link(c, p)
    BY <1>1, <1>5, <1>6 DEF Link
  <1> QED
    BY <1>3, <1>4, <1>7 DEF Local, Calm, Links

(* Every step of a client keeps what holds of its stream and its peers'.    *)
LEMMA OrderStep == Before /\ [Next]_vars => Kept
  <1> SUFFICES ASSUME Before, [Next]_vars PROVE Kept
    OBVIOUS
  <1>1. CASE UNCHANGED vars
    <2>1. \A c, p : Mode(c, p)' = Mode(c, p)
      BY <1>1 DEF vars, Mode
    <2>2. Links'
      BY <1>1, <2>1 DEF vars, Before, Links, Link, NoEcho
    <2>3. Local'
      BY <1>1 DEF vars, Before, Local, QueueOK, RepliesOK, NamedOK, Waiting, Running
    <2> QED
      BY <2>2, <2>3 DEF Kept
  <1>2. ASSUME NEW c \in Users, Requests(c) PROVE Kept
    <2>1. ASSUME NEW p \in Users \ {c},
                 Connect(c, p) \/ ConnectStale(c, p) \/ E2EBegin(c, p) \/ E2EAgain(c, p)
          PROVE  Kept
      BY <2>1, ConnectKeeps, ConnectStaleKeeps, E2EBeginKeeps, E2EAgainKeeps
    <2> QED
      BY <1>2, <2>1, LoginKeeps, GetUsersKeeps, QuitKeeps DEF Requests
  <1>3. ASSUME NEW c \in Users, Reads(c) PROVE Kept
    BY <1>3, LoginReplyKeeps, UsersReplyKeeps, FirstInitKeeps, EitherAckKeeps, SecondInitKeeps,
       SetAsideKeeps, SkipNullKeeps, DrainE2EKeeps, DrainTextKeeps DEF Reads
  <1>4. ASSUME NEW c \in Users, Send(c) \/ SendStale(c) \/ SendRenewed(c) PROVE Kept
    BY <1>4, SendKeeps, SendStaleKeeps
  <1> QED
    BY <1>1, <1>2, <1>3, <1>4 DEF Next, Step

(* A session holds a peer key just when it is established, and has number 0 *)
(* just when it is new.                                                     *)
THEOREM SessionsCorrect == Spec => []Exchange!SessionsOK
  <1>1. Init => Proved!Init
    <2>1. Exchange!Init => Proved!Init
      BY DEF Exchange!Init, Proved!Init, Exchange!NewSession, Proved!NewSession,
             Exchange!NoKey, Proved!NoKey
    <2> QED
      BY <2>1, InitialState
  <1>2. TypeOK /\ [Next]_vars => [Proved!Next]_(Proved!vars)
    BY SameNext, StepMaps DEF Mapped, Exchange!vars, Proved!vars
  <1>3. Proved!Spec => []Proved!Inductive
    <2>1. Proved!SessionAssumption /\ Proved!ExchangeAssumption
      BY SessionAssumption, ClientAssumption DEF Proved!SessionAssumption, Proved!ExchangeAssumption
    <2> QED
      BY <2>1, Proved!InductiveInvariant, PTL
  <1>4. Proved!Inductive => Exchange!SessionsOK
    BY DEF Proved!Inductive, Proved!SessionsOK, Exchange!SessionsOK,
           Proved!SessionOK, Exchange!SessionOK, Proved!NoKey, Exchange!NoKey
  <1> QED
    BY <1>1, <1>2, <1>3, <1>4, TypeCorrect, PTL DEF Spec, Proved!Spec

(* What the streams, the waits and the sessions of two clients say of each  *)
(* other holds in every reachable state.                                    *)
THEOREM OrderInvariant == Spec => [](Local /\ Links)
  <1>1. (/\ TypeOK /\ TypeOK' /\ Exchange!SessionsOK /\ Exchange!SessionsOK'
         /\ Local /\ Links /\ [Next]_vars)
        => Local' /\ Links'
    BY OrderStep DEF Before, Kept
  <1> QED
    BY <1>1, OrderAtFirst, TypeCorrect, SessionsCorrect, PTL DEF Spec

(* The server's replies are read by the waits that asked for them.          *)
THEOREM Replies == Spec => []RepliesMatch
  <1>1. Local => RepliesMatch
    BY DEF Local, RepliesOK, RepliesMatch, IsReply
  <1> QED
    BY <1>1, OrderInvariant, PTL

(* No exception leaves a client thread: no key pair is established twice,   *)
(* and every text a client takes opens.                                     *)
THEOREM NoException == Spec => []NoUncaughtException
  <1>1. Local => NoUncaughtException
    BY DEF Local, NamedOK, NoUncaughtException
  <1> QED
    BY <1>1, OrderInvariant, PTL

(* The numbers of the two ends of a session are at most one attempt apart.  *)
THEOREM SeqsLockstep == Spec => []SeqLockstep
  <1>1. Links => SeqLockstep
    BY DEF Links, Link, Linked, Half, Lockstep, SeqLockstep
  <1> QED
    BY <1>1, OrderInvariant, PTL

(* No ACK is left to the drain loop.                                        *)
THEOREM AcksAreAwaited == Spec => []AcksAwaited
  <1>1. TypeOK /\ Exchange!SessionsOK /\ Local /\ Links => AcksAwaited
    <2> SUFFICES ASSUME TypeOK, Exchange!SessionsOK, Local, Links, NEW c \in Users, Draining(c),
                        NEW r \in Polls(c), r.pkt.kind = "ACK"
                 PROVE  FALSE
      BY DEF AcksAwaited
    <2>1. PICK k : Receives(c, r, k)
      BY ReadsWanted DEF Local
    <2> DEFINE z == r.pkt.from
               s == sess[c][z]
               w == Mode(c, z)
    <2>2. z \in Users \ {c} /\ z \in Users
      BY ControlTaken DEF IsE2E
    <2>3. /\ Scene(c, z, s, sess[z][c], w, Mode(z, c), inbox[c], inbox[z])
          /\ Linked(c, z, s, sess[z][c], w, Mode(z, c), inbox[c], inbox[z])
      BY <2>2, Scenes DEF Links, Link
    <2>4. ~Attempting(s, w)
      BY DEF Attempting, Mode, Draining, Loop, E2EWaits
    <2>5. 1 \in AcksOf(inbox[c], z)
      BY <2>1 DEF Receives, AcksOf, From
    <2> HIDE DEF z, s, w
    <2> QED
      BY <2>3, <2>4, <2>5, Ahead
  <1> QED
    BY <1>1, OrderInvariant, TypeCorrect, SessionsCorrect, PTL

(* Every text a client is about to read opens under its current or its      *)
(* previous key.                                                            *)
THEOREM TextsReadable == Spec => []Readable
  <1>1. TypeOK /\ Exchange!SessionsOK /\ Local /\ Links => Readable
    <2> SUFFICES ASSUME TypeOK, Exchange!SessionsOK, Local, Links, NEW c \in Users, Draining(c),
                        NEW r \in Polls(c), r.pkt.kind = "TEXT"
                 PROVE  Decrypt(sess[c][r.pkt.from], r.pkt.body) = "text"
      BY DEF Readable
    <2>1. PICK k : Receives(c, r, k)
      BY ReadsWanted DEF Local
    <2> DEFINE z == r.pkt.from
    <2>2. /\ 1 \in From(inbox[c], z) /\ r.pkt = inbox[c][1]
          /\ inbox[c][1].kind = "TEXT" /\ r.pkt \in Packets
      BY <2>1 DEF Receives, From
    <2>3. z \in Users \ {c}
      <3>1. z \in Users
        BY <2>2, PacketFields
      <3> QED
        BY <2>2, <3>1 DEF Links, NoEcho
    <2>4. Mode(c, z) = "no"
      BY DEF Mode, Draining, Loop, E2EWaits
    <2> HIDE DEF z
    <2>5. Decrypt(sess[c][z], inbox[c][1].body) = "text"
      BY <2>2, <2>3, <2>4, TextOpens
    <2> QED
      BY <2>2, <2>5 DEF z
  <1> QED
    BY <1>1, OrderInvariant, TypeCorrect, SessionsCorrect, PTL

-----------------------------------------------------------------------------
(* How what Orders says of a pair is kept by the things a client may do     *)
(* with a session.                                                          *)

(* The INITs and ACKs of p in a stream of which k packets were read.        *)
Shift(new, q, p, k) ==
    /\ \A i \in InitsOf(new, p) : i + k \in InitsOf(q, p)
    /\ \A j \in AcksOf(q, p) : j > k => j - k \in AcksOf(new, p)

\* What was read of a stream, as far as INITs and ACKs go.
LEMMA PastShifts ==
    ASSUME NEW q, NEW new, NEW p, NEW k, Stream(q), Past(new, q, p, k)
    PROVE  Shift(new, q, p, k)
  <1>1. \A j \in AcksOf(q, p) : j > k => (j - k) + k = j
    BY StreamFields DEF Past
  <1> QED
    BY <1>1 DEF Past, Shift, InitsOf, AcksOf

\* Reading keeps what holds of a pair, unless a second wait loses its ACK.
LEMMA FineStays ==
    ASSUME NEW p, NEW s, NEW t, NEW w, NEW x, NEW q, NEW new, Stream(q), Stream(new),
           Fine(p, s, t, w, x, q), NEW k \in Nat, Shift(new, q, p, k),
           w = "secondE2E" => \A j \in AcksOf(q, p) : j > k
    PROVE  Fine(p, s, t, w, x, new)
  <1>1. /\ \A i \in InitsOf(new, p) : i \in Nat /\ i > 0 /\ i + k \in InitsOf(q, p)
        /\ \A j \in AcksOf(q, p) : j \in Nat /\ (j > k => j - k \in AcksOf(new, p))
    BY StreamFields DEF Shift
  <1>2. ASSUME w = "secondE2E", AcksOf(q, p) # {} PROVE AcksOf(new, p) # {}
    BY <1>1, <1>2
  <1>3. ASSUME w = "secondE2E", NEW i \in InitsOf(new, p), NEW j \in AcksOf(q, p), j < i + k
        PROVE  \E h \in AcksOf(new, p) : h < i
    <2>1. j - k \in AcksOf(new, p) /\ j - k < i
      BY <1>1, <1>3
    <2> QED
      BY <2>1
  <1>4. ASSUME NEW i \in InitsOf(new, p), NEW j \in AcksOf(q, p), j > i + k
        PROVE  j - k \in AcksOf(new, p) /\ j - k > i
    BY <1>1, <1>4
  <1>5. ASSUME NEW i \in InitsOf(new, p), NEW i2 \in InitsOf(new, p), i < i2
        PROVE  \E h \in AcksOf(new, p) : i < h /\ h < i2
    <2>1. PICK j \in AcksOf(q, p) : i + k < j /\ j < i2 + k
      BY <1>1, <1>5 DEF Fine
    <2>2. j - k \in AcksOf(new, p) /\ i < j - k /\ j - k < i2
      BY <1>1, <2>1
    <2> QED
      BY <2>2
  <1>6. ASSUME NEW i \in InitsOf(new, p)
        PROVE  Attempting(t, x) \/ \E j \in AcksOf(new, p) : j > i
    BY <1>1, <1>4 DEF Fine
  <1>7. ASSUME w = "secondE2E", Attempting(s, w)
        PROVE  /\ t.seq >= 1
               /\ t.state = "ESTABLISHED" => AcksOf(new, p) # {}
               /\ \A i \in InitsOf(new, p) : \E j \in AcksOf(new, p) : j < i
    BY <1>1, <1>2, <1>3, <1>7 DEF Fine
  <1> QED
    BY <1>5, <1>6, <1>7 DEF Fine

(* Both ends, of which those in H have missed no ACK of the other. *)
Fines(H, c, p, s, t, w, x, q, back) ==
    /\ Late(s, w, t) /\ Late(t, x, s)
    /\ c \in H => Fine(p, s, t, w, x, q)
    /\ p \in H => Fine(c, t, s, x, w, back)

(* c begins an attempt; its INIT, if it is put on the way, follows an ACK.  *)
LEMMA FineBegins ==
    ASSUME NEW H, NEW c, NEW p, NEW s, NEW t, NEW x, NEW q, NEW back,
           Scene(c, p, s, t, "no", x, q, back), Linked(c, p, s, t, "no", x, q, back),
           Fines(H, c, p, s, t, "no", x, q, back),
           NEW u, End(u), u.state \in Sent, u.seq = s.seq + 1,
           NEW new, NEW e, Stream(new), Adds(new, back, c, InitPacket(c, u), e)
    PROVE  Fines(H, c, p, u, t, "firstE2E", x, q, new)
  <1>1. /\ s.seq \in Nat /\ s.state \in States /\ (s.state = "UNINITIALIZED" <=> s.seq = 0)
        /\ Attempting(u, "firstE2E") /\ ~Attempting(s, "no") /\ u.state # "ESTABLISHED"
        /\ u.state # "UNINITIALIZED" /\ t.seq \in Nat
    BY SceneFields DEF Attempting, Sent
  <1>2. Late(u, "firstE2E", t) /\ Late(t, x, u)
    BY <1>1 DEF Fines, Late
  <1>3. ASSUME c \in H PROVE Fine(p, u, t, "firstE2E", x, q)
    BY <1>1, <1>3 DEF Fines, Fine
  <1>4. ASSUME p \in H PROVE Fine(c, t, u, x, "firstE2E", new)
    <2> DEFINE m == InitPacket(c, u)
    <2>1. m.kind = "INIT" /\ Fine(c, t, s, x, "no", back)
      BY <1>4 DEF InitPacket, Fines
    <2> HIDE DEF m
    <2>2. /\ \A i \in InitsOf(new, c) : i \in InitsOf(back, c) \/ i = e
          /\ \A j \in InitsOf(back, c) : j < e
          /\ AcksOf(new, c) = AcksOf(back, c) /\ \A j \in AcksOf(back, c) : j < e
      BY <2>1, AddsParts DEF m
    <2>3. \A i \in InitsOf(new, c) : i \in Nat /\ (i \in InitsOf(back, c) => i < e)
      BY <2>2, StreamFields
    <2>4. e \in Nat
      BY DEF Adds
    <2>5. ASSUME Attempting(t, x), x = "secondE2E"
          PROVE  /\ u.seq >= 1
                 /\ \A i \in InitsOf(new, c) : \E j \in AcksOf(new, c) : j < i
      <3>1. s.seq >= 1 /\ s.seq >= t.seq
        BY <2>1, <2>5 DEF Fine, Linked, Half, Lockstep
      <3>2. s.state = "ESTABLISHED"
        BY <1>1, <3>1 DEF Fines, Late, States, Sent
      <3>3. AcksOf(back, c) # {}
        BY <2>1, <2>5, <3>2 DEF Fine
      <3> QED
        BY <1>1, <2>1, <2>2, <2>5, <3>3 DEF Fine
    <2>6. ASSUME NEW i \in InitsOf(new, c), NEW j \in InitsOf(new, c), i < j
          PROVE  \E k \in AcksOf(new, c) : i < k /\ k < j
      <3>1. i \in InitsOf(back, c)
        BY <2>2, <2>3, <2>4, <2>6
      <3>2. CASE j \in InitsOf(back, c)
        BY <3>1, <3>2, <2>1, <2>2, <2>6 DEF Fine
      <3>3. CASE j = e
        BY <3>1, <3>3, <1>1, <2>1, <2>2 DEF Fine
      <3> QED
        BY <3>2, <3>3, <2>2
    <2> QED
      BY <1>1, <2>1, <2>5, <2>6 DEF Fine
  <1> QED
    BY <1>2, <1>3, <1>4 DEF Fines

(* c accepts the INIT of p, which waits, and its ACK is put on the way.     *)
LEMMA FineAccepting ==
    ASSUME NEW H, NEW c, NEW p, NEW s, NEW t, NEW w, NEW x, NEW old, NEW back, NEW q,
           Scene(c, p, s, t, w, x, old, back), Fines(H, c, p, s, t, w, x, old, back),
           Stream(q), NEW k \in Nat, Shift(q, old, p, k), Attempting(t, x),
           NEW u, End(u), u.state = "ESTABLISHED", u.peer \in Generation,
           NEW new, NEW e, Stream(new), Adds(new, back, c, AckPacket(c, u), e),
           e \in From(new, c), new[e] = AckPacket(c, u)
    PROVE  Fines(H, c, p, u, t, "no", x, q, new)
  <1>1. u.peer # BogusKey /\ u.state \notin Sent
    BY DEF Generation, BogusKey, Sent
  <1>2. Late(u, "no", t) /\ Late(t, x, u)
    BY <1>1 DEF Late, Attempting
  <1>3. ASSUME c \in H PROVE Fine(p, u, t, "no", x, q)
    <2>1. Fine(p, u, t, "no", x, old)
      BY <1>1, <1>3 DEF Fines, Fine, Attempting
    <2> QED
      BY <2>1, FineStays DEF Scene
  <1>4. ASSUME p \in H PROVE Fine(c, t, u, x, "no", new)
    <2> DEFINE m == AckPacket(c, u)
    <2>1. m.kind = "ACK"
      BY DEF AckPacket
    <2> HIDE DEF m
    <2>2. /\ InitsOf(new, c) = InitsOf(back, c) /\ \A j \in InitsOf(back, c) : j < e
          /\ \A j \in AcksOf(back, c) : j \in AcksOf(new, c)
      BY <2>1, AddsParts DEF m
    <2>3. e \in AcksOf(new, c)
      BY <2>1 DEF m, AcksOf
    <2>4. \A i \in InitsOf(new, c) : e > i
      BY <2>2, StreamFields DEF Adds
    <2>5. u.seq >= 1
      BY DEF End, Exchange!SessionOK, Session
    <2> QED
      BY <1>4, <2>2, <2>3, <2>4, <2>5 DEF Fines, Fine
  <1> QED
    BY <1>2, <1>3, <1>4 DEF Fines

(* c reads the ACK that answers its attempt. *)
LEMMA FineAnswered ==
    ASSUME NEW H, NEW c, NEW p, NEW s, NEW t, NEW w, NEW x, NEW old, NEW back, NEW q,
           Scene(c, p, s, t, w, x, old, back), Fines(H, c, p, s, t, w, x, old, back),
           Linked(c, p, s, t, w, x, old, back),
           Stream(q), NEW k \in Nat, Shift(q, old, p, k), NEW h \in AcksOf(old, p),
           NEW u, u.state = "ESTABLISHED", u.peer \in Generation, u.seq = s.seq
    PROVE  Fines(H, c, p, u, t, "no", x, q, back)
  <1>1. u.peer # BogusKey /\ u.state \notin Sent
    BY DEF Generation, BogusKey, Sent
  <1>2. Late(u, "no", t) /\ Late(t, x, u)
    BY <1>1 DEF Fines, Late
  <1>3. ASSUME c \in H PROVE Fine(p, u, t, "no", x, q)
    <2>1. Fine(p, u, t, "no", x, old)
      BY <1>1, <1>3 DEF Fines, Fine, Attempting
    <2> QED
      BY <2>1, FineStays DEF Scene
  <1>4. ASSUME p \in H PROVE Fine(c, t, u, x, "no", back)
    <2>1. AckRight(old, p, h, s, w, t, x, back, c)
      BY DEF Linked, Half, AcksRight
    <2>2. InitsOf(back, c) = {} /\ ~(Attempting(t, x) /\ x = "secondE2E")
      BY <2>1 DEF AckRight, Attempting, Sent
    <2> QED
      BY <1>4, <2>2 DEF Fines, Fine
  <1> QED
    BY <1>2, <1>3, <1>4 DEF Fines

(* The first wait refuses the INIT at the head, and the second begins.      *)
LEMMA FineRefusing ==
    ASSUME NEW H, NEW c, NEW p, NEW s, NEW t, NEW x, NEW old, NEW back, NEW q,
           Scene(c, p, s, t, "firstE2E", x, old, back),
           Fines(H, c, p, s, t, "firstE2E", x, old, back),
           Linked(c, p, s, t, "firstE2E", x, old, back), 1 \in InitsOf(old, p),
           Stream(q), NEW k \in Nat \ {0}, Shift(q, old, p, k),
           c \in H => \A j \in AcksOf(old, p) : j > k
    PROVE  Fines(H, c, p, s, t, "secondE2E", x, q, back)
  <1>1. /\ s.seq \in Nat /\ t.seq \in Nat /\ (s.state = "UNINITIALIZED" <=> s.seq = 0)
        /\ Attempting(s, "firstE2E") <=> Attempting(s, "secondE2E")
        /\ Attempting(s, "secondE2E") <=> s.state \in Sent
    BY SceneFields DEF Attempting
  <1>2. ASSUME c \in H PROVE Fine(p, s, t, "secondE2E", x, q)
    <2>1. /\ \A i \in InitsOf(q, p) : i \in Nat /\ i > 0 /\ i + k \in InitsOf(old, p)
          /\ \A j \in AcksOf(old, p) : j \in Nat /\ j - k \in AcksOf(q, p)
      BY <1>2, StreamFields DEF Shift, Scene
    <2>2. Fine(p, s, t, "firstE2E", x, q) /\ Fine(p, s, t, "firstE2E", x, old)
      <3>1. Fine(p, s, t, "firstE2E", x, old) /\ k \in Nat
        BY <1>2 DEF Fines
      <3> QED
        BY <3>1, FineStays DEF Scene
    <2>3. ASSUME s.state \in Sent
          PROVE  /\ t.seq >= 1
                 /\ t.state = "ESTABLISHED" => AcksOf(q, p) # {}
                 /\ \A i \in InitsOf(q, p) : \E j \in AcksOf(q, p) : j < i
      <3>1. old[1].seq >= s.seq /\ old[1].seq <= t.seq /\ old[1].seq \in Nat
        <4>1. 1 \in From(old, p) /\ Number(old[1]) = old[1].seq /\ old[1].seq \in Nat
          BY StreamFields DEF Scene
        <4> QED
          BY <4>1 DEF Linked, Half, InitsRight, InitRight, Numbered
      <3>2. t.seq >= 1
        BY <3>1, <1>1, <2>3 DEF Sent
      <3>3. ASSUME t.state = "ESTABLISHED" PROVE AcksOf(q, p) # {}
        <4>1. ~Matches(s, t) /\ InitsOf(old, p) # {}
          BY <2>3 DEF Matches, Sent
        <4>2. AcksOf(old, p) # {}
          BY <3>3, <4>1 DEF Linked, Half, Settled
        <4> QED
          BY <4>2, <2>1
      <3>4. ASSUME NEW i \in InitsOf(q, p) PROVE \E j \in AcksOf(q, p) : j < i
        <4>1. i + k \in InitsOf(old, p) /\ 1 < i + k
          BY <2>1
        <4>2. PICK j \in AcksOf(old, p) : 1 < j /\ j < i + k
          BY <4>1, <2>2 DEF Fine
        <4>3. j - k \in AcksOf(q, p) /\ j - k < i
          BY <4>2, <2>1
        <4> QED
          BY <4>3
      <3> QED
        BY <3>2, <3>3, <3>4
    <2> QED
      BY <1>1, <2>2, <2>3 DEF Fine
  <1>3. ASSUME p \in H PROVE Fine(c, t, s, x, "secondE2E", back)
    BY <1>1, <1>3 DEF Fines, Fine
  <1>4. Late(s, "secondE2E", t) /\ Late(t, x, s)
    BY DEF Fines, Late
  <1> QED
    BY <1>2, <1>3, <1>4 DEF Fines

(* The second wait takes an INIT.  It awaits no answer any more, unless it  *)
(* has missed an ACK; then the INIT is of an attempt of p one ahead.        *)
LEMMA FineSecond ==
    ASSUME NEW H, NEW c, NEW p, NEW s, NEW t, NEW x, NEW old, NEW back, NEW q,
           Scene(c, p, s, t, "secondE2E", x, old, back),
           Fines(H, c, p, s, t, "secondE2E", x, old, back),
           Linked(c, p, s, t, "secondE2E", x, old, back), 1 \in InitsOf(old, p),
           Stream(q), NEW k \in Nat, Shift(q, old, p, k),
           NEW u, u.seq = s.seq,
           u = s \/ (s.state \in Sent /\ u.state = "ESTABLISHED")
    PROVE  /\ c \in H => s.state \notin Sent
           /\ Fines(H, c, p, u, t, "no", x, q, back)
  <1>1. /\ s.seq \in Nat /\ t.seq \in Nat
        /\ Attempting(s, "secondE2E") <=> s.state \in Sent
        /\ \A v : ~Attempting(v, "no")
    BY SceneFields DEF Attempting
  <1>2. ASSUME c \in H PROVE s.state \notin Sent
    <2> SUFFICES ASSUME s.state \in Sent PROVE FALSE
      OBVIOUS
    <2>1. PICK j \in AcksOf(old, p) : j < 1
      BY <1>2 DEF Fines, Fine, Attempting
    <2> QED
      BY <2>1, StreamFields DEF Scene
  <1>3. ASSUME s.state \in Sent PROVE t.seq > s.seq
    <2>1. 1 \in From(old, p) /\ Number(old[1]) = old[1].seq /\ old[1].seq \in Nat
      BY StreamFields DEF Scene
    <2> QED
      BY <1>1, <1>3, <2>1 DEF Linked, Half, InitsRight, InitRight, Numbered
  <1>4. Late(u, "no", t) /\ Late(t, x, u)
    BY <1>3 DEF Fines, Late, Sent
  <1>5. ASSUME c \in H PROVE Fine(p, u, t, "no", x, q)
    <2>1. u = s
      BY <1>2, <1>5
    <2>2. Fine(p, s, t, "no", x, old)
      BY <1>1, <1>2, <1>5 DEF Fines, Fine
    <2> QED
      BY <2>1, <2>2, FineStays DEF Scene
  <1>6. ASSUME p \in H PROVE Fine(c, t, u, x, "no", back)
    <2>1. Fine(c, t, s, x, "secondE2E", back)
      BY <1>6 DEF Fines
    <2>2. CASE s.state \notin Sent
      BY <1>1, <2>1, <2>2 DEF Fine
    <2>3. CASE s.state \in Sent
      <3>1. InitsOf(back, c) = {}
        <4> SUFFICES ASSUME NEW i \in InitsOf(back, c) PROVE FALSE
          OBVIOUS
        <4>1. i \in From(back, c) /\ Number(back[i]) = back[i].seq /\ back[i].seq \in Nat
          BY StreamFields DEF Scene
        <4>2. back[i].seq >= t.seq /\ back[i].seq <= s.seq
          BY <4>1 DEF Linked, Half, InitsRight, InitRight, Numbered
        <4> QED
          BY <4>1, <4>2, <1>1, <1>3, <2>3
      <3>2. ~(Attempting(t, x) /\ x = "secondE2E")
        BY <1>1, <1>3, <2>3 DEF Linked, Half, Lockstep
      <3> QED
        BY <2>1, <3>1, <3>2 DEF Fine
    <2> QED
      BY <2>2, <2>3
  <1> QED
    BY <1>2, <1>4, <1>5, <1>6 DEF Fines

-----------------------------------------------------------------------------
(* The same of every pair of clients, and how the steps keep it.            *)

\* What a recv() has swallowed is remembered.
Grows == \A x \in Users : missed[x] \subseteq missed'[x]

\* The ends of a pair that have missed no ACK of the other, after a step.
Hearing(c, z) == {x \in {c, z} : \A y \in {c, z} \ {x} : Heard(x, y)'}

\* x has lost nothing of p that a second wait of x is for, or an ACK is missed.
Spared(x, p) ==
    Heard(x, p)' =>
        \E k \in Nat : /\ Shift(inbox'[x], inbox[x], p, k)
                       /\ Mode(x, p) = "secondE2E" => \A j \in AcksOf(inbox[x], p) : j > k

\* A read that takes no ACK of a second wait costs it nothing.
LEMMA PastSpares ==
    ASSUME Before, NEW x \in Users, NEW p, NEW k \in Nat, Past(inbox'[x], inbox[x], p, k),
           \/ k = 0 \/ Mode(x, p) # "secondE2E"
           \/ Heard(x, p)' => \A j \in AcksOf(inbox[x], p) : j > k
    PROVE  Spared(x, p)
  <1>1. Stream(inbox[x])
    <2>1. inbox[x] \in Seq(Packets)
      BY DEF Before, TypeOK, StreamsOK
    <2> QED
      BY <2>1, SeqIsStream
  <1>2. \A j \in AcksOf(inbox[x], p) : j \in Nat /\ j > 0
    BY <1>1, StreamFields
  <1> QED
    BY <1>1, <1>2, PastShifts DEF Spared

\* A stream nobody touched lost nothing.
LEMMA SameSpares ==
    ASSUME Before, NEW x \in Users, NEW p, inbox'[x] = inbox[x]
    PROVE  Spared(x, p)
  <1>1. Past(inbox'[x], inbox[x], p, 0)
    BY StreamsTyped DEF Before
  <1> QED
    BY <1>1, PastSpares

\* Who has missed no ACK by now had missed none before.
LEMMA HeardBefore ==
    ASSUME Grows, NEW x \in Users, NEW p, Heard(x, p)'
    PROVE  Heard(x, p)
  BY DEF Grows, Heard

\* A pair that a step touches only by reading.
LEMMA TidyStays ==
    ASSUME Before, Grows, NEW x \in Users, NEW p \in Users \ {x}, Tidy(x, p), Spared(x, p),
           sess'[x][p] = sess[x][p], sess'[p][x] = sess[p][x],
           Mode(x, p)' = Mode(x, p), Mode(p, x)' = Mode(p, x)
    PROVE  Tidy(x, p)'
  <1>1. Stream(inbox[x]) /\ Stream(inbox'[x])
    BY EndsNext
  <1>2. ASSUME Heard(x, p)'
        PROVE  Fine(p, sess[x][p], sess[p][x], Mode(x, p), Mode(p, x), inbox'[x])
    <2>1. PICK k \in Nat : /\ Shift(inbox'[x], inbox[x], p, k)
                           /\ Mode(x, p) = "secondE2E" => \A j \in AcksOf(inbox[x], p) : j > k
      BY <1>2 DEF Spared
    <2>2. Fine(p, sess[x][p], sess[p][x], Mode(x, p), Mode(p, x), inbox[x])
      BY <1>2, HeardBefore DEF Tidy
    <2> QED
      BY <1>1, <2>1, <2>2, FineStays
  <1> QED
    BY <1>2 DEF Tidy

\* A step that changes no session and no wait, and loses no awaited ACK.
LEMMA AllTidy ==
    ASSUME Before, Grows, Orders, UNCHANGED sess,
           \A x \in Users : \A p \in Users \ {x} : Mode(x, p)' = Mode(x, p) /\ Spared(x, p)
    PROVE  Orders'
  BY TidyStays DEF Orders

\* A step of c with z: only what holds between those two has to be shown anew.
LEMMA PairTidy ==
    ASSUME Before, Grows, Orders, NEW c \in Users, NEW z \in Users \ {c}, Tidy(c, z)', Tidy(z, c)',
           \A x \in Users : \A p \in Users \ {x} :
              <<x, p>> # <<c, z>> => sess'[x][p] = sess[x][p] /\ Mode(x, p)' = Mode(x, p),
           \A x \in Users : \A p \in Users \ {x} :
              <<x, p>> # <<c, z>> /\ <<x, p>> # <<z, c>> => Spared(x, p)
    PROVE  Orders'
  <1> SUFFICES ASSUME NEW x \in Users, NEW p \in Users \ {x} PROVE Tidy(x, p)'
    BY DEF Orders
  <1>1. CASE (x = c /\ p = z) \/ (x = z /\ p = c)
    BY <1>1
  <1>2. CASE ~(x = c /\ p = z) /\ ~(x = z /\ p = c)
    <2>1. <<x, p>> # <<c, z>> /\ <<x, p>> # <<z, c>> /\ <<p, x>> # <<c, z>> /\ <<p, x>> # <<z, c>>
      BY <1>2
    <2>2. /\ sess'[x][p] = sess[x][p] /\ sess'[p][x] = sess[p][x]
          /\ Mode(x, p)' = Mode(x, p) /\ Mode(p, x)' = Mode(p, x) /\ Spared(x, p)
      BY <2>1
    <2> QED
      BY <2>2, TidyStays DEF Orders
  <1> QED
    BY <1>1, <1>2

(* A move of the thread of c that begins and ends no wait on a peer.        *)
LEMMA ModesStay ==
    ASSUME TypeOK, NEW c \in Users, NEW t \in PointOf(c), Goto(c, t),
           t = thread[c] \/ (t.at \notin E2EWaits /\ thread[c].at \notin E2EWaits)
    PROVE  \A x \in Users : \A p : Mode(x, p)' = Mode(x, p)
  BY Moves DEF Mode

(* An ACK of p behind the packet c reads is left there, or is missed.       *)
LEMMA AcksLeft ==
    ASSUME Before, NEW c \in Users, NEW p, NEW r, NEW k, Receives(c, r, k), Miss(c, r),
           Heard(c, p)', 1 \notin AcksOf(inbox[c], p), NEW j \in AcksOf(inbox[c], p)
    PROVE  j > k
  <1>1. inbox[c] \in Seq(Packets)
    BY DEF Before, TypeOK, StreamsOK
  <1>2. /\ j \in DOMAIN inbox[c] /\ inbox[c][j].kind = "ACK" /\ inbox[c][j].from = p
        /\ j \in Nat \ {0, 1} /\ k \in Nat
    BY <1>1, SeqIsStream DEF AcksOf, From, Stream, Receives
  <1>3. ASSUME ~(j > k) PROVE [kind |-> "ACK", from |-> p] \in missed'[c]
    <2>1. 1 < j /\ j <= k
      BY <1>2, <1>3
    <2>2. \A i \in DOMAIN inbox[c] :
             1 < i /\ i <= k /\ inbox[c][i].kind = "ACK" =>
                 [kind |-> "ACK", from |-> inbox[c][i].from] \in r.lost
      BY DEF Receives
    <2>3. [kind |-> "ACK", from |-> p] \in r.lost
      BY <1>2, <2>1, <2>2
    <2> QED
      BY <2>3 DEF Miss, Before, TypeOK
  <1> QED
    BY <1>3 DEF Heard

(* What c reads costs no second wait its answer, unless the wait itself     *)
(* takes the packet.                                                        *)
LEMMA ReadSpares ==
    ASSUME Before, NEW c \in Users, NEW r, NEW k, Receives(c, r, k), Miss(c, r),
           inbox' = r.streams,
           NEW x \in Users, NEW p, x # c \/ Mode(c, p) # "secondE2E" \/ ~Wanted(thread[c], r.pkt)
    PROVE  Spared(x, p)
  <1>1. CASE x # c
    <2>1. inbox'[x] = inbox[x]
      BY <1>1, StreamsRead
    <2> QED
      BY <2>1, SameSpares
  <1>2. CASE x = c
    <2>1. Past(inbox'[c], inbox[c], p, k) /\ k \in Nat
      BY DEF Receives
    <2>2. CASE Mode(c, p) # "secondE2E"
      BY <1>2, <2>1, <2>2, PastSpares
    <2>3. CASE ~Wanted(thread[c], r.pkt) /\ Mode(c, p) = "secondE2E"
      <3>1. 1 \notin AcksOf(inbox[c], p)
        BY <2>3 DEF Mode, Wanted, Receives, AcksOf, From, IsE2E
      <3>2. Heard(c, p)' => \A j \in AcksOf(inbox[c], p) : j > k
        BY <3>1, AcksLeft
      <3> QED
        BY <1>2, <2>1, <3>2, PastSpares
    <2> QED
      BY <1>2, <2>2, <2>3
  <1> QED
    BY <1>1, <1>2

Ready == Before /\ Grows /\ Orders

\* A step that changes no session and no wait, and loses no awaited packet.
LEMMA QuietTidy ==
    ASSUME Ready, NEW c \in Users, UNCHANGED sess,
           NEW t \in PointOf(c), Goto(c, t),
           t = thread[c] \/ (t.at \notin E2EWaits /\ thread[c].at \notin E2EWaits),
           \A x \in Users : \A p \in Users \ {x} : Spared(x, p)
    PROVE  Orders'
  BY ModesStay, AllTidy DEF Ready, Before

\* A packet that is neither an INIT nor an ACK is put on a stream.
LEMMA AppendSpares ==
    ASSUME Before, NEW x \in Users, NEW p, NEW m \in Packets, m.kind \notin {"INIT", "ACK"},
           inbox'[x] = inbox[x] \/ inbox'[x] = Append(inbox[x], m)
    PROVE  Spared(x, p)
  <1>1. inbox[x] \in Seq(Packets) /\ Stream(inbox[x])
    BY SeqIsStream DEF Before, TypeOK, StreamsOK
  <1>2. ASSUME inbox'[x] = Append(inbox[x], m) PROVE Spared(x, p)
    <2>1. Adds(inbox'[x], inbox[x], p, m, Len(inbox[x]) + 1)
      BY <1>1, <1>2, AppendStreams
    <2>2. /\ InitsOf(inbox'[x], p) = InitsOf(inbox[x], p)
          /\ AcksOf(inbox'[x], p) = AcksOf(inbox[x], p)
      BY <2>1, AddsParts
    <2>3. /\ \A i \in InitsOf(inbox[x], p) : i + 0 = i
          /\ \A j \in AcksOf(inbox[x], p) : j - 0 = j /\ j > 0
      BY <1>1, StreamFields
    <2> QED
      BY <2>2, <2>3 DEF Shift, Spared
  <1> QED
    BY <1>2, SameSpares

\* A request that appends a reply to the stream of c, or empties or leaves it.
LEMMA AskTidy ==
    ASSUME Ready, NEW c \in Users, Login(c) \/ GetUsers(c) \/ Quit(c)
    PROVE  Orders'
  <1>1. /\ TypeOK /\ thread[c] = Loop /\ thread[c].at \notin E2EWaits /\ UNCHANGED sess
        /\ \A p : Mode(c, p) = "no"
    BY DEF Ready, Before, Login, GetUsers, Quit, Request, Loop, E2EWaits, Mode
  <1>2. PICK t \in PointOf(c) : Goto(c, t) /\ t.at \notin E2EWaits
    BY <1>1, Points, StayStep DEF Login, GetUsers, Quit, LoginWait, ListWait, E2EWaits
  <1>3. inbox \in [Users -> Seq(Packets)]
    BY <1>1 DEF TypeOK, StreamsOK
  <1>4. CASE Login(c) \/ GetUsers(c)
    <2>1. PICK m \in Packets : IsReply(m) /\ inbox' = [inbox EXCEPT ![c] = Append(@, m)]
      BY <1>4, NotReplies DEF Login, GetUsers
    <2>2. /\ m.kind \notin {"INIT", "ACK"}
          /\ \A x \in Users : inbox'[x] = inbox[x] \/ inbox'[x] = Append(inbox[x], m)
      BY <1>3, <2>1 DEF IsReply
    <2>3. \A x \in Users : \A p : Spared(x, p)
      BY <2>2, AppendSpares DEF Ready
    <2> QED
      BY <1>1, <1>2, <2>3, QuietTidy
  <1>5. CASE Quit(c)
    <2>1. inbox'[c] = <<>> /\ \A x \in Users \ {c} : inbox'[x] = inbox[x]
      BY <1>3, <1>5 DEF Quit
    <2>2. \A p : Past(inbox'[c], inbox[c], p, Len(inbox[c])) /\ Len(inbox[c]) \in Nat
      BY <1>3, <2>1, EmptyPast, SeqIsStream
    <2>3. \A x \in Users : \A p : Spared(x, p)
      BY <1>1, <2>1, <2>2, PastSpares, SameSpares DEF Ready
    <2> QED
      BY <1>1, <1>2, <2>3, QuietTidy
  <1> QED
    BY <1>4, <1>5

\* connectTo with a session that is not stale.
LEMMA ConnectTidy ==
    ASSUME Ready, NEW c \in Users, NEW p \in Users \ {c}, Connect(c, p)
    PROVE  Orders'
  <1>1. TypeOK /\ thread[c] = Loop /\ UNCHANGED <<sess, inbox>> /\ Goto(c, Sending("send", p))
    BY DEF Ready, Before, Connect, Request
  <1>2. thread[c].at \notin E2EWaits /\ Sending("send", p).at \notin E2EWaits
    BY <1>1 DEF Sending, E2EWaits, Loop
  <1>4. Sending("send", p) \in PointOf(c)
    BY <1>1, Points
  <1>3. \A x \in Users : \A y : Spared(x, y)
    BY <1>1, SameSpares DEF Ready
  <1> QED
    BY <1>1, <1>2, <1>3, <1>4, QuietTidy

\* c takes a packet that changes no session.
LEMMA PollTidy ==
    ASSUME Ready, NEW c \in Users, NEW r \in Polls(c), inbox' = r.streams, Miss(c, r),
           UNCHANGED sess,
           NEW t \in PointOf(c), Goto(c, t),
           t = thread[c] \/ (t.at \notin E2EWaits /\ thread[c].at \notin E2EWaits),
           thread[c].at \in E2EWaits => ~Wanted(thread[c], r.pkt)
    PROVE  Orders'
  <1>1. TypeOK /\ Before /\ QueueOK(c)
    BY DEF Ready, Before, Local
  <1>2. CASE pktQueue[c] = <<>>
    <2>1. PICK k : Receives(c, r, k)
      BY <1>1, <1>2, FromSocket
    <2>2. \A p : Mode(c, p) # "secondE2E" \/ ~Wanted(thread[c], r.pkt)
      BY DEF Mode, E2EWaits
    <2>3. \A x \in Users : \A p : Spared(x, p)
      BY <1>1, <2>1, <2>2, ReadSpares
    <2> QED
      BY <2>3, QuietTidy
  <1>3. CASE pktQueue[c] # <<>>
    <2>1. inbox' = inbox
      BY <1>1, <1>3, FromQueue
    <2>2. \A x \in Users : \A p : Spared(x, p)
      BY <1>1, <2>1, SameSpares
    <2> QED
      BY <2>2, QuietTidy
  <1> QED
    BY <1>2, <1>3

\* Reads that concern no session.
LEMMA PassTidy ==
    ASSUME Ready, NEW c \in Users,
           LoginReply(c) \/ UsersReply(c) \/ SetAside(c) \/ SkipNull(c) \/ DrainText(c)
    PROVE  Orders'
  <1>1. TypeOK /\ Before /\ Loop \in PointOf(c) /\ thread[c] \in PointOf(c) /\ Loop.at \notin E2EWaits
        /\ (UNCHANGED thread => Goto(c, thread[c]))
    BY Points, StayStep DEF Ready, Before, Loop, E2EWaits
  <1>2. CASE LoginReply(c)
    <2>1. thread[c].at \notin E2EWaits /\ UNCHANGED sess
      BY <1>2 DEF LoginReply, LoginWait, E2EWaits
    <2>2. PICK r \in Polls(c) :
            inbox' = r.streams /\ Miss(c, r) /\ (Goto(c, Loop) \/ UNCHANGED thread)
      BY <1>2 DEF LoginReply
    <2>3. PICK t \in PointOf(c) : Goto(c, t) /\ t.at \notin E2EWaits
      BY <1>1, <2>1, <2>2
    <2> QED
      BY <2>1, <2>2, <2>3, PollTidy
  <1>3. CASE UsersReply(c)
    <2>1. thread[c].at \notin E2EWaits /\ UNCHANGED sess /\ Goto(c, Loop)
      BY <1>3 DEF UsersReply, ListWait, E2EWaits, TakeOnly
    <2>2. PICK r \in Polls(c) : inbox' = r.streams /\ Miss(c, r)
      BY <1>3 DEF UsersReply, TakeOnly
    <2> QED
      BY <1>1, <2>1, <2>2, PollTidy
  <1>4. CASE SetAside(c)
    <2>1. PICK r \in Polls(c) : ~Wanted(thread[c], r.pkt) /\ inbox' = r.streams /\ Miss(c, r)
      BY <1>4 DEF SetAside
    <2>2. UNCHANGED <<sess, thread>>
      BY <1>4 DEF SetAside
    <2> QED
      BY <1>1, <2>1, <2>2, PollTidy
  <1>5. CASE SkipNull(c)
    <2>1. PICK r \in Polls(c) : r.pkt = Null /\ TakeOnly(c, r)
      BY <1>5 DEF SkipNull
    <2>2. UNCHANGED thread /\ ~Wanted(thread[c], r.pkt)
      BY <1>5, <2>1 DEF SkipNull, Wanted, Null, IsE2E
    <2> QED
      BY <1>1, <2>1, <2>2, PollTidy DEF TakeOnly
  <1>6. CASE DrainText(c)
    <2>1. thread[c] = Loop /\ Draining(c) /\ QueueOK(c) /\ TypeOK
      BY <1>1, <1>6 DEF DrainText, Draining, Before, Local
    <2>2. Kept
      BY <1>1, <1>6, DrainTextKeeps
    <2>3. PICK r \in Polls(c) :
            IF Decrypt(sess[c][r.pkt.from], r.pkt.body) = "throws"
            THEN Crash(c)
            ELSE TakeOnly(c, r) /\ UNCHANGED thread
      BY <1>6 DEF DrainText
    <2>4. ~Crash(c)
      <3>1. status'[c] # "crashed"
        BY <2>2 DEF Kept, Local, NamedOK
      <3> QED
        BY <2>1, <3>1 DEF Crash, TypeOK
    <2>5. TakeOnly(c, r) /\ UNCHANGED thread
      BY <2>3, <2>4
    <2> QED
      BY <1>1, <2>1, <2>5, PollTidy DEF TakeOnly
  <1> QED
    BY <1>2, <1>3, <1>4, <1>5, <1>6

\* Client::send with a fresh session, or a renewed one.
LEMMA SendTidy ==
    ASSUME Ready, NEW c \in Users, Send(c) \/ SendRenewed(c)
    PROVE  Orders'
  <1>1. TypeOK /\ Before
    BY DEF Ready, Before
  <1>2. thread[c].at \in {"send", "encrypt"} /\ Transmit(c, thread[c].peer)
    BY DEF Send, SendRenewed
  <1>3. PICK z \in Users \ {c} : Transmit(c, z)
    BY <1>1, <1>2, SendPeer
  <1> DEFINE m == Text(c, sess[c][z])
  <1>4. m \in Packets /\ m.kind \notin {"INIT", "ACK"}
    <2>1. sess[c][z] \in Session
      BY <1>1 DEF TypeOK
    <2> QED
      BY <2>1, SentPackets DEF Text
  <1>5. inbox' = Relay(inbox, z, m) /\ UNCHANGED sess /\ Goto(c, Loop)
    BY <1>3 DEF Transmit
  <1> HIDE DEF m
  <1>6. \A x \in Users : inbox'[x] = inbox[x] \/ inbox'[x] = Append(inbox[x], m)
    BY <1>1, <1>5 DEF Relay, TypeOK, StreamsOK
  <1>7. \A x \in Users : \A p : Spared(x, p)
    BY <1>1, <1>4, <1>6, AppendSpares
  <1>8. Loop \in PointOf(c) /\ Loop.at \notin E2EWaits /\ thread[c].at \notin E2EWaits
    BY <1>1, <1>2, Points DEF Loop, E2EWaits
  <1> QED
    BY <1>5, <1>7, <1>8, QuietTidy

\* An /e2e to a peer c has a session with.
LEMMA E2EAgainTidy ==
    ASSUME Ready, NEW c \in Users, NEW z \in Users \ {c}, E2EAgain(c, z)
    PROVE  Orders'
  <1> DEFINE t == Wait("firstE2E", z, "report")
  <1>1. /\ TypeOK /\ Before /\ Grows /\ Orders /\ thread[c] = Loop
        /\ sess[c][z].state # "UNINITIALIZED"
        /\ z \in Users /\ c \in Users \ {z} /\ UNCHANGED <<sess, inbox>> /\ Goto(c, t)
    BY DEF Ready, Before, E2EAgain, Request
  <1>2. t \in PointOf(c) /\ t.at = "firstE2E" /\ t.peer = z
    BY <1>1, Points DEF Wait, E2EWaits
  <1>3. thread[c].at \notin E2EWaits
    BY <1>1 DEF Loop, E2EWaits
  <1> HIDE DEF t
  <1>4. /\ Mode(c, z) = "no" /\ Mode(c, z)' = "firstE2E" /\ Mode(z, c)' = Mode(z, c)
        /\ \A x \in Users : \A p \in Users \ {x} : <<x, p>> # <<c, z>> => Mode(x, p)' = Mode(x, p)
    BY <1>1, <1>2, <1>3, Moves DEF Mode, E2EWaits
  <1>5. Tidy(c, z) /\ Tidy(z, c)
    BY <1>1 DEF Orders
  <1>6. Tidy(c, z)' /\ Tidy(z, c)'
    <2>1. (Heard(c, z)' => Heard(c, z)) /\ (Heard(z, c)' => Heard(z, c))
      BY <1>1, HeardBefore
    <2> QED
      BY <1>1, <1>4, <1>5, <2>1 DEF Tidy, Late, Fine, Attempting
  <1>7. \A x \in Users : \A p \in Users : Spared(x, p)
    BY <1>1, SameSpares
  <1> QED
    BY <1>1, <1>4, <1>6, <1>7, PairTidy

\* Orders of the two ends of a pair, as far as they have missed no ACK by now.
LEMMA OrdersPair ==
    ASSUME Ready, NEW c \in Users, NEW z \in Users \ {c}
    PROVE  Fines(Hearing(c, z), c, z, sess[c][z], sess[z][c], Mode(c, z), Mode(z, c),
                 inbox[c], inbox[z])
  <1>1. Tidy(c, z) /\ Tidy(z, c)
    BY DEF Ready, Orders
  <1>2. (c \in Hearing(c, z) => Heard(c, z)) /\ (z \in Hearing(c, z) => Heard(z, c))
    BY HeardBefore DEF Hearing, Ready
  <1> QED
    BY <1>1, <1>2 DEF Tidy, Fines

\* The wait at a point of the thread.
Await(t) == IF t.at \in E2EWaits THEN t.at ELSE "no"

\* A step of c with z: what is on their streams, and nothing else, changes.
LEMMA StepTidy ==
    ASSUME Ready, NEW c \in Users, NEW z \in Users \ {c}, NEW u,
           UpdateSession(c, z, u) \/ (UNCHANGED sess /\ u = sess[c][z]),
           thread[c].at \in E2EWaits => thread[c].peer = z,
           NEW t \in PointOf(c), Goto(c, t), t.at \in E2EWaits => t.peer = z,
           \A p \in Users : Reads1(c, p),
           NEW m \in Packets, m.from = c, inbox'[z] = inbox[z] \/ inbox'[z] = Append(inbox[z], m),
           \A x \in Users \ {c, z} : inbox'[x] = inbox[x],
           Fines(Hearing(c, z), c, z, u, sess[z][c], Await(t), Mode(z, c), inbox'[c], inbox'[z])
    PROVE  Orders'
  <1>1. TypeOK /\ Before /\ Grows /\ Orders /\ z \in Users /\ c \in Users \ {z}
    BY DEF Ready, Before
  <1>2. /\ Mode(c, z)' = Await(t)
        /\ \A x \in Users : \A p \in Users \ {x} : <<x, p>> # <<c, z>> => Mode(x, p)' = Mode(x, p)
    BY <1>1, Moves DEF Mode, Await
  <1>3. /\ sess'[c][z] = u
        /\ \A x, p \in Users : <<x, p>> # <<c, z>> => sess'[x][p] = sess[x][p]
    BY <1>1, Updates
  <1>4. /\ Mode(z, c)' = Mode(z, c) /\ sess'[z][c] = sess[z][c]
        /\ \A x \in Users : \A p \in Users \ {x} :
              <<x, p>> # <<c, z>> => sess'[x][p] = sess[x][p] /\ Mode(x, p)' = Mode(x, p)
    BY <1>1, <1>2, <1>3
  <1>5. Tidy(c, z)' /\ Tidy(z, c)'
    BY <1>2, <1>3, <1>4 DEF Tidy, Fines, Hearing
  <1>6. ASSUME NEW x \in Users, NEW p \in Users \ {x}, <<x, p>> # <<c, z>>, <<x, p>> # <<z, c>>
        PROVE  Spared(x, p)
    <2>1. CASE x = z
      <3>1. m.from # p
        BY <1>6, <2>1
      <3>2. inbox[z] \in Seq(Packets) /\ Past(inbox[z], inbox[z], p, 0)
        BY <1>1, StreamsTyped
      <3>3. Past(Append(inbox[z], m), inbox[z], p, 0)
        BY <3>1, <3>2, AppendStreams
      <3>4. Past(inbox'[x], inbox[x], p, 0)
        BY <2>1, <3>2, <3>3
      <3> QED
        BY <1>1, <3>4, PastSpares
    <2>2. CASE x \notin {c, z}
      BY <1>1, <2>2, SameSpares
    <2>3. CASE x = c
      <3>1. Mode(c, p) # "secondE2E"
        BY <1>6, <2>3 DEF Mode
      <3>2. PICK k \in Nat : Past(inbox'[c], inbox[c], p, k)
        BY DEF Reads1
      <3> QED
        BY <1>1, <2>3, <3>1, <3>2, PastSpares
    <2> QED
      BY <2>1, <2>2, <2>3
  <1> QED
    BY <1>1, <1>4, <1>5, <1>6, PairTidy

\* c begins an attempt at a session with z.
LEMMA BeginTidy ==
    ASSUME Ready, NEW c \in Users, NEW z \in Users \ {c}, thread[c].at \notin E2EWaits,
           NEW then \in {"report", "send", "encrypt"}, Goto(c, Wait("firstE2E", z, then)),
           NEW u, UpdateSession(c, z, u), u.state \in Sent, u.seq = sess[c][z].seq + 1,
           inbox' = Relay(inbox, z, InitPacket(c, u))
    PROVE  Orders'
  <1> DEFINE t == Wait("firstE2E", z, then)
             m == InitPacket(c, u)
             e == Len(inbox[z]) + 1
  <1>1. TypeOK /\ Before /\ Grows /\ Orders /\ z \in Users /\ c \in Users \ {z}
    BY DEF Ready, Before
  <1>2. t \in PointOf(c) /\ t.at = "firstE2E" /\ t.peer = z /\ t.at \in E2EWaits
    BY <1>1, Points DEF Wait, E2EWaits
  <1>3. sess'[c][z] = u
    BY <1>1, Updates
  <1>4. End(u) /\ u \in Session
    BY <1>1, <1>3, EndsNext DEF End
  <1>5. m \in Packets /\ m.from = c
    BY <1>4, SentPackets
  <1>6. /\ inbox'[z] = inbox[z] \/ inbox'[z] = Append(inbox[z], m)
        /\ \A x \in Users \ {z} : inbox'[x] = inbox[x]
    BY <1>1, StreamsTyped DEF Relay
  <1>7. Adds(inbox'[z], inbox[z], c, m, e)
    <2>1. inbox[z] \in Seq(Packets)
      BY <1>1, EndsNext
    <2> HIDE DEF m
    <2>2. Adds(Append(inbox[z], m), inbox[z], c, m, e) /\ Adds(inbox[z], inbox[z], c, m, e)
      BY <2>1, <1>5, AppendStreams
    <2> QED
      BY <2>2, <1>6
  <1>8. Mode(c, z) = "no"
    BY DEF Mode
  <1> DEFINE H == Hearing(c, z)
  <1>9. /\ Scene(c, z, sess[c][z], sess[z][c], "no", Mode(z, c), inbox[c], inbox[z])
        /\ Linked(c, z, sess[c][z], sess[z][c], "no", Mode(z, c), inbox[c], inbox[z])
        /\ Fines(H, c, z, sess[c][z], sess[z][c], "no", Mode(z, c), inbox[c], inbox[z])
    BY <1>1, <1>8, Scenes, OrdersPair DEF Before, Links, Link
  <1>10. Stream(inbox'[z]) /\ inbox'[c] = inbox[c]
    BY <1>1, <1>6, EndsNext
  <1> HIDE DEF e, m, t, H
  <1>11. Fines(H, c, z, u, sess[z][c], "firstE2E", Mode(z, c), inbox'[c], inbox'[z])
    BY <1>4, <1>7, <1>9, <1>10, FineBegins DEF m
  <1>12. Goto(c, t)
    BY DEF t
  <1>13. Await(t) = "firstE2E"
    BY <1>2 DEF Await
  <1>14. Fines(Hearing(c, z), c, z, u, sess[z][c], Await(t), Mode(z, c), inbox'[c], inbox'[z])
    BY <1>11, <1>13 DEF H
  <1>15. /\ \A x \in Users \ {c, z} : inbox'[x] = inbox[x]
         /\ \A p \in Users : Reads1(c, p)
    BY <1>1, <1>6, StreamsTyped DEF Reads1
  <1> QED
    BY <1>2, <1>5, <1>6, <1>12, <1>14, <1>15, StepTidy

\* A stale session is renewed.
LEMMA BeginRefreshTidy ==
    ASSUME Ready, NEW c \in Users, NEW z \in Users \ {c}, thread[c].at \notin E2EWaits,
           NEW then \in {"report", "send", "encrypt"}, BeginRefresh(c, z, then)
    PROVE  Orders'
  <1>1. PICK now \in Clock[c] :
          LET u == Refresh(sess[c][z], now)
          IN  UpdateSession(c, z, u) /\ inbox' = Relay(inbox, z, InitPacket(c, u))
    BY DEF BeginRefresh
  <1> DEFINE u == Refresh(sess[c][z], now)
  <1>2. sess[c][z] \in Session
    BY DEF Ready, Before, TypeOK
  <1>3. u.state \in Sent /\ u.seq = sess[c][z].seq + 1
    BY <1>2, RefreshFields
  <1>4. UpdateSession(c, z, u) /\ inbox' = Relay(inbox, z, InitPacket(c, u))
    BY <1>1
  <1>5. Goto(c, Wait("firstE2E", z, then))
    BY DEF BeginRefresh
  <1> HIDE DEF u
  <1> QED
    BY <1>3, <1>4, <1>5, BeginTidy

\* The three requests that begin an attempt.
LEMMA RenewTidy ==
    ASSUME Ready, NEW c \in Users,
           SendStale(c) \/ \E p \in Users \ {c} : ConnectStale(c, p) \/ E2EBegin(c, p)
    PROVE  Orders'
  <1>1. CASE SendStale(c)
    <2>1. thread[c].at = "send" /\ BeginRefresh(c, thread[c].peer, "encrypt")
      BY <1>1 DEF SendStale
    <2>2. thread[c].peer \in Users \ {c} /\ thread[c].at \notin E2EWaits
      BY <2>1, SendPeer DEF Ready, Before, E2EWaits
    <2> QED
      BY <2>1, <2>2, BeginRefreshTidy
  <1>2. ASSUME NEW p \in Users \ {c}, ConnectStale(c, p) PROVE Orders'
    <2>1. thread[c].at \notin E2EWaits /\ BeginRefresh(c, p, "send")
      BY <1>2 DEF ConnectStale, Request, Loop, E2EWaits
    <2> QED
      BY <2>1, BeginRefreshTidy
  <1>3. ASSUME NEW p \in Users \ {c}, E2EBegin(c, p) PROVE Orders'
    <2>1. PICK now \in Clock[c] :
            LET u == Initiate(sess[c][p], now)
            IN  UpdateSession(c, p, u) /\ inbox' = Relay(inbox, p, InitPacket(c, u))
      BY <1>3 DEF E2EBegin
    <2> DEFINE u == Initiate(sess[c][p], now)
    <2>2. sess[c][p] \in Session
      BY DEF Ready, Before, TypeOK
    <2>3. u.state \in Sent /\ u.seq = sess[c][p].seq + 1
      BY <2>2, RefreshFields
    <2>4. UpdateSession(c, p, u) /\ inbox' = Relay(inbox, p, InitPacket(c, u))
      BY <2>1
    <2>5. Goto(c, Wait("firstE2E", p, "report")) /\ thread[c].at \notin E2EWaits
      BY <1>3 DEF E2EBegin, Request, Loop, E2EWaits
    <2> HIDE DEF u
    <2> QED
      BY <2>3, <2>4, <2>5, BeginTidy
  <1> QED
    BY <1>1, <1>2, <1>3

\* A step of c and z that posts nothing.
LEMMA SilentTidy ==
    ASSUME Ready, NEW c \in Users, NEW z \in Users \ {c}, NEW u,
           UpdateSession(c, z, u) \/ (UNCHANGED sess /\ u = sess[c][z]),
           thread[c].at \in E2EWaits => thread[c].peer = z,
           NEW t \in PointOf(c), Goto(c, t), t.at \in E2EWaits => t.peer = z,
           \A p \in Users : Reads1(c, p),
           \A x \in Users \ {c} : inbox'[x] = inbox[x],
           Fines(Hearing(c, z), c, z, u, sess[z][c], Await(t), Mode(z, c), inbox'[c], inbox[z])
    PROVE  Orders'
  <1> DEFINE m == InitPacket(c, sess[c][z])
  <1>1. sess[c][z] \in Session /\ Before
    BY DEF Ready, Before, TypeOK
  <1>2. m \in Packets /\ m.from = c
    BY <1>1, SentPackets
  <1>3. inbox'[z] = inbox[z]
    OBVIOUS
  <1>a. \A x \in Users \ {c, z} : inbox'[x] = inbox[x]
    OBVIOUS
  <1> HIDE DEF m
  <1>4. Fines(Hearing(c, z), c, z, u, sess[z][c], Await(t), Mode(z, c), inbox'[c], inbox'[z])
    BY <1>3
  <1>5. inbox'[z] = inbox[z] \/ inbox'[z] = Append(inbox[z], m)
    BY <1>3
  <1> QED
    BY <1>2, <1>5, <1>a, <1>4, StepTidy

\* What c and z stand for when c reads a packet of its stream.
LEMMA ReadTidy ==
    ASSUME Ready, NEW c \in Users, NEW z \in Users \ {c}, NEW r \in Polls(c),
           Wanted(thread[c], r.pkt) \/ Draining(c)
    PROVE  /\ \E k \in Nat \ {0} : Receives(c, r, k) /\ Shift(r.streams[c], inbox[c], z, k)
           /\ Stream(r.streams[c])
           /\ Scene(c, z, sess[c][z], sess[z][c], Mode(c, z), Mode(z, c), inbox[c], inbox[z])
           /\ Linked(c, z, sess[c][z], sess[z][c], Mode(c, z), Mode(z, c), inbox[c], inbox[z])
           /\ Fines(Hearing(c, z), c, z, sess[c][z], sess[z][c], Mode(c, z), Mode(z, c),
                    inbox[c], inbox[z])
  <1>1. TypeOK /\ QueueOK(c) /\ Before /\ c \in Users \ {z} /\ z \in Users
    BY DEF Ready, Before, Local
  <1>2. PICK k : Receives(c, r, k)
    BY <1>1, ReadsWanted
  <1>3. r.streams[c] \in Seq(Packets) /\ k \in Nat \ {0}
    BY <1>2 DEF Receives
  <1>4. Stream(r.streams[c])
    BY <1>3, SeqIsStream
  <1>5. /\ Scene(c, z, sess[c][z], sess[z][c], Mode(c, z), Mode(z, c), inbox[c], inbox[z])
        /\ Linked(c, z, sess[c][z], sess[z][c], Mode(c, z), Mode(z, c), inbox[c], inbox[z])
    BY <1>1, Scenes DEF Before, Links, Link
  <1>6. Past(r.streams[c], inbox[c], z, k) /\ Stream(inbox[c])
    BY <1>2, <1>5 DEF Receives, Scene
  <1>7. Shift(r.streams[c], inbox[c], z, k)
    BY <1>6, PastShifts
  <1> QED
    BY <1>2, <1>3, <1>4, <1>5, <1>7, OrdersPair

\* setupE2E returns, to a point that is no wait.
LEMMA ReturnTidy ==
    ASSUME Ready, NEW c \in Users, NEW z \in Users \ {c},
           thread[c].at \in E2EWaits, thread[c].peer = z,
           NEW r, NEW k, Receives(c, r, k), inbox' = r.streams,
           NEW u, UpdateSession(c, z, u) \/ (UNCHANGED sess /\ u = sess[c][z]), Return(c),
           Fines(Hearing(c, z), c, z, u, sess[z][c], "no", Mode(z, c), r.streams[c], inbox[z])
    PROVE  Orders'
  <1>1. TypeOK /\ Before
    BY DEF Ready, Before
  <1>2. PICK t \in PointOf(c) : Goto(c, t)
    BY <1>1, ReturnPoint
  <1>3. t.at \notin E2EWaits
    <2>1. \A p : Mode(c, p)' = "no"
      BY <1>1, Leaves
    <2>2. thread'[c] = t
      BY <1>1, <1>2, Moves
    <2> QED
      BY <2>1, <2>2 DEF Mode, E2EWaits
  <1>4. Await(t) = "no"
    BY <1>3 DEF Await
  <1>5. (\A p \in Users : Reads1(c, p)) /\ (\A x \in Users \ {c} : inbox'[x] = inbox[x])
    BY <1>1, StreamsRead
  <1>6. inbox'[c] = r.streams[c]
    OBVIOUS
  <1>7. Fines(Hearing(c, z), c, z, u, sess[z][c], Await(t), Mode(z, c), inbox'[c], inbox[z])
    BY <1>4, <1>6
  <1> QED
    BY <1>2, <1>3, <1>5, <1>7, SilentTidy

\* An ACK ends the wait of c, and its attempt.
LEMMA EitherAckTidy ==
    ASSUME Ready, NEW c \in Users, EitherAck(c)
    PROVE  Orders' /\ sess'[c][thread[c].peer].state = "ESTABLISHED"
  <1>a. TypeOK /\ Before /\ thread[c].at \in E2EWaits
    BY DEF EitherAck, Ready, Before
  <1>b. PICK z \in Users \ {c} : z = thread[c].peer
    BY <1>a, SendPeer
  <1> DEFINE s == sess[c][z]
             t == sess[z][c]
             w == Mode(c, z)
             x == Mode(z, c)
             H == Hearing(c, z)
  <1>2. PICK r \in Polls(c) :
          /\ Wanted(thread[c], r.pkt) /\ r.pkt.kind = "ACK"
          /\ IF AckApplies(s, r.pkt.seq) /\ EstablishThrows(s)
             THEN Crash(c)
             ELSE ApplyAck(c, r, r.pkt.from, r.pkt.seq, r.pkt.gen) /\ Return(c)
    BY <1>b DEF EitherAck
  <1>3. r.pkt.from = z /\ z \in Users
    BY <1>a, <1>b, <1>2 DEF Wanted, E2EWaits
  <1>4. PICK k \in Nat \ {0} :
          /\ Receives(c, r, k) /\ Stream(r.streams[c]) /\ Shift(r.streams[c], inbox[c], z, k)
          /\ Scene(c, z, s, t, w, x, inbox[c], inbox[z])
          /\ Linked(c, z, s, t, w, x, inbox[c], inbox[z])
          /\ Fines(H, c, z, s, t, w, x, inbox[c], inbox[z])
    BY <1>2, ReadTidy
  <1>5. ~EstablishThrows(s)
    BY <1>4, SceneFields
  <1>6. 1 \in AcksOf(inbox[c], z) /\ r.pkt = inbox[c][1] /\ r.pkt.gen \in Generation
    <2>1. 1 \in AcksOf(inbox[c], z) /\ r.pkt = inbox[c][1]
      BY <1>2, <1>3, <1>4 DEF Receives, AcksOf, From
    <2>2. Stream(inbox[c]) /\ 1 \in From(inbox[c], z) /\ inbox[c][1].kind = "ACK"
      BY <1>4, <2>1 DEF Scene, AcksOf
    <2>3. inbox[c][1].gen \in Generation
      BY <2>2, FromFields
    <2> QED
      BY <2>1, <2>3
  <1>7. ApplyAck(c, r, z, r.pkt.seq, r.pkt.gen) /\ Return(c)
    BY <1>2, <1>3, <1>5
  <1>8. AckApplies(s, r.pkt.seq)
    BY <1>4, <1>6 DEF Linked, Half, AcksRight, AckRight, Attempting, AckApplies
  <1> DEFINE u == HandleAck(s, r.pkt.gen)
  <1>9. UpdateSession(c, z, u) /\ inbox' = r.streams
    BY <1>7, <1>8 DEF ApplyAck
  <1>10. u.state = "ESTABLISHED" /\ u.peer \in Generation /\ u.seq = s.seq
    <2>1. s \in Session
      BY <1>a, <1>b DEF TypeOK
    <2> QED
      BY <2>1, <1>6 DEF HandleAck, Session
  <1> HIDE DEF u
  <1>11. Fines(H, c, z, u, t, "no", x, r.streams[c], inbox[z])
    <2> HIDE DEF s, t, w, x, H
    <2>1. k \in Nat
      OBVIOUS
    <2> QED
      BY <1>4, <1>6, <1>10, <2>1, FineAnswered
  <1>12. Orders'
    BY <1>a, <1>b, <1>4, <1>7, <1>9, <1>11, ReturnTidy
  <1>13. sess'[c][z] = u
    BY <1>a, <1>3, <1>9, Updates
  <1> QED
    BY <1>b, <1>10, <1>12, <1>13

\* The second wait takes an INIT, when the session is established already or
\* an ACK was missed.
LEMMA SecondInitTidy ==
    ASSUME Ready, NEW c \in Users, SecondInit(c)
    PROVE  /\ Orders'
           /\ Heard(c, thread[c].peer) => sess'[c][thread[c].peer].state = "ESTABLISHED"
  <1>a. TypeOK /\ Before /\ thread[c].at = "secondE2E" /\ thread[c].at \in E2EWaits
    BY DEF SecondInit, Ready, Before, E2EWaits
  <1>b. PICK z \in Users \ {c} : z = thread[c].peer
    BY <1>a, SendPeer
  <1> DEFINE s == sess[c][z]
             t == sess[z][c]
             x == Mode(z, c)
             H == Hearing(c, z)
  <1>2. PICK r \in Polls(c), lucky \in BOOLEAN :
          /\ Wanted(thread[c], r.pkt) /\ r.pkt.kind = "INIT"
          /\ IF lucky /\ s.state \in Sent /\ EstablishThrows(s)
             THEN Crash(c)
             ELSE /\ IF lucky
                     THEN ApplyAck(c, r, r.pkt.from, s.seq, BogusKey)
                     ELSE TakeOnly(c, r)
                  /\ Return(c)
    BY <1>b DEF SecondInit
  <1>3. r.pkt.from = z /\ z \in Users /\ Mode(c, z) = "secondE2E"
    BY <1>a, <1>b, <1>2 DEF Wanted, E2EWaits, Mode
  <1>4. PICK k \in Nat \ {0} :
          /\ Receives(c, r, k) /\ Stream(r.streams[c]) /\ Shift(r.streams[c], inbox[c], z, k)
          /\ Scene(c, z, s, t, "secondE2E", x, inbox[c], inbox[z])
          /\ Linked(c, z, s, t, "secondE2E", x, inbox[c], inbox[z])
          /\ Fines(H, c, z, s, t, "secondE2E", x, inbox[c], inbox[z])
    BY <1>2, <1>3, ReadTidy
  <1>5. 1 \in InitsOf(inbox[c], z)
    BY <1>2, <1>3, <1>4 DEF Receives, InitsOf, From
  <1>6. ~EstablishThrows(s)
    BY <1>4, SceneFields
  <1>7. \E u : /\ UpdateSession(c, z, u) \/ (UNCHANGED sess /\ u = s)
               /\ u = s \/ (s.state \in Sent /\ u.state = "ESTABLISHED")
               /\ u.seq = s.seq /\ inbox' = r.streams /\ Return(c)
    <2>1. Return(c) /\ inbox' = r.streams
      BY <1>2, <1>6 DEF ApplyAck, TakeOnly
    <2> DEFINE u == HandleAck(s, BogusKey)
    <2>2. u.state = "ESTABLISHED" /\ u.seq = s.seq
      <3>1. s \in Session
        BY <1>a, <1>b DEF TypeOK
      <3> QED
        BY <3>1 DEF HandleAck, Session
    <2>3. (UpdateSession(c, z, u) /\ s.state \in Sent) \/ UNCHANGED sess
      BY <1>2, <1>3, <1>6 DEF ApplyAck, TakeOnly, AckApplies
    <2> HIDE DEF u, s
    <2> QED
      BY <2>1, <2>2, <2>3
  <1>8. PICK u : /\ UpdateSession(c, z, u) \/ (UNCHANGED sess /\ u = s)
                 /\ u = s \/ (s.state \in Sent /\ u.state = "ESTABLISHED")
                 /\ u.seq = s.seq /\ inbox' = r.streams /\ Return(c)
    BY <1>7
  <1>9. Fines(H, c, z, u, t, "no", x, r.streams[c], inbox[z])
    <2> HIDE DEF s, t, x, H
    <2>1. k \in Nat
      OBVIOUS
    <2> QED
      BY <1>4, <1>5, <1>8, <2>1, FineSecond
  <1>10. Orders'
    BY <1>a, <1>b, <1>4, <1>8, <1>9, ReturnTidy
  <1>11. ASSUME Heard(c, z) PROVE sess'[c][z].state = "ESTABLISHED"
    <2>1. Fine(z, s, t, "secondE2E", x, inbox[c])
      BY <1>3, <1>11 DEF Ready, Orders, Tidy
    <2>2. s.state \notin Sent
      <3> SUFFICES ASSUME s.state \in Sent PROVE FALSE
        OBVIOUS
      <3>1. PICK j \in AcksOf(inbox[c], z) : j < 1
        BY <1>5, <2>1 DEF Fine, Attempting
      <3> QED
        BY <1>4, <3>1, StreamFields DEF Scene
    <2>3. s.state \in States /\ s.state # "UNINITIALIZED"
      BY <1>4, <2>1, SceneFields DEF Fine
    <2>4. sess'[c][z] = u /\ u = s
      BY <1>a, <1>3, <1>8, <2>2, Updates
    <2> QED
      BY <2>2, <2>3, <2>4 DEF States, Sent
  <1> QED
    BY <1>b, <1>10, <1>11

\* c accepts an INIT of z, which waits for the ACK.
LEMMA AcceptTidy ==
    ASSUME Ready, NEW c \in Users, NEW z \in Users \ {c}, NEW r \in Polls(c),
           Wanted(thread[c], r.pkt) \/ Draining(c),
           r.pkt.kind = "INIT", r.pkt.from = z,
           Accepts(sess[c][z], r.pkt), AcceptInit(c, r), Mode(c, z) # "secondE2E",
           thread[c].at \in E2EWaits => thread[c].peer = z,
           NEW to \in PointOf(c), Goto(c, to), to.at \notin E2EWaits
    PROVE  Orders' /\ sess'[c][z].state = "ESTABLISHED"
  <1> DEFINE s == sess[c][z]
             t == sess[z][c]
             w == Mode(c, z)
             x == Mode(z, c)
             u == HandleInit(s, r.pkt)
             m == AckPacket(c, u)
             e == Len(inbox[z]) + 1
             new == Append(inbox[z], m)
             H == Hearing(c, z)
  <1>1. TypeOK /\ Before /\ z \in Users /\ c \in Users \ {z}
    BY DEF Ready, Before
  <1>2. UpdateSession(c, z, u) /\ inbox' = Relay(r.streams, z, m)
    BY DEF AcceptInit
  <1>3. sess'[c][z] = u
    <2> HIDE DEF u
    <2> QED
      BY <1>1, <1>2, Updates
  <1>4. End(u) /\ u \in Session
    BY <1>1, <1>3, EndsNext DEF End
  <1>5. m \in Packets /\ m.from = c /\ m.kind = "ACK"
    BY <1>4, SentPackets DEF AckPacket
  <1>6. PICK k \in Nat \ {0} :
          /\ Receives(c, r, k) /\ Stream(r.streams[c]) /\ Shift(r.streams[c], inbox[c], z, k)
          /\ Scene(c, z, s, t, w, x, inbox[c], inbox[z])
          /\ Linked(c, z, s, t, w, x, inbox[c], inbox[z])
          /\ Fines(H, c, z, s, t, w, x, inbox[c], inbox[z])
    BY ReadTidy
  <1>7. /\ 1 \in InitsOf(inbox[c], z) /\ r.pkt = inbox[c][1]
        /\ Past(r.streams[c], inbox[c], z, k) /\ k \in Nat /\ 1 <= k
    BY <1>6 DEF Receives, InitsOf, From
  <1>8. r.pkt.gen \in Generation
    <2>1. Stream(inbox[c]) /\ 1 \in From(inbox[c], z) /\ inbox[c][1].kind = "INIT"
      BY <1>6, <1>7 DEF Scene, InitsOf
    <2> QED
      BY <1>7, <2>1, FromFields
  <1>9. u.state = "ESTABLISHED" /\ u.seq = r.pkt.seq /\ u.ts = r.pkt.ts /\ u.peer = r.pkt.gen
    <2>1. s \in Session
      BY <1>1 DEF TypeOK
    <2> QED
      BY <2>1, HandledFields
  <1> HIDE DEF u, e
  <1>10. inbox[z] \in Seq(Packets)
    BY <1>1, EndsNext
  <1>11. Adds(new, inbox[z], c, m, e) /\ e \in From(new, c) /\ new[e] = m /\ Stream(new)
    <2> HIDE DEF m
    <2>1. m.kind \in {"INIT", "ACK", "TEXT"}
      BY <1>5
    <2>2. Adds(new, inbox[z], c, m, Len(inbox[z]) + 1) /\ new[Len(inbox[z]) + 1] = m
      BY <1>5, <1>10, AppendStreams
    <2>3. Len(inbox[z]) + 1 \in From(new, c)
      BY <2>1, <1>5, <1>10, AppendStreams
    <2>4. new \in Seq(Packets)
      BY <1>5, <1>10, AppendStreams
    <2>5. Stream(new)
      BY <2>4, SeqIsStream
    <2> QED
      BY <2>2, <2>3, <2>5 DEF e
  <1> HIDE DEF new
  <1>12. Attempting(t, x)
    <2>1. /\ w # "secondE2E" /\ Accepts(s, inbox[c][1]) /\ u.seq = inbox[c][1].seq
          /\ u.ts = inbox[c][1].ts /\ u.peer = inbox[c][1].gen
      BY <1>7, <1>9
    <2> HIDE DEF s, t, w, x
    <2> QED
      BY <1>4, <1>6, <1>7, <1>9, <1>11, <2>1, Accepting
  <1>13. status[z] = "in"
    BY <1>1, <1>12 DEF Attempting, Mode, Before, Local, NamedOK
  <1>14. Fines(H, c, z, u, t, "no", x, r.streams[c], new)
    <2>1. u.peer \in Generation /\ u.state = "ESTABLISHED"
      BY <1>8, <1>9
    <2> HIDE DEF s, t, w, x, H
    <2> QED
      BY <1>4, <1>6, <1>7, <1>11, <1>12, <2>1, FineAccepting
  <1>15. r.streams \in [Users -> Seq(Packets)] /\ \A y \in Users \ {c} : r.streams[y] = inbox[y]
    BY <1>6 DEF Receives
  <1> HIDE DEF m
  <1>16. /\ inbox'[z] = Append(inbox[z], m)
         /\ \A y \in Users \ {z} : inbox'[y] = r.streams[y]
    BY <1>1, <1>2, <1>13, <1>15 DEF Relay
  <1>17. inbox'[c] = r.streams[c] /\ \A y \in Users \ {c, z} : inbox'[y] = inbox[y]
    BY <1>15, <1>16
  <1>18. \A p \in Users : Reads1(c, p)
    BY <1>6, <1>17 DEF Reads1, Receives
  <1>19. Await(to) = "no" /\ (to.at \in E2EWaits => to.peer = z)
    BY DEF Await
  <1>20. Fines(Hearing(c, z), c, z, u, sess[z][c], Await(to), Mode(z, c), inbox'[c], inbox'[z])
    BY <1>14, <1>16, <1>17, <1>19 DEF new
  <1>21. inbox'[z] = inbox[z] \/ inbox'[z] = Append(inbox[z], m)
    BY <1>16
  <1>22. \A y \in Users \ {c, z} : inbox'[y] = inbox[y]
    BY <1>17
  <1>23. Orders'
    BY <1>2, <1>5, <1>18, <1>19, <1>20, <1>21, <1>22, StepTidy
  <1> QED
    BY <1>3, <1>9, <1>23

\* The first wait accepts an INIT and returns, or waits for a second answer.
LEMMA FirstInitTidy ==
    ASSUME Ready, NEW c \in Users, FirstInit(c)
    PROVE  /\ Orders'
           /\ thread'[c].at \notin E2EWaits => sess'[c][thread[c].peer].state = "ESTABLISHED"
  <1>a. TypeOK /\ Before /\ thread[c].at = "firstE2E" /\ thread[c].at \in E2EWaits
    BY DEF FirstInit, Ready, Before, E2EWaits
  <1>b. PICK z \in Users \ {c} : z = thread[c].peer
    BY <1>a, SendPeer
  <1> DEFINE s == sess[c][z]
             t == sess[z][c]
             x == Mode(z, c)
             H == Hearing(c, z)
  <1>2. PICK r \in Polls(c) :
          /\ Wanted(thread[c], r.pkt) /\ r.pkt.kind = "INIT"
          /\ IF ~Accepts(s, r.pkt)
             THEN /\ TakeOnly(c, r)
                  /\ Goto(c, [thread[c] EXCEPT !.at = "secondE2E"])
             ELSE IF EstablishThrows(s) THEN Crash(c) ELSE AcceptInit(c, r) /\ Return(c)
    BY <1>b DEF FirstInit
  <1>3. r.pkt.from = z /\ z \in Users /\ Mode(c, z) = "firstE2E"
    BY <1>a, <1>b, <1>2 DEF Wanted, E2EWaits, Mode
  <1>4. PICK k \in Nat \ {0} :
          /\ Receives(c, r, k) /\ Stream(r.streams[c]) /\ Shift(r.streams[c], inbox[c], z, k)
          /\ Scene(c, z, s, t, "firstE2E", x, inbox[c], inbox[z])
          /\ Linked(c, z, s, t, "firstE2E", x, inbox[c], inbox[z])
          /\ Fines(H, c, z, s, t, "firstE2E", x, inbox[c], inbox[z])
    BY <1>2, <1>3, ReadTidy
  <1>5. 1 \in InitsOf(inbox[c], z)
    BY <1>2, <1>3, <1>4 DEF Receives, InitsOf, From
  <1>6. CASE ~Accepts(s, r.pkt)
    <2> DEFINE to == [thread[c] EXCEPT !.at = "secondE2E"]
    <2>1. to \in PointOf(c) /\ to.at = "secondE2E" /\ to.peer = z /\ to.at \in E2EWaits
      BY <1>a, <1>b, Points DEF PointOf, Threads, Loop, LoginWait, ListWait, E2EWaits
    <2>2. UNCHANGED sess /\ Goto(c, to) /\ inbox' = r.streams /\ Miss(c, r)
      BY <1>2, <1>6 DEF TakeOnly
    <2>3. Fines(H, c, z, s, t, "secondE2E", x, r.streams[c], inbox[z])
      <3>1. 1 \notin AcksOf(inbox[c], z)
        BY <1>5 DEF InitsOf, AcksOf
      <3>2. c \in H => \A j \in AcksOf(inbox[c], z) : j > k
        BY <1>a, <1>4, <2>2, <3>1, AcksLeft DEF Hearing
      <3> HIDE DEF s, t, x, H
      <3> QED
        BY <1>4, <1>5, <3>2, FineRefusing
    <2>4. (\A p \in Users : Reads1(c, p)) /\ (\A y \in Users \ {c} : inbox'[y] = inbox[y])
      BY <1>a, <1>3, <1>4, <2>2, StreamsRead
    <2>5. Await(to) = "secondE2E" /\ inbox'[c] = r.streams[c]
      BY <2>1, <2>2 DEF Await
    <2> HIDE DEF to
    <2>6. Fines(Hearing(c, z), c, z, sess[c][z], sess[z][c], Await(to), Mode(z, c),
                inbox'[c], inbox[z])
      BY <2>3, <2>5
    <2>7. /\ \A p \in Users : Reads1(c, p)
          /\ \A y \in Users \ {c} : inbox'[y] = inbox[y]
      BY <2>4
    <2>8. thread'[c].at \in E2EWaits
      BY <1>a, <2>1, <2>2, Moves
    <2> HIDE DEF s, t, x, H
    <2>9. Orders'
      BY <1>b, <2>1, <2>2, <2>6, <2>7, SilentTidy
    <2> QED
      BY <2>8, <2>9
  <1>7. CASE Accepts(s, r.pkt)
    <2>1. ~EstablishThrows(s)
      BY <1>4, SceneFields
    <2>2. AcceptInit(c, r) /\ Return(c)
      BY <1>2, <1>7, <2>1
    <2>3. PICK to \in PointOf(c) : Goto(c, to)
      BY <1>a, <2>2, ReturnPoint
    <2>4. to.at \notin E2EWaits
      <3>1. \A p : Mode(c, p)' = "no"
        BY <1>a, <2>2, Leaves
      <3>2. thread'[c] = to
        BY <1>a, <2>3, Moves
      <3> QED
        BY <3>1, <3>2 DEF Mode, E2EWaits
    <2> QED
      BY <1>a, <1>b, <1>2, <1>3, <1>7, <2>2, <2>3, <2>4, AcceptTidy
  <1> QED
    BY <1>6, <1>7

\* The drain loop takes an INIT of any user; an ACK never gets there.
LEMMA DrainE2ETidy == ASSUME Ready, NEW c \in Users, DrainE2E(c) PROVE Orders'
  <1>1. TypeOK /\ Before /\ Draining(c) /\ thread[c] = Loop
    BY DEF DrainE2E, Ready, Before, Draining
  <1>2. PICK r \in Polls(c) :
          /\ IsE2E(r.pkt)
          /\ LET s == sess[c][r.pkt.from]
                 applies == IF r.pkt.kind = "INIT" THEN Accepts(s, r.pkt)
                            ELSE AckApplies(s, r.pkt.seq)
             IN  IF applies /\ EstablishThrows(s)
                 THEN Crash(c)
                 ELSE /\ IF r.pkt.kind = "ACK"
                         THEN ApplyAck(c, r, r.pkt.from, r.pkt.seq, r.pkt.gen)
                         ELSE IF applies THEN AcceptInit(c, r) ELSE TakeOnly(c, r)
                      /\ UNCHANGED thread
    BY DEF DrainE2E
  <1>a. r.pkt.from \in Users \ {c}
    BY <1>1, <1>2, ControlTaken
  <1>b. PICK z \in Users \ {c} : z = r.pkt.from
    BY <1>a
  <1> DEFINE s == sess[c][z]
  <1>3. Mode(c, z) = "no" /\ thread[c].at \notin E2EWaits
    BY <1>1 DEF Mode, Loop, E2EWaits
  <1>4. /\ \E k : Receives(c, r, k)
        /\ Scene(c, z, s, sess[z][c], Mode(c, z), Mode(z, c), inbox[c], inbox[z])
        /\ Linked(c, z, s, sess[z][c], Mode(c, z), Mode(z, c), inbox[c], inbox[z])
    BY <1>1, <1>2, ReadTidy
  <1>5. r.pkt.kind = "INIT"
    <2>1. ~Attempting(s, Mode(c, z))
      BY <1>3 DEF Attempting
    <2>2. AcksOf(inbox[c], z) = {}
      <3> HIDE DEF s
      <3> QED
        BY <1>4, <2>1, Ahead
    <2>3. r.pkt.kind # "ACK"
      BY <1>b, <1>4, <2>2 DEF Receives, AcksOf, From
    <2> QED
      BY <1>2, <2>3 DEF IsE2E
  <1>6. ~EstablishThrows(s)
    BY <1>4, SceneFields
  <1>7. thread[c] \in PointOf(c) /\ (UNCHANGED thread => Goto(c, thread[c]))
    BY <1>1, Points, StayStep
  <1>8. CASE ~Accepts(s, r.pkt)
    <2>1. inbox' = r.streams /\ Miss(c, r) /\ UNCHANGED <<sess, thread>>
      BY <1>b, <1>2, <1>5, <1>8 DEF TakeOnly
    <2> QED
      BY <1>3, <1>7, <2>1, PollTidy
  <1>9. CASE Accepts(s, r.pkt)
    <2>1. AcceptInit(c, r) /\ UNCHANGED thread
      BY <1>b, <1>2, <1>5, <1>6, <1>9
    <2>2. Mode(c, z) # "secondE2E"
      BY <1>3
    <2> QED
      BY <1>1, <1>b, <1>3, <1>5, <1>7, <1>9, <2>1, <2>2, AcceptTidy
  <1> QED
    BY <1>8, <1>9

-----------------------------------------------------------------------------
\* Every session is new, nothing is on its way and nobody waits.
LEMMA OrdersAtFirst == Init => Orders
  <1> SUFFICES ASSUME Init, NEW c \in Users, NEW p \in Users \ {c} PROVE Tidy(c, p)
    BY DEF Orders
  <1>1. /\ sess[c][p] = NewSession /\ sess[p][c] = NewSession /\ inbox[c] = <<>>
        /\ Mode(c, p) = "no" /\ Mode(p, c) = "no"
    BY DEF Init, Mode, Loop, E2EWaits
  <1>2. InitsOf(<<>>, p) = {} /\ AcksOf(<<>>, p) = {}
    BY DEF InitsOf, AcksOf, From
  <1> QED
    BY <1>1, <1>2 DEF Tidy, Late, Fine, Attempting, NewSession, Sent

\* Only a read makes c miss packets, and it never forgets them.
LEMMA MissedGrows == TypeOK /\ [Next]_vars => Grows
  <1> SUFFICES ASSUME TypeOK, [Next]_vars PROVE Grows
    OBVIOUS
  <1>1. ASSUME NEW c \in Users, NEW r, Miss(c, r) PROVE Grows
    BY <1>1 DEF Miss, Grows, TypeOK
  <1>2. ASSUME UNCHANGED missed PROVE Grows
    BY <1>2 DEF Grows
  <1>3. CASE UNCHANGED vars
    BY <1>2, <1>3 DEF vars
  <1>4. ASSUME NEW c \in Users, Requests(c) PROVE Grows
    BY <1>2, <1>4 DEF Requests, Login, GetUsers, Quit, Connect, ConnectStale, E2EBegin, E2EAgain
  <1>5. ASSUME NEW c \in Users, Reads(c) PROVE Grows
    <2>1. UNCHANGED missed \/ \E r : Miss(c, r)
      BY <1>5 DEF Reads, LoginReply, UsersReply, FirstInit, EitherAck, SecondInit, SetAside,
                  SkipNull, DrainE2E, DrainText, Crash, TakeOnly, AcceptInit, ApplyAck
    <2> QED
      BY <1>1, <1>2, <2>1
  <1>6. ASSUME NEW c \in Users, Send(c) \/ SendStale(c) \/ SendRenewed(c) PROVE Grows
    BY <1>2, <1>6 DEF Send, SendStale, SendRenewed, Transmit
  <1> QED
    BY <1>3, <1>4, <1>5, <1>6 DEF Next, Step

\* Every step of Client keeps the order of INITs and ACKs.
LEMMA OrdersStep == Before /\ Orders /\ [Next]_vars => Orders'
  <1> SUFFICES ASSUME Before, Orders, [Next]_vars PROVE Orders'
    OBVIOUS
  <1>a. Ready
    BY MissedGrows DEF Ready, Before
  <1>1. CASE UNCHANGED vars
    <2>1. \A c, p : Mode(c, p)' = Mode(c, p) /\ Heard(c, p)' = Heard(c, p)
      BY <1>1 DEF vars, Mode, Heard
    <2> QED
      BY <1>1, <2>1 DEF vars, Orders, Tidy
  <1>2. ASSUME NEW c \in Users, Requests(c) PROVE Orders'
    <2>1. ASSUME NEW p \in Users \ {c},
                 Connect(c, p) \/ ConnectStale(c, p) \/ E2EBegin(c, p) \/ E2EAgain(c, p)
          PROVE  Orders'
      BY <1>a, <2>1, ConnectTidy, RenewTidy, E2EAgainTidy
    <2> QED
      BY <1>2, <1>a, <2>1, AskTidy DEF Requests
  <1>3. ASSUME NEW c \in Users, Reads(c) PROVE Orders'
    BY <1>3, <1>a, PassTidy, FirstInitTidy, EitherAckTidy, SecondInitTidy, DrainE2ETidy DEF Reads
  <1>4. ASSUME NEW c \in Users, Send(c) \/ SendStale(c) \/ SendRenewed(c) PROVE Orders'
    BY <1>4, <1>a, SendTidy, RenewTidy
  <1> QED
    BY <1>1, <1>2, <1>3, <1>4 DEF Next, Step

(* A wait ends without its answer only at a client that has missed an ACK   *)
(* of that peer, and then on an INIT of an attempt ahead of its own; of any *)
(* other, a session is unfinished only while its user waits.                *)
THEOREM WaitsAreAnswered == Spec => []Orders
  <1>1. (/\ TypeOK /\ TypeOK' /\ Exchange!SessionsOK /\ Exchange!SessionsOK'
         /\ Local /\ Links /\ Orders /\ [Next]_vars)
        => Orders'
    BY OrdersStep DEF Before
  <1> QED
    BY <1>1, OrdersAtFirst, OrderInvariant, TypeCorrect, SessionsCorrect, PTL DEF Spec

(* Two clients with nothing between them are both new or both established,  *)
(* with one key, whatever their recv()s swallowed.                          *)
THEOREM QuietPairsAgree == Spec => []QuiescentAgreement
  <1>1. TypeOK /\ Exchange!SessionsOK /\ Links => QuiescentAgreement
    <2> SUFFICES ASSUME TypeOK, Exchange!SessionsOK, Links,
                        NEW c \in Users, NEW p \in Users \ {c},
                        ~\E m \in InFlight(c) : m.from = p,
                        ~\E m \in InFlight(p) : m.from = c,
                        thread[c].at \notin E2EWaits, thread[p].at \notin E2EWaits
                 PROVE  \/ sess[c][p].state = "UNINITIALIZED" /\ sess[p][c].state = "UNINITIALIZED"
                        \/ /\ Sound(sess[c][p]) /\ Sound(sess[p][c])
                           /\ sess[c][p].seq = sess[p][c].seq
      BY DEF QuiescentAgreement
    <2> DEFINE s == sess[c][p]
               t == sess[p][c]
               q == inbox[c]
               back == inbox[p]
    <2>1. Mode(c, p) = "no" /\ Mode(p, c) = "no"
      BY DEF Mode
    <2>2. Scene(c, p, s, t, "no", "no", q, back) /\ Linked(c, p, s, t, "no", "no", q, back)
      BY <2>1, Scenes DEF Links, Link
    <2>3. AcksOf(q, p) = {} /\ AcksOf(back, c) = {}
      BY DEF InFlight, Pending, Elements, AcksOf, From, IsE2E
    <2>4. s \in Session /\ t \in Session
      BY DEF TypeOK
    <2> HIDE DEF s, t, q, back
    <2>5. (t.state = "ESTABLISHED" \/ t.state \in Sent) => Matches(s, t)
      BY <2>2, <2>3 DEF Linked, Half, Settled, Attempting
    <2>6. (s.state = "ESTABLISHED" \/ s.state \in Sent) => Matches(t, s)
      BY <2>2, <2>3 DEF Linked, Half, Settled, Attempting
    <2>7. /\ s.state \in States /\ t.state \in States
          /\ s.gen # BogusKey /\ t.gen # BogusKey
      BY <2>4 DEF Session, Generation, BogusKey
    <2> HIDE DEF BogusKey
    <2>8. \/ s.state = "UNINITIALIZED" /\ t.state = "UNINITIALIZED"
          \/ Sound(s) /\ Sound(t) /\ s.seq = t.seq
      BY <2>5, <2>6, <2>7 DEF Matches, Sound, States, Sent
    <2> QED
      BY <2>8 DEF s, t
  <1> QED
    BY <1>1, OrderInvariant, TypeCorrect, SessionsCorrect, PTL

(* setupE2E returns only with an established session, unless c has missed   *)
(* an ACK of that peer.                                                     *)
THEOREM ReturnsEstablished == Spec => EstablishedOnReturn
  <1> DEFINE Returned ==
        \A c \in Users :
            thread[c].at \in E2EWaits /\ thread'[c].at \notin E2EWaits
                /\ status'[c] # "crashed" /\ Heard(c, thread[c].peer)
            => sess'[c][thread[c].peer].state = "ESTABLISHED"
  <1>1. Before /\ Orders /\ [Next]_vars => Returned
    <2> SUFFICES ASSUME Before, Orders, [Next]_vars, NEW c \in Users,
                        thread[c].at \in E2EWaits, thread'[c].at \notin E2EWaits,
                        Heard(c, thread[c].peer)
                 PROVE  sess'[c][thread[c].peer].state = "ESTABLISHED"
      OBVIOUS
    <2>1. Ready
      BY MissedGrows DEF Ready, Before
    <2>2. FirstInit(c) \/ EitherAck(c) \/ SecondInit(c)
      <3>1. thread \in [Users -> Threads] /\ thread'[c] # thread[c]
        BY DEF Before, TypeOK
      <3>2. ASSUME NEW x \in Users, Requests(x) PROVE FALSE
        <4>1. thread[x] = Loop /\ \A y \in Users \ {x} : thread'[y] = thread[y]
          BY <3>1, <3>2 DEF Requests, Login, GetUsers, Quit, Connect, ConnectStale, E2EBegin,
                            E2EAgain, Request, BeginRefresh, Goto
        <4> QED
          BY <3>1, <4>1 DEF Loop, E2EWaits
      <3>3. ASSUME NEW x \in Users, Send(x) \/ SendStale(x) \/ SendRenewed(x) PROVE FALSE
        <4>1. /\ thread[x].at \in {"send", "encrypt"}
              /\ \A y \in Users \ {x} : thread'[y] = thread[y]
          BY <3>1, <3>3 DEF Send, SendStale, SendRenewed, Transmit, BeginRefresh, Goto
        <4> QED
          BY <3>1, <4>1 DEF E2EWaits
      <3>4. ASSUME NEW x \in Users, Reads(x) PROVE x = c
        <4>1. \A y \in Users \ {x} : thread'[y] = thread[y]
          BY <3>1, <3>4 DEF Reads, LoginReply, UsersReply, FirstInit, EitherAck, SecondInit,
                            SetAside, SkipNull, DrainE2E, DrainText, Crash, Return, Goto
        <4> QED
          BY <3>1, <4>1
      <3>5. Reads(c)
        <4>1. ~UNCHANGED vars
          BY <3>1 DEF vars
        <4> QED
          BY <4>1, <3>2, <3>3, <3>4 DEF Next, Step
      <3>6. ~(LoginReply(c) \/ UsersReply(c) \/ DrainE2E(c) \/ DrainText(c))
        BY DEF LoginReply, UsersReply, DrainE2E, DrainText, Draining, Loop, LoginWait, ListWait,
               E2EWaits
      <3>7. ~(SetAside(c) \/ SkipNull(c))
        BY <3>1 DEF SetAside, SkipNull
      <3> QED
        BY <3>5, <3>6, <3>7 DEF Reads
    <2> QED
      BY <2>1, <2>2, FirstInitTidy, EitherAckTidy, SecondInitTidy
  <1>2. (/\ TypeOK /\ TypeOK' /\ Exchange!SessionsOK /\ Exchange!SessionsOK'
         /\ Local /\ Links /\ Orders /\ [Next]_vars)
        => Returned
    BY <1>1 DEF Before
  <1> QED
    BY <1>2, WaitsAreAnswered, OrderInvariant, TypeCorrect, SessionsCorrect, PTL
       DEF Spec, EstablishedOnReturn

\* A read makes no stream longer.
LEMMA StreamsShrink ==
    ASSUME TypeOK, NEW c \in Users, NEW r \in Polls(c), NEW x \in Users
    PROVE  r.streams \in [Users -> Seq(Packets)] /\ Len(r.streams[x]) <= Len(inbox[x])
  <1>1. inbox \in [Users -> Seq(Packets)]
    BY DEF TypeOK, StreamsOK
  <1>2. CASE pktQueue[c] # <<>>
    <2>1. r.streams = inbox
      BY <1>2 DEF Polls
    <2> QED
      BY <1>1, <2>1
  <1>3. CASE pktQueue[c] = <<>>
    <2>1. PICK k : Receives(c, r, k)
      BY <1>3, FromSocket
    <2>2. /\ r.streams \in [Users -> Seq(Packets)] /\ k \in Nat
          /\ x # c => r.streams[x] = inbox[x]
      BY <2>1 DEF Receives
    <2>3. CASE x = c
      <3> DEFINE n == Len(r.streams[c])
      <3>1. n \in Nat /\ DOMAIN r.streams[c] = 1 .. n
        BY <2>2
      <3>2. n = 0 \/ n + k \in 1 .. Len(inbox[c])
        <4>1. n # 0 => n \in DOMAIN r.streams[c]
          BY <3>1
        <4>2. n # 0 => n + k \in DOMAIN inbox[c]
          BY <2>1, <4>1 DEF Receives
        <4> QED
          BY <1>1, <4>2
      <3> QED
        BY <1>1, <2>2, <2>3, <3>1, <3>2
    <2> QED
      BY <1>1, <2>2, <2>3
  <1> QED
    BY <1>2, <1>3

\* The last packet of a stream that grew is the one the step put there.
LEMMA PostedLast ==
    ASSUME NEW streams \in [Users -> Seq(Packets)], NEW z, NEW m \in Packets,
           inbox' \in {streams, [streams EXCEPT ![z] = Append(@, m)]},
           NEW p \in Users, inbox[p] \in Seq(Packets), Len(streams[p]) <= Len(inbox[p]),
           Len(inbox'[p]) > Len(inbox[p])
    PROVE  inbox'[p][Len(inbox'[p])] = m
  <1>1. streams[p] \in Seq(Packets) /\ Len(streams[p]) \in Nat /\ Len(inbox[p]) \in Nat
    OBVIOUS
  <1>2. inbox'[p] # streams[p]
    BY <1>1
  <1>3. inbox'[p] = Append(streams[p], m)
    BY <1>2
  <1> QED
    BY <1>1, <1>3

\* Only Client::send puts a text on a stream.
LEMMA TextsSent ==
    ASSUME Before, [Next]_vars, NEW p \in Users, Len(inbox'[p]) > Len(inbox[p]),
           inbox'[p][Len(inbox'[p])].kind = "TEXT"
    PROVE  \E x \in Users : \E z \in Users \ {x} :
              thread[x].at \in {"send", "encrypt"} /\ Transmit(x, z)
  <1>1. TypeOK /\ inbox \in [Users -> Seq(Packets)]
    BY DEF Before, TypeOK, StreamsOK
  <1>2. inbox'[p] # inbox[p] /\ inbox'[p] # <<>>
    BY <1>1
  <1>3. ASSUME NEW z, NEW m \in Packets, m.kind # "TEXT", NEW streams \in [Users -> Seq(Packets)],
               \A x \in Users : Len(streams[x]) <= Len(inbox[x]),
               inbox' \in {streams, [streams EXCEPT ![z] = Append(@, m)]}
        PROVE  FALSE
    BY <1>1, <1>3, PostedLast
  <1>4. \A x \in Users : Len(inbox[x]) <= Len(inbox[x])
    BY <1>1
  <1>5. /\ UserList \in Packets /\ UserList.kind # "TEXT"
        /\ \A ok \in BOOLEAN : Reply(ok) \in Packets /\ Reply(ok).kind # "TEXT"
    BY NotReplies
  <1>6. ASSUME NEW c \in Users, NEW z \in Users, NEW u, UpdateSession(c, z, u)
        PROVE  /\ InitPacket(c, u) \in Packets /\ InitPacket(c, u).kind # "TEXT"
               /\ AckPacket(c, u) \in Packets /\ AckPacket(c, u).kind # "TEXT"
    <2>1. u \in Session
      <3>1. sess'[c][z] = u
        BY <1>1, <1>6, Updates
      <3> QED
        BY <3>1 DEF Before, TypeOK
    <2> QED
      BY <2>1, SentPackets DEF InitPacket, AckPacket
  <1>7. ASSUME NEW c \in Users, Requests(c) PROVE FALSE
    <2>1. CASE Login(c) \/ GetUsers(c)
      <3>1. \E m \in Packets : m.kind # "TEXT" /\ inbox' = [inbox EXCEPT ![c] = Append(@, m)]
        BY <1>5, <2>1 DEF Login, GetUsers
      <3> QED
        BY <1>1, <1>3, <1>4, <3>1
    <2>2. CASE Quit(c)
      BY <1>1, <1>2, <2>2 DEF Quit
    <2>3. ASSUME NEW z \in Users \ {c}, Connect(c, z) \/ E2EAgain(c, z) PROVE FALSE
      BY <1>2, <2>3 DEF Connect, E2EAgain
    <2>4. ASSUME NEW z \in Users \ {c}, ConnectStale(c, z) \/ E2EBegin(c, z) PROVE FALSE
      <3>1. PICK u : UpdateSession(c, z, u) /\ inbox' = Relay(inbox, z, InitPacket(c, u))
        BY <2>4 DEF ConnectStale, E2EBegin, BeginRefresh
      <3> QED
        BY <1>1, <1>3, <1>4, <1>6, <3>1 DEF Relay
    <2> QED
      BY <1>7, <2>1, <2>2, <2>3, <2>4 DEF Requests
  <1>8. ASSUME NEW c \in Users, Reads(c) PROVE FALSE
    <2>1. ~Crash(c)
      BY <1>1, <1>2 DEF Crash
    <2>2. \A r \in Polls(c) : inbox' # r.streams
      <3> SUFFICES ASSUME NEW r \in Polls(c), inbox' = r.streams PROVE FALSE
        OBVIOUS
      <3>1. Len(inbox'[p]) <= Len(inbox[p]) /\ inbox'[p] \in Seq(Packets)
        BY <1>1, StreamsShrink
      <3> QED
        BY <1>1, <3>1
    <2>3. ASSUME NEW r \in Polls(c), AcceptInit(c, r) PROVE FALSE
      <3> DEFINE z == r.pkt.from
                 u == HandleInit(sess[c][z], r.pkt)
      <3>1. UpdateSession(c, z, u) /\ inbox' = Relay(r.streams, z, AckPacket(c, u))
        BY <2>3 DEF AcceptInit
      <3> HIDE DEF u, z
      <3>2. inbox' = [r.streams EXCEPT ![z] = Append(@, AckPacket(c, u))]
        BY <2>2, <3>1 DEF Relay
      <3>3. z \in Users
        BY <1>1, <2>2, <3>2, StreamsShrink
      <3>4. AckPacket(c, u) \in Packets /\ AckPacket(c, u).kind # "TEXT"
        BY <1>6, <3>1, <3>3
      <3>5. \A x \in Users : r.streams \in [Users -> Seq(Packets)] /\ Len(r.streams[x]) <= Len(inbox[x])
        BY <1>1, StreamsShrink
      <3> QED
        BY <1>3, <3>2, <3>4, <3>5
    <2> QED
      BY <1>8, <2>1, <2>2, <2>3 DEF Reads, LoginReply, UsersReply, FirstInit, EitherAck, SecondInit,
         SetAside, SkipNull, DrainE2E, DrainText, TakeOnly, ApplyAck
  <1>9. ASSUME NEW c \in Users, SendStale(c) PROVE FALSE
    <2>1. thread[c].peer \in Users
      BY <1>1, <1>9, SendPeer DEF SendStale
    <2>2. PICK u : /\ UpdateSession(c, thread[c].peer, u)
                   /\ inbox' = Relay(inbox, thread[c].peer, InitPacket(c, u))
      BY <1>9 DEF SendStale, BeginRefresh
    <2> QED
      BY <1>1, <1>3, <1>4, <1>6, <2>1, <2>2 DEF Relay
  <1>10. ASSUME NEW c \in Users, Send(c) \/ SendRenewed(c)
         PROVE  \E z \in Users \ {c} : thread[c].at \in {"send", "encrypt"} /\ Transmit(c, z)
    <2>1. thread[c].at \in {"send", "encrypt"} /\ Transmit(c, thread[c].peer)
      BY <1>10 DEF Send, SendRenewed
    <2> QED
      BY <1>1, <2>1, SendPeer
  <1> QED
    BY <1>2, <1>7, <1>8, <1>9, <1>10 DEF Next, Step, vars

(* A text leaves unsealed only from a session no INIT was sent or accepted  *)
(* on, unless its sender has missed an ACK of the receiver.                 *)
THEOREM NothingLeaks == Spec => NoDowngrade
  <1> DEFINE Sealed ==
        \A c, p \in Users :
            Len(inbox'[p]) > Len(inbox[p]) =>
                LET m == inbox'[p][Len(inbox'[p])]
                IN  m.kind = "TEXT" /\ m.from = c /\ Heard(c, p) =>
                        m.body.sealed \/ sess[c][p].state = "UNINITIALIZED"
  <1>1. Before /\ Orders /\ [Next]_vars => Sealed
    <2> SUFFICES ASSUME Before, Orders, [Next]_vars, NEW c \in Users, NEW p \in Users,
                        Len(inbox'[p]) > Len(inbox[p]),
                        inbox'[p][Len(inbox'[p])].kind = "TEXT",
                        inbox'[p][Len(inbox'[p])].from = c, Heard(c, p)
                 PROVE  \/ inbox'[p][Len(inbox'[p])].body.sealed
                        \/ sess[c][p].state = "UNINITIALIZED"
      OBVIOUS
    <2>a. PICK x \in Users :
            \E z \in Users \ {x} : thread[x].at \in {"send", "encrypt"} /\ Transmit(x, z)
      BY TextsSent
    <2>1. PICK z \in Users \ {x} : thread[x].at \in {"send", "encrypt"} /\ Transmit(x, z)
      BY <2>a
    <2> DEFINE m == Text(x, sess[x][z])
    <2>2. m \in Packets /\ m.from = x /\ inbox \in [Users -> Seq(Packets)]
      <3>1. sess[x][z] \in Session
        BY DEF Before, TypeOK
      <3> QED
        BY <3>1, SentPackets DEF Text, Before, TypeOK, StreamsOK
    <2>3. m.body.sealed <=> sess[x][z].state = "ESTABLISHED"
      BY DEF Text, Encrypt
    <2>4. inbox' = Relay(inbox, z, m)
      BY <2>1 DEF Transmit
    <2> HIDE DEF m
    <2>5. z = p /\ inbox'[p] = Append(inbox[p], m)
      BY <2>2, <2>4 DEF Relay
    <2>6. inbox'[p][Len(inbox'[p])] = m
      BY <2>2, <2>5, AppendStreams
    <2>7. x = c /\ p \in Users \ {c}
      BY <2>2, <2>5, <2>6
    <2>8. sess[c][p].state \notin Sent /\ sess[c][p].state \in States
      <3>1. Mode(c, p) = "no"
        BY <2>1, <2>7 DEF Mode, E2EWaits
      <3> QED
        BY <2>7, <3>1 DEF Orders, Tidy, Fine, Before, TypeOK, Session
    <2> QED
      BY <2>3, <2>5, <2>6, <2>7, <2>8 DEF States, Sent
  <1>2. (/\ TypeOK /\ TypeOK' /\ Exchange!SessionsOK /\ Exchange!SessionsOK'
         /\ Local /\ Links /\ Orders /\ [Next]_vars)
        => Sealed
    BY <1>1 DEF Before
  <1> QED
    BY <1>2, WaitsAreAnswered, OrderInvariant, TypeCorrect, SessionsCorrect, PTL
       DEF Spec, NoDowngrade
=============================================================================
