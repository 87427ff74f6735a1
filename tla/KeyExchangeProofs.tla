-------------------------- MODULE KeyExchangeProofs --------------------------
(***************************************************************************)
(* Proofs about KeyExchange, for every set of users, every clock and every *)
(* expiry.  The lemmas of the first part speak of two sessions and a       *)
(* packet only: what each handler of E2ESession.cc does to the conditions  *)
(* of the inductive invariant.  s is the session a handler changes, t the  *)
(* one at the other end.                                                   *)
(***************************************************************************)
EXTENDS KeyExchange, TLAPS

(* The handlers return sessions.                                           *)
LEMMA HandlersTyped ==
    ASSUME NEW s \in Session
    PROVE  /\ \A now \in Nat : Initiate(s, now) \in Session
           /\ \A now \in Nat : Refresh(s, now) \in Session
           /\ \A m : m.seq \in Nat /\ m.ts \in Nat /\ m.gen \in Generation
                   => HandleInit(s, m) \in Session
           /\ \A key \in PeerKey : HandleAck(s, key) \in Session
  <1> /\ s.seq \in Nat /\ s.ts \in Nat /\ s.gen \in Nat /\ s.gen # 0
      /\ s.peer \in PeerKey /\ s.oldGen \in Nat /\ s.oldPeer \in PeerKey
      /\ s.seq + 1 \in Nat /\ s.gen + 1 \in Nat /\ s.gen + 1 # 0
    BY DEF Session, Generation
  <1> NoKey \in PeerKey
    BY DEF NoKey, PeerKey
  <1>1. ASSUME NEW now \in Nat PROVE Initiate(s, now) \in Session
    BY DEF Session, States, Initiate
  <1>2. Rekeyed(s) \in Session
    BY DEF Session, Generation, Rekeyed
  <1>3. ASSUME NEW now \in Nat PROVE Refresh(s, now) \in Session
    BY <1>2 DEF Session, States, Refresh
  <1>4. ASSUME NEW m, m.seq \in Nat, m.ts \in Nat, m.gen \in Generation
        PROVE  HandleInit(s, m) \in Session
    <2>1. m.gen \in PeerKey
      BY <1>4 DEF Generation, PeerKey
    <2> QED
      BY <1>4, <2>1, <1>2 DEF Session, States, HandleInit
  <1>5. ASSUME NEW key \in PeerKey PROVE HandleAck(s, key) \in Session
    BY DEF Session, States, HandleAck
  <1> QED
    BY <1>1, <1>3, <1>4, <1>5

(* The packets a session sends have the type of their kind.                *)
LEMMA PacketsTyped ==
    ASSUME NEW s \in Session, NEW senders, NEW c \in senders
    PROVE  /\ InitPacket(c, s) \in InitPackets(senders)
           /\ AckPacket(c, s) \in AckPackets(senders)
  BY DEF Session, InitPackets, AckPackets, InitPacket, AckPacket

Pair(s, t) ==
    /\ s \in Session /\ t \in Session
    /\ SessionOK(s) /\ SessionOK(t)
    /\ Agree(s, t)

(* All that the handlers read of a packet. *)
Fields(m) ==
    m.seq \in Nat /\ m.gen \in Generation /\ (m.kind = "INIT" => m.ts \in Nat)

LEMMA ControlFields == ASSUME NEW m \in Control PROVE Fields(m)
  <1>1. CASE m \in InitPackets(Users)
    BY <1>1 DEF InitPackets, Fields
  <1>2. CASE m \in AckPackets(Users)
    BY <1>2 DEF AckPackets, Fields
  <1> QED
    BY <1>1, <1>2 DEF Control

(* What a step that turns s into u must keep: the packets on their way to  *)
(* either end, and the agreement.                                          *)
Keeps(s, t, u) ==
    /\ SessionOK(u)
    /\ Agree(u, t)
    /\ \A m : Fields(m) /\ PacketOK(s, t, m) => PacketOK(u, t, m)
    /\ \A m : Fields(m) /\ PacketOK(t, s, m) => PacketOK(t, u, m)

(* E2ESession::initiate and refresh: a new attempt disturbs no packet and  *)
(* no agreement, since its sequence number is new.                         *)
LEMMA InitiateKeeps ==
    ASSUME NEW s, NEW t, Pair(s, t), NEW now \in Nat, s.state = "UNINITIALIZED"
    PROVE  Keeps(s, t, Initiate(s, now))
  BY DEF Keeps, Pair, Session, States, Sent, Generation, PeerKey, Fields, Initiate,
         SessionOK, Agree, Sound, PacketOK, InitOK, AckOK, Attempt, Accepts, AckApplies,
         NoKey, BogusKey

LEMMA RefreshKeeps ==
    ASSUME NEW s, NEW t, Pair(s, t), NEW now \in Nat
    PROVE  Keeps(s, t, Refresh(s, now))
  BY DEF Keeps, Pair, Session, States, Sent, Generation, PeerKey, Fields, Refresh, Rekeyed,
         SessionOK, Agree, Sound, PacketOK, InitOK, AckOK, Attempt, Accepts, AckApplies,
         NoKey, BogusKey

LEMMA HandleInitKeeps ==
    ASSUME NEW s, NEW t, Pair(s, t), NEW i, Fields(i), i.kind = "INIT",
           PacketOK(s, t, i), Accepts(s, i)
    PROVE  Keeps(s, t, HandleInit(s, i))
  BY DEF Keeps, Pair, Session, States, Sent, Generation, PeerKey, Fields, HandleInit, Rekeyed,
         SessionOK, Agree, Sound, PacketOK, InitOK, AckOK, Attempt, Accepts, AckApplies,
         NoKey, BogusKey

LEMMA HandleAckKeeps ==
    ASSUME NEW s, NEW t, Pair(s, t), NEW a, Fields(a), a.kind = "ACK",
           PacketOK(s, t, a), AckApplies(s, a.seq)
    PROVE  Keeps(s, t, HandleAck(s, a.gen))
  BY DEF Keeps, Pair, Session, States, Sent, Generation, PeerKey, Fields, HandleAck,
         SessionOK, Agree, Sound, PacketOK, InitOK, AckOK, Attempt, Accepts, AckApplies,
         NoKey, BogusKey

LEMMA GarbageKeeps ==
    ASSUME NEW s, NEW t, Pair(s, t), s.state \in Sent
    PROVE  Keeps(s, t, HandleAck(s, BogusKey))
  BY DEF Keeps, Pair, Session, States, Sent, Generation, PeerKey, Fields, HandleAck,
         SessionOK, Agree, Sound, PacketOK, InitOK, AckOK, Attempt, Accepts, AckApplies,
         NoKey, BogusKey
-----------------------------------------------------------------------------
(* The steps of KeyExchange. *)

(* Bounds on the clock that every step uses. *)
LEMMA Readings == ASSUME NEW c \in Users, NEW now \in Clock[c] PROVE now \in Nat
  BY ExchangeAssumption

(* A step that replaces one session and posts at most one packet keeps the *)
(* inductive invariant when its handler keeps what the pair of sessions    *)
(* says about the packets between them, and the posted packet is right.    *)
LEMMA PairStep ==
    ASSUME Inductive,
           NEW c \in Users, NEW p \in Users \ {c},
           NEW u \in Session,
           Keeps(sess[c][p], sess[p][c], u),
           sess' = [sess EXCEPT ![c][p] = u],
           net' \in [Users -> SUBSET Control],
           \A x \in Users : \A m \in net'[x] :
              m \in net[x] \/ (x = p /\ m.from = c /\ PacketOK(sess[p][c], u, m))
    PROVE  Inductive'
  <1>1. /\ sess \in [Users -> [Users -> Session]]
        /\ net \in [Users -> SUBSET Control]
    BY DEF Inductive, TypeOK
  <1>2. TypeOK'
    <2>1. sess' \in [Users -> [Users -> Session]]
      BY <1>1
    <2> QED
      BY <2>1 DEF TypeOK
  <1>3. /\ sess'[c][p] = u
        /\ \A x, y \in Users : <<x, y>> # <<c, p>> => sess'[x][y] = sess[x][y]
    BY <1>1
  <1>4. SessionsOK'
    BY <1>3 DEF SessionsOK, Inductive, Keeps
  <1>5. KeyAgreement'
    <2> SUFFICES ASSUME NEW x \in Users, NEW y \in Users \ {x}
                 PROVE  Agree(sess'[x][y], sess'[y][x])
      BY DEF KeyAgreement
    <2>1. CASE <<x, y>> = <<c, p>>
      BY <2>1, <1>3 DEF Keeps
    <2>2. CASE <<x, y>> = <<p, c>>
      BY <2>2, <1>3 DEF Keeps, Agree
    <2>3. CASE <<x, y>> # <<c, p>> /\ <<x, y>> # <<p, c>>
      BY <2>3, <1>3 DEF Inductive, KeyAgreement
    <2> QED
      BY <2>1, <2>2, <2>3
  <1>6. PacketsOK'
    <2> SUFFICES ASSUME NEW x \in Users, NEW y \in Users \ {x},
                        NEW m \in net'[x], m.from = y
                 PROVE  PacketOK(sess'[x][y], sess'[y][x], m)
      BY DEF PacketsOK
    <2>1. Fields(m)
      BY <1>2, ControlFields DEF TypeOK
    <2>2. CASE m \in net[x]
      <3>1. PacketOK(sess[x][y], sess[y][x], m)
        BY <2>2 DEF Inductive, PacketsOK
      <3>2. CASE <<x, y>> = <<c, p>>
        BY <3>1, <3>2, <2>1, <1>3 DEF Keeps
      <3>3. CASE <<x, y>> = <<p, c>>
        BY <3>1, <3>3, <2>1, <1>3 DEF Keeps
      <3>4. CASE <<x, y>> # <<c, p>> /\ <<x, y>> # <<p, c>>
        BY <3>1, <3>4, <1>3
      <3> QED
        BY <3>2, <3>3, <3>4
    <2>3. CASE m \notin net[x]
      <3>1. x = p /\ m.from = c /\ PacketOK(sess[p][c], u, m)
        BY <2>3
      <3>2. y = c
        BY <3>1
      <3> QED
        BY <3>1, <3>2, <1>3
    <2> QED
      BY <2>2, <2>3
  <1> QED
    BY <1>2, <1>4, <1>5, <1>6 DEF Inductive

(* The two kinds of such a step: one that posts a packet, and one that only *)
(* loses some.                                                              *)
LEMMA PostingStep ==
    ASSUME Inductive,
           NEW c \in Users, NEW p \in Users \ {c},
           NEW u \in Session, NEW m \in Control,
           Keeps(sess[c][p], sess[p][c], u),
           m.from = c, PacketOK(sess[p][c], u, m),
           sess' = [sess EXCEPT ![c][p] = u],
           Post(p, m)
    PROVE  Inductive'
  <1>1. net \in [Users -> SUBSET Control]
    BY DEF Inductive, TypeOK
  <1>2. /\ DOMAIN net' = Users /\ net' = [x \in Users |-> net'[x]]
        /\ \A x \in Users : \A n \in net'[x] : n \in net[x] \/ (x = p /\ n = m)
    BY <1>1 DEF Post, Losses
  <1>3. net' \in [Users -> SUBSET Control]
    BY <1>1, <1>2
  <1>4. \A x \in Users : \A n \in net'[x] :
           n \in net[x] \/ (x = p /\ n.from = c /\ PacketOK(sess[p][c], u, n))
    BY <1>2
  <1> QED
    BY <1>3, <1>4, PairStep

LEMMA LosingStep ==
    ASSUME Inductive,
           NEW c \in Users, NEW p \in Users \ {c}, NEW u \in Session,
           Keeps(sess[c][p], sess[p][c], u),
           sess' = [sess EXCEPT ![c][p] = u],
           net' \in Losses(net)
    PROVE  Inductive'
  <1>1. net \in [Users -> SUBSET Control]
    BY DEF Inductive, TypeOK
  <1>2. /\ DOMAIN net' = Users /\ net' = [x \in Users |-> net'[x]]
        /\ \A x \in Users : \A n \in net'[x] : n \in net[x]
    BY <1>1 DEF Losses
  <1>3. net' \in [Users -> SUBSET Control]
    BY <1>1, <1>2
  <1>4. \A x \in Users : \A n \in net'[x] :
           n \in net[x] \/ (x = p /\ n.from = c /\ PacketOK(sess[p][c], u, n))
    BY <1>2
  <1> QED
    BY <1>3, <1>4, PairStep

(* The INIT a handler sends describes the session it leaves behind, and so *)
(* does the ACK of an INIT that was accepted.                              *)
LEMMA NewInitOK ==
    ASSUME NEW s, NEW t, Pair(s, t), NEW now \in Nat, NEW c \in Users
    PROVE  /\ s.state = "UNINITIALIZED" =>
                 PacketOK(t, Initiate(s, now), InitPacket(c, Initiate(s, now)))
           /\ PacketOK(t, Refresh(s, now), InitPacket(c, Refresh(s, now)))
  <1>1. ASSUME s.state = "UNINITIALIZED"
        PROVE  PacketOK(t, Initiate(s, now), InitPacket(c, Initiate(s, now)))
    BY <1>1 DEF Pair, Session, Generation, PacketOK, InitOK, InitPacket, Initiate,
           Sound, SessionOK, NoKey, BogusKey, Accepts, Attempt, States
  <1>2. PacketOK(t, Refresh(s, now), InitPacket(c, Refresh(s, now)))
    BY DEF Pair, Session, Generation, PacketOK, InitOK, InitPacket, Refresh, Rekeyed,
           Sound, SessionOK, NoKey, BogusKey, Accepts, Attempt, States
  <1> QED
    BY <1>1, <1>2

LEMMA NewAckOK ==
    ASSUME NEW s, NEW t, Pair(s, t), NEW i, Fields(i), i.kind = "INIT",
           PacketOK(s, t, i), Accepts(s, i), NEW c \in Users
    PROVE  LET u == HandleInit(s, i)
           IN  AckPacket(c, u).from = c /\ PacketOK(t, u, AckPacket(c, u))
  BY DEF Pair, Session, Generation, Fields, PacketOK, InitOK, AckOK, AckPacket, HandleInit,
         Rekeyed, Sound, SessionOK, NoKey, BogusKey, Accepts, Attempt, AckApplies, States, Sent

LEMMA PairsHold ==
    ASSUME Inductive, NEW c \in Users, NEW p \in Users \ {c}
    PROVE  Pair(sess[c][p], sess[p][c])
  BY DEF Inductive, TypeOK, SessionsOK, KeyAgreement, Pair

(* Sessions that were never attempted satisfy the invariant: no packet is   *)
(* in flight (E2ESession.hh, the initial values).                           *)
THEOREM InitialState == Init => Inductive
  <1> SUFFICES ASSUME Init PROVE Inductive
    OBVIOUS
  <1>1. NewSession \in Session /\ SessionOK(NewSession) /\ ~Sound(NewSession)
    BY SessionAssumption
    DEF NewSession, Session, States, Generation, PeerKey, NoKey, BogusKey, SessionOK, Sound
  <1> QED
    BY <1>1 DEF Init, Inductive, TypeOK, SessionsOK, PacketsOK, KeyAgreement, Agree

(* Every step keeps the inductive invariant. *)
THEOREM InductiveStep == Inductive /\ [Next]_vars => Inductive'
  <1> SUFFICES ASSUME Inductive, [Next]_vars PROVE Inductive'
    OBVIOUS
  <1> TypeOK
    BY DEF Inductive
  <1>1. ASSUME NEW c \in Users, NEW p \in Users \ {c}, Begin(c, p)
        PROVE  Inductive'
    <2> DEFINE s == sess[c][p]
               t == sess[p][c]
    <2>1. Pair(s, t)
      BY PairsHold
    <2>2. PICK now \in Clock[c] :
            LET u == Initiate(s, now)
            IN  Update(c, p, u) /\ Post(p, InitPacket(c, u))
      BY <1>1 DEF Begin
    <2>3. now \in Nat
      BY Readings
    <2> DEFINE u == Initiate(s, now)
    <2>4. u \in Session
      BY <2>1, <2>3, HandlersTyped DEF Pair
    <2>5. Keeps(s, t, u)
      BY <2>1, <2>3, <1>1, InitiateKeeps DEF Begin
    <2>6. InitPacket(c, u) \in Control
      BY <2>4, PacketsTyped DEF Control
    <2>7. InitPacket(c, u).from = c /\ PacketOK(t, u, InitPacket(c, u))
      BY <2>1, <2>3, <1>1, NewInitOK DEF InitPacket, Begin
    <2>8. sess' = [sess EXCEPT ![c][p] = u]
      BY <2>2 DEF Update
    <2> HIDE DEF s, t, u
    <2> QED
      BY <2>2, <2>4, <2>5, <2>6, <2>7, <2>8, PostingStep DEF s, t, u
  <1>2. ASSUME NEW c \in Users, NEW p \in Users \ {c}, Renew(c, p)
        PROVE  Inductive'
    <2>1. Pair(sess[c][p], sess[p][c])
      BY PairsHold
    <2>2. PICK now \in Clock[c] :
            LET u == Refresh(sess[c][p], now)
            IN  Update(c, p, u) /\ Post(p, InitPacket(c, u))
      BY <1>2 DEF Renew
    <2>3. now \in Nat
      BY Readings
    <2> DEFINE u == Refresh(sess[c][p], now)
    <2>4. u \in Session
      BY <2>1, <2>3, HandlersTyped DEF Pair
    <2>5. Keeps(sess[c][p], sess[p][c], u)
      BY <2>1, <2>3, RefreshKeeps
    <2>6. InitPacket(c, u) \in Control
      BY <2>4, PacketsTyped DEF Control
    <2>7. InitPacket(c, u).from = c /\ PacketOK(sess[p][c], u, InitPacket(c, u))
      BY <2>1, <2>3, NewInitOK DEF InitPacket
    <2>8. sess' = [sess EXCEPT ![c][p] = u] /\ Post(p, InitPacket(c, u))
      BY <2>2 DEF Update
    <2> HIDE DEF u
    <2> QED
      BY <2>4, <2>5, <2>6, <2>7, <2>8, PostingStep
  <1>3. ASSUME NEW c \in Users, NEW p \in Users \ {c}, ReceiveInit(c, p)
        PROVE  Inductive'
    <2>1. Pair(sess[c][p], sess[p][c])
      BY PairsHold
    <2>2. PICK m \in net[c] :
            /\ m.kind = "INIT" /\ m.from = p
            /\ Accepts(sess[c][p], m)
            /\ LET u == HandleInit(sess[c][p], m)
               IN  Update(c, p, u) /\ Post(p, AckPacket(c, u))
      BY <1>3 DEF ReceiveInit
    <2>3. Fields(m) /\ PacketOK(sess[c][p], sess[p][c], m)
      BY <2>2, ControlFields DEF Inductive, TypeOK, PacketsOK
    <2> DEFINE u == HandleInit(sess[c][p], m)
    <2>4. u \in Session
      BY <2>1, <2>2, <2>3, HandlersTyped DEF Pair, Fields
    <2>5. Keeps(sess[c][p], sess[p][c], u)
      BY <2>1, <2>2, <2>3, HandleInitKeeps
    <2>6. AckPacket(c, u) \in Control
      BY <2>4, PacketsTyped DEF Control
    <2>7. AckPacket(c, u).from = c /\ PacketOK(sess[p][c], u, AckPacket(c, u))
      BY <2>1, <2>2, <2>3, NewAckOK
    <2>8. sess' = [sess EXCEPT ![c][p] = u] /\ Post(p, AckPacket(c, u))
      BY <2>2 DEF Update
    <2> HIDE DEF u
    <2> QED
      BY <2>4, <2>5, <2>6, <2>7, <2>8, PostingStep
  <1>4. ASSUME NEW c \in Users, NEW p \in Users \ {c}, ReceiveAck(c, p)
        PROVE  Inductive'
    <2>1. Pair(sess[c][p], sess[p][c])
      BY PairsHold
    <2>2. PICK m \in net[c] :
            /\ m.kind = "ACK" /\ m.from = p
            /\ AckApplies(sess[c][p], m.seq)
            /\ Update(c, p, HandleAck(sess[c][p], m.gen))
            /\ net' \in Losses(net)
      BY <1>4 DEF ReceiveAck
    <2>3. Fields(m) /\ PacketOK(sess[c][p], sess[p][c], m)
      BY <2>2, ControlFields DEF Inductive, TypeOK, PacketsOK
    <2>4. m.gen \in PeerKey
      BY <2>3 DEF Fields, Generation, PeerKey
    <2>5. HandleAck(sess[c][p], m.gen) \in Session
      BY <2>1, <2>4, HandlersTyped DEF Pair
    <2>6. Keeps(sess[c][p], sess[p][c], HandleAck(sess[c][p], m.gen))
      BY <2>1, <2>2, <2>3, HandleAckKeeps
    <2> QED
      BY <2>2, <2>5, <2>6, LosingStep DEF Update
  <1>5. ASSUME NEW c \in Users, NEW p \in Users \ {c}, ReceiveGarbage(c, p)
        PROVE  Inductive'
    <2>1. Pair(sess[c][p], sess[p][c])
      BY PairsHold
    <2>2. HandleAck(sess[c][p], BogusKey) \in Session
      BY <2>1, HandlersTyped DEF Pair, PeerKey
    <2>3. Keeps(sess[c][p], sess[p][c], HandleAck(sess[c][p], BogusKey))
      BY <2>1, <1>5, GarbageKeeps DEF ReceiveGarbage
    <2> QED
      BY <1>5, <2>2, <2>3, LosingStep DEF ReceiveGarbage, Update
  <1>6. ASSUME Lose PROVE Inductive'
    BY <1>6
    DEF Lose, Losses, Inductive, TypeOK, SessionsOK, PacketsOK, KeyAgreement
  <1>7. CASE UNCHANGED vars
    BY <1>7 DEF vars, Inductive, TypeOK, SessionsOK, PacketsOK, KeyAgreement
  <1> QED
    BY <1>1, <1>2, <1>3, <1>4, <1>5, <1>6, <1>7 DEF Next

(* The inductive invariant is one: every session and every packet in flight *)
(* satisfies it in every reachable state.                                   *)
THEOREM InductiveInvariant == Spec => []Inductive
  <1>1. Init => Inductive
    BY InitialState
  <1>2. Inductive /\ [Next]_vars => Inductive'
    BY InductiveStep
  <1> QED
    BY <1>1, <1>2, PTL DEF Spec

(* Sessions and packets have their types. *)
THEOREM TypeCorrect == Spec => []TypeOK
  <1>1. Inductive => TypeOK
    BY DEF Inductive
  <1> QED
    BY <1>1, InductiveInvariant, PTL

(* Two ends established with one sequence number share their AES key, over *)
(* a network that loses, repeats and reorders packets.                     *)
THEOREM Agreement == Spec => []KeyAgreement
  <1>1. Inductive => KeyAgreement
    BY DEF Inductive
  <1> QED
    BY <1>1, InductiveInvariant, PTL

(* CryptoSession::establish is never called twice on one key pair. *)
THEOREM NoThrow == Spec => []NeverThrows
  <1>1. Inductive => NeverThrows
    BY DEF Inductive, SessionsOK, SessionOK, NeverThrows, EstablishThrows
  <1> QED
    BY <1>1, InductiveInvariant, PTL

(* A session's sequence number never goes back, and within one number its  *)
(* stamp only gets older.                                                  *)
THEOREM Monotone == Spec => SeqMonotone
  <1> DEFINE Mono ==
        \A c \in Users : \A p \in Users \ {c} :
            /\ sess'[c][p].seq >= sess[c][p].seq
            /\ sess'[c][p].seq = sess[c][p].seq => sess'[c][p].ts <= sess[c][p].ts
  <1>1. ASSUME Inductive, [Next]_vars PROVE [Mono]_vars
    <2> SUFFICES ASSUME NEW x \in Users, NEW y \in Users \ {x}
                 PROVE  /\ sess'[x][y].seq >= sess[x][y].seq
                        /\ sess'[x][y].seq = sess[x][y].seq
                           => sess'[x][y].ts <= sess[x][y].ts
      OBVIOUS
    <2>1. /\ sess \in [Users -> [Users -> Session]]
          /\ net \in [Users -> SUBSET Control]
      BY <1>1 DEF Inductive, TypeOK
    <2>2. sess[x][y].seq \in Nat /\ sess[x][y].ts \in Nat
      BY <2>1 DEF Session
    <2>3. ASSUME NEW c \in Users, NEW p \in Users \ {c},
                 Begin(c, p) \/ Renew(c, p)
          PROVE  sess'[x][y] = sess[x][y] \/ sess'[x][y].seq = sess[x][y].seq + 1
      <3>1. CASE Begin(c, p)
        BY <2>1, <3>1 DEF Begin, Update, Initiate, Session
      <3>2. CASE Renew(c, p)
        BY <2>1, <3>2 DEF Renew, Update, Refresh, Rekeyed, Session
      <3> QED
        BY <2>3, <3>1, <3>2
    <2>4. ASSUME NEW c \in Users, NEW p \in Users \ {c}, ReceiveInit(c, p)
          PROVE  \/ sess'[x][y] = sess[x][y]
                 \/ \E m \in Control :
                      /\ m.kind = "INIT" /\ Accepts(sess[x][y], m)
                      /\ sess'[x][y].seq = m.seq /\ sess'[x][y].ts = m.ts
      BY <2>1, <2>4 DEF ReceiveInit, Update, HandleInit, Rekeyed, Session
    <2>5. ASSUME NEW c \in Users, NEW p \in Users \ {c},
                 ReceiveAck(c, p) \/ ReceiveGarbage(c, p)
          PROVE  sess'[x][y].seq = sess[x][y].seq /\ sess'[x][y].ts = sess[x][y].ts
      <3>1. CASE ReceiveAck(c, p)
        BY <2>1, <3>1 DEF ReceiveAck, Update, HandleAck, Session
      <3>2. CASE ReceiveGarbage(c, p)
        BY <2>1, <3>2 DEF ReceiveGarbage, Update, HandleAck, Session
      <3> QED
        BY <2>5, <3>1, <3>2
    <2>6. CASE Lose \/ UNCHANGED vars
      BY <2>2, <2>6 DEF Lose, vars
    <2>7. ASSUME NEW c \in Users, NEW p \in Users \ {c},
                 Begin(c, p) \/ Renew(c, p)
          PROVE  /\ sess'[x][y].seq >= sess[x][y].seq
                 /\ sess'[x][y].seq = sess[x][y].seq => sess'[x][y].ts <= sess[x][y].ts
      BY <2>2, <2>3, <2>7
    <2>8. ASSUME NEW c \in Users, NEW p \in Users \ {c}, ReceiveInit(c, p)
          PROVE  /\ sess'[x][y].seq >= sess[x][y].seq
                 /\ sess'[x][y].seq = sess[x][y].seq => sess'[x][y].ts <= sess[x][y].ts
      BY <2>2, <2>4, <2>8, ControlFields DEF Accepts, Fields
    <2>9. ASSUME NEW c \in Users, NEW p \in Users \ {c},
                 ReceiveAck(c, p) \/ ReceiveGarbage(c, p)
          PROVE  /\ sess'[x][y].seq >= sess[x][y].seq
                 /\ sess'[x][y].seq = sess[x][y].seq => sess'[x][y].ts <= sess[x][y].ts
      BY <2>2, <2>5, <2>9
    <2> QED
      BY <1>1, <2>6, <2>2, <2>7, <2>8, <2>9 DEF Next
  <1> QED
    BY <1>1, InductiveInvariant, PTL DEF Spec, SeqMonotone
=============================================================================
