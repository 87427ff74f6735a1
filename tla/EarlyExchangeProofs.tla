------------------------ MODULE EarlyExchangeProofs -------------------------
(***************************************************************************)
(* Proofs about the sessions of phase 4, for any number of users and of    *)
(* requests: a sealed message is opened by a client that can.              *)
(***************************************************************************)
EXTENDS EarlyExchange, SequenceTheorems, TLAPS

(* What sessions, client threads and packets of phase 4 are.               *)
States == {"UNINITIALIZED", "INIT_SENT", "ESTABLISHED"}
Places == [at : {"requests", "waitForType", "poll"}] \cup [at : {"waitForPred"}, peer : Users]
Packets == [kind : {"TEXT"}, from : Users, sealed : BOOLEAN]
      \cup [kind : {"USER_LIST"}, from : Users]
      \cup [kind : {"INIT", "ACK"}, from : Users, seq : Nat]

(* The types of the sessions' state.                                       *)
TypeOK ==
    /\ sess \in [Users -> [Users -> [state : States, seq : Nat]]]
    /\ thread \in [Users -> Places]
    /\ status \in [Users -> {"in", "left", "crashed"}]
    /\ inbox \in [Users -> Seq(Packets)]
    /\ pktQueue \in [Users -> Seq(Packets)]

(* Before it is established, a session has been attempted at most once,    *)
(* and who attempted it waits for the peer or has ended (setupE2E).        *)
OneAttempt ==
    \A c, p \in Users :
       /\ sess[c][p].state = "UNINITIALIZED" => sess[c][p].seq = 0
       /\ sess[c][p].state = "INIT_SENT" =>
             /\ sess[c][p].seq = 1
             /\ Running(c) => thread[c] = [at |-> "waitForPred", peer |-> p]
       /\ thread[c] = [at |-> "waitForPred", peer |-> p] => sess[c][p].state # "UNINITIALIZED"

(* What is on its way tells of its sender's session.                       *)
Tells(c, m) ==
    /\ m.kind # "USER_LIST" => m.from # c
    /\ m.kind = "INIT" => m.seq = 1 /\ sess[m.from][c].state # "UNINITIALIZED"
    /\ m.kind = "ACK" => m.seq = 1 /\ sess[m.from][c].state = "ESTABLISHED"
    /\ Sealed(m) => sess[m.from][c].state = "ESTABLISHED"
SenderKnown == \A c \in Users : \A i \in DOMAIN Coming(c) : Tells(c, Coming(c)[i])

(* The inductive invariant behind OpensInTime.                             *)
Inductive == TypeOK /\ OneAttempt /\ SenderKnown /\ OpensInTime

(* A packet that lets c open what p seals is in q before anything p        *)
(* sealed; state is that of c's session with p.                            *)
Announced(q, p, state) ==
    \E i \in DOMAIN q :
       /\ q[i].from = p
       /\ q[i].kind = "INIT" \/ (q[i].kind = "ACK" /\ state = "INIT_SENT")
       /\ \A j \in 1 .. i - 1 : q[j].from = p => ~Sealed(q[j])

(* A queue without its k-th packet. *)
Without(r, q, k) ==
    /\ Len(q) = Len(r) + 1
    /\ \A i \in DOMAIN r : r[i] = IF i < k THEN q[i] ELSE q[i + 1]

(* Every packet of r was in q.                                             *)
Among(r, q) == \A i \in DOMAIN r : \E j \in DOMAIN q : r[i] = q[j]

(* The fields of a packet, by its kind.                                    *)
LEMMA PacketsTyped ==
  ASSUME NEW m \in Packets
  PROVE /\ m.kind \in {"TEXT", "USER_LIST", "INIT", "ACK"} /\ m.from \in Users
        /\ m.kind \in {"INIT", "ACK"} => m.seq \in Nat
        /\ m.kind = "TEXT" => m.sealed \in BOOLEAN
  BY DEF Packets

(* What is coming to c are packets.                                        *)
LEMMA ComingTyped ==
  ASSUME TypeOK, NEW c \in Users
  PROVE Coming(c) \in Seq(Packets) /\ inbox[c] \in Seq(Packets) /\ pktQueue[c] \in Seq(Packets)
  BY DEF TypeOK, Coming

(* OpensInTime in terms of Announced.                                      *)
LEMMA Restated ==
  OpensInTime <=>
    \A c, p \in Users :
       /\ c # p /\ ~lost /\ Running(c) /\ Running(p)
       /\ sess[p][c].state = "ESTABLISHED" /\ sess[c][p].state # "ESTABLISHED"
       => Announced(Coming(c), p, sess[c][p].state)
  BY DEF OpensInTime, Announced, Opens

(* The same after a step.                                                  *)
LEMMA RestatedNext ==
  OpensInTime' <=>
    \A c, p \in Users :
       /\ c # p /\ ~lost' /\ Running(c)' /\ Running(p)'
       /\ sess'[p][c].state = "ESTABLISHED" /\ sess'[c][p].state # "ESTABLISHED"
       => Announced(Coming(c)', p, sess'[c][p].state)
  BY DEF OpensInTime, Announced, Opens, Running

(* What was announced stays so when a packet comes behind.                 *)
LEMMA AnnouncedAppend ==
  ASSUME NEW q \in Seq(Packets), NEW m \in Packets, NEW p, NEW s, Announced(q, p, s)
  PROVE Announced(Append(q, m), p, s)
  <1>1. PICK i \in DOMAIN q :
       /\ q[i].from = p
       /\ q[i].kind = "INIT" \/ (q[i].kind = "ACK" /\ s = "INIT_SENT")
       /\ \A j \in 1 .. i - 1 : q[j].from = p => ~Sealed(q[j])
    BY DEF Announced
  <1> DEFINE a == Append(q, m)
  <1>2. DOMAIN q \subseteq DOMAIN a /\ \A j \in DOMAIN q : a[j] = q[j]
    BY AppendProperties
  <1>3. i \in Nat /\ 1 .. i - 1 \subseteq DOMAIN q
    BY LenProperties
  <1> HIDE DEF a
  <1>4. Announced(a, p, s)
    BY <1>1, <1>2, <1>3 DEF Announced
  <1> QED
    BY <1>4 DEF a

(* A packet announces itself where nothing sealed is before it.            *)
LEMMA AnnouncedNew ==
  ASSUME NEW q \in Seq(Packets), NEW m \in Packets, NEW s,
         m.kind = "INIT" \/ (m.kind = "ACK" /\ s = "INIT_SENT"),
         \A j \in DOMAIN q : q[j].from = m.from => ~Sealed(q[j])
  PROVE Announced(Append(q, m), m.from, s)
  <1> DEFINE a == Append(q, m)  l == Len(q)
  <1>1. l \in Nat /\ DOMAIN q = 1 .. l /\ DOMAIN a = 1 .. l + 1 /\ a[l + 1] = m
        /\ \A j \in 1 .. l : a[j] = q[j]
    BY AppendProperties, LenProperties
  <1> HIDE DEF a, l
  <1>2. l + 1 \in DOMAIN a /\ \A j \in 1 .. (l + 1) - 1 : a[j].from = m.from => ~Sealed(a[j])
    BY <1>1
  <1>3. Announced(a, m.from, s)
    BY <1>1, <1>2 DEF Announced
  <1> QED
    BY <1>3 DEF a

(* What was announced stays so when another packet is taken.               *)
LEMMA AnnouncedWithout ==
  ASSUME NEW q \in Seq(Packets), NEW r \in Seq(Packets), NEW k \in DOMAIN q, NEW p, NEW s,
         Without(r, q, k), Announced(q, p, s),
         q[k].from = p => q[k].kind # "INIT" /\ (q[k].kind = "ACK" => s # "INIT_SENT")
  PROVE Announced(r, p, s)
  <1>1. PICK i \in DOMAIN q :
       /\ q[i].from = p
       /\ q[i].kind = "INIT" \/ (q[i].kind = "ACK" /\ s = "INIT_SENT")
       /\ \A j \in 1 .. i - 1 : q[j].from = p => ~Sealed(q[j])
    BY DEF Announced
  <1> DEFINE l == Len(r)
  <1>2. l \in Nat /\ DOMAIN r = 1 .. l /\ DOMAIN q = 1 .. l + 1
        /\ \A j \in 1 .. l : r[j] = IF j < k THEN q[j] ELSE q[j + 1]
    BY LenProperties DEF Without
  <1> HIDE DEF l
  <1>3. i # k
    BY <1>1
  <1>4. CASE i < k
    <2>1. i \in DOMAIN r /\ r[i] = q[i] /\ \A j \in 1 .. i - 1 : r[j] = q[j]
      BY <1>2, <1>4
    <2> QED
      BY <1>1, <2>1 DEF Announced
  <1>5. CASE i > k
    <2> DEFINE h == i - 1
    <2>1. h \in DOMAIN r /\ r[h] = q[i]
      BY <1>2, <1>5
    <2>2. \A j \in 1 .. h - 1 : \E o \in 1 .. i - 1 : r[j] = q[o]
      <3> TAKE j \in 1 .. h - 1
      <3>1. j \in 1 .. l /\ j \in 1 .. i - 1 /\ j + 1 \in 1 .. i - 1
        BY <1>2
      <3> QED
        BY <1>2, <3>1
    <2> HIDE DEF h
    <2> QED
      BY <1>1, <2>1, <2>2 DEF Announced
  <1> QED
    BY <1>2, <1>3, <1>4, <1>5

(* What is appended to the second of two sequences is behind both.         *)
LEMMA AppendBehind ==
  ASSUME NEW S, NEW b \in Seq(S), NEW q \in Seq(S), NEW m \in S
  PROVE  b \o Append(q, m) = Append(b \o q, m)
  <1>1. Append(q, m) = q \o <<m>> /\ Append(b \o q, m) = (b \o q) \o <<m>>
    BY AppendIsConcat, ConcatProperties
  <1>2. <<m>> \in Seq(S)
    OBVIOUS
  <1> QED
    BY <1>1, <1>2, ConcatAssociative

(* Where the parts of a joined sequence are. *)
Parts(x, b, q, e, l) ==
    /\ e \in Nat /\ l \in Nat /\ DOMAIN x = 1 .. e + l /\ Len(x) = e + l
    /\ DOMAIN b = 1 .. e /\ DOMAIN q = 1 .. l
    /\ \A i \in 1 .. e : x[i] = b[i]
    /\ \A i \in 1 .. l : x[e + i] = q[i]

(* A joined sequence consists of its parts.                                *)
LEMMA Joined ==
  ASSUME NEW S, NEW b \in Seq(S), NEW q \in Seq(S)
  PROVE  Parts(b \o q, b, q, Len(b), Len(q))
  <1> DEFINE x == b \o q  e == Len(b)  l == Len(q)
  <1>1. /\ Len(x) = e + l /\ x \in Seq(S) /\ e \in Nat /\ l \in Nat
        /\ \A i \in 1 .. e + l : x[i] = IF i <= e THEN b[i] ELSE q[i - e]
    BY ConcatProperties, LenProperties
  <1>2. DOMAIN b = 1 .. e /\ DOMAIN q = 1 .. l
    BY LenProperties
  <1> HIDE DEF x, e, l
  <1>3. DOMAIN x = 1 .. e + l
    BY <1>1, LenProperties
  <1>4. \A i \in 1 .. e : x[i] = b[i]
    BY <1>1
  <1>5. \A i \in 1 .. l : x[e + i] = q[i]
    <2> TAKE i \in 1 .. l
    <2>1. e + i \in 1 .. e + l /\ ~(e + i <= e) /\ (e + i) - e = i
      BY <1>1
    <2> QED
      BY <1>1, <2>1
  <1>6. Parts(x, b, q, e, l)
    BY <1>1, <1>2, <1>3, <1>4, <1>5 DEF Parts
  <1> QED
    BY <1>6 DEF x, e, l

(* What recv() leaves when it takes n packets. *)
CutAt(r, q, n, l) ==
    /\ l \in Nat /\ n \in 1 .. l /\ Len(q) = l /\ DOMAIN q = 1 .. l
    /\ Len(r) = l - n
    /\ \A i \in 1 .. l - n : r[i] = q[n + i]

(* SubSeq cuts the first n off, and they begin with the head.              *)
LEMMA Cuts ==
  ASSUME NEW S, NEW q \in Seq(S), NEW n \in DOMAIN q
  PROVE  /\ SubSeq(q, n + 1, Len(q)) \in Seq(S)
         /\ CutAt(SubSeq(q, n + 1, Len(q)), q, n, Len(q))
         /\ Head(q) \in S /\ Head(q) = q[1]
  <1> DEFINE l == Len(q)  a == n + 1
  <1>1. l \in Nat /\ n \in 1 .. l /\ DOMAIN q = 1 .. l
    BY LenProperties
  <1>2. a \in 1 .. l + 1 /\ l - a + 1 = l - n /\ \A i \in Int : a + i - 1 = n + i
    <2> HIDE DEF l
    <2> QED
      BY <1>1
  <1> DEFINE r == SubSeq(q, a, l)
  <1>3. r \in Seq(S) /\ Len(r) = IF a <= l THEN l - a + 1 ELSE 0
    <2> HIDE DEF a
    <2> QED
      BY <1>1, <1>2, SubSeqProperties
  <1>4. \A i \in 1 .. l - a + 1 : r[i] = q[a + i - 1]
    <2> HIDE DEF a
    <2> QED
      BY <1>1, <1>2, SubSeqProperties
  <1>5. q # <<>> /\ Head(q) = q[1] /\ Head(q) \in S
    BY <1>1, EmptySeq, HeadTailProperties
  <1> HIDE DEF r, l
  <1>6. Len(r) = l - n
    BY <1>1, <1>2, <1>3, SMTT(30)
  <1>7. \A i \in 1 .. l - n : r[i] = q[n + i]
    <2> TAKE i \in 1 .. l - n
    <2>1. i \in 1 .. l - a + 1 /\ a + i - 1 = n + i
      BY <1>1, <1>2
    <2> HIDE DEF a
    <2> QED
      BY <1>4, <2>1
  <1>8. CutAt(r, q, n, l)
    BY <1>1, <1>6, <1>7 DEF CutAt, l
  <1> QED
    BY <1>3, <1>5, <1>8 DEF r, l

(* The first of n packets on the socket is behind what was put aside; the  *)
(* others are lost.                                                        *)
LEMMA FromSocket ==
  ASSUME NEW S, NEW b \in Seq(S), NEW q \in Seq(S), NEW n \in DOMAIN q
  PROVE  LET r == SubSeq(q, n + 1, Len(q))
         IN  /\ r \in Seq(S) /\ Head(q) \in S
             /\ Among(b \o r, b \o q)
             /\ \E k \in DOMAIN (b \o q) :
                  /\ (b \o q)[k] = Head(q)
                  /\ ~(n > 1) => Without(b \o r, b \o q, k)
  <1> DEFINE r == SubSeq(q, n + 1, Len(q))
             x == b \o q
             y == b \o r
             e == Len(b)
             l == Len(q)
  <1>1. r \in Seq(S) /\ CutAt(r, q, n, l) /\ Head(q) \in S /\ Head(q) = q[1]
    BY Cuts
  <1> HIDE DEF r
  <1>2. Parts(x, b, q, e, l)
    BY Joined
  <1>3. Parts(y, b, r, e, l - n)
    <2>1. Len(r) = l - n
      BY <1>1 DEF CutAt
    <2> QED
      BY <1>1, <2>1, Joined
  <1> HIDE DEF x, y, e, l
  <1>4. Among(y, x)
    <2> SUFFICES ASSUME NEW i \in 1 .. e + (l - n) PROVE \E j \in 1 .. e + l : y[i] = x[j]
      BY <1>2, <1>3 DEF Among, Parts
    <2> USE <1>1, <1>2, <1>3 DEF Parts, CutAt
    <2>1. CASE i <= e
      <3>1. i \in 1 .. e /\ i \in 1 .. e + l
        BY <2>1
      <3> QED
        BY <3>1
    <2>2. CASE i > e
      <3> DEFINE o == i - e  h == e + (n + o)
      <3>0. e \in Nat /\ l \in Nat /\ n \in 1 .. l
        OBVIOUS
      <3>1. o \in 1 .. l - n /\ e + o = i /\ n + o \in 1 .. l /\ h \in 1 .. e + l
        BY ONLY <2>2, <3>0, i \in 1 .. e + (l - n)
      <3>2. y[e + o] = r[o] /\ r[o] = q[n + o] /\ x[h] = q[n + o]
        <4> HIDE DEF o
        <4> QED
          BY <3>1
      <3> HIDE DEF o, h
      <3> QED
        BY <3>1, <3>2
    <2> QED
      BY <2>1, <2>2
  <1> DEFINE k == e + 1
  <1>5. k \in DOMAIN x /\ x[k] = Head(q) /\ k \in Nat /\ 1 \in 1 .. l
    <2>1. e \in Nat /\ l \in Nat /\ 1 \in 1 .. l
      BY <1>1, <1>2 DEF Parts, CutAt
    <2>2. k \in Nat /\ k \in 1 .. e + l
      BY ONLY <2>1
    <2>3. x[k] = q[1]
      BY <1>2, <2>1 DEF Parts
    <2>4. DOMAIN x = 1 .. e + l /\ Head(q) = q[1]
      BY <1>1, <1>2 DEF Parts
    <2> QED
      BY <2>1, <2>2, <2>3, <2>4
  <1>6. ASSUME ~(n > 1) PROVE Without(y, x, k)
    <2> USE <1>1, <1>2, <1>3 DEF Parts, CutAt
    <2>1. n = 1
      BY <1>6
    <2>2. Len(x) = Len(y) + 1
      BY <2>1
    <2>3. ASSUME NEW i \in 1 .. e + (l - n)
          PROVE  y[i] = IF i < k THEN x[i] ELSE x[i + 1]
      <3>1. CASE i < k
        <4>1. i \in 1 .. e
          BY <3>1
        <4> QED
          BY <3>1, <4>1
      <3>2. CASE ~(i < k)
        <4> DEFINE o == i - e
        <4>1. o \in 1 .. l - n /\ e + o = i /\ n + o \in 1 .. l /\ e + (n + o) = i + 1
          BY <2>1, <3>2
        <4> HIDE DEF o
        <4>2. y[e + o] = r[o] /\ r[o] = q[n + o] /\ x[e + (n + o)] = q[n + o]
          BY <4>1
        <4> QED
          BY <3>2, <4>1, <4>2
      <3> QED
        BY <3>1, <3>2
    <2> HIDE DEF k
    <2> QED
      BY <2>2, <2>3 DEF Without
  <1> HIDE DEF k
  <1> QED
    BY <1>1, <1>4, <1>5, <1>6 DEF r, x, y

(* What was put aside is taken from its front. *)
LEMMA FromFront ==
  ASSUME NEW S, NEW b \in Seq(S), NEW q \in Seq(S), b # <<>>
  PROVE  /\ Tail(b) \in Seq(S) /\ Head(b) \in S
         /\ Among(Tail(b) \o q, b \o q)
         /\ 1 \in DOMAIN (b \o q) /\ (b \o q)[1] = Head(b)
         /\ Without(Tail(b) \o q, b \o q, 1)
  <1> DEFINE t == Tail(b)
             x == b \o q
             y == t \o q
             e == Len(b)
             l == Len(q)
  <1>1. e \in Nat /\ e # 0 /\ t \in Seq(S) /\ Len(t) = e - 1
        /\ Head(b) = b[1] /\ Head(b) \in S /\ \A i \in 1 .. e - 1 : t[i] = b[i + 1]
    BY LenProperties, EmptySeq, HeadTailProperties
  <1> HIDE DEF t
  <1>2. Parts(x, b, q, e, l) /\ Parts(y, t, q, e - 1, l)
    BY <1>1, Joined
  <1> HIDE DEF x, y, e, l
  <1> USE DEF Parts
  <1>3. ASSUME NEW i \in DOMAIN y PROVE y[i] = x[i + 1] /\ i + 1 \in DOMAIN x /\ ~(i < 1)
    <2>1. i \in 1 .. (e - 1) + l /\ i + 1 \in 1 .. e + l
      BY <1>1, <1>2
    <2>2. CASE i <= e - 1
      <3>1. i \in 1 .. e - 1 /\ i + 1 \in 1 .. e
        BY <1>1, <2>1, <2>2
      <3>2. y[i] = t[i] /\ x[i + 1] = b[i + 1] /\ t[i] = b[i + 1]
        BY <1>1, <1>2, <3>1
      <3> QED
        BY <1>2, <2>1, <3>2
    <2>3. CASE ~(i <= e - 1)
      <3> DEFINE o == i - (e - 1)
      <3>1. o \in 1 .. l /\ (e - 1) + o = i /\ e + o = i + 1
        BY <1>1, <1>2, <2>1, <2>3
      <3> HIDE DEF o
      <3>2. y[(e - 1) + o] = q[o] /\ x[e + o] = q[o]
        BY <1>2, <3>1
      <3> QED
        BY <1>2, <2>1, <3>1, <3>2
    <2> QED
      BY <2>1, <2>2, <2>3
  <1>4. Among(y, x)
    BY <1>3 DEF Among
  <1>5. 1 \in DOMAIN x /\ x[1] = Head(b)
    BY <1>1, <1>2
  <1>6. Len(x) = Len(y) + 1
    BY <1>1, <1>2
  <1>7. Without(y, x, 1)
    BY <1>3, <1>6 DEF Without
  <1> QED
    BY <1>1, <1>4, <1>5, <1>7 DEF t, x, y

(* What is put aside stays where it was in what is yet to be looked at.    *)
LEMMA PutBehind ==
  ASSUME NEW S, NEW b \in Seq(S), NEW q \in Seq(S), NEW n \in DOMAIN q
  PROVE  LET r == SubSeq(q, n + 1, Len(q))
             a == Append(b, Head(q))
         IN  /\ r \in Seq(S) /\ a \in Seq(S)
             /\ Among(a \o r, b \o q)
             /\ ~(n > 1) => a \o r = b \o q
  <1> DEFINE r == SubSeq(q, n + 1, Len(q))
             a == Append(b, Head(q))
             x == b \o q
             y == a \o r
             e == Len(b)
             l == Len(q)
  <1>1. r \in Seq(S) /\ CutAt(r, q, n, l) /\ Head(q) \in S /\ Head(q) = q[1]
    BY Cuts
  <1>2. a \in Seq(S) /\ Len(a) = e + 1 /\ a[e + 1] = Head(q) /\ \A i \in 1 .. e : a[i] = b[i]
    BY <1>1, AppendProperties
  <1> HIDE DEF r, a
  <1>3. Parts(x, b, q, e, l) /\ x \in Seq(S)
    BY Joined, ConcatProperties
  <1>4. Parts(y, a, r, e + 1, l - n) /\ y \in Seq(S)
    <2>1. Len(r) = l - n
      BY <1>1 DEF CutAt
    <2>2. Parts(y, a, r, Len(a), Len(r)) /\ y \in Seq(S)
      BY <1>1, <1>2, Joined, ConcatProperties
    <2> HIDE DEF x, y, e, l
    <2> QED
      BY <1>2, <2>1, <2>2
  <1> HIDE DEF x, y, e, l
  <1> USE DEF Parts, CutAt
  <1>5. ASSUME NEW i \in 1 .. (e + 1) + (l - n)
        PROVE  \E j \in 1 .. e + l : y[i] = x[j] /\ (n = 1 => i = j)
    <2>1. CASE i \in 1 .. e
      <3>1. i \in 1 .. e + 1 /\ i \in 1 .. e + l
        BY <1>3, <2>1
      <3>2. y[i] = a[i] /\ a[i] = b[i] /\ x[i] = b[i]
        BY <1>2, <1>3, <1>4, <2>1, <3>1
      <3> QED
        BY <3>1, <3>2
    <2>2. CASE i = e + 1
      <3>1. i \in 1 .. e + 1 /\ i \in 1 .. e + l /\ 1 \in 1 .. l
        BY <1>1, <1>3, <2>2
      <3>2. y[i] = a[i] /\ a[i] = q[1] /\ x[i] = q[1]
        BY <1>1, <1>2, <1>3, <1>4, <2>2, <3>1
      <3> QED
        BY <3>1, <3>2
    <2>3. CASE i > e + 1
      <3> DEFINE o == i - (e + 1)  h == e + (n + o)
      <3>1. o \in 1 .. l - n /\ (e + 1) + o = i /\ n + o \in 1 .. l /\ h \in 1 .. e + l
            /\ (n = 1 => i = h)
        <4>1. e \in Nat /\ l \in Nat /\ n \in 1 .. l
          BY <1>1, <1>3
        <4>2. i \in Int
          OBVIOUS
        <4>3. h = i + n - 1 /\ (e + 1) + o = i
          BY ONLY <4>1, <4>2
        <4>4. o \in 1 .. l - n /\ n + o \in 1 .. l
          BY ONLY <2>3, <4>1, i \in 1 .. (e + 1) + (l - n)
        <4>5. h \in 1 .. e + l
          BY ONLY <4>1, <4>4, SMTT(30)
        <4> HIDE DEF o, h
        <4>6. n = 1 => i = h
          BY ONLY <4>1, <4>2, <4>3
        <4> QED
          BY ONLY <4>3, <4>4, <4>5, <4>6
      <3>2. y[(e + 1) + o] = r[o] /\ r[o] = q[n + o] /\ x[h] = q[n + o]
        <4> HIDE DEF o
        <4> QED
          BY <1>1, <1>3, <1>4, <3>1
      <3> HIDE DEF o, h
      <3> QED
        BY <3>1, <3>2
    <2> QED
      BY <1>3, <2>1, <2>2, <2>3
  <1>6. Among(y, x)
    BY <1>3, <1>4, <1>5 DEF Among
  <1>7. ASSUME ~(n > 1) PROVE y = x
    <2>1. n = 1
      BY <1>1, <1>7
    <2>2. Len(y) = Len(x) /\ Len(x) = (e + 1) + (l - n)
      BY <1>1, <1>3, <1>4, <2>1
    <2>3. \A i \in 1 .. Len(x) : y[i] = x[i]
      BY <1>5, <2>1, <2>2
    <2> HIDE DEF Parts, CutAt
    <2> QED
      BY <1>3, <1>4, <2>2, <2>3, SeqEqual
  <1> QED
    BY <1>1, <1>2, <1>6, <1>7 DEF a, r, x, y

(* A session that was begun is announced by an ACK as well.                *)
LEMMA AnnouncedLater ==
  ASSUME NEW q, NEW p, NEW s, Announced(q, p, "UNINITIALIZED")
  PROVE  Announced(q, p, s)
  BY DEF Announced

(* Sessions only go forward. *)
Forward ==
    \A c, p \in Users :
       /\ sess[c][p].state # "UNINITIALIZED" => sess'[c][p].state # "UNINITIALIZED"
       /\ sess[c][p].state = "ESTABLISHED" => sess'[c][p].state = "ESTABLISHED"

(* What a packet tells stays true while its sender's session only          *)
(* advances.                                                               *)
LEMMA StillTells ==
  ASSUME Forward, NEW c \in Users, NEW m \in Packets, Tells(c, m)
  PROVE  Tells(c, m)'
  BY PacketsTyped DEF Forward, Tells, Sealed

(* Nothing new comes, or one packet that tells of its sender. *)
Brings(c) ==
    \E r \in Seq(Packets) :
       /\ Among(r, Coming(c))
       /\ \/ Coming(c)' = r
          \/ \E m \in Packets : Coming(c)' = Append(r, m) /\ Tells(c, m)'

(* What is coming still tells of its senders after such a step.            *)
LEMMA SendersStay ==
  ASSUME TypeOK, SenderKnown, Forward, \A c \in Users : Brings(c)
  PROVE  SenderKnown'
  <1> SUFFICES ASSUME NEW c \in Users, NEW i \in DOMAIN Coming(c)' PROVE Tells(c, Coming(c)[i])'
    BY DEF SenderKnown
  <1>1. PICK r \in Seq(Packets) :
       /\ Among(r, Coming(c))
       /\ \/ Coming(c)' = r
          \/ \E m \in Packets : Coming(c)' = Append(r, m) /\ Tells(c, m)'
    BY DEF Brings
  <1>2. ASSUME NEW j \in DOMAIN r PROVE Tells(c, r[j])'
    <2>1. PICK l \in DOMAIN Coming(c) : r[j] = Coming(c)[l]
      BY <1>1 DEF Among
    <2>2. Tells(c, r[j]) /\ r[j] \in Packets
      BY <2>1, ComingTyped, ElementOfSeq, LenProperties DEF SenderKnown
    <2> QED
      BY <2>2, StillTells
  <1>3. CASE Coming(c)' = r
    <2>1. i \in DOMAIN r /\ Coming(c)'[i] = r[i]
      BY <1>3
    <2>2. Tells(c, r[i])'
      BY <1>2, <2>1
    <2> QED
      BY <2>1, <2>2, <1>3 DEF Tells, Sealed
  <1>4. ASSUME NEW m \in Packets, Coming(c)' = Append(r, m), Tells(c, m)'
        PROVE  Tells(c, Coming(c)[i])'
    <2>1. (i \in DOMAIN r /\ Coming(c)'[i] = r[i]) \/ Coming(c)'[i] = m
      <3> DEFINE a == Append(r, m)  l == Len(r)
      <3>1. l \in Nat /\ DOMAIN r = 1 .. l /\ DOMAIN a = 1 .. l + 1 /\ a[l + 1] = m
            /\ \A j \in 1 .. l : a[j] = r[j]
        BY AppendProperties, LenProperties
      <3>2. i \in DOMAIN a /\ Coming(c)' = a
        BY <1>4
      <3> HIDE DEF a, l
      <3> QED
        BY <3>1, <3>2
    <2> QED
      BY <1>2, <1>4, <2>1 DEF Tells, Sealed
  <1> QED
    BY <1>1, <1>3, <1>4

(* A queue has its own packets.                                            *)
LEMMA AmongItself == ASSUME NEW q PROVE Among(q, q)
  BY DEF Among

(* What a packet sent does to the streams. *)
LEMMA SendsOne ==
  ASSUME TypeOK, NEW p \in Users, NEW m \in Packets, UNCHANGED pktQueue,
         inbox' = Sends(inbox, p, m)
  PROVE  /\ inbox' \in [Users -> Seq(Packets)]
         /\ \A u \in Users : u # p => Coming(u)' = Coming(u)
         /\ Coming(p)' = IF Running(p) THEN Append(Coming(p), m) ELSE Coming(p)
  <1>1. CASE Running(p)
    <2>1. inbox' = [inbox EXCEPT ![p] = Append(@, m)]
      BY <1>1 DEF Sends
    <2>2. inbox[p] \in Seq(Packets) /\ pktQueue[p] \in Seq(Packets)
      BY ComingTyped
    <2>3. Append(inbox[p], m) \in Seq(Packets)
      BY <2>2
    <2>4. inbox' \in [Users -> Seq(Packets)] /\ inbox'[p] = Append(inbox[p], m)
          /\ \A u \in Users : u # p => inbox'[u] = inbox[u]
      BY <2>1, <2>3 DEF TypeOK
    <2>5. Coming(p)' = pktQueue[p] \o Append(inbox[p], m)
      BY <2>4 DEF Coming
    <2> DEFINE b == pktQueue[p]  q == inbox[p]
    <2>6. b \o Append(q, m) = Append(b \o q, m)
      <3> HIDE DEF b, q
      <3>1. b \in Seq(Packets) /\ q \in Seq(Packets)
        BY <2>2 DEF b, q
      <3> QED
        BY <3>1, AppendBehind
    <2>7. Coming(p)' = Append(Coming(p), m)
      BY <2>5, <2>6 DEF Coming
    <2> QED
      BY <1>1, <2>4, <2>7 DEF Coming
  <1>2. CASE ~Running(p)
    <2>1. inbox' = inbox
      BY <1>2 DEF Sends
    <2> QED
      BY <1>2, <2>1 DEF Coming, TypeOK
  <1> QED
    BY <1>1, <1>2

(* A step that sends u nothing brings it nothing.                          *)
LEMMA BringsNothing == ASSUME TypeOK, NEW u \in Users, Coming(u)' = Coming(u) PROVE Brings(u)
  BY ComingTyped, AmongItself DEF Brings

(* A step that sends u one packet brings it that.                          *)
LEMMA BringsOne ==
  ASSUME TypeOK, NEW u \in Users, NEW m \in Packets, Coming(u)' = Append(Coming(u), m), Tells(u, m)'
  PROVE  Brings(u)
  BY ComingTyped, AmongItself DEF Brings

(* A text goes its way. *)
LEMMA SendMessageKeeps ==
  ASSUME Inductive, NEW c \in Users, NEW p \in Users \ {c}, SendMessage(c, p)
  PROVE  Inductive'
  <1>0. TypeOK /\ OneAttempt /\ SenderKnown /\ OpensInTime
    BY DEF Inductive
  <1>2. PICK m \in Packets :
          /\ m = [kind |-> "TEXT", from |-> c, sealed |-> sess[c][p].state = "ESTABLISHED"]
          /\ m.kind = "TEXT" /\ m.from = c /\ (m.sealed <=> sess[c][p].state = "ESTABLISHED")
    <2> DEFINE b == sess[c][p].state = "ESTABLISHED"
               t == [kind |-> "TEXT", from |-> c, sealed |-> b]
    <2>1. b \in BOOLEAN
      OBVIOUS
    <2> HIDE DEF b
    <2>2. t \in Packets
      BY <2>1 DEF Packets
    <2>3. t.kind = "TEXT" /\ t.from = c /\ (t.sealed <=> b)
      OBVIOUS
    <2> HIDE DEF t
    <2> QED
      BY <2>2, <2>3 DEF b, t
  <1>1. inbox' = Sends(inbox, p, m) /\ UNCHANGED <<sess, thread, status, pktQueue, lost>>
    BY <1>2 DEF SendMessage
  <1>4. /\ inbox' \in [Users -> Seq(Packets)]
        /\ \A u \in Users : u # p => Coming(u)' = Coming(u)
        /\ Coming(p)' = IF Running(p) THEN Append(Coming(p), m) ELSE Coming(p)
    BY <1>0, <1>1, <1>2, SendsOne
  <1>5. TypeOK'
    BY <1>0, <1>1, <1>4 DEF TypeOK
  <1>6. OneAttempt'
    BY <1>0, <1>1 DEF OneAttempt, Running
  <1>7. Forward
    BY <1>1 DEF Forward
  <1>8. Tells(p, m)'
    BY <1>1, <1>2 DEF Tells, Sealed
  <1>9. \A u \in Users : Brings(u)
    BY <1>0, <1>2, <1>4, <1>8, BringsNothing, BringsOne
  <1>10. SenderKnown'
    BY <1>0, <1>7, <1>9, SendersStay
  <1>11. OpensInTime'
    <2> SUFFICES ASSUME NEW u \in Users, NEW v \in Users,
                        u # v, ~lost', Running(u)', Running(v)',
                        sess'[v][u].state = "ESTABLISHED", sess'[u][v].state # "ESTABLISHED"
                 PROVE  Announced(Coming(u)', v, sess'[u][v].state)
      BY RestatedNext
    <2>1. Announced(Coming(u), v, sess[u][v].state)
      BY <1>0, <1>1, Restated DEF Running
    <2>2. Announced(Append(Coming(u), m), v, sess[u][v].state)
      BY <1>0, <1>2, <2>1, ComingTyped, AnnouncedAppend
    <2> QED
      BY <1>1, <1>4, <2>1, <2>2
  <1> QED
    BY <1>5, <1>6, <1>10, <1>11 DEF Inductive

(* setupE2E() begins at most once, and its INIT announces the session.     *)
LEMMA SetupKeeps ==
  ASSUME Inductive, NEW c \in Users, NEW p \in Users \ {c}, SetupE2E(c, p)
  PROVE  Inductive'
  <1>0. TypeOK /\ OneAttempt /\ SenderKnown /\ OpensInTime
    BY DEF Inductive
  <1>1. /\ Running(c) /\ thread[c] = At("requests")
        /\ thread' = [thread EXCEPT ![c] = [at |-> "waitForPred", peer |-> p]]
        /\ UNCHANGED <<status, pktQueue, lost>>
    BY DEF SetupE2E, Asks, Requests, Goto
  <1>2. thread' \in [Users -> Places]
    <2>1. [at |-> "waitForPred", peer |-> p] \in Places
      BY DEF Places
    <2> QED
      BY <1>0, <1>1, <2>1 DEF TypeOK
  <1>3. \A u \in Users : sess[c][u].state # "INIT_SENT"
    <2>1. thread[c].at = "requests"
      BY <1>1 DEF At
    <2>2. \A u \in Users : thread[c] # [at |-> "waitForPred", peer |-> u]
      BY <2>1
    <2> QED
      BY <1>0, <1>1, <2>2 DEF OneAttempt
  <1>4. \A u \in Users : thread'[u] = IF u = c THEN [at |-> "waitForPred", peer |-> p] ELSE thread[u]
    BY <1>0, <1>1 DEF TypeOK
  <1>5. CASE sess[c][p].state = "ESTABLISHED"
    <2>1. UNCHANGED <<sess, inbox>>
      BY <1>5 DEF SetupE2E
    <2>2. \A u \in Users : Coming(u)' = Coming(u)
      BY <1>1, <2>1 DEF Coming
    <2>3. TypeOK'
      BY <1>0, <1>1, <1>2, <2>1 DEF TypeOK
    <2>4. OneAttempt'
      <3> SUFFICES ASSUME NEW u \in Users, NEW v \in Users
          PROVE
            /\ sess[u][v].state = "UNINITIALIZED" => sess[u][v].seq = 0
            /\ sess[u][v].state = "INIT_SENT" =>
                 /\ sess[u][v].seq = 1
                 /\ Running(u) => thread'[u] = [at |-> "waitForPred", peer |-> v]
            /\ thread'[u] = [at |-> "waitForPred", peer |-> v] => sess[u][v].state # "UNINITIALIZED"
        BY <1>1, <2>1, ZenonT(60) DEF OneAttempt, Running
      <3>1. CASE u = c
        <4>1. thread'[u] = [at |-> "waitForPred", peer |-> v] => v = p
          <5>1. thread'[u].peer = p
            BY <1>4, <3>1
          <5> QED
            BY <5>1
        <4> QED
          BY <1>0, <1>3, <1>5, <3>1, <4>1 DEF OneAttempt
      <3>2. CASE u # c
        BY <1>0, <1>4, <3>2 DEF OneAttempt
      <3> QED
        BY <3>1, <3>2
    <2>5. Forward
      BY <2>1 DEF Forward
    <2>6. SenderKnown'
      BY <1>0, <2>2, <2>5, BringsNothing, SendersStay
    <2>7. OpensInTime'
      BY <1>0, <1>1, <2>1, <2>2, Restated, RestatedNext DEF Running
    <2> QED
      BY <2>3, <2>4, <2>6, <2>7 DEF Inductive
  <1>6. CASE sess[c][p].state # "ESTABLISHED"
    <2>2. sess[c][p].state = "UNINITIALIZED" /\ sess[c][p].seq = 0
      BY <1>0, <1>3, <1>6 DEF OneAttempt, TypeOK, States
    <2> DEFINE t == [state |-> "INIT_SENT", seq |-> 1]
    <2>3. t \in [state : States, seq : Nat] /\ t.state = "INIT_SENT" /\ t.seq = 1
      BY DEF States
    <2>4. PICK m \in Packets : /\ m = [kind |-> "INIT", from |-> c, seq |-> 1]
                               /\ m.kind = "INIT" /\ m.from = c /\ m.seq = 1
      <3> DEFINE n == [kind |-> "INIT", from |-> c, seq |-> 1]
      <3>1. n \in Packets /\ n.kind = "INIT" /\ n.from = c /\ n.seq = 1
        BY DEF Packets
      <3> HIDE DEF n
      <3> QED
        BY <3>1 DEF n
    <2>1. sess' = [sess EXCEPT ![c][p] = t] /\ inbox' = Sends(inbox, p, m)
      BY <1>6, <2>2, <2>3, <2>4 DEF SetupE2E
    <2> HIDE DEF t
    <2>5. sess' \in [Users -> [Users -> [state : States, seq : Nat]]]
          /\ \A u, v \in Users : sess'[u][v] = IF u = c /\ v = p THEN t ELSE sess[u][v]
      BY <1>0, <2>1, <2>3 DEF TypeOK
    <2>6. /\ inbox' \in [Users -> Seq(Packets)]
          /\ \A u \in Users : u # p => Coming(u)' = Coming(u)
          /\ Coming(p)' = IF Running(p) THEN Append(Coming(p), m) ELSE Coming(p)
      BY <1>0, <1>1, <2>1, <2>4, SendsOne
    <2>7. TypeOK'
      BY <1>0, <1>1, <1>2, <2>5, <2>6 DEF TypeOK
    <2>8. OneAttempt'
      <3> SUFFICES ASSUME NEW u \in Users, NEW v \in Users
          PROVE
            /\ sess'[u][v].state = "UNINITIALIZED" => sess'[u][v].seq = 0
            /\ sess'[u][v].state = "INIT_SENT" =>
                 /\ sess'[u][v].seq = 1
                 /\ Running(u) => thread'[u] = [at |-> "waitForPred", peer |-> v]
            /\ thread'[u] = [at |-> "waitForPred", peer |-> v] => sess'[u][v].state # "UNINITIALIZED"
        BY <1>1 DEF OneAttempt, Running
      <3>1. CASE u = c
        <4>1. thread'[u] = [at |-> "waitForPred", peer |-> v] => v = p
          <5>1. thread'[u].peer = p
            BY <1>4, <3>1
          <5> QED
            BY <5>1
        <4>2. CASE v = p
          BY <1>4, <2>3, <2>5, <3>1, <4>2
        <4>3. CASE v # p
          <5>1. sess'[u][v] = sess[c][v]
            BY <2>5, <3>1, <4>3
          <5>2. /\ sess[c][v].state = "UNINITIALIZED" => sess[c][v].seq = 0
                /\ sess[c][v].state # "INIT_SENT"
            BY <1>0, <1>3 DEF OneAttempt
          <5> QED
            BY <4>1, <4>3, <5>1, <5>2
        <4> QED
          BY <4>2, <4>3
      <3>2. CASE u # c
        <4>1. sess'[u][v] = sess[u][v] /\ thread'[u] = thread[u]
          BY <1>4, <2>5, <3>2
        <4> QED
          BY <1>0, <4>1 DEF OneAttempt
      <3> QED
        BY <3>1, <3>2
    <2>9. Forward
      BY <2>2, <2>3, <2>5 DEF Forward
    <2>10. Tells(p, m)'
      BY <2>3, <2>4, <2>5 DEF Tells, Sealed
    <2>11. \A u \in Users : Brings(u)
      BY <1>0, <2>4, <2>6, <2>10, BringsNothing, BringsOne
    <2>12. SenderKnown'
      BY <1>0, <2>9, <2>11, SendersStay
    <2>13. OpensInTime'
      <3> SUFFICES ASSUME NEW u \in Users, NEW v \in Users,
                          u # v, ~lost', Running(u)', Running(v)',
                          sess'[v][u].state = "ESTABLISHED", sess'[u][v].state # "ESTABLISHED"
                   PROVE  Announced(Coming(u)', v, sess'[u][v].state)
        BY RestatedNext
      <3>1. sess[v][u].state = "ESTABLISHED" /\ sess[u][v].state # "ESTABLISHED"
        BY <2>2, <2>3, <2>5
      <3>2. Announced(Coming(u), v, sess[u][v].state)
        BY <1>0, <1>1, <3>1, Restated DEF Running
      <3>3. Announced(Coming(u), v, sess'[u][v].state)
        BY <2>2, <2>3, <2>5, <3>2, AnnouncedLater
      <3>4. Announced(Append(Coming(u), m), v, sess'[u][v].state)
        BY <1>0, <2>4, <3>3, ComingTyped, AnnouncedAppend
      <3> QED
        BY <2>6, <3>3, <3>4
    <2> QED
      BY <2>7, <2>8, <2>12, <2>13 DEF Inductive
  <1> QED
    BY <1>5, <1>6

(* Somebody ends, or goes on without a packet. *)
LEMMA GoesOn ==
  ASSUME Inductive, NEW c \in Users, UNCHANGED <<sess, inbox, pktQueue, lost>>,
         \A u \in Users : Running(u)' => Running(u),
         status' \in [Users -> {"in", "left", "crashed"}],
         \/ UNCHANGED thread
         \/ /\ thread' = [thread EXCEPT ![c] = At("poll")] /\ thread[c] = At("requests") /\ Running(c)
         \/ /\ thread' = [thread EXCEPT ![c] = At("requests")] /\ Running(c)
            /\ thread[c].at # "waitForPred"
  PROVE  Inductive'
  <1>0. TypeOK /\ OneAttempt /\ SenderKnown /\ OpensInTime
    BY DEF Inductive
  <1>1. \A u \in Users : Coming(u)' = Coming(u)
    BY DEF Coming
  <1>2. \/ UNCHANGED thread
        \/ /\ thread[c].at # "waitForPred" /\ Running(c)
           /\ \E x \in {At("poll"), At("requests")} : thread' = [thread EXCEPT ![c] = x]
    BY DEF At
  <1>3. TypeOK'
    <2>1. At("poll") \in Places /\ At("requests") \in Places
      BY DEF At, Places
    <2> QED
      BY <1>0, <1>2, <2>1 DEF TypeOK
  <1>4. OneAttempt'
    <2> SUFFICES ASSUME NEW u \in Users, NEW v \in Users
        PROVE
          /\ sess[u][v].state = "UNINITIALIZED" => sess[u][v].seq = 0
          /\ sess[u][v].state = "INIT_SENT" =>
               /\ sess[u][v].seq = 1
               /\ Running(u)' => thread'[u] = [at |-> "waitForPred", peer |-> v]
          /\ thread'[u] = [at |-> "waitForPred", peer |-> v] => sess[u][v].state # "UNINITIALIZED"
      BY DEF OneAttempt
    <2> DEFINE w == [at |-> "waitForPred", peer |-> v]
    <2>1. thread'[u] = thread[u] \/ (thread'[u] # w /\ thread[u] # w /\ Running(u))
      <3>1. CASE UNCHANGED thread
        BY <3>1
      <3>2. ASSUME NEW x \in {At("poll"), At("requests")}, thread' = [thread EXCEPT ![c] = x],
                   thread[c].at # "waitForPred", Running(c)
            PROVE  thread'[u] = thread[u] \/ (thread'[u] # w /\ thread[u] # w /\ Running(u))
        <4>1. x # w
          <5>1. x.at # "waitForPred"
            BY DEF At
          <5> QED
            BY <5>1
        <4>2. CASE u = c
          BY <1>0, <3>2, <4>1, <4>2 DEF TypeOK
        <4>3. CASE u # c
          BY <1>0, <3>2, <4>3 DEF TypeOK
        <4> QED
          BY <4>2, <4>3
      <3> QED
        BY <1>2, <3>1, <3>2
    <2>2. /\ sess[u][v].state = "UNINITIALIZED" => sess[u][v].seq = 0
          /\ sess[u][v].state = "INIT_SENT" => sess[u][v].seq = 1 /\ (Running(u) => thread[u] = w)
          /\ thread[u] = w => sess[u][v].state # "UNINITIALIZED"
      BY <1>0 DEF OneAttempt
    <2> HIDE DEF w
    <2>3. Running(u)' => Running(u)
      OBVIOUS
    <2> QED
      BY ONLY <2>1, <2>2, <2>3 DEF w
  <1>5. Forward
    BY DEF Forward
  <1>6. SenderKnown'
    BY <1>0, <1>1, <1>5, BringsNothing, SendersStay
  <1>7. OpensInTime'
    BY <1>0, <1>1, Restated, RestatedNext
  <1> QED
    BY <1>3, <1>4, <1>6, <1>7 DEF Inductive

(* The list comes from the server. *)
LEMMA GetUsersKeeps ==
  ASSUME Inductive, NEW c \in Users, GetUsers(c)
  PROVE  Inductive'
  <1>0. TypeOK /\ OneAttempt /\ SenderKnown /\ OpensInTime
    BY DEF Inductive
  <1>1. PICK m \in Packets : /\ m = [kind |-> "USER_LIST", from |-> c]
                             /\ m.kind = "USER_LIST" /\ m.from = c
    <2> DEFINE n == [kind |-> "USER_LIST", from |-> c]
    <2>1. n \in Packets /\ n.kind = "USER_LIST" /\ n.from = c
      BY DEF Packets
    <2> HIDE DEF n
    <2> QED
      BY <2>1 DEF n
  <1>2. /\ inbox' = Sends(inbox, c, m)
        /\ Running(c) /\ thread[c] = At("requests")
        /\ thread' = [thread EXCEPT ![c] = At("waitForType")]
        /\ UNCHANGED <<sess, status, pktQueue, lost>>
    BY <1>1 DEF GetUsers, Asks, Requests, Goto
  <1>3. /\ inbox' \in [Users -> Seq(Packets)]
        /\ \A u \in Users : u # c => Coming(u)' = Coming(u)
        /\ Coming(c)' = IF Running(c) THEN Append(Coming(c), m) ELSE Coming(c)
    BY <1>0, <1>2, SendsOne
  <1>4. TypeOK'
    <2>1. At("waitForType") \in Places
      BY DEF At, Places
    <2> QED
      BY <1>0, <1>2, <1>3, <2>1 DEF TypeOK
  <1>5. OneAttempt'
    <2> SUFFICES ASSUME NEW u \in Users, NEW v \in Users
        PROVE
          /\ sess[u][v].state = "UNINITIALIZED" => sess[u][v].seq = 0
          /\ sess[u][v].state = "INIT_SENT" =>
               /\ sess[u][v].seq = 1
               /\ Running(u) => thread'[u] = [at |-> "waitForPred", peer |-> v]
          /\ thread'[u] = [at |-> "waitForPred", peer |-> v] => sess[u][v].state # "UNINITIALIZED"
      BY <1>2 DEF OneAttempt, Running
    <2> DEFINE w == [at |-> "waitForPred", peer |-> v]
    <2>1. thread'[u] = thread[u] \/ (thread'[u] # w /\ thread[u] # w /\ Running(u))
      <3>1. thread[c].at = "requests" /\ At("waitForType").at = "waitForType"
        BY <1>2 DEF At
      <3>2. thread[c] # w /\ At("waitForType") # w
        BY <3>1
      <3>3. CASE u = c
        BY <1>0, <1>2, <3>2, <3>3 DEF TypeOK
      <3>4. CASE u # c
        BY <1>0, <1>2, <3>4 DEF TypeOK
      <3> QED
        BY <3>3, <3>4
    <2>2. /\ sess[u][v].state = "UNINITIALIZED" => sess[u][v].seq = 0
          /\ sess[u][v].state = "INIT_SENT" => sess[u][v].seq = 1 /\ (Running(u) => thread[u] = w)
          /\ thread[u] = w => sess[u][v].state # "UNINITIALIZED"
      BY <1>0 DEF OneAttempt
    <2> HIDE DEF w
    <2> QED
      BY ONLY <2>1, <2>2 DEF w
  <1>6. Forward
    BY <1>2 DEF Forward
  <1>7. Tells(c, m)'
    BY <1>1 DEF Tells, Sealed
  <1>8. \A u \in Users : Brings(u)
    BY <1>0, <1>3, <1>7, BringsNothing, BringsOne
  <1>9. SenderKnown'
    BY <1>0, <1>6, <1>8, SendersStay
  <1>10. OpensInTime'
    <2> SUFFICES ASSUME NEW u \in Users, NEW v \in Users,
                        u # v, ~lost', Running(u)', Running(v)',
                        sess'[v][u].state = "ESTABLISHED", sess'[u][v].state # "ESTABLISHED"
                 PROVE  Announced(Coming(u)', v, sess'[u][v].state)
      BY RestatedNext
    <2>1. Announced(Coming(u), v, sess[u][v].state)
      BY <1>0, <1>2, Restated DEF Running
    <2>2. Announced(Append(Coming(u), m), v, sess[u][v].state)
      BY <1>0, <2>1, ComingTyped, AnnouncedAppend
    <2> QED
      BY <1>2, <1>3, <2>1, <2>2
  <1> QED
    BY <1>4, <1>5, <1>9, <1>10 DEF Inductive

(* A wait puts a packet aside: it stays where it is in the order. *)
LEMMA PutAsideKeeps ==
  ASSUME Inductive, NEW c \in Users, PutAside(c)
  PROVE  Inductive'
  <1>0. TypeOK /\ OneAttempt /\ SenderKnown /\ OpensInTime
    BY DEF Inductive
  <1> DEFINE b == pktQueue[c]  q == inbox[c]
  <1>1. b \in Seq(Packets) /\ q \in Seq(Packets)
    BY <1>0, ComingTyped
  <1>2. PICK n \in DOMAIN q :
          /\ lost' = (lost \/ n > 1)
          /\ pktQueue' = [pktQueue EXCEPT ![c] = Append(b, Head(q))]
          /\ inbox' = [inbox EXCEPT ![c] = SubSeq(q, n + 1, Len(q))]
          /\ UNCHANGED <<sess, thread, status>>
    <2> HIDE DEF b
    <2>1. PICK n \in DOMAIN inbox[c] :
            /\ Receives(c, Head(inbox[c]), n)
            /\ pktQueue' = [pktQueue EXCEPT ![c] = Append(@, Head(inbox[c]))]
            /\ inbox' = Left(c, n)
            /\ UNCHANGED <<sess, thread, status>>
      BY DEF PutAside
    <2>2. pktQueue' = [pktQueue EXCEPT ![c] = Append(b, Head(q))]
      BY <1>0, <2>1 DEF TypeOK, b
    <2>3. inbox' = [inbox EXCEPT ![c] = SubSeq(q, n + 1, Len(q))]
      BY <1>0, <2>1 DEF TypeOK, Left
    <2>4. lost' = (lost \/ n > 1)
      BY <2>1 DEF Receives
    <2> QED
      BY <2>1, <2>2, <2>3, <2>4
  <1> DEFINE r == SubSeq(q, n + 1, Len(q))
             a == Append(b, Head(q))
  <1>3. /\ r \in Seq(Packets) /\ a \in Seq(Packets)
        /\ Among(a \o r, b \o q)
        /\ ~(n > 1) => a \o r = b \o q
    <2> HIDE DEF b, q
    <2> QED
      BY <1>1, PutBehind
  <1>4. pktQueue' = [pktQueue EXCEPT ![c] = a] /\ inbox' = [inbox EXCEPT ![c] = r]
    BY <1>2
  <1>5. b \o q = Coming(c)
    BY DEF Coming
  <1> HIDE DEF a, r, b, q
  <1>6. pktQueue'[c] = a /\ inbox'[c] = r
        /\ \A u \in Users : u # c => pktQueue'[u] = pktQueue[u] /\ inbox'[u] = inbox[u]
    BY <1>0, <1>4 DEF TypeOK
  <1>7. Coming(c)' = a \o r /\ \A u \in Users : u # c => Coming(u)' = Coming(u)
    BY <1>6 DEF Coming
  <1>8. TypeOK'
    <2>1. pktQueue' \in [Users -> Seq(Packets)] /\ inbox' \in [Users -> Seq(Packets)]
      BY <1>0, <1>3, <1>4 DEF TypeOK
    <2>2. UNCHANGED <<sess, thread, status>>
      BY <1>2
    <2> QED
      BY <1>0, <2>1, <2>2 DEF TypeOK
  <1>9. OneAttempt'
    BY <1>0, <1>2 DEF OneAttempt, Running
  <1>10. Forward
    BY <1>2 DEF Forward
  <1>11. \A u \in Users : Brings(u)
    <2>1. Brings(c)
      <3>1. a \o r \in Seq(Packets)
        BY <1>3, ConcatProperties
      <3> QED
        BY <1>3, <1>5, <1>7, <3>1 DEF Brings
    <2> QED
      BY <1>0, <1>7, <2>1, BringsNothing
  <1>12. SenderKnown'
    BY <1>0, <1>10, <1>11, SendersStay
  <1>13. OpensInTime'
    <2> SUFFICES ASSUME NEW u \in Users, NEW v \in Users,
                        u # v, ~lost', Running(u)', Running(v)',
                        sess'[v][u].state = "ESTABLISHED", sess'[u][v].state # "ESTABLISHED"
                 PROVE  Announced(Coming(u)', v, sess'[u][v].state)
      BY RestatedNext
    <2>1. Announced(Coming(u), v, sess[u][v].state)
      BY <1>0, <1>2, Restated DEF Running
    <2>2. Coming(u)' = Coming(u)
      BY <1>2, <1>3, <1>5, <1>7
    <2> QED
      BY <1>2, <2>1, <2>2
  <1> QED
    BY <1>8, <1>9, <1>12, <1>13 DEF Inductive

-----------------------------------------------------------------------------
(* c takes the k-th of what is coming, and leaves b and q. *)
Takes(c, m, k, b, q) ==
    /\ Running(c)
    /\ b \in Seq(Packets) /\ q \in Seq(Packets) /\ m \in Packets
    /\ k \in DOMAIN Coming(c) /\ m = Coming(c)[k]
    /\ Among(b \o q, Coming(c))
    /\ lost => lost'
    /\ ~lost' => Without(b \o q, Coming(c), k)
    /\ pktQueue' = [pktQueue EXCEPT ![c] = b]

(* The streams when nobody is answered. *)
LEMMA TakenQuietly ==
  ASSUME TypeOK, NEW c \in Users, NEW m, NEW k, NEW b, NEW q, Takes(c, m, k, b, q),
         inbox' = [inbox EXCEPT ![c] = q]
  PROVE  /\ inbox' \in [Users -> Seq(Packets)] /\ pktQueue' \in [Users -> Seq(Packets)]
         /\ Coming(c)' = b \o q /\ \A u \in Users : u # c => Coming(u)' = Coming(u)
         /\ \A u \in Users : Brings(u)
  <1>1. inbox' \in [Users -> Seq(Packets)] /\ pktQueue' \in [Users -> Seq(Packets)]
    BY DEF Takes, TypeOK
  <1>2. pktQueue'[c] = b /\ inbox'[c] = q
        /\ \A u \in Users : u # c => pktQueue'[u] = pktQueue[u] /\ inbox'[u] = inbox[u]
    BY DEF Takes, TypeOK
  <1>3. Coming(c)' = b \o q /\ \A u \in Users : u # c => Coming(u)' = Coming(u)
    BY <1>2 DEF Coming
  <1>4. Brings(c)
    <2>1. b \o q \in Seq(Packets) /\ Among(b \o q, Coming(c))
      BY ConcatProperties DEF Takes
    <2> QED
      BY <1>3, <2>1 DEF Brings
  <1> QED
    BY <1>1, <1>3, <1>4, BringsNothing

(* A packet that neither opens the session with its sender nor is one of a *)
(* session, so that nothing but the streams changes.                       *)
LEMMA StillAnnounced ==
  ASSUME TypeOK, OpensInTime, NEW c \in Users, NEW m, NEW k, NEW b, NEW q,
         Takes(c, m, k, b, q), NEW p \in Users,
         c # p, ~lost', Running(c), Running(p),
         sess[p][c].state = "ESTABLISHED", sess[c][p].state # "ESTABLISHED",
         m.from = p => m.kind # "INIT" /\ (m.kind = "ACK" => sess[c][p].state # "INIT_SENT")
  PROVE  Announced(b \o q, p, sess[c][p].state)
  <1>1. Announced(Coming(c), p, sess[c][p].state)
    BY Restated DEF Takes
  <1>2. /\ Coming(c) \in Seq(Packets) /\ b \o q \in Seq(Packets)
        /\ k \in DOMAIN Coming(c) /\ Without(b \o q, Coming(c), k) /\ Coming(c)[k] = m
    BY ComingTyped, ConcatProperties DEF Takes
  <1> DEFINE r == b \o q  x == Coming(c)  s == sess[c][p].state
  <1> HIDE DEF r, x, s
  <1> QED
    BY <1>1, <1>2, AnnouncedWithout DEF r, x, s

(* A list or a text is read; a wait for the list returns. *)
LEMMA ReadsOther ==
  ASSUME Inductive, NEW c \in Users, NEW m, NEW k, NEW b, NEW q, Takes(c, m, k, b, q),
         ~IsE2E(m), inbox' = [inbox EXCEPT ![c] = q], UNCHANGED <<sess, status>>,
         \/ UNCHANGED thread
         \/ thread' = [thread EXCEPT ![c] = At("requests")] /\ thread[c].at # "waitForPred"
  PROVE  Inductive'
  <1>0. TypeOK /\ OneAttempt /\ SenderKnown /\ OpensInTime
    BY DEF Inductive
  <1>1. /\ inbox' \in [Users -> Seq(Packets)] /\ pktQueue' \in [Users -> Seq(Packets)]
        /\ Coming(c)' = b \o q /\ \A u \in Users : u # c => Coming(u)' = Coming(u)
        /\ \A u \in Users : Brings(u)
    BY <1>0, TakenQuietly
  <1>2. TypeOK'
    <2>1. At("requests") \in Places
      BY DEF At, Places
    <2>2. thread' \in [Users -> Places]
      BY <1>0, <2>1 DEF TypeOK
    <2> QED
      BY <1>0, <1>1, <2>2 DEF TypeOK
  <1>3. OneAttempt'
    <2> SUFFICES ASSUME NEW u \in Users, NEW v \in Users
        PROVE
          /\ sess[u][v].state = "UNINITIALIZED" => sess[u][v].seq = 0
          /\ sess[u][v].state = "INIT_SENT" =>
               /\ sess[u][v].seq = 1
               /\ Running(u) => thread'[u] = [at |-> "waitForPred", peer |-> v]
          /\ thread'[u] = [at |-> "waitForPred", peer |-> v] => sess[u][v].state # "UNINITIALIZED"
      BY DEF OneAttempt, Running
    <2> DEFINE w == [at |-> "waitForPred", peer |-> v]
    <2>1. thread'[u] = thread[u] \/ (thread'[u] # w /\ thread[u] # w /\ Running(u))
      <3>1. CASE UNCHANGED thread
        BY <3>1
      <3>2. CASE /\ thread' = [thread EXCEPT ![c] = At("requests")]
                 /\ thread[c].at # "waitForPred"
        <4>1. At("requests").at = "requests"
          BY DEF At
        <4>2. thread[c] # w /\ At("requests") # w
          BY <3>2, <4>1
        <4>3. CASE u = c
          BY <1>0, <3>2, <4>2, <4>3 DEF TypeOK, Takes
        <4>4. CASE u # c
          BY <1>0, <3>2, <4>4 DEF TypeOK
        <4> QED
          BY <4>3, <4>4
      <3> QED
        BY <3>1, <3>2
    <2>2. /\ sess[u][v].state = "UNINITIALIZED" => sess[u][v].seq = 0
          /\ sess[u][v].state = "INIT_SENT" => sess[u][v].seq = 1 /\ (Running(u) => thread[u] = w)
          /\ thread[u] = w => sess[u][v].state # "UNINITIALIZED"
      BY <1>0 DEF OneAttempt
    <2> HIDE DEF w
    <2> QED
      BY ONLY <2>1, <2>2 DEF w
  <1>4. Forward
    BY DEF Forward
  <1>5. SenderKnown'
    BY <1>0, <1>1, <1>4, SendersStay
  <1>6. OpensInTime'
    <2> SUFFICES ASSUME NEW u \in Users, NEW v \in Users,
                        u # v, ~lost', Running(u)', Running(v)',
                        sess'[v][u].state = "ESTABLISHED", sess'[u][v].state # "ESTABLISHED"
                 PROVE  Announced(Coming(u)', v, sess'[u][v].state)
      BY RestatedNext
    <2>1. Running(u) /\ Running(v)
      BY DEF Running
    <2>2. CASE u = c
      <3>1. m.kind # "INIT" /\ m.kind # "ACK"
        BY DEF IsE2E
      <3>2. Announced(b \o q, v, sess[c][v].state)
        BY <1>0, <2>1, <2>2, <3>1, StillAnnounced
      <3> QED
        BY <1>1, <2>2, <3>2
    <2>3. CASE u # c
      <3>1. ~lost
        BY DEF Takes
      <3> QED
        BY <1>0, <1>1, <2>1, <2>3, <3>1, Restated
    <2> QED
      BY <2>2, <2>3
  <1> QED
    BY <1>2, <1>3, <1>5, <1>6 DEF Inductive

(* A second INIT ends its reader. *)
LEMMA ReadsSecondInit ==
  ASSUME Inductive, NEW c \in Users, NEW m, NEW k, NEW b, NEW q, Takes(c, m, k, b, q),
         Crash(c), inbox' = [inbox EXCEPT ![c] = q]
  PROVE  Inductive'
  <1>0. TypeOK /\ OneAttempt /\ SenderKnown /\ OpensInTime
    BY DEF Inductive
  <1>1. /\ inbox' \in [Users -> Seq(Packets)] /\ pktQueue' \in [Users -> Seq(Packets)]
        /\ Coming(c)' = b \o q /\ \A u \in Users : u # c => Coming(u)' = Coming(u)
        /\ \A u \in Users : Brings(u)
    BY <1>0, TakenQuietly
  <1>2. UNCHANGED <<sess, thread>> /\ status' \in [Users -> {"in", "left", "crashed"}]
        /\ \A u \in Users : Running(u)' => Running(u) /\ u # c
    BY <1>0 DEF Crash, Running, TypeOK
  <1>3. TypeOK'
    BY <1>0, <1>1, <1>2 DEF TypeOK
  <1>4. OneAttempt'
    BY <1>0, <1>2 DEF OneAttempt
  <1>5. Forward
    BY <1>2 DEF Forward
  <1>6. SenderKnown'
    BY <1>0, <1>1, <1>5, SendersStay
  <1>7. OpensInTime'
    <2>1. lost => lost'
      BY DEF Takes
    <2> QED
      BY <1>0, <1>1, <1>2, <2>1, Restated, RestatedNext
  <1> QED
    BY <1>3, <1>4, <1>6, <1>7 DEF Inductive

(* Where an INIT or ACK is read: by the drain loop, or by the wait for it. *)
ReadAt(c, m) ==
    thread[c] = At("poll") \/ thread[c] = [at |-> "waitForPred", peer |-> m.from]

(* The thread of c returns to its requests, or to where it polled.         *)
GoesBack(c) ==
    thread' = [thread EXCEPT ![c] =
                 IF thread[c].at = "waitForPred" THEN At("requests") ELSE thread[c]]

(* Whoever has read it no longer waits, and for nobody else had an attempt *)
(* open.                                                                   *)
LEMMA NobodyElse ==
  ASSUME TypeOK, OneAttempt, NEW c \in Users, NEW m \in Packets, Running(c), ReadAt(c, m), GoesBack(c)
  PROVE  /\ \A p \in Users : p # m.from => sess[c][p].state # "INIT_SENT"
         /\ thread[c] = At("poll") => sess[c][m.from].state # "INIT_SENT"
         /\ \A p \in Users : thread'[c] # [at |-> "waitForPred", peer |-> p]
         /\ \A u \in Users : u # c => thread'[u] = thread[u]
         /\ thread' \in [Users -> Places]
  <1> DEFINE f == m.from
  <1>1. f \in Users
    BY PacketsTyped
  <1>2. At("poll").at = "poll" /\ At("requests").at = "requests"
        /\ At("requests") \in Places /\ At("poll") \in Places
    BY DEF At, Places
  <1>3. ASSUME NEW p \in Users, p # f PROVE sess[c][p].state # "INIT_SENT"
    <2>1. thread[c] # [at |-> "waitForPred", peer |-> p]
      <3>1. CASE thread[c] = At("poll")
        BY <1>2, <3>1
      <3>2. CASE thread[c] = [at |-> "waitForPred", peer |-> f]
        <4>1. thread[c].peer = f
          BY <3>2
        <4> QED
          BY <1>3, <4>1
      <3> QED
        BY <3>1, <3>2 DEF ReadAt
    <2> QED
      BY <2>1 DEF OneAttempt
  <1>4. ASSUME thread[c] = At("poll") PROVE sess[c][f].state # "INIT_SENT"
    <2>1. thread[c] # [at |-> "waitForPred", peer |-> f]
      BY <1>2, <1>4
    <2> QED
      BY <1>1, <2>1 DEF OneAttempt
  <1>5. thread'[c] \in {At("poll"), At("requests")}
    <2>1. thread'[c] = IF thread[c].at = "waitForPred" THEN At("requests") ELSE thread[c]
      BY DEF GoesBack, TypeOK
    <2>2. CASE thread[c] = At("poll")
      BY <1>2, <2>1, <2>2
    <2>3. CASE thread[c] = [at |-> "waitForPred", peer |-> f]
      <3>1. thread[c].at = "waitForPred"
        BY <2>3
      <3> QED
        BY <2>1, <3>1
    <2> QED
      BY <2>2, <2>3 DEF ReadAt
  <1>6. \A p \in Users : thread'[c] # [at |-> "waitForPred", peer |-> p]
    <2>1. thread'[c].at # "waitForPred"
      BY <1>2, <1>5
    <2> QED
      BY <2>1
  <1>7. \A u \in Users : u # c => thread'[u] = thread[u]
    BY DEF GoesBack, TypeOK
  <1>8. thread' \in [Users -> Places]
    BY <1>2, <1>5, <1>7 DEF GoesBack, TypeOK
  <1> HIDE DEF f
  <1> QED
    BY <1>3, <1>4, <1>6, <1>7, <1>8 DEF f

(* What is read came to c and tells of its sender. *)
LEMMA TakenTells ==
  ASSUME SenderKnown, NEW c \in Users, NEW m, NEW k, NEW b, NEW q, Takes(c, m, k, b, q)
  PROVE  Tells(c, m) /\ m \in Packets /\ m.from \in Users
  <1>1. m \in Packets /\ k \in DOMAIN Coming(c) /\ m = Coming(c)[k]
    BY DEF Takes
  <1> QED
    BY <1>1, PacketsTyped DEF SenderKnown

(* The answer to an INIT is put behind everything its receiver has yet to  *)
(* look at, and nothing there was sealed by the one who answers.           *)
LEMMA ReadsInit ==
  ASSUME Inductive, NEW c \in Users, NEW m, NEW k, NEW b, NEW q, Takes(c, m, k, b, q),
         m.kind = "INIT", ReadAt(c, m), sess[c][m.from].state # "ESTABLISHED",
         HandleInit(c, m, [inbox EXCEPT ![c] = q])
  PROVE  Inductive'
  <1>0. TypeOK /\ OneAttempt /\ SenderKnown /\ OpensInTime
    BY DEF Inductive
  <1> DEFINE f == m.from
             boxes == [inbox EXCEPT ![c] = q]
             t == [state |-> "ESTABLISHED", seq |-> m.seq]
  <1>1. /\ m \in Packets /\ f \in Users /\ f # c /\ m.seq = 1
        /\ sess[f][c].state # "UNINITIALIZED"
    BY <1>0, TakenTells DEF Tells
  <1>2. PICK a \in Packets : /\ a = [kind |-> "ACK", from |-> c, seq |-> m.seq]
                             /\ a.kind = "ACK" /\ a.from = c /\ a.seq = 1
    <2> DEFINE n == [kind |-> "ACK", from |-> c, seq |-> m.seq]
    <2>1. n \in Packets /\ n.kind = "ACK" /\ n.from = c /\ n.seq = 1
      BY <1>1 DEF Packets
    <2> HIDE DEF n
    <2> QED
      BY <2>1 DEF n
  <1>3. /\ sess' = [sess EXCEPT ![c][f] = t]
        /\ inbox' = Sends(boxes, f, a)
        /\ GoesBack(c)
        /\ UNCHANGED <<status, budget>>
    BY <1>2 DEF HandleInit, Goto, GoesBack
  <1>4. t \in [state : States, seq : Nat] /\ t.state = "ESTABLISHED"
    BY <1>1 DEF States
  <1> HIDE DEF t
  <1>5. sess' \in [Users -> [Users -> [state : States, seq : Nat]]]
        /\ \A u, v \in Users : sess'[u][v] = IF u = c /\ v = f THEN t ELSE sess[u][v]
    BY <1>0, <1>1, <1>3, <1>4 DEF TypeOK
  <1>6. /\ b \in Seq(Packets) /\ q \in Seq(Packets) /\ Running(c)
        /\ pktQueue' = [pktQueue EXCEPT ![c] = b]
    BY DEF Takes
  <1>7. /\ inbox' \in [Users -> Seq(Packets)] /\ pktQueue' \in [Users -> Seq(Packets)]
        /\ inbox'[c] = q /\ pktQueue'[c] = b
        /\ \A u \in Users : u # c => pktQueue'[u] = pktQueue[u]
        /\ \A u \in Users : u # c /\ u # f => inbox'[u] = inbox[u]
        /\ inbox'[f] = IF Running(f) THEN Append(inbox[f], a) ELSE inbox[f]
    <2>1. boxes \in [Users -> Seq(Packets)] /\ boxes[c] = q
          /\ \A u \in Users : u # c => boxes[u] = inbox[u]
      BY <1>0, <1>6 DEF TypeOK
    <2>2. inbox' = IF Running(f) THEN [boxes EXCEPT ![f] = Append(@, a)] ELSE boxes
      BY <1>3 DEF Sends
    <2> HIDE DEF boxes
    <2>3. CASE Running(f)
      <3>1. inbox[f] \in Seq(Packets) /\ boxes[f] = inbox[f]
        BY <1>0, <1>1, <2>1, ComingTyped
      <3>2. Append(inbox[f], a) \in Seq(Packets)
        BY <3>1
      <3>3. inbox' = [boxes EXCEPT ![f] = Append(inbox[f], a)]
        BY <1>1, <2>1, <2>2, <2>3, <3>1
      <3>4. inbox' \in [Users -> Seq(Packets)] /\ inbox'[f] = Append(inbox[f], a) /\ inbox'[c] = q
            /\ \A u \in Users : u # c /\ u # f => inbox'[u] = inbox[u]
        BY <1>1, <2>1, <3>2, <3>3
      <3> QED
        BY <1>0, <1>6, <2>3, <3>4 DEF TypeOK
    <2>4. CASE ~Running(f)
      BY <1>0, <1>1, <1>6, <2>1, <2>2, <2>4 DEF TypeOK
    <2> QED
      BY <2>3, <2>4
  <1>8. /\ Coming(c)' = b \o q
        /\ \A u \in Users : u # c /\ u # f => Coming(u)' = Coming(u)
        /\ Coming(f)' = IF Running(f) THEN Append(Coming(f), a) ELSE Coming(f)
    <2>1. Coming(c)' = b \o q /\ \A u \in Users : u # c /\ u # f => Coming(u)' = Coming(u)
      BY <1>7 DEF Coming
    <2>2. CASE Running(f)
      <3>1. Coming(f)' = pktQueue[f] \o Append(inbox[f], a)
        BY <1>1, <1>7, <2>2 DEF Coming
      <3> DEFINE g == pktQueue[f]  h == inbox[f]
      <3>2. g \o Append(h, a) = Append(g \o h, a)
        <4>1. g \in Seq(Packets) /\ h \in Seq(Packets)
          BY <1>0, <1>1, ComingTyped
        <4> HIDE DEF g, h
        <4> QED
          BY <4>1, AppendBehind
      <3>3. Coming(f)' = Append(Coming(f), a)
        BY <3>1, <3>2 DEF Coming
      <3> QED
        BY <2>1, <2>2, <3>3
    <2>3. CASE ~Running(f)
      BY <1>1, <1>7, <2>1, <2>3 DEF Coming
    <2> QED
      BY <2>2, <2>3
  <1>9. /\ \A p \in Users : p # f => sess[c][p].state # "INIT_SENT"
        /\ \A p \in Users : thread'[c] # [at |-> "waitForPred", peer |-> p]
        /\ \A u \in Users : u # c => thread'[u] = thread[u]
        /\ thread' \in [Users -> Places]
    BY <1>0, <1>1, <1>3, <1>6, NobodyElse
  <1>10. TypeOK'
    BY <1>0, <1>3, <1>5, <1>7, <1>9 DEF TypeOK
  <1> HIDE DEF f
  <1>11. OneAttempt'
    <2> SUFFICES ASSUME NEW u \in Users, NEW v \in Users
        PROVE
          /\ sess'[u][v].state = "UNINITIALIZED" => sess'[u][v].seq = 0
          /\ sess'[u][v].state = "INIT_SENT" =>
               /\ sess'[u][v].seq = 1
               /\ Running(u) => thread'[u] = [at |-> "waitForPred", peer |-> v]
          /\ thread'[u] = [at |-> "waitForPred", peer |-> v] => sess'[u][v].state # "UNINITIALIZED"
      BY <1>3 DEF OneAttempt, Running
    <2>1. CASE u = c /\ v = f
      BY <1>4, <1>5, <2>1
    <2>2. CASE u = c /\ v # f
      <3>1. sess'[u][v] = sess[c][v]
        BY <1>5, <2>2
      <3>2. sess[c][v].state = "UNINITIALIZED" => sess[c][v].seq = 0
        BY <1>0 DEF OneAttempt
      <3> QED
        BY <1>9, <2>2, <3>1, <3>2
    <2>3. CASE u # c
      <3>1. sess'[u][v] = sess[u][v] /\ thread'[u] = thread[u]
        BY <1>5, <1>9, <2>3
      <3> QED
        BY <1>0, <3>1 DEF OneAttempt
    <2> QED
      BY <2>1, <2>2, <2>3
  <1>12. Forward
    BY <1>4, <1>5 DEF Forward
  <1>13. Tells(f, a)'
    BY <1>1, <1>2, <1>4, <1>5 DEF Tells, Sealed, f
  <1>14. \A u \in Users : Brings(u)
    <2>1. Brings(c)
      <3>1. b \o q \in Seq(Packets) /\ Among(b \o q, Coming(c))
        BY ConcatProperties DEF Takes
      <3> QED
        BY <1>8, <3>1 DEF Brings
    <2>2. Brings(f)
      BY <1>0, <1>1, <1>8, <1>13, BringsNothing, BringsOne DEF f
    <2> QED
      BY <1>0, <1>8, <2>1, <2>2, BringsNothing
  <1>15. SenderKnown'
    BY <1>0, <1>12, <1>14, SendersStay
  <1>16. OpensInTime'
    <2> SUFFICES ASSUME NEW u \in Users, NEW v \in Users,
                        u # v, ~lost', Running(u)', Running(v)',
                        sess'[v][u].state = "ESTABLISHED", sess'[u][v].state # "ESTABLISHED"
                 PROVE  Announced(Coming(u)', v, sess'[u][v].state)
      BY RestatedNext
    <2>1. Running(u) /\ Running(v) /\ ~lost
      BY <1>3 DEF Running, Takes
    <2>2. ~(u = c /\ v = f) /\ sess'[u][v] = sess[u][v]
      BY <1>4, <1>5
    <2>3. CASE u = f /\ v = c
      <3>1. f \in Users /\ f # c /\ sess[f][c].state = "INIT_SENT"
        BY <1>0, <1>1, <2>2, <2>3 DEF TypeOK, States, f
      <3>2. ASSUME NEW j \in DOMAIN Coming(f), Coming(f)[j].from = c PROVE ~Sealed(Coming(f)[j])
        <4>1. Tells(f, Coming(f)[j])
          BY <1>0, <3>1 DEF SenderKnown
        <4>2. sess[c][f].state # "ESTABLISHED"
          BY DEF f
        <4> QED
          BY <3>2, <4>1, <4>2 DEF Tells
      <3>3. Coming(f) \in Seq(Packets)
        BY <1>0, <3>1, ComingTyped
      <3> DEFINE x == Coming(f)  s == sess[f][c].state
      <3>4. x \in Seq(Packets) /\ (\A j \in DOMAIN x : x[j].from = a.from => ~Sealed(x[j]))
            /\ a.kind = "ACK" /\ s = "INIT_SENT"
        BY <1>2, <3>1, <3>2, <3>3
      <3> HIDE DEF x, s
      <3>5. Announced(Append(x, a), a.from, s)
        BY <3>4, AnnouncedNew
      <3>6. Coming(f)' = Append(x, a)
        BY <1>8, <2>1, <2>3 DEF x
      <3> QED
        BY <1>2, <2>2, <2>3, <3>5, <3>6 DEF s
    <2>4. CASE u = c
      <3>1. sess'[v][u] = sess[v][u] /\ m.from # v
        BY <1>5, <2>2, <2>4 DEF f
      <3>2. Announced(b \o q, v, sess[c][v].state)
        BY <1>0, <2>1, <2>2, <2>4, <3>1, StillAnnounced
      <3> QED
        BY <1>8, <2>2, <2>4, <3>2
    <2>5. CASE u # c /\ ~(u = f /\ v = c)
      <3>1. sess'[v][u] = sess[v][u]
        BY <1>5, <2>5
      <3>2. Announced(Coming(u), v, sess[u][v].state)
        BY <1>0, <2>1, <2>2, <3>1, Restated
      <3>3. Announced(Append(Coming(u), a), v, sess[u][v].state)
        BY <1>0, <3>2, ComingTyped, AnnouncedAppend
      <3> QED
        BY <1>8, <2>2, <2>5, <3>2, <3>3
    <2> QED
      BY <2>3, <2>4, <2>5
  <1> QED
    BY <1>10, <1>11, <1>15, <1>16 DEF Inductive

(* An ACK that is not for an attempt still open changes nothing. *)
LEMMA ReadsAck ==
  ASSUME Inductive, NEW c \in Users, NEW m, NEW k, NEW b, NEW q, Takes(c, m, k, b, q),
         m.kind = "ACK", ReadAt(c, m), HandleAck(c, m, [inbox EXCEPT ![c] = q])
  PROVE  Inductive'
  <1>0. TypeOK /\ OneAttempt /\ SenderKnown /\ OpensInTime
    BY DEF Inductive
  <1> DEFINE f == m.from
  <1>1. /\ m \in Packets /\ f \in Users /\ f # c /\ m.seq = 1
        /\ sess[f][c].state = "ESTABLISHED"
    BY <1>0, TakenTells DEF Tells
  <1>2. /\ sess' = IF AckApplies(sess[c][f], m)
                   THEN [sess EXCEPT ![c][f].state = "ESTABLISHED"] ELSE sess
        /\ inbox' = [inbox EXCEPT ![c] = q]
        /\ GoesBack(c) /\ UNCHANGED <<status, budget>>
    BY DEF HandleAck, Goto, GoesBack
  <1>3. /\ inbox' \in [Users -> Seq(Packets)] /\ pktQueue' \in [Users -> Seq(Packets)]
        /\ Coming(c)' = b \o q /\ \A u \in Users : u # c => Coming(u)' = Coming(u)
        /\ \A u \in Users : Brings(u)
    BY <1>0, <1>2, TakenQuietly
  <1>4. /\ sess' \in [Users -> [Users -> [state : States, seq : Nat]]]
        /\ \A u, v \in Users : ~(u = c /\ v = f) => sess'[u][v] = sess[u][v]
        /\ sess'[c][f] = sess[c][f] \/ sess'[c][f].state = "ESTABLISHED"
        /\ sess'[c][f].state # "INIT_SENT"
    <2>1. CASE AckApplies(sess[c][f], m)
      <3>1. sess' = [sess EXCEPT ![c][f].state = "ESTABLISHED"]
        BY <1>2, <2>1
      <3> DEFINE z == [sess[c][f] EXCEPT !.state = "ESTABLISHED"]
      <3>2. z \in [state : States, seq : Nat] /\ z.state = "ESTABLISHED"
        <4>1. "ESTABLISHED" \in States
          BY DEF States
        <4>2. sess[c][f] \in [state : States, seq : Nat]
          BY <1>0, <1>1 DEF TypeOK
        <4> QED
          BY <4>1, <4>2
      <3>3. sess' = [sess EXCEPT ![c][f] = z]
        BY <3>1
      <3> HIDE DEF z, f
      <3>4. /\ sess' \in [Users -> [Users -> [state : States, seq : Nat]]]
            /\ sess'[c][f] = z
            /\ \A u, v \in Users : ~(u = c /\ v = f) => sess'[u][v] = sess[u][v]
        <4>1. f \in Users
          BY <1>1
        <4> QED
          BY <1>0, <3>2, <3>3, <4>1 DEF TypeOK
      <3> QED
        BY <3>2, <3>4
    <2>2. CASE ~AckApplies(sess[c][f], m)
      <3>1. sess' = sess
        BY <1>2, <2>2
      <3>2. sess[c][f].state # "INIT_SENT"
        BY <1>0, <1>1, <2>2 DEF AckApplies, OneAttempt
      <3> QED
        BY <1>0, <3>1, <3>2 DEF TypeOK
    <2> QED
      BY <2>1, <2>2
  <1>5. Running(c)
    BY DEF Takes
  <1>6. /\ \A p \in Users : p # f => sess[c][p].state # "INIT_SENT"
        /\ \A p \in Users : thread'[c] # [at |-> "waitForPred", peer |-> p]
        /\ \A u \in Users : u # c => thread'[u] = thread[u]
        /\ thread' \in [Users -> Places]
    BY <1>0, <1>1, <1>2, <1>5, NobodyElse
  <1>7. TypeOK'
    BY <1>0, <1>2, <1>3, <1>4, <1>6 DEF TypeOK
  <1> HIDE DEF f
  <1>8. OneAttempt'
    <2> SUFFICES ASSUME NEW u \in Users, NEW v \in Users
        PROVE
          /\ sess'[u][v].state = "UNINITIALIZED" => sess'[u][v].seq = 0
          /\ sess'[u][v].state = "INIT_SENT" =>
               /\ sess'[u][v].seq = 1
               /\ Running(u) => thread'[u] = [at |-> "waitForPred", peer |-> v]
          /\ thread'[u] = [at |-> "waitForPred", peer |-> v] => sess'[u][v].state # "UNINITIALIZED"
      BY <1>2 DEF OneAttempt, Running
    <2>1. sess[u][v].state = "UNINITIALIZED" => sess[u][v].seq = 0
      BY <1>0 DEF OneAttempt
    <2>2. CASE u = c /\ v = f
      BY <1>4, <1>6, <2>1, <2>2
    <2>3. CASE u = c /\ v # f
      BY <1>4, <1>6, <2>1, <2>3
    <2>4. CASE u # c
      <3>1. sess'[u][v] = sess[u][v] /\ thread'[u] = thread[u]
        BY <1>4, <1>6, <2>4
      <3> QED
        BY <1>0, <3>1 DEF OneAttempt
    <2> QED
      BY <2>2, <2>3, <2>4
  <1>9. Forward
    <2> SUFFICES ASSUME NEW u \in Users, NEW v \in Users
                 PROVE  /\ sess[u][v].state # "UNINITIALIZED" => sess'[u][v].state # "UNINITIALIZED"
                        /\ sess[u][v].state = "ESTABLISHED" => sess'[u][v].state = "ESTABLISHED"
      BY DEF Forward
    <2> QED
      BY <1>4
  <1>10. SenderKnown'
    BY <1>0, <1>3, <1>9, SendersStay
  <1>11. OpensInTime'
    <2> SUFFICES ASSUME NEW u \in Users, NEW v \in Users,
                        u # v, ~lost', Running(u)', Running(v)',
                        sess'[v][u].state = "ESTABLISHED", sess'[u][v].state # "ESTABLISHED"
                 PROVE  Announced(Coming(u)', v, sess'[u][v].state)
      BY RestatedNext
    <2>1. Running(u) /\ Running(v) /\ ~lost
      BY <1>2 DEF Running, Takes
    <2>2. sess'[u][v] = sess[u][v]
      BY <1>4
    <2>3. ~(u = f /\ v = c)
      BY <1>1, <2>2 DEF f
    <2>4. sess'[v][u] = sess[v][u]
      BY <1>4, <2>3
    <2>5. CASE u = c
      <3>1. m.from = v => sess[c][v].state # "INIT_SENT"
        BY <1>4, <2>2, <2>5 DEF f
      <3>2. m.kind # "INIT"
        OBVIOUS
      <3>3. Announced(b \o q, v, sess[c][v].state)
        BY <1>0, <2>1, <2>2, <2>4, <2>5, <3>1, <3>2, StillAnnounced
      <3> QED
        BY <1>3, <2>2, <2>5, <3>3
    <2>6. CASE u # c
      BY <1>0, <1>3, <2>1, <2>2, <2>4, <2>6, Restated
    <2> QED
      BY <2>5, <2>6
  <1> QED
    BY <1>7, <1>8, <1>10, <1>11 DEF Inductive

(* Each way to handle an E2E packet keeps the invariant.                   *)
LEMMA HandledE2E ==
  ASSUME Inductive, NEW c \in Users, NEW m, NEW k, NEW b, NEW q, Takes(c, m, k, b, q),
         ReadAt(c, m), HandleE2EPacket(c, m, [inbox EXCEPT ![c] = q])
  PROVE  Inductive'
  <1>1. CASE m.kind = "INIT" /\ HandleInit(c, m, [inbox EXCEPT ![c] = q])
    <2>1. CASE sess[c][m.from].state = "ESTABLISHED"
      BY <1>1, <2>1, ReadsSecondInit DEF HandleInit
    <2>2. CASE sess[c][m.from].state # "ESTABLISHED"
      BY <1>1, <2>2, ReadsInit
    <2> QED
      BY <2>1, <2>2
  <1>2. CASE m.kind = "ACK" /\ HandleAck(c, m, [inbox EXCEPT ![c] = q])
    BY <1>2, ReadsAck
  <1> QED
    BY <1>1, <1>2 DEF HandleE2EPacket

(* The drain loop handles what it has taken. *)
LEMMA Drains ==
  ASSUME Inductive, NEW c \in Users, NEW m, NEW k, NEW b, NEW q, Takes(c, m, k, b, q),
         thread[c] = At("poll"), Handle(c, m, [inbox EXCEPT ![c] = q])
  PROVE  Inductive'
  <1>1. CASE IsE2E(m)
    BY <1>1, HandledE2E DEF Handle, ReadAt
  <1>2. CASE ~IsE2E(m)
    BY <1>2, ReadsOther DEF Handle
  <1> QED
    BY <1>1, <1>2

(* What one recv() of n packets takes from the socket of c. *)
LEMMA TakenFromSocket ==
  ASSUME TypeOK, NEW c \in Users, NEW n \in DOMAIN inbox[c], Running(c),
         Receives(c, Head(inbox[c]), n), UNCHANGED pktQueue
  PROVE  /\ Left(c, n) = [inbox EXCEPT ![c] = SubSeq(inbox[c], n + 1, Len(inbox[c]))]
         /\ \E k : Takes(c, Head(inbox[c]), k, pktQueue[c],
                        SubSeq(inbox[c], n + 1, Len(inbox[c])))
  <1> DEFINE b == pktQueue[c]
             w == inbox[c]
             r == SubSeq(w, n + 1, Len(w))
  <1>1. b \in Seq(Packets) /\ w \in Seq(Packets) /\ Coming(c) = b \o w
    BY ComingTyped DEF Coming
  <1>2. Left(c, n) = [inbox EXCEPT ![c] = r]
    BY DEF Left, TypeOK
  <1>3. lost' = (lost \/ n > 1)
    BY DEF Receives
  <1>4. pktQueue' = [pktQueue EXCEPT ![c] = b]
    BY DEF TypeOK
  <1>5. /\ r \in Seq(Packets) /\ Head(w) \in Packets
        /\ Among(b \o r, b \o w)
        /\ \E k \in DOMAIN (b \o w) :
             /\ (b \o w)[k] = Head(w)
             /\ ~(n > 1) => Without(b \o r, b \o w, k)
    <2> HIDE DEF b, w
    <2>1. n \in DOMAIN w
      BY DEF w
    <2> QED
      BY <1>1, <2>1, FromSocket
  <1> HIDE DEF b, w, r
  <1>6. PICK k \in DOMAIN Coming(c) :
             /\ Coming(c)[k] = Head(w)
             /\ ~(n > 1) => Without(b \o r, Coming(c), k)
    BY <1>1, <1>5
  <1>7. Takes(c, Head(w), k, b, r)
    BY <1>1, <1>3, <1>4, <1>5, <1>6 DEF Takes
  <1> QED
    BY <1>2, <1>7 DEF b, w, r

(* A packet that was put aside or comes from the socket, in poll and in    *)
(* setupE2E.                                                               *)
LEMMA PollsKeep ==
  ASSUME Inductive, NEW c \in Users, PollQueue(c) \/ PollSocket(c) \/ SetupE2EReturns(c)
  PROVE  Inductive'
  <1>0. TypeOK
    BY DEF Inductive
  <1>1. CASE PollQueue(c)
    <2> DEFINE b == pktQueue[c]  q == inbox[c]
    <2>1. /\ Running(c) /\ thread[c] = At("poll") /\ b # <<>>
          /\ pktQueue' = [pktQueue EXCEPT ![c] = Tail(b)]
          /\ Handle(c, Head(b), inbox)
          /\ UNCHANGED lost
      BY <1>0, <1>1 DEF PollQueue, Polling, TypeOK
    <2>2. b \in Seq(Packets) /\ q \in Seq(Packets) /\ Coming(c) = b \o q
          /\ inbox = [inbox EXCEPT ![c] = q]
      BY <1>0, ComingTyped DEF Coming, TypeOK
    <2> HIDE DEF b, q
    <2>3. /\ Tail(b) \in Seq(Packets) /\ Head(b) \in Packets
          /\ Among(Tail(b) \o q, b \o q)
          /\ 1 \in DOMAIN (b \o q) /\ (b \o q)[1] = Head(b)
          /\ Without(Tail(b) \o q, b \o q, 1)
      BY <2>1, <2>2, FromFront
    <2>4. Takes(c, Head(b), 1, Tail(b), q)
      BY <2>1, <2>2, <2>3 DEF Takes
    <2>5. Handle(c, Head(b), [inbox EXCEPT ![c] = q])
      BY <2>1, <2>2
    <2> DEFINE o == 1
    <2>6. Takes(c, Head(b), o, Tail(b), q)
      BY <2>4
    <2> HIDE DEF o
    <2> QED
      BY <2>1, <2>5, <2>6, Drains
  <1>2. CASE PollSocket(c)
    <2> DEFINE w == inbox[c]
    <2>1. PICK n \in DOMAIN w :
            Receives(c, Head(w), n) /\ Handle(c, Head(w), Left(c, n))
      BY <1>2 DEF PollSocket
    <2>2. Running(c) /\ thread[c] = At("poll") /\ UNCHANGED pktQueue
      BY <1>2 DEF PollSocket, Polling
    <2> DEFINE r == SubSeq(w, n + 1, Len(w))  b == pktQueue[c]
    <2>3. Left(c, n) = [inbox EXCEPT ![c] = r] /\ \E k : Takes(c, Head(w), k, b, r)
      BY <1>0, <2>1, <2>2, TakenFromSocket
    <2>4. Handle(c, Head(w), [inbox EXCEPT ![c] = r])
      BY <2>1, <2>3
    <2> HIDE DEF w, r, b
    <2> QED
      BY <2>2, <2>3, <2>4, Drains
  <1>3. CASE SetupE2EReturns(c)
    <2> DEFINE w == inbox[c]
    <2>1. PICK n \in DOMAIN w :
            Wanted(c, Head(w)) /\ Receives(c, Head(w), n) /\ HandleE2EPacket(c, Head(w), Left(c, n))
      BY <1>3 DEF SetupE2EReturns
    <2>2. Running(c) /\ thread[c].at = "waitForPred" /\ UNCHANGED pktQueue
      BY <1>3 DEF SetupE2EReturns, Waiting
    <2> DEFINE r == SubSeq(w, n + 1, Len(w))  b == pktQueue[c]
    <2>3. Left(c, n) = [inbox EXCEPT ![c] = r] /\ \E k : Takes(c, Head(w), k, b, r)
      BY <1>0, <2>1, <2>2, TakenFromSocket
    <2>4. HandleE2EPacket(c, Head(w), [inbox EXCEPT ![c] = r])
      BY <2>1, <2>3
    <2> HIDE DEF w, r, b
    <2>5. ReadAt(c, Head(w))
      <3>1. Head(w).from = thread[c].peer
        BY <2>1, <2>2 DEF Wanted
      <3>2. thread[c] \in Places
        BY <1>0 DEF TypeOK
      <3>3. thread[c] \in [at : {"waitForPred"}, peer : Users]
        BY <2>2, <3>2 DEF Places
      <3>4. thread[c] = [at |-> "waitForPred", peer |-> thread[c].peer]
        BY <3>3
      <3> QED
        BY <3>1, <3>4 DEF ReadAt
    <2> QED
      BY <2>3, <2>4, <2>5, HandledE2E
  <1> QED
    BY <1>1, <1>2, <1>3

(* getUsers returns.                                                       *)
LEMMA ListKeeps ==
  ASSUME Inductive, NEW c \in Users, GetUsersReturns(c)
  PROVE  Inductive'
  <1>0. TypeOK
    BY DEF Inductive
  <1>1. /\ Running(c) /\ thread[c].at = "waitForType"
        /\ thread' = [thread EXCEPT ![c] = At("requests")]
        /\ UNCHANGED <<sess, status, pktQueue>>
    BY DEF GetUsersReturns, Waiting, Goto
  <1>2. CASE UNCHANGED <<inbox, lost>>
    <2>1. status' \in [Users -> {"in", "left", "crashed"}] /\ \A u \in Users : Running(u)' => Running(u)
      BY <1>0, <1>1 DEF TypeOK, Running
    <2> QED
      BY <1>1, <1>2, <2>1, GoesOn
  <1>3. CASE \E n \in DOMAIN inbox[c] :
                Wanted(c, Head(inbox[c])) /\ Receives(c, Head(inbox[c]), n) /\ inbox' = Left(c, n)
    <2> DEFINE w == inbox[c]
    <2>1. PICK n \in DOMAIN w :
            Wanted(c, Head(w)) /\ Receives(c, Head(w), n) /\ inbox' = Left(c, n)
      BY <1>3
    <2> DEFINE r == SubSeq(w, n + 1, Len(w))  b == pktQueue[c]
    <2>2. Left(c, n) = [inbox EXCEPT ![c] = r] /\ \E k : Takes(c, Head(w), k, b, r)
      BY <1>0, <1>1, <2>1, TakenFromSocket
    <2>3. ~IsE2E(Head(w))
      BY <1>1, <2>1 DEF Wanted, IsE2E
    <2>4. inbox' = [inbox EXCEPT ![c] = r]
      BY <2>1, <2>2
    <2> HIDE DEF w, r, b
    <2>5. thread[c].at # "waitForPred"
      BY <1>1
    <2> QED
      BY <1>1, <2>2, <2>3, <2>4, <2>5, ReadsOther
  <1> QED
    BY <1>2, <1>3 DEF GetUsersReturns

(* Steps that send nothing and take no packet.                             *)
LEMMA EndsKeep ==
  ASSUME Inductive, NEW c \in Users,
         Quit(c) \/ NoMoreRequests(c) \/ SetupE2ETimesOut(c) \/ PollEmpty(c)
  PROVE  Inductive'
  <1>0. TypeOK
    BY DEF Inductive
  <1>1. UNCHANGED <<sess, inbox, pktQueue, lost>>
    BY DEF Quit, NoMoreRequests, SetupE2ETimesOut, PollEmpty, Crash
  <1>2. /\ status' \in [Users -> {"in", "left", "crashed"}]
        /\ \A u \in Users : Running(u)' => Running(u)
    BY <1>0 DEF Quit, NoMoreRequests, SetupE2ETimesOut, PollEmpty, Crash, TypeOK, Running
  <1>3. \/ UNCHANGED thread
        \/ /\ thread' = [thread EXCEPT ![c] = At("poll")] /\ thread[c] = At("requests") /\ Running(c)
        \/ /\ thread' = [thread EXCEPT ![c] = At("requests")] /\ Running(c)
           /\ thread[c].at # "waitForPred"
    <2>1. At("poll").at = "poll"
      BY DEF At
    <2> QED
      BY <2>1 DEF Quit, NoMoreRequests, SetupE2ETimesOut, PollEmpty, Crash, Polling, Requests, Goto
  <1> QED
    BY <1>1, <1>2, <1>3, GoesOn

(* The invariant holds in every reachable state: one attempt at a session, *)
(* packets that tell of their sender's session, and OpensInTime.           *)
THEOREM EarlySessions == Spec => []Inductive
  <1>1. Init => Inductive
    <2> SUFFICES ASSUME Init PROVE Inductive
      OBVIOUS
    <2> DEFINE t == [state |-> "UNINITIALIZED", seq |-> 0]
    <2>1. t \in [state : States, seq : Nat] /\ t.state = "UNINITIALIZED" /\ t.seq = 0
      BY DEF States
    <2>2. At("requests") \in Places /\ At("requests").at = "requests"
      BY DEF At, Places
    <2>3. sess = [c \in Users |-> [p \in Users |-> t]] /\ thread = [c \in Users |-> At("requests")]
      BY DEF Init
    <2>4. <<>> \in Seq(Packets)
      OBVIOUS
    <2>5. inbox = [c \in Users |-> <<>>] /\ pktQueue = [c \in Users |-> <<>>]
          /\ status \in [Users -> {"in", "left", "crashed"}]
      BY DEF Init
    <2> HIDE DEF t
    <2>6. TypeOK
      BY <2>1, <2>2, <2>3, <2>4, <2>5 DEF TypeOK
    <2>7. OneAttempt
      <3> SUFFICES ASSUME NEW c \in Users, NEW p \in Users
          PROVE
            /\ sess[c][p].state = "UNINITIALIZED" => sess[c][p].seq = 0
            /\ sess[c][p].state # "INIT_SENT"
            /\ thread[c] # [at |-> "waitForPred", peer |-> p]
        BY DEF OneAttempt
      <3>1. sess[c][p] = t /\ thread[c].at = "requests"
        BY <2>2, <2>3
      <3> QED
        BY <2>1, <3>1
    <2>8. SenderKnown
      <3>1. ASSUME NEW c \in Users PROVE DOMAIN Coming(c) = {}
        <4>1. Coming(c) = <<>> \o <<>>
          BY <2>5 DEF Coming
        <4>2. Coming(c) = <<>>
          BY <2>4, <4>1, ConcatEmptySeq
        <4> QED
          BY <4>2
      <3> QED
        BY <3>1 DEF SenderKnown
    <2>9. OpensInTime
      BY <2>1, <2>3 DEF OpensInTime
    <2> QED
      BY <2>6, <2>7, <2>8, <2>9 DEF Inductive
  <1>2. Inductive /\ [Next]_vars => Inductive'
    <2> SUFFICES ASSUME Inductive, [Next]_vars PROVE Inductive'
      OBVIOUS
    <2>1. CASE Next
      <3>1. PICK c \in Users :
              \/ \E p \in Users \ {c} : SendMessage(c, p) \/ SetupE2E(c, p)
              \/ GetUsers(c) \/ Quit(c) \/ NoMoreRequests(c)
              \/ PutAside(c) \/ GetUsersReturns(c) \/ SetupE2EReturns(c) \/ SetupE2ETimesOut(c)
              \/ PollQueue(c) \/ PollSocket(c) \/ PollEmpty(c)
        BY <2>1 DEF Next
      <3>2. ASSUME NEW p \in Users \ {c}, SendMessage(c, p) \/ SetupE2E(c, p) PROVE Inductive'
        BY <3>2, SendMessageKeeps, SetupKeeps
      <3>3. CASE GetUsers(c)
        BY <3>3, GetUsersKeeps
      <3>4. CASE PutAside(c)
        BY <3>4, PutAsideKeeps
      <3>5. CASE GetUsersReturns(c)
        BY <3>5, ListKeeps
      <3>6. CASE PollQueue(c) \/ PollSocket(c) \/ SetupE2EReturns(c)
        BY <3>6, PollsKeep
      <3>7. CASE Quit(c) \/ NoMoreRequests(c) \/ SetupE2ETimesOut(c) \/ PollEmpty(c)
        BY <3>7, EndsKeep
      <3> QED
        BY <3>1, <3>2, <3>3, <3>4, <3>5, <3>6, <3>7
    <2>2. CASE UNCHANGED vars
      <3>0. TypeOK /\ OneAttempt /\ SenderKnown /\ OpensInTime
        BY DEF Inductive
      <3>1. UNCHANGED <<sess, thread, status, inbox, pktQueue, lost>>
        BY <2>2 DEF vars
      <3>2. \A u \in Users : Coming(u)' = Coming(u) /\ (Running(u)' <=> Running(u))
        BY <3>1 DEF Coming, Running
      <3>3. TypeOK' /\ Forward
        BY <3>0, <3>1 DEF TypeOK, Forward
      <3>4. OneAttempt'
        BY <3>0, <3>1 DEF OneAttempt, Running
      <3>5. SenderKnown'
        BY <3>0, <3>2, <3>3, BringsNothing, SendersStay
      <3>6. OpensInTime'
        BY <3>0, <3>1, <3>2, Restated, RestatedNext
      <3> QED
        BY <3>3, <3>4, <3>5, <3>6 DEF Inductive
    <2> QED
      BY <2>1, <2>2
  <1> QED
    BY <1>1, <1>2, PTL DEF Spec

(* Before a sealed message is opened, its receiver has established the     *)
(* session, or will on a packet in front of it (phase 4, initiateE2E,      *)
(* handleInit, handleAck), for any number of users.                        *)
THEOREM InTime == Spec => []OpensInTime
  BY EarlySessions, PTL DEF Inductive
=============================================================================
