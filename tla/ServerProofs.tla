---------------------------- MODULE ServerProofs ----------------------------
(***************************************************************************)
(* The server's tables stay consistent, and what it does with names is     *)
(* what NameService promises.  The inductive invariant is TypeOK, which    *)
(* says that a client has one SID, with DirectoryConsistent, by which a    *)
(* name that is not in the index is on no connection.                      *)
(***************************************************************************)
EXTENDS Server, SequenceTheorems, FiniteSetTheorems, TLAPS

Inductive == TypeOK /\ DirectoryConsistent

Mapped == [Service!Next]_(Service!vars)

-----------------------------------------------------------------------------
(* Sequences. *)
LEMMA AppendTyped ==
    ASSUME NEW S, NEW q \in Seq(S), NEW e \in S
    PROVE  /\ Append(q, e) \in Seq(S) /\ Len(Append(q, e)) = Len(q) + 1
           /\ \A i \in 1 .. Len(q) : Append(q, e)[i] = q[i]
           /\ Append(q, e)[Len(q) + 1] = e
  BY AppendProperties

LEMMA RestTyped ==
    ASSUME NEW S, NEW q \in Seq(S)
    PROVE  /\ q # <<>> => Head(q) \in S /\ Tail(q) \in Seq(S)
           /\ \A n \in Nat : SubSeq(q, n + 1, Len(q)) \in Seq(S)
  <1>1. q # <<>> => Head(q) \in S /\ Tail(q) \in Seq(S)
    BY HeadTailProperties
  <1>2. ASSUME NEW n \in Nat PROVE SubSeq(q, n + 1, Len(q)) \in Seq(S)
    <2>1. Len(q) \in Nat /\ \A i \in 1 .. Len(q) : q[i] \in S
      BY LenProperties, ElementOfSeq
    <2>2. \A i \in n + 1 .. Len(q) : q[i] \in S
      BY <2>1
    <2> QED
      BY <2>1, <2>2, SubSeqProperties
  <1> QED
    BY <1>1, <1>2

(* The rows of the connection table. *)
LEMMA Rows ==
    ASSUME TypeOK
    PROVE  /\ Len(conns) \in Nat /\ Len(names) \in Nat
           /\ DOMAIN conns = SIDs /\ DOMAIN names = 1 .. Len(names)
           /\ DOMAIN names \subseteq SIDs
           /\ \A s \in SIDs : conns[s].client \in Clients /\ conns[s].connected \in BOOLEAN
           /\ \A s \in DOMAIN names : names[s] \in Names \cup {NoName}
  <1> DEFINE Row == [client: Clients, connected: BOOLEAN]
  <1>1. conns \in Seq(Row) /\ names \in Seq(Names \cup {NoName}) /\ Len(names) <= Len(conns)
    BY DEF TypeOK
  <1>2. Len(conns) \in Nat /\ DOMAIN conns = SIDs
    BY <1>1, LenProperties DEF SIDs
  <1>3. Len(names) \in Nat /\ DOMAIN names = 1 .. Len(names)
    BY <1>1, LenProperties
  <1>4. \A s \in SIDs : conns[s] \in Row
    BY <1>1, ElementOfSeq DEF SIDs
  <1>5. \A s \in DOMAIN names : names[s] \in Names \cup {NoName}
    BY <1>1, <1>3, ElementOfSeq
  <1>6. DOMAIN names \subseteq SIDs
    BY <1>1, <1>2, <1>3 DEF SIDs
  <1> QED
    BY <1>2, <1>3, <1>4, <1>5, <1>6

(* A poll never picks a SID that the table does not have: at most as many  *)
(* sockets are connected as there are.                                     *)
LEMMA EventsAreRows == ASSUME TypeOK PROVE Events \subseteq SIDs
  <1> SUFFICES ASSUME NEW s \in SIDs, Connected(s) PROVE Entry(s) \in SIDs
    BY DEF Events
  <1> DEFINE T == {t \in 1 .. s : Connected(t)}
  <1>1. s \in Nat /\ 1 <= s /\ s <= Len(conns) /\ Len(conns) \in Nat
    BY Rows DEF SIDs
  <1>2. IsFiniteSet(1 .. s) /\ Cardinality(1 .. s) = s
    BY <1>1, FS_Interval
  <1>3. T \subseteq 1 .. s /\ s \in T
    BY <1>1
  <1>4. IsFiniteSet(T) /\ Cardinality(T) <= s
    BY <1>2, <1>3, FS_Subset
  <1>5. Cardinality(T) \in Nat /\ Cardinality(T) # 0
    BY <1>3, <1>4, FS_CardinalityType, FS_EmptySet
  <1> QED
    BY <1>1, <1>4, <1>5 DEF Entry, SIDs

-----------------------------------------------------------------------------
(* The holders of names, seen from the tables.  Held is HeldBy with the    *)
(* tables as arguments, so that one lemma serves both ends of a step.      *)
Held(rows, called, c) ==
    IF \E s \in DOMAIN called : rows[s].client = c
    THEN called[CHOOSE s \in DOMAIN called : rows[s].client = c]
    ELSE NoName

LEMMA Holder ==
    ASSUME NEW rows, NEW called,
           \A s, t \in DOMAIN called : rows[s].client = rows[t].client => s = t
    PROVE  /\ \A s \in DOMAIN called : Held(rows, called, rows[s].client) = called[s]
           /\ \A c : (\A s \in DOMAIN called : rows[s].client # c)
                       => Held(rows, called, c) = NoName
  <1>1. ASSUME NEW s \in DOMAIN called
        PROVE  Held(rows, called, rows[s].client) = called[s]
    <2> DEFINE t == CHOOSE t \in DOMAIN called : rows[t].client = rows[s].client
    <2>1. t \in DOMAIN called /\ rows[t].client = rows[s].client
      OBVIOUS
    <2>2. t = s
      BY <2>1
    <2> QED
      BY <2>2 DEF Held
  <1>2. ASSUME NEW c, \A s \in DOMAIN called : rows[s].client # c
        PROVE  Held(rows, called, c) = NoName
    BY <1>2 DEF Held
  <1> QED
    BY <1>1, <1>2

LEMMA Apart ==
    ASSUME TypeOK
    PROVE  \A s, t \in DOMAIN names : conns[s].client = conns[t].client => s = t
  BY Rows DEF TypeOK

LEMMA Unheld ==
    ASSUME Inductive, NEW n \in Names, index[n] = NoSID, NEW c \in Clients
    PROVE  HeldBy(c) # n
  <1>1. n # NoName
    BY ServerAssumption
  <1>2. HeldBy(c) = Held(conns, names, c)
    BY DEF HeldBy, Held
  <1>3. CASE \E s \in DOMAIN names : conns[s].client = c
    <2>1. PICK s \in DOMAIN names : conns[s].client = c
      BY <1>3
    <2>2. HeldBy(c) = names[s]
      BY <1>2, <2>1, Apart, Holder DEF Inductive
    <2>3. s # NoSID
      BY Rows DEF Inductive, NoSID
    <2> QED
      BY <1>1, <2>2, <2>3 DEF Inductive, DirectoryConsistent
  <1>4. CASE ~\E s \in DOMAIN names : conns[s].client = c
    BY <1>1, <1>4 DEF HeldBy
  <1> QED
    BY <1>3, <1>4

(* Steps that keep the names, and the clients of the named rows. *)
LEMMA SameHolders ==
    ASSUME TypeOK, UNCHANGED names,
           \A s \in DOMAIN names : conns'[s].client = conns[s].client
    PROVE  \A c \in Clients : HeldBy(c)' = HeldBy(c)
  <1> SUFFICES ASSUME NEW c \in Clients PROVE HeldBy(c)' = HeldBy(c)
    OBVIOUS
  <1>1. HeldBy(c) = Held(conns, names, c) /\ HeldBy(c)' = Held(conns', names, c)
    BY DEF HeldBy, Held
  <1>2. \A s, t \in DOMAIN names : conns'[s].client = conns'[t].client => s = t
    BY Apart
  <1>3. CASE \E s \in DOMAIN names : conns[s].client = c
    <2>1. PICK s \in DOMAIN names : conns[s].client = c
      BY <1>3
    <2>2. Held(conns, names, c) = names[s]
      BY <2>1, Apart, Holder
    <2>3. Held(conns', names, c) = names[s]
      BY <2>1, <1>2, Holder
    <2> QED
      BY <1>1, <2>2, <2>3
  <1>4. CASE ~\E s \in DOMAIN names : conns[s].client = c
    BY <1>1, <1>4 DEF Held
  <1> QED
    BY <1>3, <1>4

LEMMA Unheard ==
    ASSUME TypeOK, UNCHANGED <<names, mail, uplink>>,
           \A s \in DOMAIN names : conns'[s].client = conns[s].client
    PROVE  Mapped
  BY SameHolders DEF Mapped, Service!vars

(* A client asks, and what it asks is served without effect on names. *)
LEMMA Asked ==
    ASSUME TypeOK, UNCHANGED <<names, conns, mail>>, NEW c \in Clients, NEW p \in Requests \cup {Fin},
           uplink' = [uplink EXCEPT ![c] = Append(@, p)]
    PROVE  Mapped
  <1>1. \A d \in Clients : HeldBy(d)' = HeldBy(d)
    BY SameHolders
  <1>2. Service!Ask(c, p)
    BY <1>1 DEF Service!Ask
  <1> QED
    BY <1>2 DEF Mapped, Service!Next

LEMMA Passed ==
    ASSUME TypeOK, UNCHANGED <<names, mail>>,
           \A s \in DOMAIN names : conns'[s].client = conns[s].client,
           NEW c \in Clients, NEW n \in 1 .. Len(uplink[c]),
           uplink' = [uplink EXCEPT ![c] = SubSeq(@, n + 1, Len(@))],
           Head(uplink[c]).kind = "LOGIN" =>
              \E d \in Clients : HeldBy(d) = Head(uplink[c]).name
    PROVE  Mapped
  <1>1. \A d \in Clients : HeldBy(d)' = HeldBy(d)
    BY SameHolders
  <1>2. Service!Takes(c)
    BY DEF Service!Takes
  <1>3. Service!Pass(c)
    BY <1>1, <1>2 DEF Service!Pass, Service!Free
  <1> QED
    BY <1>3 DEF Mapped, Service!Next

-----------------------------------------------------------------------------
(* What one step of each kind preserves. *)
Good == TypeOK' /\ DirectoryConsistent' /\ Mapped

\* Steps that change neither table nor mail, nor what clients have asked.
LEMMA SameTables ==
    ASSUME Inductive, TypeOK', UNCHANGED <<tables, mail, uplink>>
    PROVE  Good
  <1>1. DirectoryConsistent'
    BY DEF Inductive, DirectoryConsistent, tables
  <1>2. Mapped
    BY Unheard DEF Inductive, tables
  <1> QED
    BY <1>1, <1>2 DEF Good

LEMMA DialGood ==
    ASSUME Inductive, NEW c \in Clients, Dial(c) \/ Offer(c) \/ Abandon(c)
    PROVE  Good
  <1>1. UNCHANGED <<conns, names, index, idx, pc, guest, sid, uplink, owed, budget, listed, mail,
                    wire, swallowed>>
    BY DEF Dial, Offer, Abandon, tables, outputs
  <1>2. PICK l \in {"dialling", "offered", "closed"} : link' = [link EXCEPT ![c] = l]
    BY DEF Dial, Offer, Abandon
  <1>3. link' \in [Clients -> Links] /\ \A d \in Clients \ {c} : link'[d] = link[d]
    BY <1>2 DEF Inductive, TypeOK, Links
  <1>4. link[c] \in {"idle", "dialling"} /\ link'[c] \in {"dialling", "offered", "closed"}
    BY <1>2 DEF Dial, Offer, Abandon, Inductive, TypeOK
  <1>5. \A s \in SIDs : link'[conns[s].client] \in {"up", "gone"}
    BY <1>3, <1>4, Rows DEF Inductive, TypeOK
  <1>6. pc = "handshake" => link'[guest] \in {"dialling", "offered", "closed"}
    BY <1>3, <1>4 DEF Inductive, TypeOK
  <1>7. TypeOK'
    BY <1>1, <1>3, <1>5, <1>6 DEF Inductive, TypeOK, SIDs
  <1> QED
    BY <1>1, <1>7, SameTables DEF tables

LEMMA AskGood == ASSUME Inductive, NEW c \in Clients, Ask(c) PROVE Good
  <1>1. PICK m \in Requests :
           /\ uplink' = [uplink EXCEPT ![c] = Append(@, m)]
           /\ owed' = [owed EXCEPT ![c] = m.kind \in {"LOGIN", "LIST"}]
           /\ budget' = [budget EXCEPT ![c] = IF m.kind = "QUIT" THEN 0 ELSE @ - 1]
    BY DEF Ask
  <1>2. Append(uplink[c], m) \in Seq(Requests \cup {Fin})
    BY AppendTyped DEF Inductive, TypeOK
  <1>3. uplink' \in [Clients -> Seq(Requests \cup {Fin})]
    BY <1>1, <1>2 DEF Inductive, TypeOK
  <1>4. owed' \in [Clients -> BOOLEAN]
    BY <1>1 DEF Inductive, TypeOK
  <1>5. budget' \in [Clients -> Nat]
    BY <1>1 DEF Inductive, TypeOK, Ask
  <1>6. UNCHANGED <<conns, names, index, idx, pc, guest, sid, link, listed, mail, wire, swallowed>>
    BY DEF Ask, tables, outputs
  <1>7. TypeOK'
    BY <1>3, <1>4, <1>5, <1>6 DEF Inductive, TypeOK, SIDs
  <1>8. DirectoryConsistent'
    BY <1>6 DEF Inductive, DirectoryConsistent
  <1>9. Mapped
    BY <1>1, <1>6, Asked DEF Inductive
  <1> QED
    BY <1>7, <1>8, <1>9 DEF Good

LEMMA HangUpGood == ASSUME Inductive, NEW c \in Clients, HangUp(c) PROVE Good
  <1>1. Append(uplink[c], Fin) \in Seq(Requests \cup {Fin})
    BY AppendTyped DEF Inductive, TypeOK
  <1>2. uplink' = [uplink EXCEPT ![c] = Append(@, Fin)] /\ link' = [link EXCEPT ![c] = "gone"]
    BY DEF HangUp
  <1>3. uplink' \in [Clients -> Seq(Requests \cup {Fin})]
    BY <1>1, <1>2 DEF Inductive, TypeOK
  <1>4. wire' \in [Clients -> {"open", "error", "broken"}]
    BY DEF Inductive, TypeOK, HangUp
  <1>5. UNCHANGED <<conns, names, index, idx, pc, guest, sid, owed, budget, listed, mail, swallowed>>
    BY DEF HangUp, tables
  <1>6. /\ link' \in [Clients -> Links]
        /\ \A s \in SIDs : link'[conns[s].client] \in {"up", "gone"}
        /\ pc = "handshake" => link'[guest] \in {"dialling", "offered", "closed"}
    <2>1. link[c] = "up" /\ link'[c] = "gone" /\ link' \in [Clients -> Links]
          /\ \A d \in Clients \ {c} : link'[d] = link[d]
      BY <1>2 DEF Inductive, TypeOK, HangUp, Links
    <2> QED
      BY <2>1, Rows DEF Inductive, TypeOK
  <1>7. TypeOK'
    BY <1>3, <1>4, <1>5, <1>6 DEF Inductive, TypeOK, SIDs
  <1>8. DirectoryConsistent'
    BY <1>5 DEF Inductive, DirectoryConsistent
  <1>9. Mapped
    BY <1>2, <1>5, Asked DEF Inductive
  <1> QED
    BY <1>7, <1>8, <1>9 DEF Good

LEMMA InsertionGood == ASSUME Inductive, Insertion PROVE Good
  <1> DEFINE Row == [client: Clients, connected: BOOLEAN]
             row == [client |-> guest, connected |-> TRUE]
  <1>1. /\ conns' \in Seq(Row) /\ Len(conns') = Len(conns) + 1
        /\ \A s \in SIDs : conns'[s] = conns[s]
        /\ conns'[Len(conns) + 1] = row
    BY AppendTyped DEF Inductive, TypeOK, Insertion, SIDs
  <1>2. SIDs' = SIDs \cup {Len(conns) + 1}
    BY <1>1, Rows DEF Inductive, SIDs
  <1>3. \A s \in SIDs : conns[s].client # guest
    BY DEF Inductive, TypeOK, Insertion
  <1>4. \A s, t \in SIDs' : conns'[s].client = conns'[t].client => s = t
    <2>1. \A s, t \in SIDs : conns[s].client = conns[t].client => s = t
      BY DEF Inductive, TypeOK
    <2>2. conns'[Len(conns) + 1].client = guest
      BY <1>1
    <2> QED
      BY <1>1, <1>2, <1>3, <2>1, <2>2
  <1>5. link' \in [Clients -> Links]
    BY DEF Inductive, TypeOK, Insertion, Links
  <1>6. \A s \in SIDs' : link'[conns'[s].client] \in {"up", "gone"}
    <2>1. \A s \in SIDs : link[conns[s].client] \in {"up", "gone"} /\ conns[s].client \in Clients
      BY Rows DEF Inductive, TypeOK
    <2>2. link' = [link EXCEPT ![guest] = "up"] /\ DOMAIN link = Clients
      BY DEF Inductive, TypeOK, Insertion
    <2>3. conns'[Len(conns) + 1].client = guest
      BY <1>1
    <2> QED
      BY <1>1, <1>2, <1>3, <2>1, <2>2, <2>3
  <1>7. Len(names) <= Len(conns')
    BY <1>1, Rows DEF Inductive, TypeOK
  <1>8. UNCHANGED <<names, index, idx, guest, sid, uplink, owed, budget, listed, mail, wire, swallowed>>
        /\ pc' = "handleConnect"
    BY DEF Insertion, outputs
  <1>9. TypeOK'
    BY <1>1, <1>4, <1>5, <1>6, <1>7, <1>8 DEF Inductive, TypeOK
  <1>10. DirectoryConsistent'
    BY <1>8 DEF Inductive, DirectoryConsistent
  <1>11. Mapped
    BY <1>1, <1>8, Rows, Unheard DEF Inductive
  <1> QED
    BY <1>9, <1>10, <1>11 DEF Good

\* The steps of run() that only move its control, or find an error.
Idles ==
    \/ \E c \in Clients : GetConnection(c) \/ NoCertificate(c)
    \/ HandshakeFails \/ HandshakeExits
    \/ NoneDialling \/ PollIdle \/ NothingRead \/ ReadFails

LEMMA IdleGood == ASSUME Inductive, Idles PROVE Good
  <1> USE DEF Idles, GetConnection, NoCertificate, HandshakeFails, HandshakeExits, Refused,
              NoneDialling, PollIdle, NothingRead, ReadFails
  <1>1. UNCHANGED <<conns, names, index, idx, sid, uplink, owed, budget, listed, mail, swallowed>>
    BY DEF tables, clients, outputs
  <1>2. pc' \in {"handleConnect", "handshake", "waitForRead", "exited"} /\ guest' \in Clients
    BY DEF Inductive, TypeOK
  <1>3. wire' \in [Clients -> {"open", "error", "broken"}]
    <2>1. CASE ReadFails
      BY <2>1 DEF Inductive, TypeOK
    <2>2. CASE ~ReadFails
      <3>1. UNCHANGED wire
        BY <2>2 DEF outputs
      <3> QED
        BY <3>1 DEF Inductive, TypeOK
    <2> QED
      BY <2>1, <2>2
  <1>4. \/ UNCHANGED link
        \/ \E c \in Clients : /\ link[c] \in {"dialling", "offered", "closed"}
                            /\ link' = [link EXCEPT ![c] = "idle"]
    BY DEF clients, Dials, Inductive, TypeOK
  <1>5. /\ link' \in [Clients -> Links]
        /\ \A s \in SIDs : link'[conns[s].client] \in {"up", "gone"}
    BY <1>4, Rows DEF Inductive, TypeOK, Links
  <1>6. pc' = "handshake" => link'[guest'] \in {"dialling", "offered", "closed"}
    BY DEF clients, Dials, Inductive, TypeOK
  <1>7. TypeOK'
    BY <1>1, <1>2, <1>3, <1>5, <1>6 DEF Inductive, TypeOK, SIDs
  <1> QED
    BY <1>1, <1>7, SameTables DEF tables

LEMMA WaitForReadGood == ASSUME Inductive, WaitForRead PROVE Good
  <1>1. PICK k \in SIDs : idx' = k /\ sid' = k
    BY EventsAreRows DEF WaitForRead, Beyond, Inductive
  <1>2. k \in Nat \ {0}
    BY Rows DEF SIDs, Inductive
  <1>3. UNCHANGED <<conns, names, index, guest, link, uplink, owed, budget, listed, mail, wire,
                    swallowed>>
        /\ pc' = "receivePacket"
    BY DEF WaitForRead, tables, clients, outputs
  <1>4. TypeOK'
    BY <1>1, <1>2, <1>3 DEF Inductive, TypeOK, SIDs
  <1> QED
    BY <1>3, <1>4, SameTables DEF tables

-----------------------------------------------------------------------------
(* The steps that read a packet of the current client. *)
LEMMA CurrentRow ==
    ASSUME TypeOK, pc = "receivePacket"
    PROVE  /\ sid \in SIDs /\ Current \in Clients
           /\ uplink[Current] \in Seq(Requests \cup {Fin})
           /\ uplink[Current] # <<>> => Head(uplink[Current]) \in Requests \cup {Fin}
  <1>1. sid \in SIDs /\ Current \in Clients
    BY Rows DEF TypeOK, Current
  <1>2. uplink[Current] \in Seq(Requests \cup {Fin})
    BY <1>1 DEF TypeOK
  <1> QED
    BY <1>1, <1>2, RestTyped

TakesFirst ==
    \E n \in 1 .. Len(uplink[Current]) :
        uplink' = [uplink EXCEPT ![Current] = SubSeq(@, n + 1, Len(@))]

LEMMA Received ==
    ASSUME TypeOK, NEW kind, Receives(kind)
    PROVE  /\ pc = "receivePacket" /\ sid \in SIDs /\ Current \in Clients
           /\ Head(uplink[Current]) \in Requests \cup {Fin}
           /\ Head(uplink[Current]).kind = kind
           /\ uplink' \in [Clients -> Seq(Requests \cup {Fin})] /\ TakesFirst
           /\ swallowed' \in SUBSET Clients
  <1>1. PICK n \in 1 .. 1 + Coalesce :
           /\ \A i \in 1 .. n : i \in DOMAIN uplink[Current] /\ uplink[Current][i] # Fin
           /\ uplink' = [uplink EXCEPT ![Current] = SubSeq(@, n + 1, Len(@))]
           /\ swallowed' = swallowed \cup
                {c \in {Current} : \E i \in 2 .. n : uplink[c][i].kind \in {"LOGIN", "LIST"}}
    BY DEF Receives
  <1>2. n \in Nat /\ n \in 1 .. n
    BY <1>1, ServerAssumption
  <1>3. uplink[Current] \in Seq(Requests \cup {Fin}) /\ Current \in Clients
    BY CurrentRow DEF Receives
  <1>4. n \in 1 .. Len(uplink[Current])
    BY <1>1, <1>2, <1>3, LenProperties
  <1>5. SubSeq(uplink[Current], n + 1, Len(uplink[Current])) \in Seq(Requests \cup {Fin})
    BY <1>2, <1>3, RestTyped
  <1>6. uplink' \in [Clients -> Seq(Requests \cup {Fin})]
    BY <1>1, <1>5 DEF TypeOK
  <1>7. swallowed' \in SUBSET Clients
    BY <1>1, <1>3 DEF TypeOK
  <1> QED
    BY <1>1, <1>4, <1>6, <1>7, CurrentRow DEF Receives, TakesFirst

LEMMA Sent ==
    ASSUME TypeOK, NEW c \in Clients, Sends(c)
    PROVE  /\ wire' \in [Clients -> {"open", "error", "broken"}]
           /\ pc' \in {"handleConnect", "killed"}
  BY DEF TypeOK, Sends

\* Steps that take a packet and change no more than replies and who is connected.
LEMMA ClosedTyped ==
    ASSUME Inductive, sid \in SIDs, conns' \in {conns, Closed(sid)}, UNCHANGED <<names, index, mail>>,
           TakesFirst, Head(uplink[Current]).kind # "LOGIN"
    PROVE  /\ conns' \in Seq([client: Clients, connected: BOOLEAN])
           /\ Len(conns') = Len(conns)
           /\ \A s \in SIDs : conns'[s].client = conns[s].client
           /\ DirectoryConsistent' /\ Mapped
  <1> DEFINE Row == [client: Clients, connected: BOOLEAN]
  <1>1. conns[sid] \in Row /\ conns \in Seq(Row) /\ sid \in 1 .. Len(conns)
    BY ElementOfSeq DEF Inductive, TypeOK, SIDs
  <1>2. [conns[sid] EXCEPT !.connected = FALSE] \in Row
        /\ [conns[sid] EXCEPT !.connected = FALSE].client = conns[sid].client
    BY <1>1
  <1>3. Closed(sid) = [conns EXCEPT ![sid] = [conns[sid] EXCEPT !.connected = FALSE]]
    BY DEF Closed
  <1>4. /\ Closed(sid) \in Seq(Row) /\ Len(Closed(sid)) = Len(conns)
        /\ \A s \in 1 .. Len(conns) : Closed(sid)[s].client = conns[s].client
    BY <1>1, <1>2, <1>3, ExceptSeq
  <1>5. /\ conns' \in Seq(Row) /\ Len(conns') = Len(conns)
        /\ \A s \in SIDs : conns'[s].client = conns[s].client
    BY <1>1, <1>4 DEF SIDs
  <1>6. DirectoryConsistent'
    BY DEF Inductive, DirectoryConsistent
  <1>7. Mapped
    <2>1. Current \in Clients /\ \A s \in DOMAIN names : conns'[s].client = conns[s].client
      BY <1>5, Rows DEF Inductive, Current
    <2>2. PICK n \in 1 .. Len(uplink[Current]) :
             uplink' = [uplink EXCEPT ![Current] = SubSeq(@, n + 1, Len(@))]
      BY DEF TakesFirst
    <2> QED
      BY <2>1, <2>2, Passed DEF Inductive
  <1> QED
    BY <1>5, <1>6, <1>7

LEMMA ReadGood ==
    ASSUME Inductive, PeerClosed \/ GetUserList \/ HandleQuit \/ DropMessage \/ ReadsPastEnd
    PROVE  Good
  <1>1. pc = "receivePacket" /\ sid \in SIDs /\ Current \in Clients
    BY CurrentRow DEF Inductive, PeerClosed, GetUserList, HandleQuit, DropMessage,
       ReadsPastEnd, Receives
  <1>2. /\ uplink' \in [Clients -> Seq(Requests \cup {Fin})] /\ TakesFirst
        /\ swallowed' \in SUBSET Clients /\ Head(uplink[Current]).kind # "LOGIN"
    <2>1. CASE PeerClosed
      <3>1. Tail(uplink[Current]) \in Seq(Requests \cup {Fin})
        BY <1>1, <2>1, CurrentRow, RestTyped DEF PeerClosed, Inductive
      <3>2. uplink' \in [Clients -> Seq(Requests \cup {Fin})]
        BY <2>1, <3>1 DEF PeerClosed, Inductive, TypeOK
      <3>3. /\ uplink[Current] \in Seq(Requests \cup {Fin}) /\ uplink[Current] # <<>>
            /\ uplink' = [uplink EXCEPT ![Current] = Tail(@)]
        BY <1>1, <2>1, CurrentRow DEF PeerClosed, Inductive
      <3>4. Tail(uplink[Current]) = SubSeq(uplink[Current], 1 + 1, Len(uplink[Current]))
            /\ 1 \in 1 .. Len(uplink[Current])
        BY <3>3, TailIsSubSeq, LenProperties, EmptySeq
      <3>5. TakesFirst
        BY <3>3, <3>4 DEF TakesFirst
      <3> QED
        BY <2>1, <3>2, <3>5 DEF PeerClosed, Fin, outputs, Inductive, TypeOK
    <2>2. CASE ~PeerClosed
      <3>1. PICK kind \in {"LIST", "QUIT", "MESSAGE"} : Receives(kind)
        BY <2>2 DEF GetUserList, HandleQuit, DropMessage, ReadsPastEnd
      <3> QED
        BY <3>1, Received DEF Inductive
    <2> QED
      BY <2>1, <2>2
  <1>3. /\ conns' \in {conns, Closed(sid)}
        /\ UNCHANGED <<names, index, idx, guest, sid, link, budget, mail>>
    BY DEF PeerClosed, GetUserList, HandleQuit, DropMessage, ReadsPastEnd, tables, outputs
  <1>4. /\ pc' \in {"handleConnect", "killed", "crashed"}
        /\ wire' \in [Clients -> {"open", "error", "broken"}]
    <2>1. CASE GetUserList \/ HandleQuit
      BY <1>1, <2>1, Sent DEF GetUserList, HandleQuit, Inductive
    <2>2. CASE PeerClosed \/ DropMessage \/ ReadsPastEnd
      BY <2>2 DEF PeerClosed, DropMessage, ReadsPastEnd, outputs, Inductive, TypeOK
    <2> QED
      BY <2>1, <2>2
  <1>5. owed' \in [Clients -> BOOLEAN]
    BY DEF PeerClosed, GetUserList, HandleQuit, DropMessage, ReadsPastEnd, Inductive, TypeOK
  <1>6. UserNames \subseteq Names \cup {NoName}
    BY Rows DEF UserNames, Inductive
  <1>7. listed' \in [Clients -> SUBSET (Names \cup {NoName})]
    BY <1>6 DEF PeerClosed, GetUserList, HandleQuit, DropMessage, ReadsPastEnd, outputs,
       Inductive, TypeOK
  <1>8. TypeOK'
    <2>1. SIDs' = SIDs
      BY <1>1, <1>2, <1>3, ClosedTyped DEF SIDs
    <2>2. /\ \A s, t \in SIDs : conns'[s].client = conns'[t].client => s = t
          /\ \A s \in SIDs : link'[conns'[s].client] \in {"up", "gone"}
      BY <1>1, <1>2, <1>3, ClosedTyped DEF Inductive, TypeOK
    <2> QED
      BY <1>1, <1>2, <1>3, <1>4, <1>5, <1>7, <2>1, <2>2, ClosedTyped DEF Inductive, TypeOK
  <1> QED
    BY <1>1, <1>2, <1>3, <1>8, ClosedTyped DEF Good

-----------------------------------------------------------------------------
(* A login: the tables after IndexedSocketMap::insert. *)
LEMMA ResizedTyped ==
    ASSUME Inductive, sid \in SIDs, NEW n \in Names, names' = [Resized(sid) EXCEPT ![sid] = n]
    PROVE  /\ names' \in Seq(Names \cup {NoName}) /\ Len(names') <= Len(conns)
           /\ DOMAIN names \subseteq DOMAIN names' /\ sid \in DOMAIN names' /\ DOMAIN names' \subseteq SIDs
           /\ names'[sid] = n
           /\ \A s \in DOMAIN names' :
                 s # sid => names'[s] = IF s \in DOMAIN names THEN names[s] ELSE NoName
  <1> DEFINE S == Names \cup {NoName}
             m == IF sid > Len(names) THEN sid ELSE Len(names)
  <1>1. /\ Len(conns) \in Nat /\ Len(names) \in Nat /\ sid \in 1 .. Len(conns)
        /\ Len(names) <= Len(conns) /\ DOMAIN names = 1 .. Len(names) /\ SIDs = 1 .. Len(conns)
        /\ \A s \in 1 .. Len(names) : names[s] \in S
    BY Rows DEF Inductive, TypeOK, SIDs
  <1>2. m \in Nat /\ m <= Len(conns) /\ Len(names) <= m /\ sid \in 1 .. m
    BY <1>1
  <1>3. Resized(sid) = [t \in 1 .. m |-> IF t <= Len(names) THEN names[t] ELSE NoName]
    BY DEF Resized
  <1>4. /\ names' \in [1 .. m -> S] /\ names'[sid] = n
        /\ \A s \in 1 .. m : s # sid => names'[s] = IF s <= Len(names) THEN names[s] ELSE NoName
    BY <1>1, <1>2, <1>3
  <1> HIDE DEF m
  <1>5. names' \in Seq(S)
    <2> HIDE DEF S
    <2>1. [1 .. m -> S] \in {[1 .. k -> S] : k \in Nat}
      BY <1>2
    <2> QED
      BY <1>4, <2>1, SeqDef
  <1>6. DOMAIN names' = 1 .. m /\ Len(names') = m
    BY <1>2, <1>4, <1>5, LenProperties
  <1> QED
    BY <1>1, <1>2, <1>4, <1>5, <1>6

LEMMA InsertDirectory ==
    ASSUME Inductive, sid \in SIDs, NEW n \in Names, index[n] = NoSID, Insert(sid, n)
    PROVE  index' \in [Names -> Nat] /\ DirectoryConsistent'
  <1>1. names' = [Resized(sid) EXCEPT ![sid] = n] /\ index' = [Erased(sid) EXCEPT ![n] = sid]
    BY DEF Insert
  <1>2. sid \in Nat \ {0} /\ n # NoName /\ index \in [Names -> Nat] /\ NoSID = 0
    <2>1. index \in [Names -> Nat]
      BY DEF Inductive, TypeOK
    <2>2. sid \in Nat \ {0}
      BY Rows DEF SIDs
    <2>3. n # NoName
      BY ServerAssumption
    <2> QED
      BY <2>1, <2>2, <2>3 DEF NoSID
  <1>3. Erased(sid) = IF sid \in DOMAIN names /\ names[sid] # NoName
                      THEN [index EXCEPT ![names[sid]] = NoSID] ELSE index
    <2>1. sid <= Len(names) <=> sid \in DOMAIN names
      BY <1>2, Rows DEF Inductive
    <2> QED
      BY <2>1 DEF Erased
  <1>4. \A s \in DOMAIN names : names[s] \in Names \cup {NoName}
    BY Rows DEF Inductive
  <1>5. Erased(sid) \in [Names -> Nat]
    BY <1>2, <1>3, <1>4
  <1>6. index' \in [Names -> Nat] /\ index'[n] = sid
        /\ \A m \in Names \ {n} : index'[m] = Erased(sid)[m]
    BY <1>1, <1>2, <1>5
  <1>7. ASSUME NEW m \in Names, index'[m] # NoSID
        PROVE  index'[m] \in DOMAIN names' /\ names'[index'[m]] = m
    <2>1. CASE m = n
      BY <1>1, <1>6, <2>1, ResizedTyped
    <2>2. CASE m # n
      <3>1. index'[m] = Erased(sid)[m]
        BY <1>6, <2>2
      <3>2. index'[m] = index[m] /\ ~(sid \in DOMAIN names /\ names[sid] = m)
        BY <1>2, <1>3, <1>4, <1>7, <3>1, ServerAssumption
      <3>3. index[m] \in DOMAIN names /\ names[index[m]] = m
        BY <1>7, <3>2 DEF Inductive, DirectoryConsistent
      <3>4. index[m] # sid
        BY <3>2, <3>3
      <3> QED
        BY <1>1, <3>2, <3>3, <3>4, ResizedTyped
    <2> QED
      BY <2>1, <2>2
  <1>8. ASSUME NEW s \in DOMAIN names', names'[s] # NoName PROVE index'[names'[s]] = s
    <2>1. CASE s = sid
      BY <1>1, <1>6, <2>1, ResizedTyped
    <2>2. CASE s # sid
      <3>1. s \in DOMAIN names /\ names'[s] = names[s] /\ names[s] \in Names
        BY <1>1, <1>4, <1>8, <2>2, ResizedTyped
      <3>2. index[names[s]] = s /\ s # NoSID
        BY <1>8, <3>1, Rows DEF Inductive, DirectoryConsistent, SIDs, NoSID
      <3>3. names[s] # n
        BY <3>2
      <3>4. sid \in DOMAIN names /\ names[sid] # NoName => names[sid] # names[s]
        BY <2>2, <3>2 DEF Inductive, DirectoryConsistent
      <3>5. Erased(sid)[names[s]] = index[names[s]]
        BY <1>2, <1>3, <1>4, <3>1, <3>4
      <3> QED
        BY <1>6, <3>1, <3>2, <3>3, <3>5
    <2> QED
      BY <2>1, <2>2
  <1> QED
    BY <1>6, <1>7, <1>8 DEF DirectoryConsistent

LEMMA InsertClaims ==
    ASSUME Inductive, sid \in SIDs, NEW n \in Names, index[n] = NoSID, Insert(sid, n),
           UNCHANGED <<conns, mail>>, TakesFirst,
           Head(uplink[Current]).kind = "LOGIN", Head(uplink[Current]).name = n
    PROVE  Mapped
  <1>1. names' = [Resized(sid) EXCEPT ![sid] = n]
    BY DEF Insert
  <1>2. \A s, t \in SIDs : conns[s].client = conns[t].client => s = t
    BY DEF Inductive, TypeOK
  <1>3. \A s, t \in DOMAIN names' : conns[s].client = conns[t].client => s = t
    <2>1. DOMAIN names' \subseteq SIDs
      BY <1>1, ResizedTyped
    <2> QED
      BY <1>2, <2>1
  <1>4. \A s \in DOMAIN names' : Held(conns, names', conns[s].client) = names'[s]
    BY <1>3, Holder
  <1>5. \A c \in Clients : HeldBy(c) = Held(conns, names, c) /\ HeldBy(c)' = Held(conns, names', c)
    BY DEF HeldBy, Held
  <1>. PICK me \in Clients : me = Current
    BY Rows DEF Inductive, Current
  <1>6. HeldBy(me)' = n
    <2>1. sid \in DOMAIN names' /\ names'[sid] = n
      BY <1>1, ResizedTyped
    <2>2. Held(conns, names', me) = names'[sid]
      BY <2>1, <1>4 DEF Current
    <2> QED
      BY <1>5, <2>1, <2>2
  <1>7. ASSUME NEW c \in Clients, c # me PROVE HeldBy(c)' = HeldBy(c)
    <2>1. CASE \E s \in DOMAIN names : conns[s].client = c
      <3>1. PICK s \in DOMAIN names : conns[s].client = c
        BY <2>1
      <3>2. s # sid
        BY <1>7, <3>1 DEF Current
      <3>3. names'[s] = names[s] /\ s \in DOMAIN names'
        BY <1>1, <3>1, <3>2, ResizedTyped
      <3>4. Held(conns, names, c) = names[s]
        BY <3>1, Apart, Holder DEF Inductive
      <3>5. Held(conns, names', c) = names'[s]
        BY <3>1, <3>3, <1>4
      <3>6. HeldBy(c) = names[s]
        BY <1>5, <3>4
      <3>7. HeldBy(c)' = names'[s]
        BY <1>5, <3>5
      <3> QED
        BY <3>3, <3>6, <3>7
    <2>2. CASE ~\E s \in DOMAIN names : conns[s].client = c
      <3>1. Held(conns, names, c) = NoName
        BY <2>2 DEF Held
      <3>2. CASE \E s \in DOMAIN names' : conns[s].client = c
        <4>1. PICK s \in DOMAIN names' : conns[s].client = c
          BY <3>2
        <4>2. s # sid /\ s \notin DOMAIN names
          BY <1>7, <2>2, <4>1 DEF Current
        <4>3. names'[s] = NoName
          BY <1>1, <4>1, <4>2, ResizedTyped
        <4>4. Held(conns, names', c) = names'[s]
          BY <4>1, <1>4
        <4> QED
          BY <1>5, <3>1, <4>3, <4>4
      <3>3. CASE ~\E s \in DOMAIN names' : conns[s].client = c
        BY <1>5, <3>1, <3>3 DEF Held
      <3> QED
        BY <3>2, <3>3
    <2> QED
      BY <2>1, <2>2
  <1>8. Service!Claim(me)
    <2>1. \A other \in Clients : HeldBy(other) # n
      BY Unheld
    <2>2. [c \in Clients |-> HeldBy(c)']
            = [[c \in Clients |-> HeldBy(c)] EXCEPT ![me] = n]
      BY <1>6, <1>7
    <2>3. Service!Takes(me)
      BY DEF TakesFirst, Service!Takes
    <2>4. Service!Free(n)
      BY <2>1 DEF Service!Free
    <2> QED
      BY <2>2, <2>3, <2>4 DEF Service!Claim
  <1> QED
    BY <1>8 DEF Mapped, Service!Next

\* A name in the index is held.
LEMMA IndexHeld ==
    ASSUME Inductive, NEW n \in Names, index[n] # NoSID
    PROVE  /\ index[n] \in DOMAIN names /\ conns[index[n]].client \in Clients
           /\ HeldBy(conns[index[n]].client) = n
  <1>1. index[n] \in DOMAIN names /\ names[index[n]] = n
    BY DEF Inductive, DirectoryConsistent
  <1>2. conns[index[n]].client \in Clients
    BY <1>1, Rows DEF Inductive
  <1>3. Held(conns, names, conns[index[n]].client) = n
    BY <1>1, Apart, Holder DEF Inductive
  <1> QED
    BY <1>1, <1>2, <1>3 DEF HeldBy, Held

LEMMA HandleLoginGood == ASSUME Inductive, HandleLogin PROVE Good
  <1> DEFINE n == Head(uplink[Current]).name
  <1>1. /\ sid \in SIDs /\ Current \in Clients /\ TakesFirst
        /\ Head(uplink[Current]).kind = "LOGIN"
        /\ uplink' \in [Clients -> Seq(Requests \cup {Fin})] /\ swallowed' \in SUBSET Clients
        /\ Head(uplink[Current]) \in Requests \cup {Fin}
    BY Received DEF HandleLogin, Inductive
  <1>2. n \in Names
    BY <1>1 DEF Requests, Fin
  <1>3. UNCHANGED <<conns, idx, guest, sid, link, budget, listed, mail>>
    BY DEF HandleLogin
  <1>4. /\ owed' \in [Clients -> BOOLEAN]
        /\ wire' \in [Clients -> {"open", "error", "broken"}]
        /\ pc' \in {"handleConnect", "killed"}
    BY <1>1, Sent DEF HandleLogin, Inductive, TypeOK
  <1>5. ASSUME names' \in Seq(Names \cup {NoName}), Len(names') <= Len(conns),
               index' \in [Names -> Nat]
        PROVE  TypeOK'
    BY <1>1, <1>3, <1>4, <1>5 DEF Inductive, TypeOK, SIDs
  <1>6. CASE index[n] # NoSID
    <2>1. UNCHANGED <<names, index>>
      BY <1>6 DEF HandleLogin
    <2>2. TypeOK'
      BY <1>5, <2>1, <1>3 DEF Inductive, TypeOK
    <2>3. DirectoryConsistent'
      BY <2>1 DEF Inductive, DirectoryConsistent
    <2>4. \E d \in Clients : HeldBy(d) = n
      BY <1>2, <1>6, IndexHeld
    <2>5. PICK k \in 1 .. Len(uplink[Current]) :
             uplink' = [uplink EXCEPT ![Current] = SubSeq(@, k + 1, Len(@))]
      BY <1>1 DEF TakesFirst
    <2>6. Mapped
      BY <1>1, <1>3, <2>1, <2>4, <2>5, Passed DEF Inductive
    <2> QED
      BY <2>2, <2>3, <2>6 DEF Good
  <1>7. CASE index[n] = NoSID
    <2>1. Insert(sid, n)
      BY <1>7 DEF HandleLogin
    <2>2. names' \in Seq(Names \cup {NoName}) /\ Len(names') <= Len(conns)
      BY <1>1, <1>2, <2>1, ResizedTyped DEF Insert
    <2>3. index' \in [Names -> Nat] /\ DirectoryConsistent'
      BY <1>1, <1>2, <1>7, <2>1, InsertDirectory
    <2>4. Mapped
      BY <1>1, <1>2, <1>3, <1>7, <2>1, InsertClaims
    <2> QED
      BY <1>5, <2>2, <2>3, <2>4 DEF Good
  <1> QED
    BY <1>6, <1>7

-----------------------------------------------------------------------------
(* A message: the receiver is the holder of its name. *)
LEMMA SenderHolds ==
    ASSUME Inductive, sid \in SIDs
    PROVE  HeldBy(Current) = SenderName
  <1>1. HeldBy(Current) = Held(conns, names, Current)
    BY DEF HeldBy, Held
  <1>2. sid <= Len(names) <=> sid \in DOMAIN names
    BY Rows DEF Inductive, SIDs
  <1>3. CASE sid \in DOMAIN names
    <2>1. Held(conns, names, Current) = names[sid]
      BY <1>3, Apart, Holder DEF Inductive, Current
    <2> QED
      BY <1>1, <1>2, <1>3, <2>1 DEF SenderName
  <1>4. CASE sid \notin DOMAIN names
    <2>1. \A s \in DOMAIN names : conns[s].client # Current
      BY <1>4, Rows DEF Inductive, TypeOK, Current
    <2> QED
      BY <1>1, <1>2, <1>4, <2>1 DEF SenderName, Held
  <1> QED
    BY <1>3, <1>4

LEMMA HandleMessageGood == ASSUME Inductive, HandleMessage PROVE Good
  <1> DEFINE to == Head(uplink[Current]).to
             receiver == conns[index[to]].client
             post == [from |-> SenderName, to |-> to]
  <1>1. /\ sid \in SIDs /\ Current \in Clients /\ TakesFirst
        /\ Head(uplink[Current]).kind = "MESSAGE"
        /\ uplink' \in [Clients -> Seq(Requests \cup {Fin})] /\ swallowed' \in SUBSET Clients
        /\ Head(uplink[Current]) \in Requests \cup {Fin}
    BY Received DEF HandleMessage, Inductive
  <1>2. to \in Names /\ to # NoName
    BY <1>1, ServerAssumption DEF Requests, Fin
  <1>3. UNCHANGED <<conns, names, index, idx, guest, sid, link, owed, budget, listed>>
    BY DEF HandleMessage, tables
  <1>4. /\ index[to] # NoSID /\ Sends(receiver)
        /\ mail' = IF wire[receiver] = "open"
                   THEN [mail EXCEPT ![receiver] = Append(@, post)] ELSE mail
    BY DEF HandleMessage
  <1>5. receiver \in Clients /\ HeldBy(receiver) = to
    BY <1>2, <1>4, IndexHeld
  <1>6. HeldBy(Current) = SenderName /\ SenderName \in Names \cup {NoName}
    BY <1>1, SenderHolds, Rows DEF Inductive, SenderName, SIDs
  <1>7. PICK k \in 1 .. Len(uplink[Current]) :
           uplink' = [uplink EXCEPT ![Current] = SubSeq(@, k + 1, Len(@))]
    BY <1>1 DEF TakesFirst
  <1>8. /\ wire' \in [Clients -> {"open", "error", "broken"}]
        /\ pc' \in {"handleConnect", "killed"}
    BY <1>4, <1>5, Sent DEF Inductive
  <1>9. DirectoryConsistent'
    BY <1>3 DEF Inductive, DirectoryConsistent
  <1>10. \A c \in Clients : HeldBy(c)' = HeldBy(c)
    BY <1>3, SameHolders DEF Inductive
  <1> DEFINE Posts == [from: Names \cup {NoName}, to: Names]
  <1>11. post \in Posts /\ mail[receiver] \in Seq(Posts)
    BY <1>2, <1>5, <1>6 DEF Inductive, TypeOK
  <1>12. Append(mail[receiver], post) \in Seq(Posts)
    <2> HIDE DEF Posts, post
    <2> QED
      BY <1>11, AppendTyped
  <1> HIDE DEF receiver
  <1>13. mail' \in [Clients -> Seq(Posts)]
    BY <1>4, <1>12 DEF Inductive, TypeOK
  <1>14. TypeOK'
    BY <1>1, <1>3, <1>8, <1>13 DEF Inductive, TypeOK, SIDs
  <1>15. Mapped
    <2>1. CASE wire[receiver] # "open"
      BY <1>1, <1>3, <1>4, <1>7, <2>1, Passed DEF Inductive
    <2>2. CASE wire[receiver] = "open"
      <3>1. PICK me \in Clients : me = Current
        BY <1>1
      <3>2. Service!Takes(me)
        BY <1>1, <3>1 DEF TakesFirst, Service!Takes
      <3>3. mail' = [mail EXCEPT ![receiver] =
                        Append(@, [from |-> HeldBy(me), to |-> HeldBy(receiver)])]
        BY <1>4, <1>5, <1>6, <2>2, <3>1
      <3>4. Service!Forward(me, receiver)
        BY <1>1, <1>5, <1>10, <3>1, <3>2, <3>3 DEF Service!Forward
      <3> QED
        BY <1>5, <3>4 DEF Mapped, Service!Next
    <2> QED
      BY <2>1, <2>2
  <1> QED
    BY <1>9, <1>14, <1>15 DEF Good

-----------------------------------------------------------------------------
LEMMA InitInductive == Init => Inductive /\ Service!Init
  <1> SUFFICES ASSUME Init PROVE Inductive /\ Service!Init
    OBVIOUS
  <1>1. conns = <<>> /\ names = <<>> /\ Len(conns) = 0 /\ Len(names) = 0 /\ SIDs = {}
    BY EmptySeq DEF Init, SIDs
  <1>2. DOMAIN names = {}
    BY <1>1
  <1>3. TypeOK
    <2>1. /\ conns \in Seq([client: Clients, connected: BOOLEAN])
          /\ names \in Seq(Names \cup {NoName})
      BY <1>1, EmptySeq
    <2>2. /\ uplink \in [Clients -> Seq(Requests \cup {Fin})]
          /\ mail \in [Clients -> Seq([from: Names \cup {NoName}, to: Names])]
      BY EmptySeq DEF Init
    <2>3. /\ index \in [Names -> Nat] /\ idx \in Nat \ {0} /\ sid \in Nat
          /\ pc = "handleConnect" /\ guest \in Clients /\ swallowed \in SUBSET Clients
      BY ServerAssumption DEF Init, NoSID
    <2>4. /\ link \in [Clients -> Links]
          /\ wire \in [Clients -> {"open", "error", "broken"}]
          /\ owed \in [Clients -> BOOLEAN]
          /\ listed \in [Clients -> SUBSET (Names \cup {NoName})]
          /\ budget \in [Clients -> Nat]
      BY ServerAssumption DEF Init, Links
    <2>5. /\ Len(names) <= Len(conns) /\ pc \notin {"receivePacket", "handshake"}
          /\ \A s, t \in SIDs : conns[s].client = conns[t].client => s = t
          /\ \A s \in SIDs : link[conns[s].client] \in {"up", "gone"}
      BY <1>1, <2>3
    <2> QED
      BY <2>1, <2>2, <2>3, <2>4, <2>5 DEF TypeOK
  <1>4. DirectoryConsistent
    BY <1>2 DEF Init, DirectoryConsistent
  <1>5. \A c \in Clients : HeldBy(c) = NoName
    BY <1>2 DEF HeldBy
  <1>6. Service!Init
    BY <1>5 DEF Init, Service!Init
  <1> QED
    BY <1>3, <1>4, <1>6 DEF Inductive

(* Every step keeps the tables typed and consistent, and is a claim, a     *)
(* forwarded message or nothing at all to a user of names.                 *)
THEOREM InductiveStep == Inductive /\ [Next]_vars => Inductive' /\ Mapped
  <1> SUFFICES ASSUME Inductive, [Next]_vars PROVE Good
    BY DEF Good, Inductive
  <1>1. ASSUME NEW c \in Clients, Dial(c) \/ Offer(c) \/ Abandon(c) \/ Ask(c) \/ HangUp(c)
        PROVE  Good
    BY <1>1, DialGood, AskGood, HangUpGood
  <1>2. ASSUME Insertion PROVE Good
    BY <1>2, InsertionGood
  <1>3. ASSUME Idles PROVE Good
    BY <1>3, IdleGood
  <1>4. ASSUME WaitForRead PROVE Good
    BY <1>4, WaitForReadGood
  <1>5. ASSUME PeerClosed \/ GetUserList \/ HandleQuit \/ DropMessage \/ ReadsPastEnd PROVE Good
    BY <1>5, ReadGood
  <1>6. ASSUME HandleLogin PROVE Good
    BY <1>6, HandleLoginGood
  <1>7. ASSUME HandleMessage PROVE Good
    BY <1>7, HandleMessageGood
  <1>8. ASSUME UNCHANGED vars PROVE Good
    <2>1. UNCHANGED <<conns, names, index, idx, pc, guest, sid, link, uplink, owed, budget,
                      listed, mail, wire, swallowed>>
      BY <1>8 DEF vars, tables, clients, outputs
    <2>2. TypeOK'
      BY <2>1 DEF Inductive, TypeOK, SIDs
    <2> QED
      BY <2>1, <2>2, SameTables DEF tables
  <1> QED
    BY <1>1, <1>2, <1>3, <1>4, <1>5, <1>6, <1>7, <1>8 DEF Next, Run, Idles

(* The server's variables stay within their types, a client has one SID,   *)
(* and the SID that run() reads is a row of the table (waitForRead).       *)
THEOREM TypeCorrect == Spec => []TypeOK
  <1>1. Init => Inductive
    BY InitInductive
  <1>2. Inductive /\ [Next]_vars => Inductive'
    BY InductiveStep
  <1>3. Inductive => TypeOK
    BY DEF Inductive
  <1> QED
    BY <1>1, <1>2, <1>3, PTL DEF Spec

(* A name is indexed under the one SID that has it, for any number of      *)
(* clients, names, renames and disconnects (IndexedSocketMap::insert).     *)
THEOREM Directory == Spec => []DirectoryConsistent
  <1>1. Init => Inductive
    BY InitInductive
  <1>2. Inductive /\ [Next]_vars => Inductive'
    BY InductiveStep
  <1>3. Inductive => DirectoryConsistent
    BY DEF Inductive
  <1> QED
    BY <1>1, <1>2, <1>3, PTL DEF Spec

(* The server is a name service: a client that asks for a free name gets   *)
(* it, nobody takes one that another holds, and the message at the head of *)
(* a client's stream reaches the holder of the name it is addressed to     *)
(* under that client's own name, whatever a recv() swallows behind it.     *)
THEOREM Refinement == Spec => ImplementsService
  <1>1. Init => Inductive /\ Service!Init
    BY InitInductive
  <1>2. Inductive /\ [Next]_vars => Inductive' /\ [Service!Next]_(Service!vars)
    BY InductiveStep DEF Mapped
  <1> QED
    BY <1>1, <1>2, PTL DEF Spec, ImplementsService, Service!Spec
=============================================================================
