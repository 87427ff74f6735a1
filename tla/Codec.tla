------------------------------- MODULE Codec --------------------------------
(***************************************************************************)
(* What goes over a connection: packets (Packet.hh, Packet.cpp) and the    *)
(* payloads inside messages (E2ESession.hh) as a MemBuffer's << and >>     *)
(* write and read them.  A cell stands for one number, character, nonce or *)
(* tag: <<kind, value>>.                                                   *)
(***************************************************************************)
EXTENDS Naturals, Sequences, SequencesExt

Half == 16    \* stands for 2^32: the values of the 32 bits that are written

Num(n) == <<"num", n>>
Text(s) == [i \in 1 .. Len(s) |-> <<"char", s[i]>>]

(* A string or vector is its size, and then what is in it.                 *)
Sized(cells) == <<Num(Len(cells))>> \o cells
Strings(v) == <<Num(Len(v))>> \o FlattenSeq([i \in 1 .. Len(v) |-> Sized(Text(v[i]))])

-----------------------------------------------------------------------------
(* Reading.  A reader that finds less than it wants, or something else,    *)
(* leaves junk in its destination: what comes of it is not ok.             *)

Read(v, rest) == [val |-> v, rest |-> rest, ok |-> TRUE]
Junk == [val |-> <<>>, rest |-> <<>>, ok |-> FALSE]

ReadNum(cells) ==
    IF cells # <<>> /\ Head(cells)[1] = "num" THEN Read(Head(cells)[2], Tail(cells)) ELSE Junk

ReadOne(cells) == IF cells # <<>> THEN Read(Head(cells), Tail(cells)) ELSE Junk

ReadSized(cells) ==
    LET size == ReadNum(cells)
    IN  IF size.ok /\ size.val <= Len(size.rest)
        THEN Read(SubSeq(size.rest, 1, size.val),
                  SubSeq(size.rest, size.val + 1, Len(size.rest)))
        ELSE Junk

(* The strings and the fields are read one after the other: upTo is what   *)
(* has been read after the first i of them.                                *)
Another(r, f) == IF r.ok /\ f.ok THEN Read(Append(r.val, f.val), f.rest) ELSE Junk

ReadStrings(cells) ==
    LET size == ReadNum(cells)
        upTo[i \in 0 .. size.val] ==
            IF i = 0 THEN Read(<<>>, size.rest)
            ELSE Another(upTo[i - 1], ReadSized(upTo[i - 1].rest))
    IN  IF size.ok THEN upTo[size.val] ELSE Junk

ReadKind(kind, cells) ==
    CASE kind = "num" -> ReadNum(cells)
      [] kind = "cell" -> ReadOne(cells)
      [] kind = "sized" -> ReadSized(cells)
      [] kind = "strings" -> ReadStrings(cells)

ReadFields(kinds, cells) ==
    LET upTo[i \in 0 .. Len(kinds)] ==
            IF i = 0 THEN Read(<<>>, cells)
            ELSE Another(upTo[i - 1], ReadKind(kinds[i], upTo[i - 1].rest))
    IN  upTo[Len(kinds)]

-----------------------------------------------------------------------------
(* Payloads: what two clients say to each other through the server.        *)

PayloadTypes == <<"PLAIN_TEXT", "E2E_INIT", "E2E_ACK", "E2E_MSG">>

InitData(m) == <<Num(m.seqno), Num(m.timestamp)>> \o Sized(Text(m.key))
AckData(m) == <<Num(m.seqno)>> \o Sized(Text(m.key))

(* A text that is not sealed is a string within the string; a sealed one   *)
(* has its tag before its ciphertext, unlike a frame.                      *)
MsgData(m) ==
    <<Num(m.seqno)>> \o IF m.type = "PLAIN_TEXT" THEN Sized(Text(m.text))
                        ELSE <<<<"nonce", m.nonce>>, <<"tag", m.text>>>> \o Sized(Text(m.text))

PayloadData(m) ==
    CASE m.type = "E2E_INIT" -> InitData(m)
      [] m.type = "E2E_ACK" -> AckData(m)
      [] OTHER -> MsgData(m)

Characters(cells) == [i \in 1 .. Len(cells) |-> cells[i][2]]

ReadInit(data) ==
    LET r == ReadFields(<<"num", "num", "sized">>, data)
    IN  [type |-> "E2E_INIT", seqno |-> r.val[1], timestamp |-> r.val[2],
         key |-> Characters(r.val[3])]

ReadAck(data) ==
    LET r == ReadFields(<<"num", "sized">>, data)
    IN  [type |-> "E2E_ACK", seqno |-> r.val[1], key |-> Characters(r.val[2])]

ReadMsg(type, data) ==
    IF type = "PLAIN_TEXT"
    THEN LET r == ReadFields(<<"num", "sized">>, data)
         IN  [type |-> type, seqno |-> r.val[1], text |-> Characters(r.val[2])]
    ELSE LET r == ReadFields(<<"num", "cell", "cell", "sized">>, data)
         IN  [type |-> type, seqno |-> r.val[1], nonce |-> r.val[2][2],
              text |-> Characters(r.val[4])]

ReadPayload(type, data) ==
    CASE type = "E2E_INIT" -> ReadInit(data)
      [] type = "E2E_ACK" -> ReadAck(data)
      [] OTHER -> ReadMsg(type, data)

-----------------------------------------------------------------------------
(* Packets.                                                                *)

PacketTypes == <<"MESSAGE", "ERROR", "REQUEST", "FIELD_REQ", "USER_LIST",
                 "CONNECTION_SETUP", "CONTROL">>

IndexIn(names, name) == CHOOSE i \in DOMAIN names : names[i] = name

Header(p) == <<Num(IndexIn(PacketTypes, p.type)), Num(p.seq)>>

(* Up to phase 3 a message is a string, with no payload type.              *)
EarlyMessageFields(p) ==
    Sized(Text(p.sender)) \o Sized(Text(p.receiver)) \o Sized(Text(p.payload.text))

MessageFields(p) ==
    Sized(Text(p.sender)) \o Sized(Text(p.receiver))
    \o <<Num(IndexIn(PayloadTypes, p.payload.type))>> \o Sized(PayloadData(p.payload))

RequestFields(p) == <<Num(p.request)>>
FieldReqFields(p) == <<Num(p.request)>> \o Sized(Text(p.field))
UserListFields(p) == Strings(p.users)

\* Fault: all of the number, of which the reader takes the half.
ControlFieldsWide(p) == <<Num(p.control), Num(p.replyTo % Half), Num(p.replyTo \div Half)>>

ControlFields(p) == <<Num(p.control), Num(p.replyTo % Half)>>

Serialise(p, early) ==
    Header(p) \o
    CASE p.type = "MESSAGE" -> IF early THEN EarlyMessageFields(p) ELSE MessageFields(p)
      [] p.type = "REQUEST" -> RequestFields(p)
      [] p.type = "FIELD_REQ" -> FieldReqFields(p)
      [] p.type = "USER_LIST" -> UserListFields(p)
      [] p.type = "CONTROL" -> ControlFields(p)
      [] OTHER -> <<>>

(* What each deserialise() makes of the fields it reads.                   *)
EarlyMessage(f) ==
    [type |-> "MESSAGE", seq |-> f[2], sender |-> Characters(f[3]),
     receiver |-> Characters(f[4]),
     payload |-> [type |-> "PLAIN_TEXT", text |-> Characters(f[5])]]
Message(f) ==
    [type |-> "MESSAGE", seq |-> f[2], sender |-> Characters(f[3]),
     receiver |-> Characters(f[4]), payload |-> ReadPayload(PayloadTypes[f[5]], f[6])]
Request(f) == [type |-> "REQUEST", seq |-> f[2], request |-> f[3]]
FieldReq(f) ==
    [type |-> "FIELD_REQ", seq |-> f[2], request |-> f[3], field |-> Characters(f[4])]
UserList(f) ==
    [type |-> "USER_LIST", seq |-> f[2],
     users |-> [i \in DOMAIN f[3] |-> Characters(f[3][i])]]

(* The upper half of replyTo keeps what the heap held: it is left out.     *)
Control(f) == [type |-> "CONTROL", seq |-> f[2], control |-> f[3], replyTo |-> f[4]]
ConnectionSetup(f) == [type |-> "CONNECTION_SETUP", seq |-> f[2]]

Packet(type, f, early) ==
    CASE type = "MESSAGE" -> IF early THEN EarlyMessage(f) ELSE Message(f)
      [] type = "REQUEST" -> Request(f)
      [] type = "FIELD_REQ" -> FieldReq(f)
      [] type = "USER_LIST" -> UserList(f)
      [] type = "CONTROL" -> Control(f)
      [] OTHER -> ConnectionSetup(f)

FieldKinds(type, early) ==
    CASE type = "MESSAGE" -> IF early THEN <<"num", "num", "sized", "sized", "sized">>
                             ELSE <<"num", "num", "sized", "sized", "num", "sized">>
      [] type = "REQUEST" -> <<"num", "num", "num">>
      [] type = "FIELD_REQ" -> <<"num", "num", "num", "sized">>
      [] type = "USER_LIST" -> <<"num", "num", "strings">>
      [] type = "CONTROL" -> <<"num", "num", "num", "num">>
      [] OTHER -> <<"num", "num">>

(* getPacketFactory looks at the type, which deserialise() then takes; an  *)
(* ERROR, which nobody sends, takes nothing.                               *)
Deserialise(cells, early) ==
    LET type == ReadNum(cells)
        name == PacketTypes[type.val]
        f == ReadFields(FieldKinds(name, early), cells)
    IN  IF ~type.ok \/ type.val \notin DOMAIN PacketTypes \/ ~f.ok THEN Junk
        ELSE Read(Packet(name, f.val, early), f.rest)
=============================================================================
