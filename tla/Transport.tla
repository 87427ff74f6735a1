----------------------------- MODULE Transport ------------------------------
(***************************************************************************)
(* One direction of a connection between two NetworkHandlers: sendPacket   *)
(* at one end, receivePacket at the other, and TCP between them, which     *)
(* keeps the order and not the borders: a recv() returns the cells that    *)
(* are there, up to the size of its buffer.                                *)
(*                                                                         *)
(* In phase 1 a packet goes out as it is, recv() adds to mRecvBuffer, and  *)
(* one packet is read from that buffer.  Since phase 2 it goes out sealed, *)
(* as a frame, and what recv() returns behind the first frame is dropped.  *)
(***************************************************************************)
EXTENDS Codec

CONSTANTS
    Chars,                    \* what names and texts are made of
    EarlyPackets, Packets,    \* the packets that may be sent, in phase 1 and since
    Null,
    MaxSent,   \* how many of them are sent
    RecvSize   \* how many cells fit into the buffer of a recv()

(* The packets there are, by their fields (Packet.hh, E2ESession.hh).       *)
Names == Seq(Chars)
Messages(payloads) ==
    [type : {"MESSAGE"}, seq : Nat, sender : Names, receiver : Names, payload : payloads]
EarlyPayloads == [type : {"PLAIN_TEXT"}, text : Names]
Payloads ==
    [type : {"PLAIN_TEXT"}, seqno : Nat, text : Names]
    \cup [type : {"E2E_INIT"}, seqno : Nat, timestamp : Nat, key : Names]
    \cup [type : {"E2E_ACK"}, seqno : Nat, key : Names]
    \cup [type : {"E2E_MSG"}, seqno : Nat, nonce : Nat, text : Names]
OtherPackets ==
    [type : {"REQUEST"}, seq : Nat, request : Nat]
    \cup [type : {"FIELD_REQ"}, seq : Nat, request : Nat, field : Names]
    \cup [type : {"USER_LIST"}, seq : Nat, users : Seq(Names)]
    \cup [type : {"CONTROL"}, seq : Nat, control : Nat, replyTo : Nat]
    \cup [type : {"CONNECTION_SETUP"}, seq : Nat]

ASSUME TransportAssumption ==
    /\ EarlyPackets \subseteq Messages(EarlyPayloads) \cup OtherPackets
    /\ Packets \subseteq Messages(Payloads) \cup OtherPackets

VARIABLES
    early,     \* phase 1
    stream,    \* the cells on their way
    open,      \* the sender has not closed
    recvBuffer,\* mRecvBuffer: what phase 1 has not read yet
    receiver,  \* "connected", "closed", or "misled": phase 1 read a packet that was cut
    sent, passed, returned    \* as in Channel

channel == <<sent, passed, returned>>
vars == <<early, stream, open, recvBuffer, receiver, channel>>

Init ==
    /\ early \in BOOLEAN
    /\ stream = <<>> /\ open = TRUE
    /\ recvBuffer = <<>> /\ receiver = "connected"
    /\ sent = <<>> /\ passed = 0 /\ returned = Null

-----------------------------------------------------------------------------
(* Frames: nonce, ciphertext and tag.  The tag is the cipher's word for    *)
(* what it was made of, so that anything else fails it.  No nonce comes    *)
(* twice: it is a frame's number.                                          *)

Seal(nonce, cells) ==
    LET ciphertext == [i \in 1 .. Len(cells) |-> <<"sealed", cells[i]>>]
    IN  <<<<"nonce", nonce>>>> \o Sized(ciphertext) \o <<<<"tag", <<nonce, ciphertext>>>>>>

Opens(f) ==
    /\ f.ok
    /\ f.val[1][1] = "nonce"
    /\ f.val[3] = <<"tag", <<f.val[1][2], f.val[2]>>>>

ReadFrame(cells) == ReadFields(<<"cell", "sized", "cell">>, cells)

Plaintext(f) == [i \in DOMAIN f.val[2] |-> f.val[2][i][2]]

-----------------------------------------------------------------------------
(* sendPacket                                                              *)

Sending(p) ==
    /\ open /\ Len(sent) < MaxSent
    /\ sent' = Append(sent, p)
    /\ UNCHANGED <<early, open, recvBuffer, receiver, passed, returned>>

SendPlain(p) ==
    /\ early
    /\ Sending(p)
    /\ stream' = stream \o Serialise(p, TRUE)

SendSealed(p) ==
    /\ ~early
    /\ Sending(p)
    /\ stream' = stream \o Seal(Len(sent) + 1, Serialise(p, FALSE))

(* Phase 2 can spoil what it sends: the byte behind the nonce belongs to   *)
(* the size of the ciphertext.                                             *)
Damaged(frame) == [frame EXCEPT ![2] = Num(@[2] + 1)]

SendDamaged(p) ==
    /\ ~early
    /\ Sending(p)
    /\ stream' = stream \o Damaged(Seal(Len(sent) + 1, Serialise(p, FALSE)))

Close ==
    /\ open
    /\ open' = FALSE
    /\ UNCHANGED <<early, stream, recvBuffer, receiver, channel>>

-----------------------------------------------------------------------------
(* receivePacket.  A recv() that is interrupted, or finds nothing within   *)
(* its second, changes nothing.                                            *)

Recv(k) ==
    /\ receiver = "connected"
    /\ k \in 1 .. Len(stream) /\ k <= RecvSize
    /\ stream' = SubSeq(stream, k + 1, Len(stream))
    /\ UNCHANGED <<early, open, sent>>

\* Fault: what is left in the buffer goes with the packet.
ReceivePlainOnly(k) ==
    LET buffered == recvBuffer \o SubSeq(stream, 1, k)
        p == Deserialise(buffered, TRUE)
    IN  /\ early
        /\ Recv(k)
        /\ p.ok
        /\ recvBuffer' = <<>>
        /\ returned' = p.val /\ passed' = passed + 1
        /\ UNCHANGED receiver

\* Fault: what is read is not taken from the buffer.
ReceivePlainAgain(k) ==
    LET buffered == recvBuffer \o SubSeq(stream, 1, k)
        p == Deserialise(buffered, TRUE)
    IN  /\ early
        /\ Recv(k)
        /\ p.ok
        /\ recvBuffer' = buffered
        /\ returned' = p.val /\ passed' = passed + 1
        /\ UNCHANGED receiver

ReceivePlain(k) ==
    LET buffered == recvBuffer \o SubSeq(stream, 1, k)
        p == Deserialise(buffered, TRUE)
    IN  /\ early
        /\ Recv(k)
        /\ p.ok
        /\ recvBuffer' = p.rest
        /\ returned' = p.val /\ passed' = passed + 1
        /\ UNCHANGED receiver

(* A packet that was cut is read all the same: what was not there keeps    *)
(* whatever its field held, or an exception ends the process; the rest is  *)
(* read as a packet of its own.  Nothing is said of what comes then.       *)
ReceiveCut(k) ==
    /\ early
    /\ Recv(k)
    /\ ~Deserialise(recvBuffer \o SubSeq(stream, 1, k), TRUE).ok
    /\ receiver' = "misled"
    /\ UNCHANGED <<recvBuffer, passed, returned>>

ReceiveSealed(k) ==
    LET f == ReadFrame(SubSeq(stream, 1, k))
        p == Deserialise(Plaintext(f), FALSE)
    IN  /\ ~early
        /\ Recv(k)
        /\ Opens(f) /\ p.ok
        /\ returned' = p.val /\ passed' = f.val[1][2]
        /\ UNCHANGED <<recvBuffer, receiver>>

(* The exception is caught, and the cells are gone.                        *)
ReceiveNothing(k) ==
    LET f == ReadFrame(SubSeq(stream, 1, k))
    IN  /\ ~early
        /\ Recv(k)
        /\ ~(Opens(f) /\ Deserialise(Plaintext(f), FALSE).ok)
        /\ UNCHANGED <<recvBuffer, receiver, passed, returned>>

PeerClosed ==
    /\ receiver = "connected" /\ ~open /\ stream = <<>>
    /\ receiver' = "closed"
    /\ UNCHANGED <<early, stream, open, recvBuffer, channel>>

Next ==
    \/ \E p \in EarlyPackets : SendPlain(p)
    \/ \E p \in Packets : SendSealed(p) \/ SendDamaged(p)
    \/ Close
    \/ \E k \in 1 .. Len(stream) :
          \/ ReceivePlain(k) \/ ReceiveCut(k)
          \/ ReceiveSealed(k) \/ ReceiveNothing(k)
    \/ PeerClosed

Spec == Init /\ [][Next]_vars

-----------------------------------------------------------------------------
(* Properties                                                              *)

(* The reader gets what was written: 32 of replyTo's 64 bits.              *)
Written(p) == IF p.type = "CONTROL" THEN [p EXCEPT !.replyTo = @ % Half] ELSE p

(* Whatever TCP cuts or joins, receivePacket returns packets that were     *)
(* sent, in order and at most once, and a spoilt one never - until, in     *)
(* phase 1, a packet is cut (NetworkHandler.cpp:263-292, 330-412).         *)
Connection ==
    INSTANCE Channel WITH Packets <- {Written(p) : p \in EarlyPackets \cup Packets},
                          sent <- [i \in DOMAIN sent |-> Written(sent[i])]

ImplementsChannel == Connection!Spec

(* Phase 1 loses nothing: what was sent and not returned is on its way or  *)
(* in mRecvBuffer (phase1/src/utils/NetworkHandler.cpp:22-38, 129-131).    *)
Conserved ==
    early /\ receiver # "misled" =>
        recvBuffer \o stream
        = FlattenSeq([i \in 1 .. Len(sent) - passed |-> Serialise(sent[passed + i], TRUE)])
=============================================================================
