----------------------------- MODULE E2ESession -----------------------------
(***************************************************************************)
(* One end of an end-to-end session, src/src/utils/E2ESession.{hh,cc}, and *)
(* the CryptoSession it holds, as operators from a session record to the   *)
(* next one.                                                               *)
(*                                                                         *)
(* Keys are abstracted to what decides whether two ends can talk: every    *)
(* CryptoSession generates one Diffie-Hellman pair, so the n-th one of a   *)
(* session is known by its generation n; "peer" is the generation of the   *)
(* public key it was established with.  The derived AES key is the same    *)
(* at both ends iff each was established with the other's pair.            *)
(***************************************************************************)
EXTENDS Integers

CONSTANTS
    Expiry,     \* the 60s of isStale, in clock units
    NeverStamp  \* uint64_t(-1), the stamp of a session never attempted

ASSUME SessionAssumption == Expiry \in Nat /\ NeverStamp \in Nat

NoKey    == 0   \* mEstablished = false: no peer key was given yet
BogusKey == -1  \* established with the empty key of an unparsed E2EAck

States == {"UNINITIALIZED", "INIT_SENT", "ESTABLISHED", "REFRESH_SENT"}
Sent   == {"INIT_SENT", "REFRESH_SENT"}

Generation == Nat \ {0}
PeerKey    == Nat \cup {BogusKey}

\* mCrypto is (gen, peer); oldCrypto is (oldGen, oldPeer).
Session == [state: States, seq: Nat, ts: Nat, gen: Generation, peer: PeerKey,
            oldGen: Nat, oldPeer: PeerKey]

NewSession ==
    [state |-> "UNINITIALIZED", seq |-> 0, ts |-> NeverStamp, gen |-> 1,
     peer |-> NoKey, oldGen |-> 0, oldPeer |-> NoKey]

-----------------------------------------------------------------------------
(* The payloads of E2ESession.hh; "from" is the sender the server writes.  *)

InitPackets(senders) ==
    [kind: {"INIT"}, from: senders, seq: Nat, ts: Nat, gen: Generation]
AckPackets(senders) ==
    [kind: {"ACK"}, from: senders, seq: Nat, gen: Generation]

InitPacket(c, s) ==
    [kind |-> "INIT", from |-> c, seq |-> s.seq, ts |-> s.ts, gen |-> s.gen]
AckPacket(c, s) ==
    [kind |-> "ACK", from |-> c, seq |-> s.seq, gen |-> s.gen]

-----------------------------------------------------------------------------
(* oldCrypto = std::move(mCrypto); mCrypto = CryptoSession(); *)
Rekeyed(s) ==
    [s EXCEPT !.oldGen = s.gen, !.oldPeer = s.peer,
              !.gen = s.gen + 1, !.peer = NoKey]

Initiate(s, now) ==
    [s EXCEPT !.state = "INIT_SENT", !.seq = s.seq + 1, !.ts = now]

\* Fault: the key pair of the last attempt is used again.
RefreshKeepsKey(s, now) ==
    [s EXCEPT !.state = "REFRESH_SENT", !.seq = s.seq + 1, !.ts = now]

Refresh(s, now) ==
    [Rekeyed(s) EXCEPT !.state = "REFRESH_SENT", !.seq = s.seq + 1, !.ts = now]

IsStale(s, now) == s.state # "UNINITIALIZED" /\ now > s.ts + Expiry

\* Faults: a repeated INIT wins; the younger of two crossing INITs wins; neither.
AcceptsRepeats(s, init) == init.seq >= s.seq
AcceptsYounger(s, init) == init.seq > s.seq \/ (init.seq = s.seq /\ init.ts > s.ts)
AcceptsHigher(s, init) == init.seq > s.seq

Accepts(s, init) ==
    \/ init.seq > s.seq
    \/ init.seq = s.seq /\ init.ts < s.ts

(* CryptoSession::establish throws on a second call for one key pair. *)
EstablishThrows(s) == s.state # "ESTABLISHED" /\ s.peer # NoKey

\* Fault: the sequence number of the INIT is not adopted.
HandleInitKeepsNumber(s, init) ==
    LET t == IF s.state = "ESTABLISHED" THEN Rekeyed(s) ELSE s
    IN  [t EXCEPT !.state = "ESTABLISHED", !.peer = init.gen, !.ts = init.ts]

HandleInit(s, init) ==
    LET t == IF s.state = "ESTABLISHED" THEN Rekeyed(s) ELSE s
    IN  [t EXCEPT !.state = "ESTABLISHED", !.peer = init.gen,
                  !.ts = init.ts, !.seq = init.seq]

\* Faults: the number is not compared; only a first attempt is answered.
AckAppliesToAny(s, seq) == s.state \in Sent
AckAppliesOnce(s, seq) == s.state = "INIT_SENT" /\ seq = s.seq

AckApplies(s, seq) == s.state \in Sent /\ seq = s.seq

HandleAck(s, key) == [s EXCEPT !.state = "ESTABLISHED", !.peer = key]

-----------------------------------------------------------------------------
(* Text: sealed under the current key when established, plain otherwise.   *)

Encrypt(s) ==
    [sealed |-> s.state = "ESTABLISHED", seq |-> s.seq,
     gen |-> s.gen, peer |-> s.peer]

SameKey(gen, peer, theirGen, theirPeer) ==
    \/ gen = theirPeer /\ peer = theirGen
    \/ peer = BogusKey /\ theirPeer = BogusKey  \* 0^x mod p is 0 for every x

Opens(gen, peer, m) == peer # NoKey /\ SameKey(gen, peer, m.gen, m.peer)

(* "text", the empty string shown as "blank", or an exception: no key yet  *)
(* (CryptoSession::decrypt) or a failed GCM tag (AESGCM::decrypt).         *)
Decrypt(s, m) ==
    IF ~m.sealed THEN "text"
    ELSE IF s.state # "ESTABLISHED" THEN "blank"
    ELSE IF \/ m.seq = s.seq /\ Opens(s.gen, s.peer, m)
            \/ m.seq # s.seq /\ Opens(s.oldGen, s.oldPeer, m)
         THEN "text"
         ELSE "throws"
-----------------------------------------------------------------------------
(* What two ends make of their sessions. *)

\* Established with a key of the other end's, not with a garbled one.
Sound(s) == s.state = "ESTABLISHED" /\ s.peer # BogusKey

Agree(s, t) ==
    Sound(s) /\ Sound(t) /\ s.seq = t.seq => s.peer = t.gen /\ t.peer = s.gen
=============================================================================
