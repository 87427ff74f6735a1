----------------------------- MODULE Handshake ------------------------------
(***************************************************************************)
(* How a connection gets its key: the clients' connect() and the server's  *)
(* accept loop (NetworkHandler.cpp, ConnectionSetter.cpp, Certificate.cc), *)
(* from phase 2, which exchanges public keys alone, to the current code,   *)
(* before which the server shows a certificate and signs a challenge.  The *)
(* phases differ in what becomes of a handshake that fails.                *)
(*                                                                         *)
(* TCP keeps the order and not the borders: a recv() returns any part of   *)
(* what is there.  receiveBytes() collects what it wants; the client reads *)
(* each message with a single recv().                                      *)
(***************************************************************************)
EXTENDS DHKeyExchange, FiniteSets

CONSTANTS
    Clients,
    PrivateKeys,
    NoKey,
    Setups      \* the files the two ends find: see Good

(* A file is found or not, and may be another's.                           *)
ASSUME HandshakeAssumption ==
    /\ PrivateKeys \subseteq Nat
    /\ Setups \subseteq [certificate : {"good", "absent", "other CA", "other host"},
                         signingKey : {"good", "absent", "other"},
                         ca : {"good", "absent"}]

VARIABLES
    phase,      \* which code both ends run
    setup,
    client,     \* where each client's connect() is
    server,     \* where the server thread is
    serving,    \* the handshake it is in
    got,        \* what receiveBytes() has collected
    up, down,   \* the cells on their way to and from the server
    left,       \* left[c]: how c's end of the connection is seen by the server
    accepted,   \* accepted[c]: the server's end of it
    private,    \* the private key that each client drew
    key,        \* key[c]: the secrets that the client and the server derived
    cut,        \* the clients whose recv() returned a part of a message
    killed,     \* the clients whose process was ended from outside
    stopped     \* the clients whose process was stopped and does not go on

serverVars == <<server, serving, got, accepted>>
fixed == <<phase, setup>>
handshakeVars == <<phase, setup, client, serverVars, up, down, left, private, key, cut, killed, stopped>>

Current == 6
Phases == 2 .. Current

(* The current code finds the certificate, the key and the CA here.        *)
Good == [certificate |-> "good", signingKey |-> "good", ca |-> "good"]

Waiting == {"certificate", "signature", "serverKey"}
Ended == {"connected", "failed", "exited"}

HandshakeInit ==
    /\ phase \in Phases
    /\ setup \in Setups
    /\ client = [c \in Clients |-> "idle"]
    /\ server = "accept" /\ serving = (CHOOSE c \in Clients : TRUE) /\ got = <<>>
    /\ up = [c \in Clients |-> <<>>] /\ down = [c \in Clients |-> <<>>]
    /\ left = [c \in Clients |-> "none"] /\ accepted = [c \in Clients |-> "none"]
    /\ private = [c \in Clients |-> NoKey]
    /\ key = [c \in Clients |-> [client |-> NoKey, server |-> NoKey]]
    /\ cut = {} /\ killed = {} /\ stopped = {}

-----------------------------------------------------------------------------
(* Certificates and signatures.                                            *)

CertificateBytes == Sized(<<<<"pem", setup.certificate>>, <<"pem", "end">>>>)
Challenge(c) == <<<<"random", c>>>>
ChallengeSize == 2
Signature(challenge) == <<<<"signed", setup.signingKey, challenge>>>>

(* What has been cut does not parse; a CA file that is missing is found    *)
(* out before the certificate is looked at.  All of them throw.            *)
Throws(read) == ~read.ok \/ setup.ca = "absent"

\* Fault: whose name the certificate bears is not looked at.
VerifiesAnyHost(certificate) == certificate # "other CA"

(* Certificate::verify: the chain, then the address.                       *)
Verifies(certificate) == certificate \notin {"other CA", "other host"}

VerifiesSignature(read, c) == read.ok /\ read.val = <<<<"signed", "good", Challenge(c)>>>>

-----------------------------------------------------------------------------
(* The client.                                                             *)

Active(c) == c \notin killed \cup stopped

(* Its end is closed.  What it has not read turns this into a reset.       *)
Leave(c, unread) ==
    /\ left' = [left EXCEPT ![c] = IF unread # <<>> THEN "reset" ELSE "fin"]
    /\ down' = [down EXCEPT ![c] = <<>>]

(* What a failure is to the client: connect() returns -1, or exit(1).      *)
FailedInPhase3(how) == IF how \in {"nothing", "unverified", "thrown"} THEN "exited" ELSE "failed"
FailedInPhase4(how) == "failed"
FailedNow(how) == IF how = "nothing" THEN "exited" ELSE "failed"

Failed(how) ==
    CASE phase = 3 -> FailedInPhase3(how)
      [] phase = 4 -> FailedInPhase4(how)
      [] OTHER -> FailedNow(how)

Fail(c, how, unread) ==
    /\ client' = [client EXCEPT ![c] = Failed(how)]
    /\ Leave(c, unread)
    /\ UNCHANGED <<up, private, key>>

Dial(c) ==
    /\ client[c] = "idle" /\ server # "exited" /\ Active(c)
    /\ client' = [client EXCEPT ![c] = IF phase = 2 THEN "sendKey" ELSE "certificate"]
    /\ left' = [left EXCEPT ![c] = "open"]
    /\ UNCHANGED <<fixed, serverVars, up, down, private, key, cut, killed, stopped>>

(* One recv() of k cells.                                                  *)
ClientRecv(c, k) ==
    /\ Active(c)
    /\ k \in 1 .. Len(down[c])
    /\ UNCHANGED <<fixed, serverVars, killed, stopped>>

Received(c, k) == SubSeq(down[c], 1, k)
Unread(c, k) == SubSeq(down[c], k + 1, Len(down[c]))

Noted(c, k, size) == cut' = IF k < size THEN cut \cup {c} ELSE cut

ReceiveCertificate(c, k) ==
    LET read == ReadSized(Received(c, k))
    IN  /\ client[c] = "certificate" /\ ClientRecv(c, k)
        /\ Noted(c, k, Len(CertificateBytes))
        /\ \/ /\ Throws(read)
              /\ Fail(c, "thrown", Unread(c, k))
           \/ /\ ~Throws(read) /\ ~Verifies(read.val[1][2])
              /\ Fail(c, "unverified", Unread(c, k))
           \/ /\ ~Throws(read) /\ Verifies(read.val[1][2])
              /\ client' = [client EXCEPT ![c] = "signature"]
              /\ up' = [up EXCEPT ![c] = @ \o Sized(Challenge(c))]
              /\ down' = [down EXCEPT ![c] = Unread(c, k)]
              /\ UNCHANGED <<left, private, key>>

ReceiveSignature(c, k) ==
    LET read == ReadSized(Received(c, k))
    IN  /\ client[c] = "signature" /\ ClientRecv(c, k)
        /\ Noted(c, k, Len(Sized(Signature(Challenge(c)))))
        /\ IF VerifiesSignature(read, c)
           THEN /\ client' = [client EXCEPT ![c] = "sendKey"]
                /\ down' = [down EXCEPT ![c] = Unread(c, k)]
                /\ UNCHANGED <<up, left, private, key>>
           ELSE Fail(c, "unproven", Unread(c, k))

SendKey(c) ==
    /\ client[c] = "sendKey" /\ Active(c)
    /\ \E x \in PrivateKeys :
          /\ private' = [private EXCEPT ![c] = x]
          /\ up' = [up EXCEPT ![c] = @ \o KeyBytes(PublicKey(x))]
    /\ client' = [client EXCEPT ![c] = "serverKey"]
    /\ UNCHANGED <<fixed, serverVars, down, left, key, cut, killed, stopped>>

ReceiveKey(c, k) ==
    /\ client[c] = "serverKey" /\ k <= KeySize /\ ClientRecv(c, k)
    /\ Noted(c, k, KeySize)
    /\ IF k = KeySize
       THEN /\ client' = [client EXCEPT ![c] = "connected"]
            /\ key' = [key EXCEPT ![c].client = EstablishedKey(private[c], KeyOf(Received(c, k)))]
            /\ down' = [down EXCEPT ![c] = Unread(c, k)]
            /\ UNCHANGED <<up, left, private>>
       ELSE Fail(c, "short", Unread(c, k))

(* recv() finds that the server has closed its end, or that it is gone.    *)
ClientReceivesNothing(c) ==
    /\ client[c] \in Waiting /\ Active(c)
    /\ down[c] = <<>>
    /\ accepted[c] = "closed" \/ server = "exited"
    /\ Fail(c, IF client[c] = "certificate" THEN "nothing" ELSE "closed", <<>>)
    /\ UNCHANGED <<fixed, serverVars, cut, killed, stopped>>

(* The process is killed, or stopped.                                      *)
Die(c) ==
    /\ client[c] \notin Ended \cup {"idle"} /\ c \notin killed
    /\ killed' = killed \cup {c}
    /\ client' = [client EXCEPT ![c] = "exited"]
    /\ Leave(c, down[c])
    /\ UNCHANGED <<fixed, serverVars, up, private, key, cut, stopped>>

Stop(c) ==
    /\ client[c] \notin Ended \cup {"idle"} /\ Active(c)
    /\ stopped' = stopped \cup {c}
    /\ UNCHANGED <<fixed, client, serverVars, up, down, left, private, key, cut, killed>>

-----------------------------------------------------------------------------
(* The server.  Its sends do not fail: a client that waits for one has     *)
(* read all there was, so that its end is at worst a fin.                  *)

Serve(c, next) ==
    /\ serving' = c /\ server' = next
    /\ accepted' = [accepted EXCEPT ![c] = "open"]
    /\ got' = <<>>

(* getConnections closes the handler; the thread goes on.                  *)
HandshakeFails(c) ==
    /\ server' = "accept" /\ serving' = c /\ got' = <<>>
    /\ accepted' = [accepted EXCEPT ![c] = "closed"]

Accept(c) ==
    /\ server = "accept"
    /\ left[c] # "none" /\ accepted[c] = "none"
    /\ \/ /\ phase = 2
          /\ Serve(c, "clientKey")
          /\ UNCHANGED down
       \/ /\ phase # 2 /\ setup.certificate = "absent"
          /\ HandshakeFails(c)
          /\ UNCHANGED down
       \/ /\ phase # 2 /\ setup.certificate # "absent"
          /\ Serve(c, "challenge")
          /\ down' = [down EXCEPT ![c] = IF left[c] = "open" THEN CertificateBytes ELSE <<>>]
    /\ UNCHANGED <<fixed, client, up, left, private, key, cut, killed, stopped>>

Wanted == IF server = "challenge" THEN ChallengeSize ELSE KeySize

Receiving == server \in {"challenge", "clientKey"} /\ Len(got) < Wanted

\* Fault: what one recv() returns is taken for the challenge.
CollectedAtOnce ==
    \/ server = "challenge" /\ Len(got) > 0
    \/ server = "clientKey" /\ Len(got) = Wanted

Collected == server \in {"challenge", "clientKey"} /\ Len(got) = Wanted

ReceiveBytes(k) ==
    /\ Receiving
    /\ k \in 1 .. Len(up[serving]) /\ k <= Wanted - Len(got)
    /\ got' = got \o SubSeq(up[serving], 1, k)
    /\ up' = [up EXCEPT ![serving] = SubSeq(@, k + 1, Len(@))]
    /\ UNCHANGED <<fixed, client, server, serving, accepted, down, left, private, key,
                   cut, killed, stopped>>

ReceiveEnd ==
    /\ Receiving
    /\ up[serving] = <<>> /\ left[serving] = "fin"
    /\ HandshakeFails(serving)
    /\ UNCHANGED <<fixed, client, up, down, left, private, key, cut, killed, stopped>>

(* ECONNRESET: up to phase 4 a failure like others, since then the end.    *)
ReceiveErrorFails ==
    /\ phase <= 4 /\ Receiving
    /\ up[serving] = <<>> /\ left[serving] = "reset"
    /\ HandshakeFails(serving)
    /\ UNCHANGED <<fixed, client, up, down, left, private, key, cut, killed, stopped>>

ReceiveErrorExits ==
    /\ phase > 4 /\ Receiving
    /\ up[serving] = <<>> /\ left[serving] = "reset"
    /\ server' = "exited"
    /\ UNCHANGED <<fixed, client, serving, got, accepted, up, down, left, private, key,
                   cut, killed, stopped>>

ServerSends(c, cells) ==
    down' = [down EXCEPT ![c] = IF left[c] = "open" THEN @ \o cells ELSE @]

Sign ==
    LET challenge == ReadSized(got).val
    IN  /\ server = "challenge" /\ Collected
        /\ IF setup.signingKey = "absent"
           THEN HandshakeFails(serving) /\ UNCHANGED down
           ELSE /\ server' = "clientKey" /\ got' = <<>>
                /\ ServerSends(serving, Sized(Signature(challenge)))
                /\ UNCHANGED <<serving, accepted>>
        /\ UNCHANGED <<fixed, client, up, left, private, key, cut, killed, stopped>>

(* The key goes out before establish(); the handler is then in the table.  *)
Establish ==
    /\ server = "clientKey" /\ Collected
    /\ \E x \in PrivateKeys :
          /\ ServerSends(serving, KeyBytes(PublicKey(x)))
          /\ key' = [key EXCEPT ![serving].server = EstablishedKey(x, KeyOf(got))]
    /\ accepted' = [accepted EXCEPT ![serving] = "inserted"]
    /\ server' = "accept" /\ got' = <<>>
    /\ UNCHANGED <<fixed, client, serving, up, left, private, cut, killed, stopped>>

-----------------------------------------------------------------------------

ClientStep(c) ==
    \/ \E k \in 1 .. Len(down[c]) :
          ReceiveCertificate(c, k) \/ ReceiveSignature(c, k) \/ ReceiveKey(c, k)
    \/ SendKey(c) \/ ClientReceivesNothing(c)

ServerStep ==
    \/ \E c \in Clients : Accept(c)
    \/ \E k \in 1 .. KeySize : ReceiveBytes(k)
    \/ ReceiveEnd \/ ReceiveErrorFails \/ ReceiveErrorExits
    \/ Sign \/ Establish

HandshakeNext ==
    \/ \E c \in Clients : Dial(c) \/ ClientStep(c) \/ Die(c) \/ Stop(c)
    \/ ServerStep

(* A client goes on unless it is stopped; the server thread always does.   *)
Fairness == WF_handshakeVars(ServerStep) /\ \A c \in Clients : WF_handshakeVars(ClientStep(c))

HandshakeSpec == HandshakeInit /\ [][HandshakeNext]_handshakeVars
FairSpec == HandshakeSpec /\ Fairness

-----------------------------------------------------------------------------
(* Properties                                                              *)

(* A client that connect() has connected is in the server's table, and     *)
(* both derived the same key, from the generator to both private keys      *)
(* (NetworkHandler.cpp:214-224, 238-258; DHKeyExchange.cc:122-199).        *)
KeysAgree ==
    \A c \in Clients : client[c] = "connected" =>
        /\ accepted[c] = "inserted"
        /\ key[c].client = key[c].server
        /\ \E x \in PrivateKeys :
              key[c].client = DeriveKey(Power(Power(Generator, x), private[c]))

(* Since phase 3 a client is connected only to a server that showed a      *)
(* certificate for its address from the CA and signed this client's        *)
(* challenge with the certificate's key (NetworkHandler.cpp:77-121).       *)
Authenticated ==
    \A c \in Clients : client[c] = "connected" /\ phase > 2 => setup = Good

(* No handshake fails by itself: a client fails only if it was killed, the *)
(* files are wrong, one of its messages was cut, or the server has gone -  *)
(* and that goes only since phase 5, when a client left a message unread   *)
(* (receiveBytes, NetworkHandler.cpp:25-45).                               *)
FailureExplained ==
    /\ \A c \in Clients : client[c] \in {"failed", "exited"} =>
          \/ c \in cut \cup killed
          \/ phase > 2 /\ setup # Good
          \/ server = "exited"
    /\ server = "exited" =>
          phase > 4 /\ \E c \in Clients : left[c] = "reset" /\ c \in cut \cup killed

(* Neither end waits for more than the other sends: every connect()        *)
(* returns or ends its process, unless some client was stopped and the     *)
(* only server thread waits for it (ConnectionSetter.cpp:33).              *)
DialsEnd ==
    \A c \in Clients :
        client[c] \notin Ended \cup {"idle"} ~> client[c] \in Ended \/ stopped # {}
=============================================================================
