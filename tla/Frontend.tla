------------------------------ MODULE Frontend ------------------------------
(***************************************************************************)
(* The four threads of the client program (UI.cpp, client.cpp,             *)
(* client_main.cpp): the UI thread that reads the keyboard and queues      *)
(* requests, the client thread that serves them and drains the socket, the *)
(* network monitor that wakes it, and main, which joins them.  They share  *)
(* the queue of requests, the semaphore clientBackendSem, the socket and   *)
(* two flags, both named running.  What the client thread says to the      *)
(* server is in Client.tla; here a request is a send, a wait, or both.     *)
(***************************************************************************)
EXTENDS Naturals, Sequences

CONSTANTS
    MaxKeys,    \* lines and Ctrl-Cs the user types
    MaxPackets, \* packets the server sends
    MaxCount    \* how far the semaphore is counted

ASSUME FrontendAssumption ==
    /\ MaxKeys \in Nat
    /\ MaxPackets \in Nat
    /\ MaxCount \in Nat \ {0}

VARIABLES
    ui,        \* where the UI thread is
    uiRunning, \* UI::running
    requests,  \* UI::requests
    sem,       \* clientBackendSem
    client,    \* where the client thread is
    resume,    \* where it goes on after the wait it is in, else "requests"
    running,   \* client_impl::running
    netmon,    \* where the network monitor is
    main,      \* where main is
    connected, \* NetworkHandler::mConnected of the client's socket
    peer,      \* the server's end: "none" yet, "open", "gone", "aborted" by a reset
               \* that no call has reported, or "reset" for good
    inbox,     \* packets the client's socket holds
    proc,      \* the process
    keys,      \* what the user has typed
    packets    \* what the server has sent

vars == <<ui, uiRunning, requests, sem, client, resume, running, netmon, main,
          connected, peer, inbox, proc, keys, packets>>

socket == <<connected, peer, inbox>>
counts == <<keys, packets>>

Kinds == {"Login", "SendMessage", "GetUsers", "E2E", "Quit"}

\* "cut": a packet that receivePacket fails to open, and reports as nothing.
Packets == {"whole", "cut"}

\* setupE2E waits twice for its peer, the second time after an INIT it refused.
Waits == {"reply", "first", "second"}
Served == {"requests", "connectTo", "send", "transmit"} \cup Waits

TypeOK ==
    /\ ui \in {"processInput", "quitting", "sleep", "ended"}
    /\ uiRunning \in BOOLEAN
    /\ requests \in Seq(Kinds)
    /\ sem \in 0..MaxCount
    /\ client \in {"setup", "acquire", "stuck", "drain", "check", "join", "ended"} \cup Served
    /\ resume \in {"requests", "send", "transmit"}
    /\ running \in BOOLEAN
    /\ netmon \in {"none", "check", "poll", "ended"}
    /\ main \in {"join", "stop", "return"}
    /\ connected \in BOOLEAN
    /\ peer \in {"none", "open", "gone", "aborted", "reset"}
    /\ inbox \in Seq(Packets)
    /\ proc \in {"running", "exited", "aborted", "killed"}
    /\ keys \in 0..MaxKeys
    /\ packets \in 0..MaxPackets

(* UI::start() has returned and main has made the client thread. *)
Init ==
    /\ ui = "processInput" /\ uiRunning = TRUE /\ requests = <<>>
    /\ sem = 1
    /\ client = "setup" /\ resume = "requests" /\ running = TRUE /\ netmon = "none"
    /\ main = "join"
    /\ connected = FALSE /\ peer = "none" /\ inbox = <<>>
    /\ proc = "running"
    /\ keys = 0 /\ packets = 0

Alive == proc = "running"

(* A release of a binary semaphore that is 1 already is undefined: the     *)
(* library may count on, or leave it at 1.                                 *)
Release == sem' \in IF sem = 0 THEN {1} ELSE {sem, sem + 1} \cap 0..MaxCount

-----------------------------------------------------------------------------
(* The UI thread.  processInput handles every key there is; only then does *)
(* run() sleep and look at its flag.                                       *)

AddRequest(k) ==
    /\ requests' = Append(requests, k)
    /\ Release

Typed ==
    /\ Alive /\ ui = "processInput" /\ keys < MaxKeys
    /\ keys' = keys + 1

HandleCommand(k) ==
    /\ Typed
    /\ AddRequest(k)
    /\ ui' = IF k = "Quit" THEN "quitting" ELSE ui
    /\ UNCHANGED <<uiRunning, client, resume, running, netmon, main, socket, proc, packets>>

(* The rest of /quit. *)
QuitClearsFlag ==
    /\ Alive /\ ui = "quitting"
    /\ ui' = "processInput" /\ uiRunning' = FALSE
    /\ UNCHANGED <<requests, sem, client, resume, running, netmon, main, socket, proc, counts>>

CtrlC ==
    /\ Typed
    /\ uiRunning' = FALSE
    /\ Release
    /\ UNCHANGED <<ui, requests, client, resume, running, netmon, main, socket, proc, packets>>

InputRead ==
    /\ Alive /\ ui = "processInput"
    /\ ui' = "sleep"
    /\ UNCHANGED <<uiRunning, requests, sem, client, resume, running, netmon, main, socket,
                   proc, counts>>

UIWakes ==
    /\ Alive /\ ui = "sleep"
    /\ ui' = IF uiRunning THEN "processInput" ELSE "ended"
    /\ UNCHANGED <<uiRunning, requests, sem, client, resume, running, netmon, main, socket,
                   proc, counts>>

UIStep == QuitClearsFlag \/ InputRead \/ UIWakes

-----------------------------------------------------------------------------
(* The client thread: clientLoop.                                          *)

ClientAt(pc) == Alive /\ client = pc

(* A connect and handshake that fail are tried again. *)
SetupConnection ==
    /\ ClientAt("setup")
    /\ client' = "acquire" /\ netmon' = "check"
    /\ connected' = TRUE /\ peer' = "open"
    /\ UNCHANGED <<ui, uiRunning, requests, sem, resume, running, main, inbox, proc, counts>>

\* Fault: the loop goes on whether or not the semaphore was acquired.
AcquireAnyway ==
    /\ ClientAt("acquire")
    /\ sem' = sem - 1
    /\ client' = "requests"
    /\ UNCHANGED <<ui, uiRunning, requests, resume, running, netmon, main, socket, proc, counts>>

Acquire ==
    /\ ClientAt("acquire") /\ sem > 0
    /\ sem' = sem - 1
    /\ client' = "requests"
    /\ UNCHANGED <<ui, uiRunning, requests, resume, running, netmon, main, socket, proc, counts>>

(* sendPacket: whether the send() took the packet.  The first call that    *)
(* meets a reset reports it, a send() after that raises SIGPIPE, and a     *)
(* server that closed its end in order answers a packet with a reset.      *)
Write(sent) ==
    \/ peer = "open" /\ sent /\ UNCHANGED <<peer, proc>>
    \/ peer = "gone" /\ sent /\ peer' \in {"gone", "reset"} /\ UNCHANGED proc
    \/ peer = "aborted" /\ ~sent /\ peer' = "reset" /\ UNCHANGED proc
    \/ peer = "reset" /\ ~sent /\ UNCHANGED peer /\ proc' = "killed"

Silent == UNCHANGED <<peer, proc>>
MayWrite == Silent \/ \E sent \in BOOLEAN : Write(sent)

(* setupE2E: its INIT, and what becomes of it.  A failed one is no E2E     *)
(* connection; to a peer it has tried before a first one is not sent, and  *)
(* it waits all the same.                                                  *)
SetupE2E(after) ==
    \/ Write(TRUE) /\ client' = "first" /\ resume' = after
    \/ Write(FALSE) /\ client' = after /\ UNCHANGED resume

Handle(k) ==
    \/ /\ k = "Login"
       /\ \E sent \in BOOLEAN : Write(sent)
       /\ client' = "reply" /\ UNCHANGED <<resume, running>>
    \/ /\ k = "GetUsers"
       /\ \/ Write(TRUE) /\ client' = "reply"
          \/ Write(FALSE) /\ client' = "requests"
       /\ UNCHANGED <<resume, running>>
    \/ /\ k = "E2E"
       /\ SetupE2E("requests") \/ (Silent /\ client' = "first" /\ UNCHANGED resume)
       /\ UNCHANGED running
    \/ /\ k = "SendMessage"
       /\ Silent /\ client' = "connectTo" /\ UNCHANGED <<resume, running>>
    \/ /\ k = "Quit"
       /\ \E sent \in BOOLEAN : Write(sent)
       /\ client' = "join" /\ running' = FALSE /\ UNCHANGED resume

TakeRequest ==
    /\ ClientAt("requests") /\ uiRunning /\ requests # <<>>
    /\ requests' = Tail(requests)
    /\ Handle(Head(requests))
    /\ UNCHANGED <<ui, uiRunning, sem, netmon, main, connected, inbox, counts>>

(* A text: connectTo() and send() each find the session stale, or not, and *)
(* neither looks at what became of the renewal.                            *)
ConnectTo ==
    /\ ClientAt("connectTo")
    /\ SetupE2E("send") \/ (Silent /\ client' = "send" /\ UNCHANGED resume)
    /\ UNCHANGED <<ui, uiRunning, requests, sem, running, netmon, main, connected, inbox, counts>>

Send ==
    /\ ClientAt("send")
    /\ SetupE2E("transmit") \/ (Silent /\ client' = "transmit" /\ UNCHANGED resume)
    /\ UNCHANGED <<ui, uiRunning, requests, sem, running, netmon, main, connected, inbox, counts>>

Transmit ==
    /\ ClientAt("transmit")
    /\ \E sent \in BOOLEAN : Write(sent)
    /\ client' = "requests"
    /\ UNCHANGED <<ui, uiRunning, requests, sem, resume, running, netmon, main,
                   connected, inbox, counts>>

\* Fault: the requests wait for the next turn of the loop.
NoRequestNow ==
    /\ ClientAt("requests")
    /\ client' = "drain"
    /\ UNCHANGED <<ui, uiRunning, requests, sem, resume, running, netmon, main, socket,
                   proc, counts>>

NoRequest ==
    /\ ClientAt("requests") /\ ~(uiRunning /\ requests # <<>>)
    /\ client' = "drain"
    /\ UNCHANGED <<ui, uiRunning, requests, sem, resume, running, netmon, main, socket,
                   proc, counts>>

Waiting == Alive /\ client \in Waits

(* A wait takes a packet for its own, or sets it aside and takes it again  *)
(* for ever; which, is in Client.tla.  The first of setupE2E answers an    *)
(* INIT that it takes, and waits again after one that it refuses.          *)
WaitReads ==
    /\ Waiting /\ inbox # <<>>
    /\ inbox' = Tail(inbox)
    /\ \/ Head(inbox) = "cut" /\ Silent /\ UNCHANGED <<client, resume>>
       \/ Head(inbox) = "whole" /\ Silent /\ client' = "stuck" /\ resume' = "requests"
       \/ /\ Head(inbox) = "whole"
          /\ IF client = "first" THEN MayWrite ELSE Silent
          /\ client' = resume /\ resume' = "requests"
       \/ /\ Head(inbox) = "whole" /\ client = "first"
          /\ Silent /\ client' = "second" /\ UNCHANGED resume
    /\ UNCHANGED <<ui, uiRunning, requests, sem, running, netmon, main, connected, counts>>

(* No wait looks at connected(). *)
WaitFindsEnd ==
    /\ Waiting /\ inbox = <<>> /\ peer \in {"gone", "reset"}
    /\ connected' = FALSE
    /\ client' = "stuck" /\ resume' = "requests"
    /\ UNCHANGED <<ui, uiRunning, requests, sem, running, netmon, main, peer, inbox,
                   proc, counts>>

(* recv() reports the reset, and the connection stays.                     *)
WaitFindsReset ==
    /\ Waiting /\ inbox = <<>> /\ peer = "aborted"
    /\ peer' = "reset"
    /\ UNCHANGED <<ui, uiRunning, requests, sem, client, resume, running, netmon, main,
                   connected, inbox, proc, counts>>

(* An INIT that is accepted is answered.                                   *)
DrainReads ==
    /\ ClientAt("drain") /\ inbox # <<>>
    /\ inbox' = Tail(inbox)
    /\ IF Head(inbox) = "whole"
       THEN client' = "drain" /\ MayWrite
       ELSE client' = "check" /\ Silent
    /\ UNCHANGED <<ui, uiRunning, requests, sem, resume, running, netmon, main,
                   connected, counts>>

DrainEnds ==
    /\ ClientAt("drain") /\ inbox = <<>>
    /\ connected' = (peer \in {"open", "aborted"})
    /\ peer' = IF peer = "aborted" THEN "reset" ELSE peer
    /\ client' = "check"
    /\ UNCHANGED <<ui, uiRunning, requests, sem, resume, running, netmon, main,
                   inbox, proc, counts>>

\* Faults: the loop goes on; the loop ends, and the flag is left alone.
CheckNothing ==
    /\ ClientAt("check")
    /\ client' = "acquire"
    /\ UNCHANGED <<ui, uiRunning, requests, sem, resume, running, netmon, main, socket,
                   proc, counts>>

CheckLeavesFlag ==
    /\ ClientAt("check")
    /\ client' = IF connected THEN "acquire" ELSE "join"
    /\ UNCHANGED <<ui, uiRunning, requests, sem, resume, running, netmon, main, socket,
                   proc, counts>>

CheckConnected ==
    /\ ClientAt("check")
    /\ IF connected
       THEN client' = "acquire" /\ UNCHANGED running
       ELSE client' = "join" /\ running' = FALSE
    /\ UNCHANGED <<ui, uiRunning, requests, sem, resume, netmon, main, socket, proc, counts>>

JoinMonitor ==
    /\ ClientAt("join") /\ netmon = "ended"
    /\ client' = "ended"
    /\ UNCHANGED <<ui, uiRunning, requests, sem, resume, running, netmon, main, socket,
                   proc, counts>>

ClientStep ==
    \/ Acquire \/ TakeRequest \/ NoRequest
    \/ ConnectTo \/ Send \/ Transmit
    \/ WaitReads \/ WaitFindsEnd \/ WaitFindsReset
    \/ DrainReads \/ DrainEnds \/ CheckConnected
    \/ JoinMonitor

-----------------------------------------------------------------------------
(* The network monitor.  poll() returns for a closed descriptor, too; for  *)
(* the -1 that getFd() gives after close() it only times out.              *)

MonitorChecks ==
    /\ Alive /\ netmon = "check"
    /\ netmon' = IF running THEN "poll" ELSE "ended"
    /\ UNCHANGED <<ui, uiRunning, requests, sem, client, resume, running, main, socket,
                   proc, counts>>

Readable == inbox # <<>> \/ peer # "open"

\* Fault: the monitor sees the packet and tells nobody.
MonitorLooks ==
    /\ Alive /\ netmon = "poll" /\ Readable
    /\ netmon' = "check"
    /\ UNCHANGED <<ui, uiRunning, requests, sem, client, resume, running, main, socket,
                   proc, counts>>

MonitorWakes ==
    /\ Alive /\ netmon = "poll" /\ Readable
    /\ netmon' = "check"
    /\ Release
    /\ UNCHANGED <<ui, uiRunning, requests, client, resume, running, main, socket, proc, counts>>

MonitorTimesOut ==
    /\ Alive /\ netmon = "poll" /\ (~Readable \/ ~connected)
    /\ netmon' = "check"
    /\ UNCHANGED <<ui, uiRunning, requests, sem, client, resume, running, main, socket,
                   proc, counts>>

MonitorStep == MonitorChecks \/ MonitorWakes \/ MonitorTimesOut

-----------------------------------------------------------------------------
(* main: the client thread is joined, then ui.stop(), which returns at     *)
(* once when the UI's flag is down.  ~UI destroys a thread object that was *)
(* not joined, and that is std::terminate.                                 *)

\* Fault: stop() joins a thread that it did not tell to end.
StopWithoutFlag ==
    /\ Alive /\ main = "join" /\ client = "ended"
    /\ main' = IF uiRunning THEN "stop" ELSE "return"
    /\ UNCHANGED <<ui, uiRunning, requests, sem, client, resume, running, netmon, socket,
                   proc, counts>>

Stop ==
    /\ Alive /\ main = "join" /\ client = "ended"
    /\ IF uiRunning
       THEN main' = "stop" /\ uiRunning' = FALSE /\ Release
       ELSE main' = "return" /\ UNCHANGED <<uiRunning, sem>>
    /\ UNCHANGED <<ui, requests, client, resume, running, netmon, socket, proc, counts>>

JoinUI ==
    /\ Alive /\ main = "stop" /\ ui = "ended"
    /\ proc' = "exited"
    /\ UNCHANGED <<ui, uiRunning, requests, sem, client, resume, running, netmon, main,
                   socket, counts>>

DestroyUI ==
    /\ Alive /\ main = "return"
    /\ proc' = "aborted"
    /\ UNCHANGED <<ui, uiRunning, requests, sem, client, resume, running, netmon, main,
                   socket, counts>>

MainStep == Stop \/ JoinUI \/ DestroyUI

-----------------------------------------------------------------------------
(* The server.  Its end leaves a reset when it has not read all that it   *)
(* was sent, and when it is sent something after that.                     *)

Arrive(m) ==
    /\ Alive /\ peer = "open" /\ packets < MaxPackets
    /\ inbox' = Append(inbox, m)
    /\ packets' = packets + 1
    /\ UNCHANGED <<ui, uiRunning, requests, sem, client, resume, running, netmon, main,
                   connected, peer, proc, keys>>

ServerCloses ==
    /\ Alive /\ peer = "open"
    /\ peer' \in {"gone", "aborted", "reset"}
    /\ UNCHANGED <<ui, uiRunning, requests, sem, client, resume, running, netmon, main,
                   connected, inbox, proc, counts>>

-----------------------------------------------------------------------------
Next ==
    \/ \E k \in Kinds : HandleCommand(k)
    \/ CtrlC
    \/ UIStep
    \/ SetupConnection
    \/ ClientStep
    \/ MonitorStep
    \/ MainStep
    \/ \E m \in Packets : Arrive(m)
    \/ ServerCloses

(* The operating system runs every thread that can run.  Nothing makes the *)
(* user type, a connection succeed, or the server send or close.           *)
Fairness ==
    /\ WF_vars(UIStep)
    /\ WF_vars(ClientStep)
    /\ WF_vars(MonitorStep)
    /\ WF_vars(MainStep)

Spec == Init /\ [][Next]_vars
FairSpec == Spec /\ Fairness

-----------------------------------------------------------------------------
(* Properties                                                              *)

(* A client thread that blocks, or is on its way to, has been told of every *)
(* request the UI still lets it take: no wake-up is lost while it connects  *)
(* or between the end of the request loop and the next acquire             *)
(* (client.cpp:276-340, UI.cpp:76-80).                                     *)
NoLostWakeup ==
    client \in {"setup", "drain", "check", "acquire"} /\ uiRunning /\ requests # <<>>
    => sem > 0

(* Wherever the client thread may send, the connection counts as open: the *)
(* first check of sendPacket never fails there, and once a read has found  *)
(* the server's end nothing more is sent.  What a request reports as its   *)
(* own failure, "E2E Connection Failed" or no users (client.cpp:108-112,   *)
(* 212), is therefore a reset that the send is the first to meet           *)
(* (NetworkHandler.cpp:263-288, client.cpp:355-359).                       *)
ClosedSeenFirst ==
    client \in Served \cup {"acquire", "drain"} => connected

(* Once the client thread has decided to end, nothing it or main joins     *)
(* holds them up: the process ends (client.cpp:361, client_main.cpp:38-43). *)
EndsOnceDecided == ~running ~> ~Alive

(* A connection that the server closed ends the program, unless the client *)
(* thread is in a wait that cannot end (client.cpp:355-359).               *)
DisconnectEnds == peer \in {"gone", "aborted", "reset"} ~> ~Alive \/ client = "stuck"

(* What arrives is read without the user's doing anything: the monitor     *)
(* wakes the client thread as long as there is something left.             *)
InboxRead == inbox # <<>> ~> inbox = <<>> \/ ~Alive \/ client = "stuck"

(* UI.h:65 says of tryGetRequest that it "returns false when the UI has    *)
(* stopped and no more requests exist": what was queued is taken first.    *)
RequestsTaken ==
    [][client = "requests" /\ client' = "drain" => requests = <<>>]_vars
=============================================================================
