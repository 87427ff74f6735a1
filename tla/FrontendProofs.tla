--------------------------- MODULE FrontendProofs ---------------------------
(* No request is left with nobody told of it, and nothing is sent on a      *)
(* connection found closed, for any number of keys and packets and however *)
(* far the semaphore counts.                                               *)
EXTENDS Frontend, TLAPS

(* The three facts hold together: each is inductive, given the types. *)
Inductive == TypeOK /\ NoLostWakeup /\ ClosedSeenFirst

(* A release keeps the count in range, and leaves it above zero. *)
LEMMA ReleaseWakes == ASSUME TypeOK, Release PROVE sem' \in 0..MaxCount /\ sem' > 0
  <1>1. sem \in 0..MaxCount /\ MaxCount \in Nat \ {0}
    BY FrontendAssumption DEF TypeOK
  <1>2. CASE sem = 0
    BY <1>1, <1>2 DEF Release
  <1>3. CASE sem # 0
    BY <1>1, <1>3 DEF Release
  <1> QED
    BY <1>2, <1>3

(* What a queue of requests or packets becomes is one of its type. *)
LEMMA QueuesTyped ==
  ASSUME TypeOK
  PROVE  /\ \A k \in Kinds : Append(requests, k) \in Seq(Kinds)
         /\ \A m \in Packets : Append(inbox, m) \in Seq(Packets)
         /\ requests # <<>> => Tail(requests) \in Seq(Kinds) /\ Head(requests) \in Kinds
         /\ inbox # <<>> => Tail(inbox) \in Seq(Packets)
  BY DEF TypeOK

(* The keys of the user keep the invariant: each one that queues a request *)
(* or lowers the flag releases the semaphore.                              *)
LEMMA UserKeeps ==
  ASSUME Inductive, (\E k \in Kinds : HandleCommand(k)) \/ CtrlC
  PROVE  Inductive'
  <1> TypeOK /\ NoLostWakeup /\ ClosedSeenFirst
    BY DEF Inductive
  <1>1. keys' \in 0..MaxKeys /\ sem' \in 0..MaxCount /\ sem' > 0
    <2>1. Typed /\ Release
      BY DEF HandleCommand, CtrlC, AddRequest
    <2>2. keys' \in 0..MaxKeys
      BY <2>1, FrontendAssumption DEF Typed, TypeOK
    <2> QED
      BY <2>1, <2>2, ReleaseWakes
  <1>2. ASSUME NEW k \in Kinds, HandleCommand(k) PROVE Inductive'
    <2>1. requests' \in Seq(Kinds)
      BY <1>2, QueuesTyped DEF HandleCommand, AddRequest
    <2>2. ui' \in {"processInput", "quitting", "sleep", "ended"}
      BY <1>2 DEF HandleCommand, TypeOK
    <2> QED
      BY <1>1, <1>2, <2>1, <2>2
      DEF HandleCommand, Inductive, TypeOK, NoLostWakeup, ClosedSeenFirst, socket
  <1>3. CASE CtrlC
    <2>1. UNCHANGED <<ui, requests, client, resume, running, netmon, main,
                      connected, peer, inbox, proc, packets>>
      BY <1>3 DEF CtrlC, socket
    <2>2. TypeOK'
      <3>1. uiRunning' \in BOOLEAN
        BY <1>3 DEF CtrlC
      <3> QED
        BY <1>1, <2>1, <3>1 DEF TypeOK
    <2>3. ~uiRunning'
      BY <1>3 DEF CtrlC
    <2>4. NoLostWakeup'
      BY <2>3 DEF NoLostWakeup
    <2>5. ClosedSeenFirst'
      BY <2>1 DEF ClosedSeenFirst
    <2> QED
      BY <2>2, <2>4, <2>5 DEF Inductive
  <1> QED
    BY <1>2, <1>3

(* Sending changes nothing but the server's end and, once that was reset,  *)
(* the process.                                                            *)
LEMMA WriteTyped ==
  ASSUME TypeOK, MayWrite
  PROVE  /\ peer' \in {"none", "open", "gone", "aborted", "reset"}
         /\ proc' \in {"running", "exited", "aborted", "killed"}
  <1>1. CASE Silent
    BY <1>1 DEF Silent, TypeOK
  <1>2. ASSUME NEW sent \in BOOLEAN, Write(sent)
        PROVE  /\ peer' \in {"none", "open", "gone", "aborted", "reset"}
               /\ proc' \in {"running", "exited", "aborted", "killed"}
    BY <1>2 DEF TypeOK, Write
  <1> QED
    BY <1>1, <1>2 DEF MayWrite

(* Steps between the requests and the waits, on a connection that is open. *)
LEMMA ServedKeeps ==
  ASSUME Inductive, connected, MayWrite,
         client' \in Served \cup {"join"}, resume' \in {"requests", "send", "transmit"},
         running' \in BOOLEAN, requests' \in Seq(Kinds),
         UNCHANGED <<ui, uiRunning, sem, netmon, main, connected, inbox, counts>>
  PROVE  Inductive'
  <1> TypeOK
    BY DEF Inductive
  <1>1. /\ peer' \in {"none", "open", "gone", "aborted", "reset"}
        /\ proc' \in {"running", "exited", "aborted", "killed"}
    BY WriteTyped
  <1>2. UNCHANGED <<keys, packets>>
    BY DEF counts
  <1>3. client' \notin {"setup", "drain", "check", "acquire"}
    BY DEF Served, Waits
  <1>4. TypeOK'
    BY <1>1, <1>2 DEF TypeOK
  <1>5. NoLostWakeup'
    BY <1>3 DEF NoLostWakeup
  <1>6. ClosedSeenFirst'
    BY DEF ClosedSeenFirst
  <1> QED
    BY <1>4, <1>5, <1>6 DEF Inductive

(* A request is taken where the connection is open, and leaves the thread  *)
(* among the requests, at a text, in a wait, or ending.                    *)
LEMMA TakeKeeps == ASSUME Inductive, TakeRequest PROVE Inductive'
  <1> TypeOK /\ ClosedSeenFirst
    BY DEF Inductive
  <1> DEFINE k == Head(requests)
  <1>1. requests' \in Seq(Kinds) /\ k \in Kinds
    BY QueuesTyped DEF TakeRequest
  <1>2. connected
    BY DEF TakeRequest, ClientAt, ClosedSeenFirst, Served
  <1>3. Handle(k)
    BY DEF TakeRequest
  <1>4. client' \in Served \cup {"join"} /\ resume' \in {"requests", "send", "transmit"}
    BY <1>1, <1>3, Zenon DEF Handle, SetupE2E, Served, Waits, TypeOK
  <1>5. running' \in BOOLEAN
    BY <1>1, <1>3 DEF Handle, TypeOK
  <1>6. MayWrite
    BY <1>1, <1>3 DEF Handle, SetupE2E, MayWrite
  <1>7. UNCHANGED <<ui, uiRunning, sem, netmon, main, connected, inbox, counts>>
    BY DEF TakeRequest
  <1> QED
    BY <1>1, <1>2, <1>4, <1>5, <1>6, <1>7, ServedKeeps

(* So does each step of a text. *)
LEMMA TextKeeps == ASSUME Inductive, ConnectTo \/ Send \/ Transmit PROVE Inductive'
  <1> TypeOK /\ ClosedSeenFirst
    BY DEF Inductive
  <1> USE DEF ConnectTo, Send, Transmit, ClientAt
  <1>1. connected
    BY DEF ClosedSeenFirst, Served
  <1>2. client' \in Served /\ resume' \in {"requests", "send", "transmit"}
    BY DEF SetupE2E, Served, Waits, TypeOK
  <1>3. MayWrite
    BY DEF SetupE2E, MayWrite
  <1>4. running' \in BOOLEAN /\ requests' \in Seq(Kinds)
    BY DEF TypeOK
  <1>5. UNCHANGED <<ui, uiRunning, sem, netmon, main, connected, inbox, counts>>
    OBVIOUS
  <1> QED
    BY <1>1, <1>2, <1>3, <1>4, <1>5, ServedKeeps

(* What a wait reads ends it, or sends it on, on the same connection.      *)
LEMMA WaitKeeps == ASSUME Inductive, WaitReads PROVE Inductive'
  <1> TypeOK /\ ClosedSeenFirst
    BY DEF Inductive
  <1>1. connected /\ client \in Waits
    BY DEF WaitReads, Waiting, ClosedSeenFirst, Served
  <1>2. /\ client' \in Served \cup {"stuck"} /\ resume' \in {"requests", "send", "transmit"}
    BY <1>1 DEF WaitReads, TypeOK, Served, Waits
  <1>3. MayWrite
    BY DEF WaitReads, MayWrite
  <1>4. /\ peer' \in {"none", "open", "gone", "aborted", "reset"}
        /\ proc' \in {"running", "exited", "aborted", "killed"}
    BY <1>3, WriteTyped
  <1>5. inbox' \in Seq(Packets)
    BY QueuesTyped DEF WaitReads
  <1>6. UNCHANGED <<ui, uiRunning, requests, sem, running, netmon, main, connected, keys, packets>>
    BY DEF WaitReads, counts
  <1>7. TypeOK'
    BY <1>2, <1>4, <1>5, <1>6 DEF TypeOK
  <1>8. client' \notin {"setup", "drain", "check", "acquire"}
    BY <1>2 DEF Served, Waits
  <1> QED
    BY <1>1, <1>6, <1>7, <1>8 DEF Inductive, NoLostWakeup, ClosedSeenFirst

(* The other steps of the client thread: it goes to block only from the    *)
(* requests when it leaves none that it could take, and goes back to them  *)
(* only when the connection is open.                                       *)
LEMMA ClientKeeps == ASSUME Inductive, ClientStep PROVE Inductive'
  <1> TypeOK /\ NoLostWakeup /\ ClosedSeenFirst
    BY DEF Inductive
  <1> USE DEF Inductive, TypeOK, NoLostWakeup, ClosedSeenFirst, ClientAt, socket, counts
  <1>1. CASE Acquire
    BY <1>1, FrontendAssumption DEF Acquire, Served
  <1>2. CASE TakeRequest
    BY <1>2, TakeKeeps
  <1>3. CASE NoRequest
    BY <1>3 DEF NoRequest
  <1>4. CASE WaitReads
    BY <1>4, WaitKeeps
  <1>5. CASE WaitFindsEnd
    <2>1. connected' \in BOOLEAN
      BY <1>5 DEF WaitFindsEnd
    <2>2. /\ client' = "stuck" /\ resume' = "requests"
          /\ UNCHANGED <<ui, uiRunning, requests, sem, running, netmon, main, peer,
                         inbox, proc, keys, packets>>
      BY <1>5 DEF WaitFindsEnd
    <2> QED
      BY <2>1, <2>2 DEF Served, Waits
  <1>6. CASE DrainReads
    <2>1. /\ peer' \in {"none", "open", "gone", "aborted", "reset"}
          /\ proc' \in {"running", "exited", "aborted", "killed"}
      BY <1>6, WriteTyped DEF DrainReads, MayWrite
    <2>2. /\ client = "drain" /\ client' \in {"drain", "check"} /\ inbox' \in Seq(Packets)
          /\ UNCHANGED <<ui, uiRunning, requests, sem, resume, running, netmon, main,
                         connected, keys, packets>>
      BY <1>6, QueuesTyped DEF DrainReads
    <2> QED
      BY <2>1, <2>2
  <1>7. CASE DrainEnds
    <2>1. connected' \in BOOLEAN
      BY <1>7 DEF DrainEnds
    <2>2. peer' \in {"none", "open", "gone", "aborted", "reset"}
      BY <1>7 DEF DrainEnds
    <2>3. /\ client = "drain" /\ client' = "check"
          /\ UNCHANGED <<ui, uiRunning, requests, sem, resume, running, netmon, main, inbox,
                         proc, keys, packets>>
      BY <1>7 DEF DrainEnds
    <2> QED
      BY <2>1, <2>2, <2>3 DEF Served, Waits
  <1>8. CASE CheckConnected
    <2>1. TypeOK'
      <3>1. running' \in BOOLEAN
        BY <1>8 DEF CheckConnected
      <3>2. /\ client' \in {"acquire", "join"}
            /\ UNCHANGED <<ui, uiRunning, requests, sem, resume, netmon, main, connected,
                           peer, inbox, proc, keys, packets>>
        BY <1>8 DEF CheckConnected
      <3> QED
        BY <3>1, <3>2
    <2>2. NoLostWakeup'
      BY <1>8 DEF CheckConnected
    <2>3. ClosedSeenFirst'
      <3>1. client' = "acquire" => connected
        BY <1>8 DEF CheckConnected
      <3>2. client' \in {"acquire", "join"} /\ connected' = connected
        BY <1>8 DEF CheckConnected
      <3> QED
        BY <3>1, <3>2 DEF Served, Waits
    <2> QED
      BY <2>1, <2>2, <2>3
  <1>9. CASE JoinMonitor
    BY <1>9 DEF JoinMonitor, Served, Waits
  <1>10. CASE ConnectTo \/ Send \/ Transmit
    BY <1>10, TextKeeps
  <1>11. CASE WaitFindsReset
    BY <1>11 DEF WaitFindsReset, Waiting, Served, Waits
  <1> QED
    BY <1>1, <1>2, <1>3, <1>4, <1>5, <1>6, <1>7, <1>8, <1>9, <1>10, <1>11 DEF ClientStep

(* The steps of the UI thread, the monitor, main and the server only raise *)
(* the semaphore, lower the UI's flag, or touch none of the three facts.   *)
LEMMA OthersKeep ==
  ASSUME Inductive,
         \/ UIStep \/ SetupConnection \/ MonitorStep \/ MainStep
         \/ (\E m \in Packets : Arrive(m)) \/ ServerCloses
  PROVE  Inductive'
  <1> TypeOK /\ NoLostWakeup /\ ClosedSeenFirst
    BY DEF Inductive
  <1> USE DEF Inductive, TypeOK, NoLostWakeup, ClosedSeenFirst, ClientAt, socket, counts
  <1>1. CASE UIStep
    <2>1. CASE QuitClearsFlag
      <3>1. TypeOK'
        <4>1. uiRunning' \in BOOLEAN
          BY <2>1 DEF QuitClearsFlag
        <4>2. /\ ui' = "processInput"
              /\ UNCHANGED <<requests, sem, client, resume, running, netmon, main,
                             connected, peer, inbox, proc, keys, packets>>
          BY <2>1 DEF QuitClearsFlag
        <4> QED
          BY <4>1, <4>2
      <3>2. ~uiRunning'
        BY <2>1 DEF QuitClearsFlag
      <3>3. NoLostWakeup'
        BY <3>2
      <3>4. ClosedSeenFirst'
        BY <2>1 DEF QuitClearsFlag
      <3> QED
        BY <3>1, <3>3, <3>4
    <2>2. CASE InputRead
      BY <2>2 DEF InputRead
    <2>3. CASE UIWakes
      BY <2>3 DEF UIWakes
    <2> QED
      BY <1>1, <2>1, <2>2, <2>3 DEF UIStep
  <1>2. CASE SetupConnection
    <2>1. TypeOK'
      <3>1. connected' \in BOOLEAN
        BY <1>2 DEF SetupConnection
      <3>2. /\ client' = "acquire" /\ netmon' = "check" /\ peer' = "open"
            /\ UNCHANGED <<ui, uiRunning, requests, sem, resume, running, main, inbox,
                           proc, keys, packets>>
        BY <1>2 DEF SetupConnection
      <3> QED
        BY <3>1, <3>2
    <2>2. NoLostWakeup'
      BY <1>2 DEF SetupConnection
    <2>3. connected'
      BY <1>2 DEF SetupConnection
    <2>4. ClosedSeenFirst'
      BY <2>3 DEF ClosedSeenFirst
    <2> QED
      BY <2>1, <2>2, <2>4
  <1>3. CASE MonitorStep
    <2>1. CASE MonitorChecks
      BY <2>1 DEF MonitorChecks
    <2>2. CASE MonitorWakes
      BY <2>2, ReleaseWakes DEF MonitorWakes
    <2>3. CASE MonitorTimesOut
      BY <2>3 DEF MonitorTimesOut
    <2> QED
      BY <1>3, <2>1, <2>2, <2>3 DEF MonitorStep
  <1>4. CASE MainStep
    <2>1. CASE Stop
      <3>1. ~uiRunning' /\ uiRunning' \in BOOLEAN /\ sem' \in 0..MaxCount
        <4>1. CASE uiRunning
          BY <2>1, <4>1, ReleaseWakes DEF Stop
        <4>2. CASE ~uiRunning
          BY <2>1, <4>2 DEF Stop
        <4> QED
          BY <4>1, <4>2
      <3>2. /\ main' \in {"stop", "return"}
            /\ UNCHANGED <<ui, requests, client, resume, running, netmon, connected, peer,
                           inbox, proc, keys, packets>>
        BY <2>1 DEF Stop
      <3> QED
        BY <3>1, <3>2
    <2>2. CASE JoinUI
      BY <2>2 DEF JoinUI
    <2>3. CASE DestroyUI
      BY <2>3 DEF DestroyUI
    <2> QED
      BY <1>4, <2>1, <2>2, <2>3 DEF MainStep
  <1>5. ASSUME NEW m \in Packets, Arrive(m) PROVE Inductive'
    BY <1>5, QueuesTyped, FrontendAssumption DEF Arrive
  <1>6. CASE ServerCloses
    BY <1>6 DEF ServerCloses
  <1> QED
    BY <1>1, <1>2, <1>3, <1>4, <1>5, <1>6

-----------------------------------------------------------------------------
(* The invariant holds in every reachable state of the client program. *)
THEOREM InductiveInvariant == Spec => []Inductive
  <1>1. Init => Inductive
    <2>1. Init => TypeOK
      <3>1. 1 \in 0..MaxCount /\ 0 \in 0..MaxKeys /\ 0 \in 0..MaxPackets
        BY FrontendAssumption
      <3>2. <<>> \in Seq(Kinds) /\ <<>> \in Seq(Packets)
        OBVIOUS
      <3> QED
        BY <3>1, <3>2, Zenon DEF Init, TypeOK, Served, Waits
    <2>2. Init => client = "setup" /\ requests = <<>>
      BY DEF Init
    <2>3. client = "setup" /\ requests = <<>> => NoLostWakeup /\ ClosedSeenFirst
      BY DEF NoLostWakeup, ClosedSeenFirst, Served, Waits
    <2> QED
      BY <2>1, <2>2, <2>3 DEF Inductive
  <1>2. Inductive /\ [Next]_vars => Inductive'
    <2> SUFFICES ASSUME Inductive, [Next]_vars PROVE Inductive'
      OBVIOUS
    <2>1. CASE Next
      BY <2>1, UserKeeps, ClientKeeps, OthersKeep DEF Next
    <2>2. CASE UNCHANGED vars
      BY <2>2 DEF vars, Inductive, TypeOK, NoLostWakeup, ClosedSeenFirst
    <2> QED
      BY <2>1, <2>2
  <1> QED
    BY <1>1, <1>2, PTL DEF Spec

(* The threads keep their types. *)
THEOREM TypeCorrect == Spec => []TypeOK
  BY InductiveInvariant, PTL DEF Inductive

(* The client thread never blocks on a semaphore that is 0 with a request  *)
(* in the queue that the UI still lets it take.                            *)
THEOREM Wakeup == Spec => []NoLostWakeup
  BY InductiveInvariant, PTL DEF Inductive

(* Wherever the client thread may send, mConnected is true: what fails is  *)
(* a send() on a connection that was reset, never sendPacket's own check.  *)
THEOREM OpenWhenServed == Spec => []ClosedSeenFirst
  BY InductiveInvariant, PTL DEF Inductive
=============================================================================
