------------------------------- MODULE Display -------------------------------
(***************************************************************************)
(* What the user types and sees (UI.cpp, UI.h): the line being edited, the *)
(* commands, the partner that plain text goes to, and the list of          *)
(* messages, to which the UI thread and the client thread both add.  The   *)
(* client thread is here only as far as it uses the UI; its packets are in *)
(* Client.tla, its wake-ups and the end of the program in Frontend.tla.    *)
(*                                                                         *)
(* A key stands for a word: text is a sequence of words, one of them the   *)
(* blank, and the name of a command is a word with the blank behind it.    *)
(***************************************************************************)
EXTENDS Naturals, Sequences, SequencesExt

CONSTANTS
    Words,    \* what a key may stand for
    Lines,    \* what the user may type before Enter, as sequences of words
    Texts,    \* what another user may write
    MaxKeys,  \* keys the user presses
    MaxTexts  \* texts that come

(* The words that the program itself writes. *)
Fixed == {"You", "peer", "@", " ", "No chat partner selected", "Server desconnected"}
Text == Seq(Words \cup Fixed)

ASSUME DisplayAssumption ==
    /\ Lines \subseteq Text /\ Texts \subseteq Text
    /\ MaxKeys \in Nat /\ MaxTexts \in Nat

VARIABLES
    input,           \* the line being edited
    cursor,          \* where in it the next key goes
    selectedPartner, \* whom plain text goes to, as words
    messages,        \* the history
    nextRequestId,
    pending,         \* the request the UI thread is about to queue
    requests,        \* UI::requests
    running,         \* UI::running
    ui,              \* where the UI thread is
    serving,         \* the request the client thread is at
    client,          \* where the client thread is
    alive,           \* the process lives
    typed, came      \* keys pressed and texts read so far

editor == <<input, cursor, selectedPartner>>
queue == <<pending, requests, nextRequestId>>
backend == <<serving, client>>
counts == <<typed, came>>
vars == <<editor, messages, queue, running, ui, backend, alive, counts>>

Blank == " "
Commands == {"/quit", "/who", "/login ", "/chat ", "/e2e ", "/"}

(* Nobody asks for a message without a number: requests count from 1. *)
NoId == 0

Request(type, id, username, message) ==
    [type |-> type, id |-> id, username |-> username, message |-> message]
NoRequest == Request("None", NoId, <<>>, <<>>)

Requests == [type : {"Login", "SendMessage", "GetUsers", "E2E", "Quit"}, id : Nat \ {NoId},
             username : Text, message : Text]
OutcomeTexts == {"Login Succeeded", "Login Failed", "Active Users",
                 "E2E Connection Succeeded", "E2E Connection Failed"}
Messages == [id : Nat, sender : Text, text : Text, outcomes : Seq(OutcomeTexts)]

Message(id, sender, text) == [id |-> id, sender |-> sender, text |-> text, outcomes |-> <<>>]

(* The cursor never leaves the end of the line: no key moves it, and what  *)
(* insert and erase are given is a position they accept.                   *)
TypeOK ==
    /\ input \in Text /\ cursor = Len(input)
    /\ selectedPartner \in Text
    /\ messages \in Seq(Messages)
    /\ nextRequestId \in Nat \ {NoId}
    /\ requests \in Seq(Requests)
    /\ serving \in Requests \cup {NoRequest}
    /\ pending \in Requests \cup {NoRequest}
    /\ pending = NoRequest <=> ui # "queue"
    /\ running \in BOOLEAN /\ alive \in BOOLEAN
    /\ ui \in {"keys", "queue", "quitting", "drawing", "sleep", "ended"}
    /\ client \in {"loop", "ended"}
    /\ typed \in Nat /\ came \in Nat

Init ==
    /\ input = <<>> /\ cursor = 0 /\ selectedPartner = <<>>
    /\ messages = <<>>
    /\ nextRequestId = 1 /\ pending = NoRequest /\ requests = <<>>
    /\ running = TRUE /\ ui = "drawing"
    /\ serving = NoRequest /\ client = "loop"
    /\ alive = TRUE
    /\ typed = 0 /\ came = 0

-----------------------------------------------------------------------------
(* Keys.                                                                   *)

UIAt(pc) == alive /\ ui = pc

Press ==
    /\ UIAt("keys") /\ typed < MaxKeys
    /\ typed' = typed + 1
    /\ UNCHANGED <<requests, backend, alive, came>>

HandleKey(k) ==
    /\ Press
    /\ input' = InsertAt(input, cursor + 1, k)
    /\ cursor' = cursor + 1
    /\ \E line \in Lines : IsPrefix(input', line)
    /\ UNCHANGED <<selectedPartner, messages, nextRequestId, pending, running, ui>>

Backspace ==
    /\ Press
    /\ cursor > 0
    /\ input' = RemoveAt(input, cursor)
    /\ cursor' = cursor - 1
    /\ UNCHANGED <<selectedPartner, messages, nextRequestId, pending, running, ui>>

CtrlC ==
    /\ Press
    /\ running' = FALSE
    /\ UNCHANGED <<editor, messages, nextRequestId, pending, ui>>

-----------------------------------------------------------------------------
(* Enter: submitInput.  addMessage and addRequest lock one after the other, *)
(* so what is shown and what is queued are two steps.                      *)

Show(m) == messages' = Append(messages, m)

Ask(type, username, message) ==
    /\ pending' = Request(type, nextRequestId, username, message)
    /\ nextRequestId' = nextRequestId + 1
    /\ ui' = "queue"

AskNothing == UNCHANGED <<pending, nextRequestId, ui>>

HandleCommand(line) ==
    LET word == Head(line)
        username == Tail(line)
        bare == username = <<>>
    IN
    \/ /\ line = <<"/quit">>
       /\ Ask("Quit", <<>>, <<>>) /\ Show(Message(NoId, <<>>, line))
       /\ UNCHANGED selectedPartner
    \/ /\ line = <<"/who">>
       /\ Ask("GetUsers", <<>>, <<>>) /\ Show(Message(nextRequestId, <<>>, line))
       /\ UNCHANGED selectedPartner
    \/ /\ word = "/login " /\ ~bare
       /\ Ask("Login", username, <<>>) /\ Show(Message(nextRequestId, <<>>, line))
       /\ UNCHANGED selectedPartner
    \/ /\ word = "/e2e " /\ ~bare
       /\ Ask("E2E", username, <<>>) /\ Show(Message(nextRequestId, <<>>, line))
       /\ UNCHANGED selectedPartner
    \/ /\ word \in {"/login ", "/e2e "} /\ bare
       /\ AskNothing /\ UNCHANGED <<messages, selectedPartner>>
    \/ /\ word = "/chat "
       /\ AskNothing /\ Show(Message(NoId, <<>>, line))
       /\ selectedPartner' = IF bare THEN selectedPartner ELSE username
    \/ /\ word \notin {"/login ", "/e2e ", "/chat "} /\ line \notin {<<"/quit">>, <<"/who">>}
       /\ AskNothing /\ Show(Message(NoId, <<>>, line))
       /\ UNCHANGED selectedPartner

Blanks(line) == {i \in DOMAIN line : line[i] = Blank}

\* Fault: the name is what comes before the last blank.
LastBlank(line, space) == \A i \in Blanks(line) : i <= space

FirstBlank(line, space) == \A i \in Blanks(line) : space <= i

(* "@name text" sends, "@name" alone selects, and "@ ..." is dropped.      *)
HandleMessage(line) ==
    \/ /\ Blanks(line) = {}
       /\ selectedPartner' = Tail(line)
       /\ AskNothing /\ UNCHANGED messages
    \/ \E space \in Blanks(line) :
          LET recipient == SubSeq(line, 2, space - 1)
              message == SubSeq(line, space + 1, Len(line))
          IN  /\ FirstBlank(line, space)
              /\ IF recipient = <<>> \/ message = <<>>
                 THEN AskNothing /\ UNCHANGED <<messages, selectedPartner>>
                 ELSE /\ selectedPartner' = recipient
                      /\ Ask("SendMessage", recipient, message)
                      /\ Show(Message(nextRequestId, <<"You">>, message))

(* The line that was moved from is left empty by the libraries there are.  *)
SubmitInput ==
    /\ Press
    /\ input # <<>>
    /\ \/ input[1] \in Commands /\ HandleCommand(input)
       \/ input[1] = "@" /\ HandleMessage(input)
       \/ /\ input[1] \notin Commands \cup {"@"} /\ selectedPartner # <<>>
          /\ HandleMessage(<<"@">> \o selectedPartner \o <<Blank>> \o input)
       \/ /\ input[1] \notin Commands \cup {"@"} /\ selectedPartner = <<>>
          /\ Show(Message(NoId, <<>>, <<"No chat partner selected">>))
          /\ AskNothing /\ UNCHANGED selectedPartner
    /\ input' = <<>> /\ cursor' = 0
    /\ UNCHANGED running

\* Fault: a request overtakes those that wait.
AddRequestFirst ==
    /\ UIAt("queue")
    /\ requests' = <<pending>> \o requests
    /\ pending' = NoRequest
    /\ ui' = IF pending.type = "Quit" THEN "quitting" ELSE "keys"
    /\ UNCHANGED <<editor, messages, nextRequestId, running, backend, alive, counts>>

AddRequest ==
    /\ UIAt("queue")
    /\ requests' = Append(requests, pending)
    /\ pending' = NoRequest
    /\ ui' = IF pending.type = "Quit" THEN "quitting" ELSE "keys"
    /\ UNCHANGED <<editor, messages, nextRequestId, running, backend, alive, counts>>

QuitClearsFlag ==
    /\ UIAt("quitting")
    /\ running' = FALSE /\ ui' = "keys"
    /\ UNCHANGED <<editor, messages, queue, backend, alive, counts>>

-----------------------------------------------------------------------------
(* run(): all the keys there are, then the screen, then a pause.           *)

Turn(from, to) ==
    /\ UIAt(from)
    /\ ui' = to
    /\ UNCHANGED <<editor, messages, queue, running, backend, alive, counts>>

InputRead == Turn("keys", IF running THEN "drawing" ELSE "sleep")
Redrawn == Turn("drawing", "sleep")
Wakes == Turn("sleep", IF running THEN "keys" ELSE "ended")

-----------------------------------------------------------------------------
(* The client thread, where it touches the UI.  renderHistory walks the    *)
(* messages without their lock: whoever changes them meanwhile leaves it   *)
(* with a broken iterator or half a string, which may end the process.     *)

ClientFree == alive /\ client = "loop" /\ serving = NoRequest

Touched == alive' \in IF ui = "drawing" THEN BOOLEAN ELSE {alive}

TryGetRequest ==
    /\ ClientFree
    /\ running /\ requests # <<>>
    /\ serving' = Head(requests)
    /\ requests' = Tail(requests)
    /\ UNCHANGED <<editor, messages, nextRequestId, pending, running, ui, client, alive,
                   counts>>

Outcomes(type) ==
    CASE type = "Login"    -> {"Login Succeeded", "Login Failed"}
      [] type = "GetUsers" -> {"Active Users"}
      [] type = "E2E"      -> {"E2E Connection Succeeded", "E2E Connection Failed"}
      [] OTHER             -> {}

\* Fault: the last message is taken for the one that asked.
EditMessageLast(id, outcome) ==
    messages' = [messages EXCEPT ![Len(messages)].outcomes = Append(@, outcome)]

EditMessage(id, outcome) ==
    messages' = [i \in DOMAIN messages |->
                    IF messages[i].id = id
                    THEN [messages[i] EXCEPT !.outcomes = Append(@, outcome)]
                    ELSE messages[i]]

Report(outcome) ==
    /\ alive
    /\ outcome \in Outcomes(serving.type)
    /\ EditMessage(serving.id, outcome)
    /\ serving' = NoRequest
    /\ Touched
    /\ UNCHANGED <<editor, queue, running, ui, client, counts>>

(* A text that was sent is not reported. *)
Sent ==
    /\ alive /\ serving.type = "SendMessage"
    /\ serving' = NoRequest
    /\ UNCHANGED <<editor, messages, queue, running, ui, client, alive, counts>>

Quit ==
    /\ alive /\ serving.type = "Quit"
    /\ serving' = NoRequest /\ client' = "ended"
    /\ UNCHANGED <<editor, messages, queue, running, ui, alive, counts>>

Drain(text) ==
    /\ ClientFree /\ came < MaxTexts
    /\ came' = came + 1
    /\ Show(Message(NoId, <<"peer">>, text))
    /\ Touched
    /\ UNCHANGED <<editor, queue, running, ui, backend, typed>>

Disconnected ==
    /\ ClientFree
    /\ client' = "ended"
    /\ Show(Message(NoId, <<>>, <<"Server desconnected">>))
    /\ Touched
    /\ UNCHANGED <<editor, queue, running, ui, serving, counts>>

(* UI::stop(), which main calls once the client thread has ended. *)
Stop ==
    /\ alive /\ client = "ended" /\ running
    /\ running' = FALSE
    /\ UNCHANGED <<editor, messages, queue, ui, backend, alive, counts>>

UIStep == AddRequest \/ QuitClearsFlag \/ InputRead \/ Redrawn \/ Wakes

ClientStep ==
    \/ TryGetRequest \/ Sent \/ Quit \/ Disconnected \/ Stop
    \/ \E outcome \in Outcomes(serving.type) : Report(outcome)
    \/ \E text \in Texts : Drain(text)

Next ==
    \/ \E k \in Words : HandleKey(k)
    \/ Backspace \/ CtrlC \/ SubmitInput
    \/ UIStep \/ ClientStep

Spec == Init /\ [][Next]_vars

-----------------------------------------------------------------------------
(* Requests that are not done.                                             *)
Waiting == {r \in {serving, pending} \cup Range(requests) : r # NoRequest}
Waits(id) == \E r \in Waiting : r.id = id

(* A line of the history asks for something, and what it asks for.         *)
Asks(m) == m.id # NoId
IsLineOf(m, r) ==
    /\ m.id = r.id
    /\ IF r.type = "SendMessage" THEN m.sender = <<"You">> /\ m.text = r.message
                                 ELSE m.sender = <<>> /\ Tail(m.text) = r.username

Outcomeless(m) == ~Asks(m) \/ m.sender = <<"You">> \/ Waits(m.id)

(* What a request came to is told once, on the line that asked for it, and *)
(* on no other: while the request waits its line is in the history already *)
(* and says nothing yet; a text that was sent never says anything.         *)
(* UI::addMessage, addRequest and editMessage lock one after the other.    *)
OutcomeOnItsLine ==
    /\ \A i \in DOMAIN messages :
          Len(messages[i].outcomes) = IF Outcomeless(messages[i]) THEN 0 ELSE 1
    /\ \A r \in Waiting : r.type # "Quit" => \E i \in DOMAIN messages : IsLineOf(messages[i], r)

(* Requests are done in the order in which their lines stand in the        *)
(* history: the client thread takes them as the user typed them.           *)
AnsweredInOrder ==
    \A i, j \in DOMAIN messages :
        i < j /\ Asks(messages[i]) /\ Asks(messages[j]) /\ Waits(messages[i].id)
            => Waits(messages[j].id)

(* Numbers grow along the history and along what waits, the request served *)
(* first and the one about to be queued last; /quit has no line.           *)
Numbered ==
    /\ \A i \in DOMAIN messages : messages[i].id < nextRequestId
    /\ \A i, j \in DOMAIN messages :
          i < j /\ Asks(messages[i]) /\ Asks(messages[j]) => messages[i].id < messages[j].id

InTurn ==
    /\ serving.id < nextRequestId /\ pending.id < nextRequestId
    /\ pending # NoRequest => serving.id < pending.id
    /\ \A i \in DOMAIN requests :
          /\ requests[i].id < nextRequestId
          /\ serving.id < requests[i].id
          /\ pending # NoRequest => requests[i].id < pending.id
    /\ \A i, j \in DOMAIN requests : i < j => requests[i].id < requests[j].id

QuitUnseen ==
    \A r \in Waiting : r.type = "Quit" => \A i \in DOMAIN messages : messages[i].id # r.id

Inductive ==
    TypeOK /\ Numbered /\ InTurn /\ QuitUnseen /\ OutcomeOnItsLine /\ AnsweredInOrder

(* Plain text goes, whole, to the partner that the prompt shows, if there  *)
(* is one without a blank in its name: submitInput writes "@partner text"  *)
(* and handleMessage takes it apart again.                                 *)
GoesToPartner ==
    [][SubmitInput /\ input[1] \notin Commands \cup {"@"} /\ selectedPartner # <<>>
          /\ Blank \notin Range(selectedPartner)
       => pending' = Request("SendMessage", nextRequestId, selectedPartner, input)]_vars
=============================================================================
