---------------------------- MODULE DisplayProofs ----------------------------
(***************************************************************************)
(* Proofs about Display.tla for every set of lines and any number of keys  *)
(* and texts: what a request came to is told on the line that asked for    *)
(* it, and requests are done in the order of the history.                  *)
(***************************************************************************)
EXTENDS Display, SequenceTheorems, TLAPS

(* InsertAt of the community modules, written out.                         *)
LEMMA InsertAtExpanded ==
    ASSUME NEW s, NEW i, NEW e
    PROVE  InsertAt(s, i, e) = SubSeq(s, 1, i - 1) \o <<e>> \o SubSeq(s, i, Len(s))
  BY Zenon DEF InsertAt

(* Pressing a key keeps the line a text and the cursor at its end.         *)
LEMMA EditingKeeps ==
    ASSUME TypeOK
    PROVE  /\ \A k \in Words : HandleKey(k) => input' \in Text /\ cursor' = Len(input')
           /\ Backspace => input' \in Text /\ cursor' = Len(input')
  <1>1. ASSUME NEW k \in Words, HandleKey(k)
        PROVE  input' \in Text /\ cursor' = Len(input')
    <2>1. k \in Words \cup Fixed
      OBVIOUS
    <2> DEFINE p == cursor + 1
    <2>2. input' = InsertAt(input, p, k)
      BY <1>1 DEF HandleKey
    <2>3. p - 1 = Len(input) /\ p > Len(input) /\ p \in Int
      BY DEF TypeOK, Text
    <2> HIDE DEF p
    <2>4. SubSeq(input, 1, p - 1) = input /\ SubSeq(input, p, Len(input)) = <<>>
      BY <2>3, SubSeqFull, SubSeqEmpty DEF TypeOK, Text
    <2>5. input' = input \o <<k>> \o <<>>
      BY <2>2, <2>4, InsertAtExpanded
    <2>6. input' = Append(input, k)
      BY <2>1, <2>5, AppendIsConcat, ConcatEmptySeq DEF TypeOK, Text
    <2>7. input' \in Text /\ Len(input') = Len(input) + 1
      BY <2>1, <2>6 DEF TypeOK, Text
    <2> QED
      BY <1>1, <2>7 DEF HandleKey, TypeOK
  <1>2. ASSUME Backspace
        PROVE  input' \in Text /\ cursor' = Len(input')
    <2>1. SubSeq(input, cursor + 1, Len(input)) = <<>>
      BY SubSeqEmpty DEF TypeOK, Text
    <2>2. /\ SubSeq(input, 1, cursor - 1) \in Seq(Words \cup Fixed)
          /\ Len(SubSeq(input, 1, cursor - 1)) = cursor - 1
      BY <1>2, SubSeqProperties DEF Backspace, TypeOK, Text
    <2>3. input' = SubSeq(input, 1, cursor - 1)
      BY <1>2, <2>1, <2>2, ConcatEmptySeq DEF Backspace, RemoveAt
    <2> QED
      BY <1>2, <2>2, <2>3 DEF Backspace, Text
  <1> QED
    BY <1>1, <1>2

(* What handleMessage cuts out of a line is text.                          *)
LEMMA CutsAreText ==
    ASSUME NEW line \in Text, NEW i \in 1 .. Len(line) + 1, NEW j \in 0 .. Len(line)
    PROVE  SubSeq(line, i, j) \in Text
  BY SubSeqProperties DEF Text

(* What handleMessage cuts out of a line at one of its blanks is text.     *)
LEMMA CutAtBlank ==
    ASSUME NEW line \in Text, line # <<>>, NEW space \in Blanks(line)
    PROVE  /\ SubSeq(line, 2, space - 1) \in Text
           /\ SubSeq(line, space + 1, Len(line)) \in Text
  <1>1. space \in 1 .. Len(line) /\ 2 \in 1 .. Len(line) + 1 /\ Len(line) \in 0 .. Len(line)
    BY DEF Blanks, Text
  <1>2. space + 1 \in 1 .. Len(line) + 1 /\ space - 1 \in 0 .. Len(line)
    BY <1>1 DEF Text
  <1> QED
    BY <1>1, <1>2, CutsAreText

(* A word is a text.                                                       *)
LEMMA OneWord ==
    /\ \A w \in Words \cup Fixed : <<w>> \in Text
    /\ <<>> \in Text
  BY DEF Text

(* What the program writes is text.                                        *)
LEMMA FixedTexts ==
    /\ <<"You">> \in Text /\ <<"@">> \in Text /\ <<Blank>> \in Text /\ <<"peer">> \in Text
    /\ <<"No chat partner selected">> \in Text /\ <<"Server desconnected">> \in Text
  BY OneWord DEF Fixed, Blank

(* A line "@name text" is cut at the blank behind the name, if the name    *)
(* has none, into the name and the whole text.                             *)
LEMMA AddressedCut ==
    ASSUME NEW name \in Text, NEW text \in Text, text # <<>>, name # <<>>, Blank \notin Range(name),
           HandleMessage(<<"@">> \o name \o <<Blank>> \o text)
    PROVE  pending' = Request("SendMessage", nextRequestId, name, text)
  <1> DEFINE line == <<"@">> \o name \o <<Blank>> \o text
             n == Len(name)
             m == Len(text)
  <1>1. n \in Nat /\ m \in Nat /\ n > 0 /\ m > 0
    BY EmptySeq, LenProperties DEF Text
  <1>2. line \in Text /\ Len(line) = n + 2 + m
    <2>1. <<"@">> \in Text /\ <<Blank>> \in Text /\ Len(<<"@">>) = 1 /\ Len(<<Blank>>) = 1
      BY FixedTexts
    <2>2. <<"@">> \o name \in Text /\ Len(<<"@">> \o name) = 1 + n
      BY <2>1, ConcatProperties DEF Text
    <2>3. /\ (<<"@">> \o name) \o <<Blank>> \in Text
          /\ Len((<<"@">> \o name) \o <<Blank>>) = n + 2
      BY <1>1, <2>1, <2>2, ConcatProperties DEF Text
    <2> QED
      BY <1>1, <2>1, <2>3, ConcatProperties DEF Text
  <1>3. /\ line[1] = "@"
        /\ \A i \in 1 .. n : line[i + 1] = name[i]
        /\ line[n + 2] = Blank
        /\ \A i \in 1 .. m : line[n + 2 + i] = text[i]
    BY <1>1 DEF Text
  <1>4. HandleMessage(line)
    OBVIOUS
  <1> HIDE DEF line
  <1>5. DOMAIN line = 1 .. n + 2 + m
    BY <1>1, <1>2 DEF Text
  <1>6. \A i \in 1 .. n + 1 : line[i] # Blank
    <2> TAKE i \in 1 .. n + 1
    <2>1. CASE i = 1
      BY <2>1, <1>3 DEF Blank
    <2>2. CASE i # 1
      <3>1. i - 1 \in 1 .. n /\ (i - 1) + 1 = i
        BY <1>1, <2>2
      <3>2. line[i] = name[i - 1]
        BY <1>3, <3>1
      <3>3. name[i - 1] \in Range(name)
        BY <1>1, <3>1 DEF Text, Range
      <3> QED
        BY <3>2, <3>3
    <2> QED
      BY <2>1, <2>2
  <1>7. n + 2 \in Blanks(line)
    BY <1>1, <1>3, <1>5 DEF Blanks
  <1>8. \A space \in Blanks(line) : FirstBlank(line, space) => space = n + 2
    <2> TAKE space \in Blanks(line)
    <2> HAVE FirstBlank(line, space)
    <2>1. space <= n + 2
      BY <1>7 DEF FirstBlank
    <2>2. space \in 1 .. n + 2 + m /\ line[space] = Blank
      BY <1>5 DEF Blanks
    <2>3. space \notin 1 .. n + 1
      BY <1>6, <2>2
    <2> QED
      BY <1>1, <2>1, <2>2, <2>3
  <1>9. SubSeq(line, 2, (n + 2) - 1) = name
    <2>1. /\ Len(SubSeq(line, 2, (n + 2) - 1)) = n
          /\ \A i \in 1 .. n : SubSeq(line, 2, (n + 2) - 1)[i] = line[i + 1]
          /\ SubSeq(line, 2, (n + 2) - 1) \in Text
      BY <1>1, <1>2 DEF Text
    <2> HIDE DEF n
    <2> QED
      BY <1>1, <1>3, <2>1, SeqEqual DEF Text, n
  <1>10. SubSeq(line, (n + 2) + 1, Len(line)) = text
    <2>1. /\ Len(SubSeq(line, (n + 2) + 1, Len(line))) = m
          /\ \A i \in 1 .. m : SubSeq(line, (n + 2) + 1, Len(line))[i] = line[n + 2 + i]
          /\ SubSeq(line, (n + 2) + 1, Len(line)) \in Text
      BY <1>1, <1>2 DEF Text
    <2> QED
      BY <1>1, <1>3, <2>1, SeqEqual DEF Text
  <1>11. PICK space \in Blanks(line) :
            /\ FirstBlank(line, space)
            /\ LET recipient == SubSeq(line, 2, space - 1)
                   message == SubSeq(line, space + 1, Len(line))
               IN IF recipient = <<>> \/ message = <<>>
                  THEN AskNothing /\ UNCHANGED <<messages, selectedPartner>>
                  ELSE /\ selectedPartner' = recipient
                       /\ Ask("SendMessage", recipient, message)
                       /\ Show(Message(nextRequestId, <<"You">>, message))
    BY <1>4, <1>7 DEF HandleMessage
  <1>12. space = n + 2
    BY <1>8, <1>11
  <1>13. Ask("SendMessage", name, text)
    BY <1>9, <1>10, <1>11, <1>12
  <1> QED
    BY <1>13 DEF Ask

(* A name that waits is that of one request.                               *)
LEMMA WaitingOnce ==
    ASSUME TypeOK, InTurn
    PROVE  /\ \A r \in Waiting : r \in Requests /\ r.id < nextRequestId
           /\ \A r, s \in Waiting : r.id = s.id => r = s
  <1>1. \A i \in DOMAIN requests : requests[i] \in Requests
    BY DEF TypeOK
  <1>2. \A r \in Range(requests) : \E i \in DOMAIN requests : r = requests[i]
    BY DEF Range
  <1>3. ASSUME NEW i \in DOMAIN requests, NEW j \in DOMAIN requests,
               requests[i].id = requests[j].id
        PROVE  i = j
    <2>1. i \in Nat /\ j \in Nat
      BY DEF TypeOK
    <2>2. requests[i].id \in Nat
      BY <1>1 DEF Requests
    <2> QED
      BY <1>3, <2>1, <2>2 DEF InTurn
  <1>4. NoRequest.id = 0
    BY DEF NoRequest, Request, NoId
  <1> QED
    BY <1>1, <1>2, <1>3, <1>4 DEF TypeOK, InTurn, Waiting, Requests, NoId

(* The history after a message was added.                                  *)
LEMMA Added ==
    ASSUME TypeOK, NEW m \in Messages, Show(m)
    PROVE  /\ messages' \in Seq(Messages)
           /\ DOMAIN messages \subseteq Nat
           /\ DOMAIN messages' = DOMAIN messages \cup {Len(messages) + 1}
           /\ \A i \in DOMAIN messages : messages'[i] = messages[i] /\ i < Len(messages) + 1
           /\ messages'[Len(messages) + 1] = m
  BY DEF TypeOK, Show

(* Nothing is said of the history but what stands in it and who waits.     *)
LEMMA SameHistory ==
    ASSUME Inductive, UNCHANGED <<messages, nextRequestId>>, Waiting' = Waiting,
           TypeOK', InTurn'
    PROVE  Inductive'
  <1>1. \A id : Waits(id)' <=> Waits(id)
    BY DEF Waits
  <1>2. \A m : Outcomeless(m)' <=> Outcomeless(m)
    BY <1>1 DEF Outcomeless
  <1>3. OutcomeOnItsLine'
    BY <1>2 DEF Inductive, OutcomeOnItsLine
  <1>4. AnsweredInOrder'
    BY <1>1 DEF Inductive, AnsweredInOrder
  <1> QED
    BY <1>3, <1>4 DEF Inductive, Numbered, QuitUnseen

(* A message that asks for nothing is added.                               *)
LEMMA PlainMessage ==
    ASSUME Inductive, NEW sender \in Text, NEW text \in Text,
           Show(Message(NoId, sender, text)),
           UNCHANGED <<nextRequestId, queue, serving>>
    PROVE  messages' \in Seq(Messages) /\ (TypeOK' => Inductive')
  <1> DEFINE m == Message(NoId, sender, text)
             n == Len(messages) + 1
  <1>1. m \in Messages /\ m.id = NoId /\ m.outcomes = <<>>
    BY DEF Message, Messages, NoId
  <1>2. /\ messages' \in Seq(Messages)
        /\ DOMAIN messages \subseteq Nat
        /\ DOMAIN messages' = DOMAIN messages \cup {n}
        /\ \A i \in DOMAIN messages : messages'[i] = messages[i] /\ i < n
        /\ messages'[n] = m
    BY <1>1, Added DEF Inductive
  <1> HIDE DEF m
  <1>3. Waiting' = Waiting /\ \A id : Waits(id)' <=> Waits(id)
    BY DEF Waiting, Waits, queue
  <1>4. \A x : Outcomeless(x)' <=> Outcomeless(x)
    BY <1>3 DEF Outcomeless
  <1>5. Numbered'
    BY <1>1, <1>2 DEF Inductive, TypeOK, Numbered, Asks, NoId
  <1>6. InTurn'
    BY DEF Inductive, InTurn, queue
  <1>7. QuitUnseen'
    BY <1>1, <1>2, <1>3, WaitingOnce DEF Inductive, QuitUnseen, Requests
  <1>8. OutcomeOnItsLine'
    <2>1. Len(m.outcomes) = 0 /\ Outcomeless(m)
      BY <1>1 DEF Outcomeless, Asks
    <2>2. \A i \in DOMAIN messages' :
            Len(messages'[i].outcomes) = IF Outcomeless(messages'[i]) THEN 0 ELSE 1
      BY <1>2, <2>1 DEF Inductive, OutcomeOnItsLine
    <2>3. \A r \in Waiting : r.type # "Quit" =>
              \E i \in DOMAIN messages' : IsLineOf(messages'[i], r)
      BY <1>2 DEF Inductive, OutcomeOnItsLine
    <2> QED
      BY <1>3, <1>4, <2>2, <2>3 DEF OutcomeOnItsLine
  <1>9. AnsweredInOrder'
    <2>1. \A i, j \in DOMAIN messages' :
            i < j /\ Asks(messages'[i]) /\ Asks(messages'[j]) => j \in DOMAIN messages /\ i \in DOMAIN messages
      BY <1>1, <1>2 DEF Asks
    <2> QED
      BY <1>2, <1>3, <2>1 DEF Inductive, AnsweredInOrder
  <1> QED
    BY <1>2, <1>5, <1>6, <1>7, <1>8, <1>9 DEF Inductive

(* Once the client thread is done with a request, only that one has left,  *)
(* and it was the oldest.                                                  *)
LEMMA DoneWaits ==
    ASSUME TypeOK, InTurn, serving # NoRequest, serving' = NoRequest,
           UNCHANGED <<pending, requests>>
    PROVE  /\ serving \in Waiting
           /\ Waiting' = Waiting \ {serving}
           /\ \A id : Waits(id)' <=> Waits(id) /\ id # serving.id
           /\ \A r \in Waiting' : serving.id < r.id
  <1>1. serving \in Waiting
    BY DEF Waiting
  <1>2. \A r \in Range(requests) : serving.id < r.id
    BY DEF InTurn, Range
  <1>3. serving.id \in Nat
    BY DEF TypeOK, Requests
  <1>4. \A r \in Range(requests) \cup {pending} : r # NoRequest => serving.id < r.id
    BY <1>2 DEF InTurn
  <1>5. Waiting' = {r \in {pending} \cup Range(requests) : r # NoRequest}
    BY DEF Waiting
  <1>6. Waiting' = Waiting \ {serving} /\ \A r \in Waiting' : serving.id < r.id
    <2>1. ~(serving.id < serving.id)
      BY <1>3
    <2> QED
      BY <1>4, <1>5, <2>1 DEF Waiting
  <1>7. ASSUME NEW id
        PROVE  Waits(id)' <=> Waits(id) /\ id # serving.id
    <2>1. \A r \in Waiting : r.id = serving.id => r = serving
      BY <1>1, WaitingOnce
    <2> QED
      BY <1>1, <1>6, <2>1 DEF Waits
  <1> QED
    BY <1>1, <1>6, <1>7

(* Two lines that ask have different numbers.                              *)
LEMMA LinesDiffer ==
    ASSUME TypeOK, Numbered, NEW i \in DOMAIN messages, NEW j \in DOMAIN messages,
           Asks(messages[i]), messages[i].id = messages[j].id
    PROVE  i = j
  <1>1. i \in Nat /\ j \in Nat /\ messages[i].id \in Nat /\ Asks(messages[j])
    <2>1. i \in Nat /\ j \in Nat /\ messages[i] \in Messages
      BY DEF TypeOK
    <2> QED
      BY <2>1 DEF Messages, Asks
  <1>2. ~(i < j) /\ ~(j < i)
    BY <1>1 DEF Numbered
  <1> QED
    BY <1>1, <1>2

(* A request is done: its line, if it has one, got its outcome, unless it  *)
(* is that of a text.                                                      *)
LEMMA DoneStep ==
    ASSUME Inductive, TypeOK', serving # NoRequest, serving' = NoRequest,
           UNCHANGED <<pending, requests, nextRequestId>>,
           DOMAIN messages' = DOMAIN messages,
           \A i \in DOMAIN messages :
               /\ messages'[i].id = messages[i].id
               /\ messages'[i].sender = messages[i].sender
               /\ messages'[i].text = messages[i].text
               /\ messages[i].id # serving.id =>
                    messages'[i].outcomes = messages[i].outcomes
               /\ messages[i].id = serving.id =>
                    Len(messages'[i].outcomes) =
                       Len(messages[i].outcomes) + (IF serving.type = "SendMessage" THEN 0 ELSE 1)
    PROVE  Inductive'
  <1>1. /\ serving \in Waiting
        /\ Waiting' = Waiting \ {serving}
        /\ \A id : Waits(id)' <=> Waits(id) /\ id # serving.id
        /\ \A r \in Waiting' : serving.id < r.id
    BY DoneWaits DEF Inductive
  <1>2. serving \in Requests /\ Waits(serving.id)
    BY <1>1 DEF Inductive, TypeOK, Waits
  <1>3. \A i \in DOMAIN messages : Asks(messages[i])' <=> Asks(messages[i])
    BY DEF Asks
  <1>4. Numbered'
    BY DEF Inductive, Numbered, Asks
  <1>5. InTurn'
    <2>1. serving'.id = 0
      <3>1. NoRequest.id = 0
        BY DEF NoRequest, Request, NoId
      <3> QED
        BY <3>1
    <2>2. \A i \in DOMAIN requests : requests[i].id \in Nat /\ 0 < requests[i].id
      <3>1. \A i \in DOMAIN requests : requests[i] \in Requests
        BY DEF Inductive, TypeOK
      <3> QED
        BY <3>1 DEF Requests, NoId
    <2>3. pending # NoRequest => pending.id \in Nat /\ 0 < pending.id
      BY DEF Inductive, TypeOK, Requests, NoId
    <2>4. nextRequestId \in Nat /\ 0 < nextRequestId
      BY DEF Inductive, TypeOK, NoId
    <2> QED
      BY <2>1, <2>2, <2>3, <2>4 DEF Inductive, InTurn
  <1>6. QuitUnseen'
    <2>1. ASSUME NEW r \in Waiting', r.type = "Quit", NEW i \in DOMAIN messages
          PROVE  messages'[i].id # r.id
      <3>1. r \in Waiting /\ messages'[i].id = messages[i].id
        BY <1>1
      <3> QED
        BY <2>1, <3>1 DEF Inductive, QuitUnseen
    <2> QED
      BY <2>1 DEF QuitUnseen
  <1>7. AnsweredInOrder'
    <2> SUFFICES ASSUME NEW i \in DOMAIN messages, NEW j \in DOMAIN messages, i < j,
                        Asks(messages[i]), Asks(messages[j]), Waits(messages[i].id)'
                 PROVE  Waits(messages[j].id)'
      BY <1>3 DEF AnsweredInOrder, Waits
    <2>1. Waits(messages[i].id) /\ messages[i].id # serving.id
      BY <1>1 DEF Waits
    <2>2. Waits(messages[j].id)
      BY <2>1 DEF Inductive, AnsweredInOrder
    <2>3. serving.id < messages[i].id
      BY <1>1 DEF Waits
    <2>4. messages[i].id < messages[j].id
      BY DEF Inductive, Numbered
    <2>5. messages[j].id # serving.id
      <3>1. messages[i] \in Messages /\ messages[j] \in Messages
        BY DEF Inductive, TypeOK
      <3>2. messages[i].id \in Nat /\ messages[j].id \in Nat /\ serving.id \in Nat
        BY <1>2, <3>1 DEF Messages, Requests
      <3> QED
        BY <2>3, <2>4, <3>2
    <2> QED
      BY <1>1, <2>2, <2>5 DEF Waits
  <1> DEFINE Silent(x) == ~Asks(x) \/ x.sender = <<"You">> \/ (Waits(x.id) /\ x.id # serving.id)
  <1>8. OutcomeOnItsLine'
    <2>1. ASSUME NEW r \in Waiting', r.type # "Quit"
          PROVE  \E i \in DOMAIN messages' : IsLineOf(messages'[i], r)
      <3>1. PICK i \in DOMAIN messages : IsLineOf(messages[i], r)
        BY <1>1, <2>1 DEF Inductive, OutcomeOnItsLine
      <3>2. IsLineOf(messages'[i], r)
        BY <3>1 DEF IsLineOf
      <3> QED
        BY <3>2
    <2>2. ASSUME NEW i \in DOMAIN messages
          PROVE  Len(messages'[i].outcomes) = IF Silent(messages'[i]) THEN 0 ELSE 1
      <3>1. CASE messages[i].id # serving.id
        <4>1. Silent(messages'[i]) <=> Outcomeless(messages[i])
          BY <3>1 DEF Outcomeless, Asks
        <4> QED
          BY <3>1, <4>1 DEF Inductive, OutcomeOnItsLine
      <3>2. CASE messages[i].id = serving.id
        <4>1. Asks(messages[i]) /\ Outcomeless(messages[i])
          BY <1>2, <3>2 DEF Asks, Outcomeless, Requests
        <4>2. Len(messages[i].outcomes) = 0
          BY <4>1 DEF Inductive, OutcomeOnItsLine
        <4>3. serving.type # "Quit"
          BY <1>1, <3>2 DEF Inductive, QuitUnseen
        <4>4. PICK j \in DOMAIN messages : IsLineOf(messages[j], serving)
          BY <1>1, <4>3 DEF Inductive, OutcomeOnItsLine
        <4>5. messages[i].id = messages[j].id
          BY <3>2, <4>4 DEF IsLineOf
        <4>6. i = j
          BY <4>1, <4>5, LinesDiffer DEF Inductive
        <4>7. messages[i].sender = <<"You">> <=> serving.type = "SendMessage"
          <5>1. <<"You">> # <<>>
            OBVIOUS
          <5> QED
            BY <4>4, <4>6, <5>1 DEF IsLineOf
        <4>8. Silent(messages'[i]) <=> messages[i].sender = <<"You">>
          BY <3>2, <4>1 DEF Asks
        <4>9. Len(messages'[i].outcomes) =
                 Len(messages[i].outcomes) + (IF serving.type = "SendMessage" THEN 0 ELSE 1)
          BY <3>2
        <4> QED
          BY <4>2, <4>7, <4>8, <4>9
      <3> QED
        BY <3>1, <3>2
    <2>3. \A x : Outcomeless(x)' <=> Silent(x)
      BY <1>1 DEF Outcomeless, Asks
    <2>4. \A i \in DOMAIN messages' :
            Len(messages'[i].outcomes) = IF Silent(messages'[i]) THEN 0 ELSE 1
      BY <2>2
    <2> QED
      BY <2>1, <2>3, <2>4 DEF OutcomeOnItsLine
  <1> QED
    BY <1>4, <1>5, <1>6, <1>7, <1>8 DEF Inductive

(* A line that asks is added, and what it asks for is about to be queued;  *)
(* or a /quit is, whose line asks for nothing.                             *)
LEMMA AskStep ==
    ASSUME Inductive, TypeOK', UIAt("keys"),
           NEW type \in {"Login", "SendMessage", "GetUsers", "E2E", "Quit"},
           NEW username \in Text, NEW message \in Text, Ask(type, username, message),
           UNCHANGED <<requests, serving>>,
           NEW m \in Messages, Show(m), m.outcomes = <<>>,
           type = "Quit" => m.id = NoId,
           type # "Quit" => IsLineOf(m, Request(type, nextRequestId, username, message))
    PROVE  Inductive'
  <1> DEFINE r == Request(type, nextRequestId, username, message)
             n == Len(messages) + 1
  <1>1. /\ r.id = nextRequestId /\ r.type = type /\ r # NoRequest
        /\ pending' = r /\ nextRequestId' = nextRequestId + 1
        /\ pending = NoRequest /\ nextRequestId \in Nat \ {0}
    BY DEF Inductive, TypeOK, UIAt, Ask, Request, NoRequest, NoId
  <1>2. type # "Quit" => m.id = nextRequestId
    BY <1>1 DEF IsLineOf
  <1>3. /\ DOMAIN messages \subseteq Nat /\ n \in Nat
        /\ DOMAIN messages' = DOMAIN messages \cup {n}
        /\ \A i \in DOMAIN messages : messages'[i] = messages[i] /\ i < n
        /\ messages'[n] = m
    <2>1. n \in Nat
      BY DEF Inductive, TypeOK
    <2> QED
      BY <2>1, Added DEF Inductive
  <1>4. \A i \in DOMAIN messages : messages[i].id \in Nat /\ messages[i].id < nextRequestId
    <2>1. \A i \in DOMAIN messages : messages[i] \in Messages
      BY DEF Inductive, TypeOK
    <2> QED
      BY <2>1 DEF Inductive, Numbered, Messages
  <1> HIDE DEF r, n
  <1>5. Waiting' = Waiting \cup {r}
    BY <1>1 DEF Waiting
  <1>6. \A id : Waits(id)' <=> Waits(id) \/ id = nextRequestId
    BY <1>1, <1>5 DEF Waits
  <1>7. \A id \in Nat : id < nextRequestId => (Waits(id)' <=> Waits(id))
    BY <1>1, <1>6
  <1>8. Numbered'
    <2>1. \A i \in DOMAIN messages' : messages'[i].id < nextRequestId'
      BY <1>1, <1>2, <1>3, <1>4 DEF NoId
    <2>2. ASSUME NEW i \in DOMAIN messages', NEW j \in DOMAIN messages', i < j,
                 Asks(messages'[i]), Asks(messages'[j])
          PROVE  messages'[i].id < messages'[j].id
      <3>1. i \in DOMAIN messages
        BY <1>3, <2>2
      <3>2. CASE j \in DOMAIN messages
        BY <1>3, <2>2, <3>1, <3>2 DEF Inductive, Numbered
      <3>3. CASE j = n
        BY <1>2, <1>3, <1>4, <2>2, <3>1, <3>3 DEF Asks
      <3> QED
        BY <1>3, <3>2, <3>3
    <2> QED
      BY <2>1, <2>2 DEF Numbered, Asks
  <1>9. InTurn'
    <2>1. \A i \in DOMAIN requests : requests[i].id \in Nat /\ requests[i].id < nextRequestId
      <3>1. \A i \in DOMAIN requests : requests[i] \in Requests
        BY DEF Inductive, TypeOK
      <3> QED
        BY <3>1 DEF Inductive, InTurn, Requests
    <2>2. serving.id \in Nat /\ serving.id < nextRequestId
      BY DEF Inductive, TypeOK, InTurn, Requests, NoRequest, Request, NoId
    <2> QED
      BY <1>1, <2>1, <2>2 DEF Inductive, InTurn
  <1>10. QuitUnseen'
    <2>1. ASSUME NEW q \in Waiting', q.type = "Quit", NEW i \in DOMAIN messages'
          PROVE  messages'[i].id # q.id
      <3>1. CASE q = r
        BY <1>1, <1>2, <1>3, <1>4, <2>1, <3>1 DEF NoId
      <3>2. CASE q \in Waiting
        <4>1. q.id \in Nat \ {0} /\ q.id < nextRequestId
          BY <3>2, WaitingOnce DEF Inductive, Requests, NoId
        <4>2. m.id = NoId \/ m.id = nextRequestId
          BY <1>2
        <4> QED
          BY <1>1, <1>3, <2>1, <3>2, <4>1, <4>2 DEF Inductive, QuitUnseen, NoId
      <3> QED
        BY <1>5, <3>1, <3>2
    <2> QED
      BY <2>1 DEF QuitUnseen
  <1>11. OutcomeOnItsLine'
    <2> DEFINE Silent(x) == ~Asks(x) \/ x.sender = <<"You">> \/ Waits(x.id) \/ x.id = nextRequestId
    <2>1. \A x : Outcomeless(x)' <=> Silent(x)
      BY <1>6 DEF Outcomeless, Asks
    <2>2. Len(m.outcomes) = 0 /\ Silent(m)
      BY <1>2 DEF Asks
    <2>3. ASSUME NEW i \in DOMAIN messages
          PROVE  Silent(messages[i]) <=> Outcomeless(messages[i])
      BY <1>1, <1>4 DEF Outcomeless
    <2>4. \A i \in DOMAIN messages' :
            Len(messages'[i].outcomes) = IF Silent(messages'[i]) THEN 0 ELSE 1
      <3>1. \A i \in DOMAIN messages :
              Len(messages[i].outcomes) = IF Silent(messages[i]) THEN 0 ELSE 1
        BY <2>3 DEF Inductive, OutcomeOnItsLine
      <3> QED
        BY <1>3, <2>2, <3>1
    <2>5. ASSUME NEW q \in Waiting', q.type # "Quit"
          PROVE  \E i \in DOMAIN messages' : IsLineOf(messages'[i], q)
      <3>1. CASE q = r
        BY <1>1, <1>3, <2>5, <3>1 DEF r
      <3>2. CASE q \in Waiting
        <4>1. PICK i \in DOMAIN messages : IsLineOf(messages[i], q)
          BY <2>5, <3>2 DEF Inductive, OutcomeOnItsLine
        <4> QED
          BY <1>3, <4>1
      <3> QED
        BY <1>5, <3>1, <3>2
    <2> QED
      BY <2>1, <2>4, <2>5 DEF OutcomeOnItsLine
  <1>12. AnsweredInOrder'
    <2> DEFINE Still(id) == Waits(id) \/ id = nextRequestId
    <2>1. ASSUME NEW i \in DOMAIN messages', NEW j \in DOMAIN messages', i < j,
                 Asks(messages'[i]), Asks(messages'[j]), Still(messages'[i].id)
          PROVE  Still(messages'[j].id)
      <3>1. i \in DOMAIN messages
        BY <1>3, <2>1
      <3>2. CASE j \in DOMAIN messages
        BY <1>1, <1>3, <1>4, <2>1, <3>1, <3>2 DEF Inductive, AnsweredInOrder
      <3>3. CASE j = n
        BY <1>2, <1>3, <2>1, <3>3 DEF Asks
      <3> QED
        BY <1>3, <3>2, <3>3
    <2>2. \A id : Waits(id)' <=> Still(id)
      BY <1>6
    <2> QED
      BY <2>1, <2>2 DEF AnsweredInOrder, Asks
  <1> QED
    BY <1>8, <1>9, <1>10, <1>11, <1>12 DEF Inductive

(* The UI thread queues the request it made: the same requests wait.       *)
LEMMA QueueStep ==
    ASSUME Inductive, TypeOK', AddRequest
    PROVE  Inductive'
  <1> DEFINE n == Len(requests) + 1
  <1>1. pending # NoRequest /\ pending \in Requests /\ pending' = NoRequest
    BY DEF Inductive, TypeOK, AddRequest, UIAt
  <1>2. /\ DOMAIN requests' = DOMAIN requests \cup {n}
        /\ \A i \in DOMAIN requests : requests'[i] = requests[i] /\ i < n
        /\ requests'[n] = pending
        /\ DOMAIN requests \subseteq Nat /\ n \in Nat
    BY <1>1 DEF Inductive, TypeOK, AddRequest
  <1> HIDE DEF n
  <1>3. Range(requests') = Range(requests) \cup {pending}
    BY <1>2 DEF Range
  <1>4. Waiting' = Waiting
    BY <1>1, <1>3 DEF Waiting, AddRequest, backend
  <1>5. InTurn'
    <2>1. NoRequest.id = 0
      BY DEF NoRequest, Request, NoId
    <2>2. nextRequestId \in Nat \ {0} /\ UNCHANGED <<nextRequestId, serving>>
      BY DEF Inductive, TypeOK, AddRequest, backend, NoId
    <2>3. \A i, j \in DOMAIN requests' : i < j => requests'[i].id < requests'[j].id
      BY <1>1, <1>2 DEF Inductive, InTurn
    <2>4. \A i \in DOMAIN requests' : requests'[i].id < nextRequestId /\ serving.id < requests'[i].id
      BY <1>1, <1>2 DEF Inductive, InTurn
    <2> QED
      BY <1>1, <2>1, <2>2, <2>3, <2>4 DEF Inductive, InTurn
  <1> QED
    BY <1>4, <1>5, SameHistory DEF AddRequest

(* The client thread takes the oldest request: the same requests wait.     *)
LEMMA TakeStep ==
    ASSUME Inductive, TypeOK', TryGetRequest
    PROVE  Inductive'
  <1>1. serving = NoRequest /\ serving' = requests[1] /\ 1 \in DOMAIN requests
    BY DEF Inductive, TypeOK, TryGetRequest, ClientFree
  <1>2. /\ DOMAIN requests \subseteq Nat
        /\ \A i \in DOMAIN requests' :
              /\ i \in Nat /\ i + 1 \in DOMAIN requests /\ 1 < i + 1
              /\ requests'[i] = requests[i + 1]
        /\ \A i \in DOMAIN requests : i # 1 => i - 1 \in DOMAIN requests' /\ i = i - 1 + 1 /\ 1 < i
    BY DEF Inductive, TypeOK, TryGetRequest
  <1>3. {serving'} \cup Range(requests') = Range(requests)
    <2>1. ASSUME NEW i \in DOMAIN requests
          PROVE  requests[i] \in {serving'} \cup Range(requests')
      BY <1>1, <1>2 DEF Range
    <2> QED
      BY <1>1, <1>2, <2>1 DEF Range
  <1>4. Waiting' = Waiting
    BY <1>1, <1>3 DEF Waiting, TryGetRequest
  <1>5. InTurn'
    <2>1. \A i \in DOMAIN requests' : requests[1].id < requests'[i].id
      BY <1>1, <1>2 DEF Inductive, InTurn
    <2>2. \A i, j \in DOMAIN requests' : i < j => requests'[i].id < requests'[j].id
      BY <1>2 DEF Inductive, InTurn
    <2> QED
      BY <1>1, <1>2, <2>1, <2>2 DEF Inductive, InTurn, TryGetRequest
  <1> QED
    BY <1>4, <1>5, SameHistory DEF TryGetRequest

(* Enter, for a line that begins with a slash.                             *)
LEMMA CommandStep ==
    ASSUME Inductive, TypeOK', UIAt("keys"), input # <<>>, HandleCommand(input),
           UNCHANGED <<requests, serving>>
    PROVE  Inductive'
  <1>1. input \in Text /\ Tail(input) \in Text /\ <<>> \in Text
        /\ nextRequestId \in Nat
    BY DEF Inductive, TypeOK, Text
  <1>2. ASSUME NEW type \in {"Login", "GetUsers", "E2E"}, NEW username \in Text,
               username = Tail(input),
               Ask(type, username, <<>>), Show(Message(nextRequestId, <<>>, input))
        PROVE  Inductive'
    <2> DEFINE m == Message(nextRequestId, <<>>, input)
    <2>1. m \in Messages /\ m.outcomes = <<>>
      BY <1>1 DEF Message, Messages
    <2>2. IsLineOf(m, Request(type, nextRequestId, username, <<>>))
      BY <1>2 DEF IsLineOf, Message, Request
    <2> HIDE DEF m
    <2> QED
      BY <1>1, <1>2, <2>1, <2>2, AskStep DEF m
  <1>3. ASSUME Ask("Quit", <<>>, <<>>), Show(Message(NoId, <<>>, input))
        PROVE  Inductive'
    <2> DEFINE m == Message(NoId, <<>>, input)
    <2>1. m \in Messages /\ m.outcomes = <<>> /\ m.id = NoId
      BY <1>1 DEF Message, Messages, NoId
    <2> HIDE DEF m
    <2> QED
      BY <1>1, <1>3, <2>1, AskStep DEF m
  <1>4. ASSUME AskNothing, Show(Message(NoId, <<>>, input))
        PROVE  Inductive'
    BY <1>1, <1>4, PlainMessage DEF AskNothing, queue
  <1>5. ASSUME AskNothing, UNCHANGED messages
        PROVE  Inductive'
    BY <1>5, SameHistory DEF AskNothing, Inductive, InTurn, Waiting
  <1>6. input = <<"/who">> => Tail(input) = <<>>
    OBVIOUS
  <1> QED
    BY <1>1, <1>2, <1>3, <1>4, <1>5, <1>6 DEF HandleCommand

(* A line that names a receiver, or is given the partner's name.           *)
LEMMA MessageStep ==
    ASSUME Inductive, TypeOK', UIAt("keys"), NEW line \in Text, line # <<>>,
           HandleMessage(line), UNCHANGED <<requests, serving>>
    PROVE  Inductive'
  <1>1. ASSUME AskNothing, UNCHANGED messages
        PROVE  Inductive'
    BY <1>1, SameHistory DEF AskNothing, Inductive, InTurn, Waiting
  <1>2. ASSUME NEW recipient \in Text, NEW message \in Text,
               Ask("SendMessage", recipient, message),
               Show(Message(nextRequestId, <<"You">>, message))
        PROVE  Inductive'
    <2> DEFINE m == Message(nextRequestId, <<"You">>, message)
    <2>1. nextRequestId \in Nat
      BY DEF Inductive, TypeOK
    <2>2. <<"You">> \in Text
      BY FixedTexts
    <2>3. m \in Messages /\ m.outcomes = <<>>
      BY <2>1, <2>2 DEF Message, Messages
    <2>4. IsLineOf(m, Request("SendMessage", nextRequestId, recipient, message))
      BY DEF IsLineOf, Message, Request
    <2>5. Show(m)
      BY <1>2
    <2> HIDE DEF m
    <2> QED
      BY <1>2, <2>3, <2>4, <2>5, AskStep
  <1> QED
    BY <1>1, <1>2, CutAtBlank DEF HandleMessage

-----------------------------------------------------------------------------
(* Types.                                                                  *)

(* The part of the type invariant that a line sent with Enter disturbs.    *)
EnterTyped ==
    /\ selectedPartner \in Text
    /\ messages \in Seq(Messages)
    /\ nextRequestId \in Nat \ {NoId}
    /\ pending \in Requests \cup {NoRequest}
    /\ pending = NoRequest <=> ui # "queue"
    /\ ui \in {"keys", "queue", "quitting", "drawing", "sleep", "ended"}

(* A message that is added is a message.                                   *)
LEMMA ShowTyped ==
    ASSUME TypeOK, NEW id \in Nat, NEW sender \in Text, NEW text \in Text,
           Show(Message(id, sender, text))
    PROVE  messages' \in Seq(Messages)
  <1>1. Message(id, sender, text) \in Messages
    BY DEF Message, Messages
  <1> QED
    BY <1>1, Added

(* What is asked for is a request, and the UI thread is about to queue it. *)
LEMMA AskTyped ==
    ASSUME TypeOK, NEW type \in {"Login", "SendMessage", "GetUsers", "E2E", "Quit"},
           NEW username \in Text, NEW message \in Text, Ask(type, username, message)
    PROVE  /\ nextRequestId' \in Nat \ {NoId}
           /\ pending' \in Requests \cup {NoRequest}
           /\ pending' = NoRequest <=> ui' # "queue"
           /\ ui' \in {"keys", "queue", "quitting", "drawing", "sleep", "ended"}
  <1>1. nextRequestId \in Nat \ {NoId} /\ nextRequestId + 1 \in Nat \ {NoId}
    BY DEF TypeOK, NoId
  <1>2. pending' \in Requests /\ pending' # NoRequest
    BY <1>1 DEF Ask, Request, Requests, NoRequest, NoId
  <1> QED
    BY <1>1, <1>2 DEF Ask

(* When nothing is asked for, nothing is about to be queued.               *)
LEMMA AskNothingTyped ==
    ASSUME TypeOK, AskNothing
    PROVE  /\ nextRequestId' \in Nat \ {NoId}
           /\ pending' \in Requests \cup {NoRequest}
           /\ pending' = NoRequest <=> ui' # "queue"
           /\ ui' \in {"keys", "queue", "quitting", "drawing", "sleep", "ended"}
  BY DEF TypeOK, AskNothing

(* A command keeps the types.                                              *)
LEMMA CommandTyped ==
    ASSUME TypeOK, input # <<>>, HandleCommand(input)
    PROVE  EnterTyped'
  <1>1. /\ input \in Text /\ Tail(input) \in Text /\ <<>> \in Text
        /\ NoId \in Nat /\ nextRequestId \in Nat
        /\ selectedPartner \in Text /\ messages \in Seq(Messages)
    BY DEF TypeOK, Text, NoId
  <1>2. ASSUME NEW type \in {"Login", "GetUsers", "E2E", "Quit"}, NEW username \in Text,
               Ask(type, username, <<>>), NEW id \in Nat, Show(Message(id, <<>>, input)),
               UNCHANGED selectedPartner
        PROVE  EnterTyped'
    BY <1>1, <1>2, AskTyped, ShowTyped DEF EnterTyped
  <1>3. ASSUME AskNothing,
               Show(Message(NoId, <<>>, input)) \/ UNCHANGED messages,
               selectedPartner' \in {selectedPartner, Tail(input)}
        PROVE  EnterTyped'
    BY <1>1, <1>3, AskNothingTyped, ShowTyped DEF EnterTyped
  <1> QED
    BY <1>1, <1>2, <1>3 DEF HandleCommand

(* A line with a receiver keeps the types.                                 *)
LEMMA MessageTyped ==
    ASSUME TypeOK, NEW line \in Text, line # <<>>, HandleMessage(line)
    PROVE  EnterTyped'
  <1>1. /\ Tail(line) \in Text
        /\ nextRequestId \in Nat
        /\ selectedPartner \in Text /\ messages \in Seq(Messages)
    BY DEF TypeOK, Text
  <1>2. ASSUME AskNothing, UNCHANGED messages, selectedPartner' \in Text
        PROVE  EnterTyped'
    BY <1>1, <1>2, AskNothingTyped DEF EnterTyped
  <1>3. ASSUME NEW recipient \in Text, NEW message \in Text,
               selectedPartner' = recipient,
               Ask("SendMessage", recipient, message),
               Show(Message(nextRequestId, <<"You">>, message))
        PROVE  EnterTyped'
    BY <1>1, <1>3, AskTyped, ShowTyped, FixedTexts DEF EnterTyped
  <1> QED
    BY <1>1, <1>2, <1>3, CutAtBlank DEF HandleMessage

(* What Enter hands to handleMessage for plain text.                       *)
Addressed == <<"@">> \o selectedPartner \o <<Blank>> \o input

(* It is a text.                                                           *)
LEMMA AddressedIsText ==
    ASSUME TypeOK
    PROVE  Addressed \in Text /\ Addressed # <<>>
  <1>1. ASSUME NEW s \in Text, NEW t \in Text
        PROVE  s \o t \in Text /\ (s # <<>> => s \o t # <<>>)
    BY DEF Text
  <1>2. selectedPartner \in Text /\ input \in Text
    BY DEF TypeOK
  <1>3. <<"@">> # <<>>
    OBVIOUS
  <1>4. <<"@">> \o selectedPartner \in Text /\ <<"@">> \o selectedPartner # <<>>
    BY <1>1, <1>2, <1>3, FixedTexts, Zenon
  <1>5. /\ <<"@">> \o selectedPartner \o <<Blank>> \in Text
        /\ <<"@">> \o selectedPartner \o <<Blank>> # <<>>
    BY <1>1, <1>4, FixedTexts, Zenon
  <1> QED
    BY <1>1, <1>2, <1>5, Zenon DEF Addressed

-----------------------------------------------------------------------------
(* Enter keeps the types.                                                  *)
LEMMA SubmitTyped ==
    ASSUME TypeOK, SubmitInput
    PROVE  TypeOK'
  <1>1. EnterTyped'
    <2>1. CASE HandleCommand(input)
      BY <2>1, CommandTyped DEF SubmitInput
    <2>2. CASE HandleMessage(input)
      BY <2>2, MessageTyped DEF SubmitInput, TypeOK
    <2>3. CASE HandleMessage(Addressed)
      BY <2>3, MessageTyped, AddressedIsText
    <2>4. CASE /\ Show(Message(NoId, <<>>, <<"No chat partner selected">>))
               /\ AskNothing /\ UNCHANGED selectedPartner
      <3>1. messages' \in Seq(Messages)
        <4>1. NoId \in Nat /\ <<>> \in Text
          BY OneWord DEF NoId
        <4> QED
          BY <2>4, <4>1, ShowTyped, FixedTexts
      <3> QED
        BY <2>4, <3>1, AskNothingTyped DEF EnterTyped, TypeOK
    <2> QED
      BY <2>1, <2>2, <2>3, <2>4 DEF SubmitInput, Addressed
  <1>2. input' \in Text /\ cursor' = Len(input')
    BY OneWord DEF SubmitInput
  <1>3. Press /\ running' = running
    BY DEF SubmitInput
  <1>4. UNCHANGED <<requests, serving, alive, client, came>> /\ typed' \in Nat
    BY <1>3 DEF Press, TypeOK, backend
  <1> QED
    BY <1>1, <1>2, <1>3, <1>4 DEF EnterTyped, TypeOK

(* Enter keeps the invariant.                                              *)
LEMMA SubmitStep ==
    ASSUME Inductive, SubmitInput
    PROVE  Inductive'
  <1>1. TypeOK'
    BY SubmitTyped DEF Inductive
  <1>2. UIAt("keys") /\ input # <<>> /\ UNCHANGED <<requests, serving>>
    BY DEF SubmitInput, Press, backend
  <1>3. CASE HandleCommand(input)
    BY <1>1, <1>2, <1>3, CommandStep
  <1>4. CASE HandleMessage(input)
    BY <1>1, <1>2, <1>4, MessageStep DEF Inductive, TypeOK
  <1>5. CASE HandleMessage(Addressed)
    BY <1>1, <1>2, <1>5, MessageStep, AddressedIsText DEF Inductive
  <1>6. CASE /\ Show(Message(NoId, <<>>, <<"No chat partner selected">>))
             /\ AskNothing
    BY <1>1, <1>2, <1>6, PlainMessage, OneWord, FixedTexts DEF AskNothing, queue
  <1> QED
    BY <1>3, <1>4, <1>5, <1>6 DEF SubmitInput, Addressed

(* The other keys and the turns of the UI thread keep it.                  *)
LEMMA EditorStep ==
    ASSUME Inductive,
           (\E k \in Words : HandleKey(k)) \/ Backspace \/ CtrlC \/ QuitClearsFlag
              \/ InputRead \/ Redrawn \/ Wakes \/ Stop \/ UNCHANGED vars
    PROVE  Inductive'
  <1>1. UNCHANGED <<messages, pending, requests, serving, nextRequestId>>
    BY DEF HandleKey, Backspace, CtrlC, QuitClearsFlag, InputRead, Redrawn, Wakes, Turn, Stop,
           Press, queue, backend, vars
  <1>2. TypeOK'
    <2>1. input' \in Text /\ cursor' = Len(input')
      BY EditingKeeps DEF Inductive, TypeOK, CtrlC, QuitClearsFlag, InputRead, Redrawn, Wakes,
                          Turn, Stop, editor, vars
    <2>2. selectedPartner' = selectedPartner /\ alive' = alive /\ client' = client
      BY DEF HandleKey, Backspace, CtrlC, QuitClearsFlag, InputRead, Redrawn, Wakes, Turn, Stop,
             Press, editor, backend, vars
    <2>4. running' \in BOOLEAN
      BY DEF Inductive, TypeOK, HandleKey, Backspace, CtrlC, QuitClearsFlag, InputRead, Redrawn,
             Wakes, Turn, Stop, vars
    <2>5. typed' \in Nat /\ came' \in Nat
      BY DEF Inductive, TypeOK, HandleKey, Backspace, CtrlC, QuitClearsFlag, InputRead, Redrawn,
             Wakes, Turn, Stop, Press, counts, vars
    <2>3. /\ ui' \in {"keys", "queue", "quitting", "drawing", "sleep", "ended"}
          /\ ui' = "queue" <=> ui = "queue"
      BY DEF Inductive, TypeOK, HandleKey, Backspace, CtrlC, QuitClearsFlag, InputRead, Redrawn,
             Wakes, Turn, Stop, UIAt, vars
    <2> QED
      BY <1>1, <2>1, <2>2, <2>3, <2>4, <2>5 DEF Inductive, TypeOK
  <1>3. InTurn' /\ Waiting' = Waiting
    BY <1>1 DEF Inductive, InTurn, Waiting
  <1> QED
    BY <1>1, <1>2, <1>3, SameHistory

(* The UI thread queues its request.                                       *)
LEMMA QueueTyped ==
    ASSUME TypeOK, AddRequest
    PROVE  TypeOK'
  <1>1. requests' \in Seq(Requests)
    BY DEF TypeOK, AddRequest, UIAt
  <1>2. pending' = NoRequest /\ ui' \in {"quitting", "keys"}
    BY DEF AddRequest
  <1> QED
    BY <1>1, <1>2 DEF TypeOK, AddRequest, editor, backend, counts

(* The client thread takes a request.                                      *)
LEMMA TakeTyped ==
    ASSUME TypeOK, TryGetRequest
    PROVE  TypeOK'
  <1>1. requests' \in Seq(Requests) /\ serving' \in Requests
    BY DEF TypeOK, TryGetRequest
  <1> QED
    BY <1>1 DEF TypeOK, TryGetRequest, editor, counts

(* It is done with one that the history says nothing of.                   *)
LEMMA SilentStep ==
    ASSUME Inductive, Sent \/ Quit
    PROVE  Inductive'
  <1>1. /\ serving # NoRequest /\ serving' = NoRequest
        /\ UNCHANGED <<pending, requests, nextRequestId, messages>>
        /\ serving.type \in {"SendMessage", "Quit"}
    BY DEF Sent, Quit, queue, NoRequest, Request
  <1>2. TypeOK'
    <2>1. client' \in {"loop", "ended"}
      BY DEF Inductive, TypeOK, Sent, Quit
    <2>2. UNCHANGED <<editor, messages, queue, running, ui, alive, counts>>
      BY DEF Sent, Quit
    <2> QED
      BY <1>1, <2>1, <2>2 DEF Inductive, TypeOK, editor, queue, counts
  <1>3. ASSUME NEW i \in DOMAIN messages, messages[i].id = serving.id,
               serving.type # "SendMessage"
        PROVE  FALSE
    <2>1. serving \in Waiting /\ serving.type = "Quit"
      BY <1>1, <1>3 DEF Waiting
    <2> QED
      BY <1>3, <2>1 DEF Inductive, QuitUnseen
  <1>4. \A i \in DOMAIN messages : Len(messages[i].outcomes) + 0 = Len(messages[i].outcomes)
    <2>1. \A i \in DOMAIN messages : messages[i] \in Messages
      BY DEF Inductive, TypeOK
    <2> QED
      BY <2>1 DEF Messages
  <1> QED
    BY <1>1, <1>2, <1>3, <1>4, DoneStep

(* It reports what one came to.                                            *)
LEMMA ReportStep ==
    ASSUME Inductive, NEW outcome \in Outcomes(serving.type), Report(outcome)
    PROVE  Inductive'
  <1>1. /\ outcome \in OutcomeTexts
        /\ serving.type \notin {"SendMessage", "None"}
    BY DEF Outcomes, OutcomeTexts
  <1>2. /\ serving # NoRequest /\ serving' = NoRequest
        /\ UNCHANGED <<editor, queue, running, ui, client, counts>>
        /\ EditMessage(serving.id, outcome)
    BY <1>1 DEF Report, NoRequest, Request
  <1>3. \A i \in DOMAIN messages : messages[i] \in Messages
    BY DEF Inductive, TypeOK
  <1>4. DOMAIN messages' = DOMAIN messages
    BY <1>2 DEF EditMessage
  <1>5. ASSUME NEW i \in DOMAIN messages
        PROVE  /\ messages'[i] \in Messages
               /\ messages'[i].id = messages[i].id
               /\ messages'[i].sender = messages[i].sender
               /\ messages'[i].text = messages[i].text
               /\ messages[i].id # serving.id => messages'[i].outcomes = messages[i].outcomes
               /\ messages[i].id = serving.id =>
                    Len(messages'[i].outcomes) = Len(messages[i].outcomes) + 1
    <2>1. messages[i] \in Messages
      BY <1>3
    <2>2. messages'[i] = IF messages[i].id = serving.id
                         THEN [messages[i] EXCEPT !.outcomes = Append(@, outcome)]
                         ELSE messages[i]
      BY <1>2 DEF EditMessage
    <2>3. /\ Append(messages[i].outcomes, outcome) \in Seq(OutcomeTexts)
          /\ Len(Append(messages[i].outcomes, outcome)) = Len(messages[i].outcomes) + 1
      BY <1>1, <2>1 DEF Messages
    <2> QED
      BY <2>1, <2>2, <2>3 DEF Messages
  <1>6. messages' \in Seq(Messages)
    <2>1. PICK n \in Nat : DOMAIN messages = 1 .. n
      BY DEF Inductive, TypeOK
    <2>2. messages' = [i \in 1 .. n |-> messages'[i]]
      BY <1>2, <2>1 DEF EditMessage
    <2> QED
      BY <1>5, <2>1, <2>2
  <1>7. TypeOK'
    <2>1. alive' \in BOOLEAN
      BY DEF Inductive, TypeOK, Report, Touched
    <2> QED
      BY <1>2, <1>6, <2>1 DEF Inductive, TypeOK, editor, queue, counts
  <1> QED
    BY <1>1, <1>2, <1>4, <1>5, <1>7, DoneStep DEF queue

(* It shows a text that came, or that the server has gone.                 *)
LEMMA NewsStep ==
    ASSUME Inductive, (\E text \in Texts : Drain(text)) \/ Disconnected
    PROVE  Inductive'
  <1>1. UNCHANGED <<editor, queue, running, ui, serving, typed>> /\ Touched
    BY DEF Drain, Disconnected, backend, counts
  <1>2. client' \in {"loop", "ended"} /\ came' \in Nat
    <2>1. client' = client \/ client' = "ended"
      BY DEF Drain, Disconnected, backend
    <2>2. came' = came \/ came' = came + 1
      BY DEF Drain, Disconnected, counts
    <2> QED
      BY <2>1, <2>2 DEF Inductive, TypeOK
  <1>3. alive' \in BOOLEAN
    BY <1>1 DEF Inductive, TypeOK, Touched
  <1>4. messages' \in Seq(Messages) /\ (TypeOK' => Inductive')
    <2>1. UNCHANGED <<nextRequestId, queue, serving>>
      BY <1>1 DEF queue
    <2>2. ASSUME NEW text \in Texts, Drain(text)
          PROVE  messages' \in Seq(Messages) /\ (TypeOK' => Inductive')
      BY <2>1, <2>2, PlainMessage, FixedTexts, DisplayAssumption DEF Drain
    <2>3. CASE Disconnected
      BY <2>1, <2>3, PlainMessage, FixedTexts, OneWord DEF Disconnected
    <2> QED
      BY <2>2, <2>3
  <1> QED
    BY <1>1, <1>2, <1>3, <1>4 DEF Inductive, TypeOK, editor, queue

-----------------------------------------------------------------------------
(* The types, the growing numbers and the two promises hold together in    *)
(* every state.                                                            *)
THEOREM InductiveInvariant == Spec => []Inductive
  <1>1. Init => Inductive
    <2> SUFFICES ASSUME Init PROVE Inductive
      OBVIOUS
    <2>1. TypeOK
      BY OneWord DEF Init, TypeOK, NoId
    <2>2. Waiting = {}
      BY DEF Init, Waiting, Range
    <2>3. NoRequest.id = 0
      BY DEF NoRequest, Request, NoId
    <2> QED
      BY <2>1, <2>2, <2>3
         DEF Init, Inductive, Numbered, InTurn, QuitUnseen, OutcomeOnItsLine, AnsweredInOrder
  <1>2. Inductive /\ [Next]_vars => Inductive'
    <2> SUFFICES ASSUME Inductive, [Next]_vars PROVE Inductive'
      OBVIOUS
    <2>1. CASE AddRequest
      BY <2>1, QueueTyped, QueueStep DEF Inductive
    <2>2. CASE TryGetRequest
      BY <2>2, TakeTyped, TakeStep DEF Inductive
    <2> QED
      BY <2>1, <2>2, SubmitStep, EditorStep, SilentStep, ReportStep, NewsStep
         DEF Next, UIStep, ClientStep
  <1> QED
    BY <1>1, <1>2, PTL DEF Spec

(* What a request came to is told once, on the line that asked for it.     *)
THEOREM ToldOnItsLine == Spec => []OutcomeOnItsLine
  BY InductiveInvariant, PTL DEF Inductive

(* Requests are done in the order in which their lines stand.              *)
THEOREM DoneInOrder == Spec => []AnsweredInOrder
  BY InductiveInvariant, PTL DEF Inductive

(* What the user types without an address goes whole to the partner that   *)
(* the prompt shows, if there is no blank in the partner's name.           *)
THEOREM PartnerGetsText == Spec => GoesToPartner
  <1> DEFINE Typed == SubmitInput /\ input[1] \notin Commands \cup {"@"} /\ selectedPartner # <<>>
                          /\ Blank \notin Range(selectedPartner)
                       => pending' = Request("SendMessage", nextRequestId, selectedPartner, input)
  <1>1. Inductive => Typed
    <2> SUFFICES ASSUME TypeOK, SubmitInput, input[1] \notin Commands \cup {"@"},
                        selectedPartner # <<>>, Blank \notin Range(selectedPartner)
                 PROVE  pending' = Request("SendMessage", nextRequestId, selectedPartner, input)
      BY DEF Inductive
    <2>1. HandleMessage(<<"@">> \o selectedPartner \o <<Blank>> \o input) /\ input # <<>>
      BY DEF SubmitInput
    <2> QED
      BY <2>1, AddressedCut DEF TypeOK
  <1> HIDE DEF Typed
  <1>2. Spec => [][Typed]_vars
    BY <1>1, InductiveInvariant, PTL
  <1> QED
    BY <1>2 DEF GoesToPartner, Typed
=============================================================================
