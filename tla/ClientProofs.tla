----------------------------- MODULE ClientProofs -----------------------------
(***************************************************************************)
(* That client and worker stay in step, for any commands and forms and any *)
(* number of lines and polls, whatever the network delays or ends.         *)
(*                                                                         *)
(* InStep is not inductive: it speaks of the prompt only.  Dialogue says,  *)
(* for every phase of the client, which of its lines the worker has        *)
(* handled, what it has sent for them and what it expects next.            *)
(*                                                                         *)
(* What the client was sent is compared with what its lines ask for by     *)
(* recursive functions over the whole history; RepliesInv says what they   *)
(* have reached, and one line more takes them one step further.            *)
(***************************************************************************)
EXTENDS Client, PlacesProofs, SequenceTheorems, TLAPS

UserLines == Commands \cup RegistrationForms \cup LoginForms

DataStates == {"WAITING_REGISTER_DATA", "WAITING_LOGIN_DATA"}

\* Where a worker is that has accepted a data line.
Working == {"insert", "confirm", "find", "answer"}

\* All a worker can send, an image being one item.
ReplyTexts ==
    Prompts
    \cup {"Goodbye!", "Logged out", "image", "Image sent", "Unknown command"}
    \cup {"Registration successful"} \cup LoginAnswers
    \cup {"Registration" \o " failed - " \o RegistrationOutcome(l) : l \in UserLines}
    \cup {"Login" \o " failed - " \o LoginOutcome(l) : l \in UserLines}

WorkerTyped ==
    /\ state \in [Sessions -> ClientStates]
    /\ pc \in [Sessions -> Working \cup {"recv", "closed"}]
    /\ peer \in [Sessions -> BOOLEAN]
    /\ handled \in [Sessions -> Seq(UserLines)]
    /\ replies \in [Sessions -> Seq(ReplyTexts)]

ClientTyped ==
    /\ link \in LinkStates /\ client \in ClientPhases
    /\ attempts \in 0 .. MaxAttempts /\ early \in Nat
    /\ sent \in Seq(UserLines) /\ read \in 0 .. Len(replies[Conn])
    /\ torn \in BOOLEAN /\ (torn = TRUE => read < Len(replies[Conn]))

\* Only a client that has ended is gone, and only a worker that has ended the
\* connection is.
Ends ==
    /\ client \notin {"done", "failed"} => peer[Conn]
    /\ link = "eof" => pc[Conn] = "closed"

HandledInOrder ==
    /\ Len(handled[Conn]) <= Len(sent)
    /\ handled[Conn] = SubSeq(sent, 1, Len(handled[Conn]))

\* The worker waits for a line in one of these states, unless it is gone.
Expecting(states) ==
    pc[Conn] # "closed" => pc[Conn] = "recv" /\ state[Conn] \in states

Answered == Len(handled[Conn]) = Len(sent) /\ Unread = <<>>
UnderWay == Len(handled[Conn]) = Len(sent) - 1 /\ Unread = <<>>

InDialogue ==
    /\ client = "menu" => Answered /\ Expecting({"IDLE"})
    /\ client \in {"reply", "size"} =>
          /\ sent # <<>> /\ sent[Len(sent)] = command
          /\ client = "size" <=> command = Command("get image")
          /\ \/ UnderWay /\ Expecting({"IDLE"})
             \/ /\ Len(handled[Conn]) = Len(sent)
                /\ Unread = CommandReplies(command)
                /\ Expecting({AfterCommand(command)})
    /\ client \in {"registering", "logging_in"} => Answered /\ Expecting(DataStates)
    /\ client = "answer" =>
          \/ UnderWay /\ Expecting(DataStates)
          \/ Answered /\ pc[Conn] \in Working \cup {"closed"}
          \/ /\ Len(handled[Conn]) = Len(sent) /\ Len(Unread) = 1
             /\ Expecting({"IDLE"})
    /\ client = "image_sent" =>
          /\ Len(handled[Conn]) = Len(sent) /\ Unread = <<"Image sent">>
          /\ Expecting({"IDLE"})

\* The server closed the connection and everything it sent was read.
Over == link = "eof" /\ Unread = <<>>

Dialogue ==
    /\ early = 0 /\ link # "reset" => InDialogue \/ Over
    /\ torn = TRUE => early > 0
    /\ client \in {"garbled", "garbled_sent"} => early > 0

ClientInv == WorkerTyped /\ ClientTyped /\ Ends /\ HandledInOrder /\ Dialogue

\* What was sent is an answer to these lines, a whole one if the client is there.
Owed(lines) ==
    /\ Fits(replies[Conn], Due(lines))
    /\ peer[Conn] => FitsWholly(replies[Conn], Due(lines))

Expected(lines) == Expects(lines)[Len(lines)]

\* The data line a worker is at was accepted, and its statement is of its kind.
DataAccepted(line) ==
    /\ pc[Conn] \in {"insert", "confirm"} =>
          state[Conn] = "WAITING_REGISTER_DATA" /\ RegistrationOutcome(line) = "accepted"
    /\ pc[Conn] \in {"find", "answer"} =>
          state[Conn] = "WAITING_LOGIN_DATA" /\ LoginOutcome(line) = "accepted"

\* The lines that are done are answered, and the worker's state is what they
\* ask for; the line in work, if there is one, is data.
RepliesInv ==
    /\ pc[Conn] # "closed" => Owed(Done(Conn)) /\ state[Conn] = Expected(Done(Conn))
    /\ pc[Conn] \in Working =>
          handled[Conn] # <<>> /\ DataAccepted(Last(handled[Conn]))
    /\ pc[Conn] = "closed" => Fits(replies[Conn], Due(handled[Conn]))

-----------------------------------------------------------------------------
(* Commands and replies. *)

LEMMA CommandsDiffer ==
  ASSUME NEW n, NEW m, Command(n) = Command(m)
  PROVE  n = m
BY DEF Command, Field

LEMMA CommandReplyValues ==
  ASSUME NEW line
  PROVE  /\ line = Command("exit") => CommandReplies(line) = <<"Goodbye!">>
         /\ line = Command("register") =>
               CommandReplies(line) = <<"Send email,password,name,surname,note">>
         /\ line = Command("login") => CommandReplies(line) = <<"Send email,password">>
         /\ line = Command("logout") => CommandReplies(line) = <<"Logged out">>
         /\ line = Command("get image") =>
               CommandReplies(line) = <<"image", "Image sent">>
         /\ line \notin {Command("exit"), Command("register"), Command("login"),
                         Command("logout"), Command("get image")} =>
               CommandReplies(line) = <<"Unknown command">>
<1>1. CASE line = Command("exit")
  <2>1. /\ line # Command("register") /\ line # Command("login")
        /\ line # Command("logout") /\ line # Command("get image")
    BY <1>1, CommandsDiffer
  <2>2. CommandReplies(line) = <<"Goodbye!">>
    BY <1>1, <2>1, Zenon DEF CommandReplies
  <2> QED
    BY <1>1, <2>1, <2>2, Zenon
<1>2. CASE line = Command("register")
  <2>1. /\ line # Command("exit") /\ line # Command("login")
        /\ line # Command("logout") /\ line # Command("get image")
    BY <1>2, CommandsDiffer
  <2>2. CommandReplies(line) = <<"Send email,password,name,surname,note">>
    BY <1>2, <2>1, Zenon DEF CommandReplies
  <2> QED
    BY <1>2, <2>1, <2>2, Zenon
<1>3. CASE line = Command("login")
  <2>1. /\ line # Command("exit") /\ line # Command("register")
        /\ line # Command("logout") /\ line # Command("get image")
    BY <1>3, CommandsDiffer
  <2>2. CommandReplies(line) = <<"Send email,password">>
    BY <1>3, <2>1, Zenon DEF CommandReplies
  <2> QED
    BY <1>3, <2>1, <2>2, Zenon
<1>4. CASE line = Command("logout")
  <2>1. /\ line # Command("exit") /\ line # Command("register")
        /\ line # Command("login") /\ line # Command("get image")
    BY <1>4, CommandsDiffer
  <2>2. CommandReplies(line) = <<"Logged out">>
    BY <1>4, <2>1, Zenon DEF CommandReplies
  <2> QED
    BY <1>4, <2>1, <2>2, Zenon
<1>5. CASE line = Command("get image")
  <2>1. /\ line # Command("exit") /\ line # Command("register")
        /\ line # Command("login") /\ line # Command("logout")
    BY <1>5, CommandsDiffer
  <2>2. CommandReplies(line) = <<"image", "Image sent">>
    BY <1>5, <2>1, Zenon DEF CommandReplies
  <2> QED
    BY <1>5, <2>1, <2>2, Zenon
<1>6. CASE line \notin {Command("exit"), Command("register"), Command("login"),
                         Command("logout"), Command("get image")}
  <2>1. CommandReplies(line) = <<"Unknown command">>
    BY <1>6, Zenon DEF CommandReplies
  <2> QED
    BY <1>6, <2>1, Zenon
<1> QED
  BY <1>1, <1>2, <1>3, <1>4, <1>5, <1>6, Zenon

LEMMA CommandReplyTypes ==
  ASSUME NEW line
  PROVE  /\ CommandReplies(line) \in Seq(ReplyTexts)
         /\ line # Command("get image") =>
               \E text \in ReplyTexts : CommandReplies(line) = <<text>>
<1>1. /\ Prompts \subseteq ReplyTexts
      /\ "Send email,password,name,surname,note" \in Prompts
      /\ "Send email,password" \in Prompts
      /\ {"Goodbye!", "Logged out", "image", "Image sent", "Unknown command"}
           \subseteq ReplyTexts
  BY DEF ReplyTexts, Prompts
<1>2. CASE line = Command("get image")
  <2>1. CommandReplies(line) = <<"image", "Image sent">>
    BY <1>2, CommandReplyValues, Zenon
  <2>2. <<"image", "Image sent">> \in Seq(ReplyTexts)
    <3>1. "image" \in ReplyTexts /\ "Image sent" \in ReplyTexts
      BY <1>1
    <3>2. ASSUME NEW S, NEW a \in S, NEW b \in S PROVE <<a, b>> \in Seq(S)
      OBVIOUS
    <3> QED
      BY <3>1, <3>2, Zenon
  <2> QED
    BY <1>2, <2>1, <2>2, Zenon
<1>3. CASE line # Command("get image")
  <2> DEFINE only(t) == CommandReplies(line) = <<t>>
  <2>1. \/ only("Goodbye!") \/ only("Send email,password,name,surname,note")
        \/ only("Send email,password") \/ only("Logged out")
        \/ only("Unknown command")
    BY <1>3, CommandReplyValues, Zenon
  <2>2. PICK text \in ReplyTexts : only(text)
    BY <1>1, <2>1
  <2>3. <<text>> \in Seq(ReplyTexts)
    OBVIOUS
  <2> QED
    BY <1>3, <2>2, <2>3, Zenon
<1> QED
  BY <1>2, <1>3

\* After a prompt, and after nothing else, the worker waits for data.
LEMMA PromptsData ==
  ASSUME NEW line
  PROVE  /\ AfterCommand(line) \in ClientStates
         /\ line \in {Command("register"), Command("login")} =>
               /\ AfterCommand(line) \in DataStates
               /\ CommandReplies(line)[1] \in Prompts
         /\ line \notin {Command("register"), Command("login")} =>
               AfterCommand(line) = "IDLE"
<1>1. Command("register") # Command("login")
  BY CommandsDiffer
<1>2. ASSUME line \in {Command("register"), Command("login")}
      PROVE  CommandReplies(line)[1] \in Prompts
  <2>1. \E text \in Prompts : CommandReplies(line) = <<text>>
    BY <1>2, CommandReplyValues, Zenon DEF Prompts
  <2> QED
    BY <2>1
<1>3. /\ line = Command("register") => AfterCommand(line) = "WAITING_REGISTER_DATA"
      /\ line = Command("login") => AfterCommand(line) = "WAITING_LOGIN_DATA"
      /\ line \notin {Command("register"), Command("login")} =>
            AfterCommand(line) = "IDLE"
  BY <1>1 DEF AfterCommand
<1> QED
  BY <1>2, <1>3 DEF ClientStates, DataStates

-----------------------------------------------------------------------------
(* What is expected and due after the lines of a session. *)

LEMMA ExpectsIs ==
  ASSUME NEW lines \in Seq(UserLines)
  PROVE  /\ \A n \in 0 .. Len(lines) : Expects(lines)[n] \in ClientStates
         /\ Expects(lines)[0] = "IDLE"
<1> DEFINE afters == [i \in DOMAIN lines |-> AfterCommand(lines[i])]
<1>1. afters \in Seq(ClientStates) /\ Len(afters) = Len(lines) /\ "IDLE" \in ClientStates
  <2>1. DOMAIN lines = 1 .. Len(lines) /\ Len(lines) \in Nat
    BY LenProperties
  <2>2. \A i \in DOMAIN lines : AfterCommand(lines[i]) \in ClientStates
    BY PromptsData
  <2> QED
    BY <2>1, <2>2 DEF ClientStates
<1>2. Expects(lines) = Expectations(afters)
  BY DEF Expects
<1> HIDE DEF afters
<1> QED
  BY <1>1, <1>2, ExpectationsIs

LEMMA RepliesType ==
  ASSUME NEW line \in UserLines, NEW expected \in ClientStates
  PROVE  Replies(expected, line) \in Seq(SUBSET ReplyTexts)
<1>1. ASSUME NEW w \in SUBSET ReplyTexts PROVE <<w>> \in Seq(SUBSET ReplyTexts)
  OBVIOUS
<1>2. CASE expected = "IDLE"
  <2> DEFINE r == CommandReplies(line)
  <2>1. r \in Seq(ReplyTexts)
    BY CommandReplyTypes
  <2>2. Replies(expected, line) = [i \in DOMAIN r |-> {r[i]}]
    BY <1>2 DEF Replies
  <2> HIDE DEF r
  <2>3. DOMAIN r = 1 .. Len(r) /\ Len(r) \in Nat /\ \A i \in 1 .. Len(r) : r[i] \in ReplyTexts
    BY <2>1, LenProperties, ElementOfSeq
  <2> QED
    BY <2>2, <2>3
<1>3. CASE expected = "WAITING_REGISTER_DATA"
  <2> DEFINE w == IF RegistrationOutcome(line) = "accepted" THEN {"Registration successful"}
                  ELSE {"Registration" \o " failed - " \o RegistrationOutcome(line)}
  <2>1. w \in SUBSET ReplyTexts
    BY DEF ReplyTexts
  <2>2. Replies(expected, line) = <<w>>
    BY <1>3, Zenon DEF Replies
  <2> HIDE DEF w
  <2> QED
    BY <1>1, <2>1, <2>2
<1>4. CASE expected = "WAITING_LOGIN_DATA"
  <2> DEFINE w == IF LoginOutcome(line) = "accepted" THEN LoginAnswers
                  ELSE {"Login" \o " failed - " \o LoginOutcome(line)}
  <2>1. w \in SUBSET ReplyTexts
    BY DEF ReplyTexts
  <2>2. Replies(expected, line) = <<w>>
    BY <1>4, Zenon DEF Replies
  <2> HIDE DEF w
  <2> QED
    BY <1>1, <2>1, <2>2
<1> QED
  BY <1>2, <1>3, <1>4 DEF ClientStates

\* One line more leaves what was expected and due, and adds what it asks for.
LEMMA OneLineMore ==
  ASSUME NEW lines \in Seq(UserLines), NEW line \in UserLines
  PROVE  LET more == Append(lines, line)
             e == Expects(lines)[Len(lines)]
         IN  /\ more \in Seq(UserLines) /\ Len(more) = Len(lines) + 1
             /\ Front(more) = lines /\ e \in ClientStates
             /\ Expects(more)[Len(more)] =
                   IF e = "IDLE" THEN AfterCommand(line) ELSE "IDLE"
             /\ Due(lines) \in Seq(SUBSET ReplyTexts)
             /\ Replies(e, line) \in Seq(SUBSET ReplyTexts)
             /\ Due(more) = Due(lines) \o Replies(e, line)
<1> DEFINE more == Append(lines, line)
           N == Len(lines)
           e == Expects(lines)[N]
           afters == [i \in DOMAIN lines |-> AfterCommand(lines[i])]
           aftermore == [i \in DOMAIN more |-> AfterCommand(more[i])]
           parts == [i \in DOMAIN lines |-> Replies(Expects(lines)[i - 1], lines[i])]
           partsmore == [i \in DOMAIN more |-> Replies(Expects(more)[i - 1], more[i])]
           P == Seq(SUBSET ReplyTexts)
<1>1. /\ more \in Seq(UserLines) /\ Len(more) = N + 1 /\ N \in Nat
      /\ \A n \in 1 .. N : more[n] = lines[n]
      /\ more[N + 1] = line
      /\ DOMAIN lines = 1 .. N /\ DOMAIN more = 1 .. N + 1
  OBVIOUS
<1>2. Front(more) = lines
  BY <1>1 DEF Front
<1>3. /\ Due(lines) = Joined(parts) /\ Due(more) = Joined(partsmore)
      /\ Expects(lines) = Expectations(afters) /\ Expects(more) = Expectations(aftermore)
  BY DEF Due, Expects
<1> HIDE DEF more
<1>4. /\ afters \in Seq(ClientStates) /\ Len(afters) = N
      /\ aftermore = Append(afters, AfterCommand(line))
      /\ AfterCommand(line) \in ClientStates /\ "IDLE" \in ClientStates
  <2>1. \A l : AfterCommand(l) \in ClientStates
    BY PromptsData
  <2>2. afters \in Seq(ClientStates) /\ Len(afters) = N
    BY <1>1, <2>1
  <2>3. aftermore \in Seq(ClientStates) /\ Len(aftermore) = N + 1
    BY <1>1, <2>1
  <2>4. /\ \A i \in 1 .. N : aftermore[i] = afters[i]
        /\ aftermore[N + 1] = AfterCommand(line)
    BY <1>1
  <2> HIDE DEF afters, aftermore, N
  <2> QED
    BY <2>1, <2>2, <2>3, <2>4, AppendIs DEF ClientStates
<1> HIDE DEF afters, aftermore
<1>5. /\ \A n \in 0 .. N : Expects(more)[n] = Expects(lines)[n]
      /\ Expects(more)[N + 1] = IF e = "IDLE" THEN AfterCommand(line) ELSE "IDLE"
  BY <1>3, <1>4, ExpectationsGrow
<1>6. /\ \A n \in 0 .. N : Expects(lines)[n] \in ClientStates
      /\ e \in ClientStates
  BY <1>1, ExpectsIs
<1>7. Replies(e, line) \in P
  BY <1>6, RepliesType
<1>8. parts \in Seq(P) /\ partsmore = Append(parts, Replies(e, line))
  <2>1. ASSUME NEW n \in 1 .. N PROVE Replies(Expects(lines)[n - 1], lines[n]) \in P
    <3>1. n - 1 \in 0 .. N /\ lines[n] \in UserLines
      BY <1>1, ElementOfSeq
    <3> QED
      BY <1>6, <3>1, RepliesType
  <2>2. /\ \A n \in 1 .. N : partsmore[n] = parts[n]
        /\ partsmore[N + 1] = Replies(e, line)
    <3>1. ASSUME NEW n \in 1 .. N PROVE partsmore[n] = parts[n]
      <4>1. n - 1 \in 0 .. N /\ n \in 1 .. N + 1
        BY <1>1
      <4> QED
        BY <1>1, <1>5, <4>1
    <3>2. N + 1 \in 1 .. N + 1 /\ (N + 1) - 1 = N /\ N \in 0 .. N
      BY <1>1
    <3>3. partsmore[N + 1] = Replies(e, line)
      BY <1>1, <1>5, <3>2
    <3> QED
      BY <3>1, <3>3
  <2> HIDE DEF P, N
  <2>3. parts \in Seq(P) /\ Len(parts) = N
    BY <1>1, <2>1
  <2>4. partsmore \in Seq(P) /\ Len(partsmore) = N + 1
    <3>1. ASSUME NEW n \in 1 .. N + 1 PROVE partsmore[n] \in P
      <4>1. CASE n = N + 1
        BY <1>7, <2>2, <4>1
      <4>2. CASE n # N + 1
        <5>1. n \in 1 .. N
          BY <1>1, <4>2
        <5>2. partsmore[n] = Replies(Expects(lines)[n - 1], lines[n])
          BY <1>1, <2>2, <5>1
        <5> QED
          BY <2>1, <5>1, <5>2
      <4> QED
        BY <4>1, <4>2
    <3>2. \A n \in 1 .. N + 1 : Replies(Expects(more)[n - 1], more[n]) \in P
      BY <1>1, <3>1
    <3> QED
      BY <1>1, <3>2
  <2> HIDE DEF parts, partsmore, e
  <2> QED
    BY <1>7, <2>2, <2>3, <2>4, AppendIs
<1> HIDE DEF parts, partsmore, e
<1>9. Due(lines) \in P /\ Due(more) = Due(lines) \o Replies(e, line)
  BY <1>3, <1>7, <1>8, JoinedGrow
<1> QED
  BY <1>1, <1>2, <1>5, <1>6, <1>7, <1>9 DEF more, e

LEMMA NothingDue == Expects(<<>>)[0] = "IDLE" /\ Due(<<>>) = <<>>
<1> DEFINE none == [i \in DOMAIN <<>> |-> Replies(Expects(<<>>)[i - 1], <<>>[i])]
<1>1. none = <<>>
  OBVIOUS
<1>2. Due(<<>>) = Joined(none)
  BY DEF Due
<1>3. <<>> \in Seq(UserLines)
  OBVIOUS
<1> QED
  BY <1>1, <1>2, <1>3, NothingJoined, ExpectsIs

-----------------------------------------------------------------------------
(* What the worker does, seen from the connection. *)

NextLine == sent[Len(handled[Conn]) + 1]

TakesLine ==
    /\ pc[Conn] = "recv" /\ Len(handled[Conn]) < Len(sent)
    /\ handled' = [handled EXCEPT ![Conn] = Append(@, NextLine)]

Moves(newstate, newpc) ==
    /\ state' = [state EXCEPT ![Conn] = newstate]
    /\ pc' = [pc EXCEPT ![Conn] = newpc]

AnswersCommand ==
    /\ TakesLine /\ state[Conn] = "IDLE"
    /\ Send(Conn, CommandReplies(NextLine))
    /\ \E newpc \in {"recv", "closed"} : Moves(AfterCommand(NextLine), newpc)

RefusesData ==
    /\ TakesLine /\ state[Conn] \in DataStates
    /\ \E text \in ReplyTexts : Send(Conn, <<text>>)
    /\ Moves("IDLE", "recv")

WorksOnData ==
    /\ \/ TakesLine /\ state[Conn] \in DataStates
       \/ pc[Conn] \in Working /\ UNCHANGED handled
    /\ \E newpc \in Working : Moves(state[Conn], newpc)
    /\ UNCHANGED replies

AnswersData ==
    /\ pc[Conn] \in Working /\ UNCHANGED handled
    /\ \E text \in ReplyTexts : Send(Conn, <<text>>)
    /\ Moves("IDLE", "recv")

LEMMA ServeLineEffect ==
  ASSUME WorkerTyped, ClientTyped, ServeLine
  PROVE  (AnswersCommand \/ RefusesData \/ WorksOnData) /\ UNCHANGED peer
<1> USE ClientConstants DEF WorkerTyped, ClientTyped, TakesLine, Take, Goto, Moves
<1>1. NextLine \in UserLines
  BY DEF ServeLine, NextLine
<1>2. CASE HandleCommand(Conn, NextLine)
  <2>1. AnswersCommand
    BY <1>2 DEF HandleCommand, AnswersCommand, ServeLine
  <2> QED
    BY <1>2, <2>1 DEF HandleCommand
<1>3. ASSUME NEW waiting \in DataStates, NEW verb, NEW outcome,
             RejectData(Conn, NextLine, waiting, verb, outcome),
             verb \o " failed - " \o outcome \in ReplyTexts
      PROVE  RefusesData /\ UNCHANGED peer
  <2>1. Moves("IDLE", "recv")
    BY <1>3 DEF RejectData
  <2>2. TakesLine /\ state[Conn] \in DataStates
    BY <1>3 DEF RejectData, ServeLine
  <2>3. Send(Conn, <<verb \o " failed - " \o outcome>>) /\ UNCHANGED peer
    BY <1>3 DEF RejectData
  <2> QED
    BY <1>3, <2>1, <2>2, <2>3 DEF RefusesData
<1>4. ASSUME NEW waiting \in DataStates, NEW outcome, NEW newpc \in Working,
             AcceptData(Conn, NextLine, waiting, outcome, newpc)
      PROVE  WorksOnData /\ UNCHANGED peer
  <2>1. Moves(state[Conn], newpc)
    BY <1>4 DEF AcceptData
  <2>2. TakesLine /\ state[Conn] \in DataStates
    BY <1>4 DEF AcceptData, ServeLine
  <2> QED
    BY <1>4, <2>1, <2>2 DEF WorksOnData, AcceptData
<1>5. CASE HandleRegistrationData(Conn, NextLine)
  <2>1. "Registration" \o " failed - " \o RegistrationOutcome(NextLine) \in ReplyTexts
    BY <1>1 DEF ReplyTexts
  <2>2. "WAITING_REGISTER_DATA" \in DataStates /\ "insert" \in Working
    BY DEF DataStates, Working
  <2> QED
    BY <1>3, <1>4, <1>5, <2>1, <2>2 DEF HandleRegistrationData
<1>6. CASE HandleLoginData(Conn, NextLine)
  <2>1. "Login" \o " failed - " \o LoginOutcome(NextLine) \in ReplyTexts
    BY <1>1 DEF ReplyTexts
  <2>2. "WAITING_LOGIN_DATA" \in DataStates /\ "find" \in Working
    BY DEF DataStates, Working
  <2> QED
    BY <1>3, <1>4, <1>6, <2>1, <2>2 DEF HandleLoginData
<1> QED
  BY <1>2, <1>5, <1>6 DEF ServeLine, NextLine

\* EndSession needs a client that is gone.
LEMMA WorkerEffect ==
  ASSUME WorkerTyped, ClientTyped, WorkerActs
  PROVE  /\ \/ AnswersCommand \/ RefusesData \/ WorksOnData \/ AnswersData
            \/ EndSession(Conn)
         /\ UNCHANGED peer /\ UNCHANGED clientVars
<1> USE ClientConstants DEF WorkerTyped, Goto, Moves, Working
<1>1. CASE ServeLine
  BY <1>1, ServeLineEffect DEF WorkerActs
<1>2. CASE StoreUser(Conn) \/ LookUpUser(Conn)
  BY <1>2 DEF StoreUser, LookUpUser, WorksOnData, WorkerActs
<1>3. CASE ConfirmRegistration(Conn)
  <2>1. "Registration successful" \in ReplyTexts
    BY DEF ReplyTexts
  <2> QED
    BY <1>3, <2>1 DEF ConfirmRegistration, Conclude, AnswersData, WorkerActs
<1>4. CASE AnswerLogin(Conn)
  <2>1. "Login successful" \in ReplyTexts /\ "Login failed - user not found" \in ReplyTexts
    BY DEF ReplyTexts, LoginAnswers
  <2> QED
    BY <1>4, <2>1 DEF AnswerLogin, Conclude, AnswersData, WorkerActs
<1>5. CASE EndSession(Conn)
  BY <1>5 DEF EndSession, WorkerActs
<1> QED
  BY <1>1, <1>2, <1>3, <1>4, <1>5 DEF WorkerActs

LEMMA WorkerKeepsTyped ==
  ASSUME WorkerTyped, ClientTyped,
         \/ AnswersCommand \/ RefusesData \/ WorksOnData \/ AnswersData
         \/ EndSession(Conn) \/ ServerEnds,
         UNCHANGED peer
  PROVE  /\ WorkerTyped'
         /\ \A i \in 1 .. Len(replies[Conn]) : replies'[Conn][i] = replies[Conn][i]
         /\ Len(replies'[Conn]) >= Len(replies[Conn])
<1> USE ClientConstants
<1>1. Len(handled[Conn]) < Len(sent) => NextLine \in UserLines
  BY DEF WorkerTyped, ClientTyped, NextLine
<1>2. ASSUME NEW texts \in Seq(ReplyTexts), Send(Conn, texts)
      PROVE  /\ replies' \in [Sessions -> Seq(ReplyTexts)]
             /\ \A i \in 1 .. Len(replies[Conn]) : replies'[Conn][i] = replies[Conn][i]
             /\ Len(replies'[Conn]) >= Len(replies[Conn])
  BY <1>2 DEF Send, WorkerTyped
<1>3. ASSUME TakesLine PROVE handled' \in [Sessions -> Seq(UserLines)]
  BY <1>1, <1>3 DEF TakesLine, WorkerTyped
<1>4. ASSUME NEW s \in ClientStates, NEW p \in Working \cup {"recv", "closed"},
             Moves(s, p)
      PROVE  /\ state' \in [Sessions -> ClientStates]
             /\ pc' \in [Sessions -> Working \cup {"recv", "closed"}]
  BY <1>4 DEF Moves, WorkerTyped
<1>5. "IDLE" \in ClientStates /\ state[Conn] \in ClientStates
  BY DEF ClientStates, WorkerTyped
<1>6. CASE AnswersCommand
  BY <1>2, <1>3, <1>4, <1>6, CommandReplyTypes, PromptsData
  DEF AnswersCommand, WorkerTyped
<1>7. CASE RefusesData
  <2>1. PICK text \in ReplyTexts : Send(Conn, <<text>>)
    BY <1>7 DEF RefusesData
  <2>2. <<text>> \in Seq(ReplyTexts)
    OBVIOUS
  <2> QED
    BY <1>2, <1>3, <1>4, <1>5, <1>7, <2>1, <2>2 DEF RefusesData, WorkerTyped
<1>8. CASE WorksOnData
  BY <1>3, <1>4, <1>5, <1>8 DEF WorksOnData, WorkerTyped
<1>9. CASE AnswersData
  <2>1. PICK text \in ReplyTexts : Send(Conn, <<text>>)
    BY <1>9 DEF AnswersData
  <2>2. <<text>> \in Seq(ReplyTexts)
    OBVIOUS
  <2> QED
    BY <1>2, <1>4, <1>5, <1>9, <2>1, <2>2 DEF AnswersData, WorkerTyped
<1>10. CASE EndSession(Conn) \/ ServerEnds
  BY <1>10 DEF EndSession, ServerEnds, Goto, WorkerTyped
<1> QED
  BY <1>6, <1>7, <1>8, <1>9, <1>10

-----------------------------------------------------------------------------
(* Types and order. *)

\* What stays when neither the worker nor its connection has moved.
LEMMA HandledStays ==
  ASSUME WorkerTyped, ClientTyped, HandledInOrder, UNCHANGED vars,
         sent' = sent \/ \E line \in UserLines : sent' = Append(sent, line)
  PROVE  WorkerTyped' /\ HandledInOrder' /\ sent' \in Seq(UserLines)
<1>1. WorkerTyped' /\ UNCHANGED handled
  BY DEF vars, sessionVars, WorkerTyped
<1>2. handled[Conn] \in Seq(UserLines)
  BY ClientConstants DEF WorkerTyped
<1>3. CASE sent' = sent
  BY <1>1, <1>3 DEF HandledInOrder, ClientTyped
<1>4. ASSUME NEW line \in UserLines, sent' = Append(sent, line)
      PROVE  HandledInOrder' /\ sent' \in Seq(UserLines)
  <2>1. SubSeq(Append(sent, line), 1, Len(handled[Conn]))
          = SubSeq(sent, 1, Len(handled[Conn]))
    BY <1>2 DEF HandledInOrder, ClientTyped
  <2> QED
    BY <1>1, <1>2, <1>4, <2>1 DEF HandledInOrder, ClientTyped
<1> QED
  BY <1>1, <1>3, <1>4

LEMMA HandledGrows ==
  ASSUME WorkerTyped, ClientTyped, HandledInOrder, UNCHANGED sent,
         TakesLine \/ UNCHANGED handled
  PROVE  HandledInOrder'
<1>1. handled[Conn] \in Seq(UserLines) /\ Conn \in Sessions
  BY ClientConstants DEF WorkerTyped
<1>2. CASE TakesLine
  <2>1. handled'[Conn] = Append(handled[Conn], sent[Len(handled[Conn]) + 1])
    BY <1>1, <1>2 DEF TakesLine, NextLine, WorkerTyped
  <2>2. Len(handled[Conn]) < Len(sent)
    BY <1>2 DEF TakesLine
  <2>3. Append(SubSeq(sent, 1, Len(handled[Conn])), sent[Len(handled[Conn]) + 1])
          = SubSeq(sent, 1, Len(handled[Conn]) + 1)
    BY <1>1, <2>2 DEF ClientTyped
  <2> QED
    BY <1>1, <2>1, <2>2, <2>3 DEF HandledInOrder, ClientTyped
<1>3. CASE UNCHANGED handled
  BY <1>3 DEF HandledInOrder
<1> QED
  BY <1>2, <1>3

LEMMA WorkerBasics ==
  ASSUME ClientInv, WorkerActs \/ ServerEnds
  PROVE  WorkerTyped' /\ ClientTyped' /\ Ends' /\ HandledInOrder'
<1> USE ClientConstants DEF ClientInv
<1>1. /\ UNCHANGED clientVars /\ UNCHANGED peer
      /\ \/ AnswersCommand \/ RefusesData \/ WorksOnData \/ AnswersData
         \/ EndSession(Conn) \/ ServerEnds
  BY WorkerEffect DEF ServerEnds
<1>2. /\ WorkerTyped'
      /\ Len(replies'[Conn]) >= Len(replies[Conn])
  BY <1>1, WorkerKeepsTyped
<1>3. replies[Conn] \in Seq(ReplyTexts) /\ replies'[Conn] \in Seq(ReplyTexts)
  BY <1>2 DEF WorkerTyped
<1>4. ClientTyped'
  BY <1>1, <1>2, <1>3 DEF ClientTyped, clientVars
<1>5. HandledInOrder'
  BY <1>1, HandledGrows
  DEF AnswersCommand, RefusesData, WorksOnData, AnswersData, EndSession, ServerEnds,
      clientVars
<1>6. link = "eof" => pc'[Conn] = "closed"
  BY <1>1 DEF Ends, AnswersCommand, RefusesData, WorksOnData, AnswersData, TakesLine,
              Working, EndSession, ServerEnds, Goto, WorkerTyped
<1>7. Ends'
  BY <1>1, <1>6 DEF Ends, clientVars
<1> QED
  BY <1>2, <1>4, <1>5, <1>7

LEMMA SendBasics ==
  ASSUME ClientInv, NEW line \in UserLines, NEW next \in ClientPhases \ {"done", "failed"},
         client \notin {"done", "failed"}, SendMessage(line, next)
  PROVE  WorkerTyped' /\ ClientTyped' /\ Ends' /\ HandledInOrder'
<1> USE ClientConstants DEF ClientInv
<1>1. /\ UNCHANGED vars
      /\ sent' = sent \/ \E l \in UserLines : sent' = Append(sent, l)
  BY DEF SendMessage
<1>2. WorkerTyped' /\ HandledInOrder' /\ sent' \in Seq(UserLines)
  BY <1>1, HandledStays
<1>3. UNCHANGED <<peer, pc, replies, link, read, torn, early>>
  BY <1>1 DEF SendMessage, vars, sessionVars
<1>4. /\ client' \in {next, "failed"}
      /\ attempts' \in {0, attempts}
  BY DEF SendMessage
<1>5. ClientTyped'
  <2>1. client' \in ClientPhases
    BY <1>4 DEF ClientPhases
  <2>2. attempts' \in 0 .. MaxAttempts
    BY <1>4 DEF ClientTyped
  <2>3. /\ read' \in 0 .. Len(replies'[Conn]) /\ link' \in LinkStates /\ early' \in Nat
        /\ torn' \in BOOLEAN /\ (torn' => read' < Len(replies'[Conn]))
    BY <1>3 DEF ClientTyped
  <2> QED
    BY <1>2, <2>1, <2>2, <2>3 DEF ClientTyped
<1>6. Ends'
  BY <1>3, <1>4 DEF Ends
<1> QED
  BY <1>2, <1>5, <1>6

\* A step of the client or the network after which its lines are the same.
LEMMA QuietBasics ==
  ASSUME ClientInv, UNCHANGED <<vars, sent>>, client' \in ClientPhases,
         link' \in LinkStates, attempts' \in 0 .. MaxAttempts, early' \in Nat,
         read' \in 0 .. Len(replies[Conn]), torn' \in BOOLEAN,
         torn' => read' < Len(replies[Conn]),
         client \in {"done", "failed"} => client' = client,
         link' = "eof" => pc[Conn] = "closed"
  PROVE  WorkerTyped' /\ ClientTyped' /\ Ends' /\ HandledInOrder'
<1>1. WorkerTyped' /\ HandledInOrder'
  BY HandledStays DEF ClientInv
<1>2. UNCHANGED <<peer, pc, replies, sent>>
  BY DEF vars, sessionVars
<1>3. ClientTyped'
  BY <1>2 DEF ClientInv, ClientTyped
<1>4. Ends'
  BY <1>2 DEF ClientInv, Ends
<1> QED
  BY <1>1, <1>3, <1>4

-----------------------------------------------------------------------------
(* What the client has not read. *)

LEMMA UnreadFacts ==
  ASSUME WorkerTyped, ClientTyped
  PROVE  /\ replies[Conn] \in Seq(ReplyTexts)
         /\ Unread \in Seq(ReplyTexts)
         /\ read \in 0 .. Len(replies[Conn])
         /\ Len(Unread) = Len(replies[Conn]) - read
BY ClientConstants DEF WorkerTyped, ClientTyped, Unread

LEMMA RestOfConcat ==
  ASSUME NEW S, NEW r \in Seq(S), NEW t \in Seq(S)
  PROVE  SubSeq(r \o t, Len(r) + 1, Len(r \o t)) = t
<1> DEFINE u == SubSeq(r \o t, Len(r) + 1, Len(r \o t))
<1>1. u \in Seq(S) /\ Len(u) = Len(t) /\ \A i \in 1 .. Len(t) : u[i] = t[i]
  OBVIOUS
<1> QED
  BY <1>1, SeqEqual

LEMMA UnreadGrows ==
  ASSUME WorkerTyped, ClientTyped, peer[Conn], NEW texts \in Seq(ReplyTexts),
         Send(Conn, texts), UNCHANGED read
  PROVE  /\ Unread = <<>> => Unread' = texts
         /\ Len(Unread') = Len(Unread) + Len(texts)
<1>1. replies[Conn] \in Seq(ReplyTexts) /\ Conn \in Sessions
  BY ClientConstants, UnreadFacts
<1>2. replies'[Conn] = replies[Conn] \o texts
  BY <1>1 DEF Send, WorkerTyped
<1>3. Unread' = SubSeq(replies[Conn] \o texts, read + 1, Len(replies[Conn] \o texts))
  BY <1>2 DEF Unread
<1>4. ASSUME Unread = <<>> PROVE Unread' = texts
  <2>1. read = Len(replies[Conn])
    BY <1>4, UnreadFacts
  <2> QED
    BY <1>1, <1>3, <1>4, <2>1, RestOfConcat
<1>5. Len(Unread') = Len(Unread) + Len(texts)
  BY <1>1, <1>3, UnreadFacts
<1> QED
  BY <1>4, <1>5

LEMMA UnreadShrinks ==
  ASSUME WorkerTyped, ClientTyped, UNCHANGED replies, NEW n \in 0 .. Len(Unread),
         read' = read + n
  PROVE  /\ read' \in 0 .. Len(replies[Conn])
         /\ Unread' = SubSeq(Unread, n + 1, Len(Unread))
<1>1. replies[Conn] \in Seq(ReplyTexts) /\ Len(Unread) = Len(replies[Conn]) - read
  BY UnreadFacts
<1>2. Unread' = SubSeq(replies[Conn], read + n + 1, Len(replies[Conn]))
  BY DEF Unread
<1> QED
  BY <1>1, <1>2 DEF ClientTyped, Unread

-----------------------------------------------------------------------------
(* The worker's steps in the dialogue. *)

LEMMA NoWorkerOver ==
  ASSUME ClientInv, Over
  PROVE  ~AnswersCommand /\ ~RefusesData /\ ~WorksOnData /\ ~AnswersData
         /\ ~EndSession(Conn)
BY DEF ClientInv, Ends, Over, AnswersCommand, RefusesData, WorksOnData, AnswersData,
       TakesLine, Working, EndSession

LEMMA WorkerMoves ==
  ASSUME WorkerTyped, NEW s, NEW p, Moves(s, p)
  PROVE  state'[Conn] = s /\ pc'[Conn] = p
BY ClientConstants DEF WorkerTyped, Moves

LEMMA LineTaken ==
  ASSUME WorkerTyped, ClientTyped, HandledInOrder, TakesLine
  PROVE  /\ Len(handled'[Conn]) = Len(handled[Conn]) + 1
         /\ Len(handled[Conn]) = Len(sent) - 1 => NextLine = sent[Len(sent)]
<1>1. handled[Conn] \in Seq(UserLines) /\ Conn \in Sessions
  BY ClientConstants DEF WorkerTyped
<1>2. handled'[Conn] = Append(handled[Conn], NextLine)
  BY <1>1 DEF TakesLine, WorkerTyped
<1> QED
  BY <1>1, <1>2 DEF NextLine, ClientTyped

LEMMA CommandAnswered ==
  ASSUME ClientInv, InDialogue, AnswersCommand, UNCHANGED clientVars,
         client \notin {"done", "failed"}, client \notin {"garbled", "garbled_sent"}
  PROVE  InDialogue'
<1> USE DEF ClientInv
<1>1. /\ pc[Conn] = "recv" /\ state[Conn] = "IDLE" /\ Len(handled[Conn]) < Len(sent)
      /\ peer[Conn]
  BY DEF AnswersCommand, TakesLine, Ends
<1>2. client \in {"reply", "size"} /\ UnderWay
  <2>1. client \in ClientPhases
    BY DEF ClientTyped
  <2>2. ~(Len(handled[Conn]) = Len(sent))
    BY <1>1 DEF ClientTyped
  <2>3. ~Expecting(DataStates) /\ ~Answered
    BY <1>1, <2>2 DEF Expecting, DataStates, Answered
  <2> QED
    BY <2>1, <2>2, <2>3 DEF InDialogue, ClientPhases
<1>3. sent # <<>> /\ sent[Len(sent)] = command
      /\ (client = "size" <=> command = Command("get image"))
  BY <1>2 DEF InDialogue
<1>4. NextLine = command /\ Len(handled'[Conn]) = Len(sent)
  <2>1. Len(handled[Conn]) = Len(sent) - 1 /\ TakesLine /\ Len(sent) \in Nat
    BY <1>2 DEF AnswersCommand, UnderWay, ClientTyped
  <2>2. /\ Len(handled'[Conn]) = Len(handled[Conn]) + 1
        /\ Len(handled[Conn]) = Len(sent) - 1 => NextLine = sent[Len(sent)]
    BY <2>1, LineTaken
  <2>3. NextLine = command
    BY <1>3, <2>1, <2>2, Zenon
  <2>4. Len(handled'[Conn]) = Len(sent)
    BY <2>1, <2>2
  <2> QED
    BY <2>3, <2>4
<1>5. Send(Conn, CommandReplies(command))
  BY <1>4 DEF AnswersCommand
<1>6. Unread' = CommandReplies(command)
  BY <1>1, <1>2, <1>5, UnreadGrows, CommandReplyTypes DEF UnderWay, clientVars
<1>7. Expecting({AfterCommand(command)})'
  <2>1. PICK p \in {"recv", "closed"} : Moves(AfterCommand(command), p)
    BY <1>4 DEF AnswersCommand
  <2> QED
    BY <2>1, WorkerMoves DEF Expecting, clientVars
<1> QED
  BY <1>2, <1>3, <1>4, <1>6, <1>7 DEF InDialogue, clientVars

LEMMA DataAnswered ==
  ASSUME ClientInv, InDialogue, UNCHANGED clientVars,
         RefusesData \/ WorksOnData \/ AnswersData,
         client \notin {"done", "failed"}, client \notin {"garbled", "garbled_sent"}
  PROVE  InDialogue'
<1> USE DEF ClientInv
<1>0. client \in ClientPhases /\ peer[Conn]
  BY DEF ClientTyped, Ends
<1>1. ASSUME TakesLine, state[Conn] \in DataStates
      PROVE  client = "answer" /\ UnderWay /\ Len(handled'[Conn]) = Len(sent)
  <2>1. /\ pc[Conn] = "recv" /\ state[Conn] # "IDLE"
        /\ Len(handled[Conn]) < Len(sent)
    BY <1>1 DEF TakesLine, DataStates
  <2>2. ~(Len(handled[Conn]) = Len(sent))
    BY <2>1 DEF ClientTyped
  <2>3. ~Expecting({"IDLE"}) /\ ~Answered
    BY <2>1, <2>2 DEF Expecting, Answered
  <2>4. client = "answer" /\ UnderWay
    BY <1>0, <2>2, <2>3 DEF InDialogue, ClientPhases
  <2> QED
    BY <1>1, <2>4, LineTaken DEF UnderWay
<1>2. ASSUME pc[Conn] \in Working
      PROVE  client = "answer" /\ Answered
  <2>1. \A S : ~Expecting(S)
    BY <1>2 DEF Working, Expecting
  <2> QED
    BY <1>0, <2>1 DEF InDialogue, ClientPhases
<1>3. ASSUME NEW text \in ReplyTexts, Send(Conn, <<text>>), Unread = <<>>
      PROVE  Len(Unread') = 1
  <2>1. <<text>> \in Seq(ReplyTexts) /\ Len(<<text>>) = 1 /\ UNCHANGED read
    BY DEF clientVars
  <2>2. Len(Unread) = 0
    BY <1>3
  <2> QED
    BY <1>0, <1>3, <2>1, <2>2, UnreadGrows
<1>4. UNCHANGED <<client, sent, read, command>>
  BY DEF clientVars
<1>5. CASE RefusesData
  <2>1. client = "answer" /\ UnderWay /\ Len(handled'[Conn]) = Len(sent)
    BY <1>1, <1>5 DEF RefusesData
  <2>2. Len(Unread') = 1
    BY <1>3, <1>5, <2>1 DEF RefusesData, UnderWay
  <2>3. Expecting({"IDLE"})'
    BY <1>5, WorkerMoves DEF RefusesData, Expecting
  <2> QED
    BY <1>4, <2>1, <2>2, <2>3 DEF InDialogue
<1>6. CASE WorksOnData
  <2>1. PICK p \in Working : Moves(state[Conn], p)
    BY <1>6 DEF WorksOnData
  <2>2. pc'[Conn] \in Working
    BY <2>1, WorkerMoves
  <2>3. client = "answer" /\ Unread = <<>> /\ Len(handled'[Conn]) = Len(sent)
    BY <1>1, <1>2, <1>6 DEF WorksOnData, UnderWay, Answered
  <2>4. Unread' = <<>>
    BY <1>4, <1>6, <2>3 DEF WorksOnData, Unread
  <2> QED
    BY <1>4, <2>2, <2>3, <2>4 DEF InDialogue, Answered
<1>7. CASE AnswersData
  <2>1. client = "answer" /\ Answered /\ Len(handled'[Conn]) = Len(sent)
    BY <1>2, <1>7 DEF AnswersData, Answered
  <2>2. Len(Unread') = 1
    BY <1>3, <1>7, <2>1 DEF AnswersData, Answered
  <2>3. Expecting({"IDLE"})'
    BY <1>7, WorkerMoves DEF AnswersData, Expecting
  <2> QED
    BY <1>4, <2>1, <2>2, <2>3 DEF InDialogue
<1> QED
  BY <1>5, <1>6, <1>7

LEMMA DialogueEnds ==
  ASSUME ClientInv, InDialogue, ServerEnds
  PROVE  InDialogue'
<1>1. pc'[Conn] = "closed"
  BY ClientConstants DEF ServerEnds, Goto, ClientInv, WorkerTyped
<1>2. \A S : Expecting(S)'
  BY <1>1 DEF Expecting
<1>3. UNCHANGED <<handled, sent, client, command, replies, read>>
  BY DEF ServerEnds, clientVars
<1>4. /\ UNCHANGED Unread /\ UNCHANGED Answered /\ UNCHANGED UnderWay
  BY <1>3 DEF Unread, Answered, UnderWay
<1> QED
  BY <1>1, <1>2, <1>3, <1>4 DEF InDialogue

LEMMA WorkerDialogue ==
  ASSUME ClientInv, WorkerActs \/ ServerEnds
  PROVE  Dialogue'
<1>1. UNCHANGED <<client, link, torn, early, read>> /\ UNCHANGED clientVars
  BY WorkerEffect DEF ClientInv, ServerEnds, clientVars
<1>2. SUFFICES ASSUME early = 0, link # "reset", InDialogue \/ Over
               PROVE  InDialogue' \/ Over'
  BY <1>1 DEF ClientInv, Dialogue
<1>3. client \notin {"garbled", "garbled_sent"}
  BY <1>2 DEF ClientInv, Dialogue
<1>4. CASE ServerEnds
  BY <1>1, <1>2, <1>4, DialogueEnds DEF Over, ServerEnds, Unread
<1>5. CASE WorkerActs
  <2>1. InDialogue
    BY <1>2, <1>5, NoWorkerOver, WorkerEffect DEF ClientInv
  <2>2. CASE client \in {"done", "failed"}
    BY <1>1, <2>2 DEF InDialogue
  <2>3. CASE client \notin {"done", "failed"}
    <3>1. ~EndSession(Conn)
      BY <2>3 DEF EndSession, ClientInv, Ends
    <3> QED
      BY <1>1, <1>3, <1>5, <2>1, <2>3, <3>1, WorkerEffect, CommandAnswered, DataAnswered
      DEF ClientInv
  <2> QED
    BY <2>2, <2>3
<1> QED
  BY <1>4, <1>5

-----------------------------------------------------------------------------
(* The client's steps and the network's. *)

\* Nothing on the side of the worker changes.
LEMMA WorkerStays ==
  ASSUME UNCHANGED vars
  PROVE  /\ UNCHANGED <<handled, replies, pc, state, peer>>
         /\ \A S : Expecting(S) => Expecting(S)'
BY DEF vars, sessionVars, Expecting

LEMMA SendKeeps ==
  ASSUME ClientInv,
         \/ \E line \in Commands : TypeCommand(line)
         \/ \E line \in RegistrationForms \cup LoginForms : FillIn(line)
  PROVE  ClientInv'
<1> USE DEF ClientInv
<1>1. PICK line \in UserLines, next \in ClientPhases :
         /\ SendMessage(line, next)
         /\ \/ client = "menu" /\ TypeCommand(line)
               /\ next = (IF line = Command("get image") THEN "size" ELSE "reply")
            \/ /\ client \in {"registering", "logging_in"} /\ FillIn(line)
               /\ next = "answer"
  <2>1. ASSUME NEW line \in Commands, TypeCommand(line)
        PROVE  \E next \in ClientPhases :
                  /\ SendMessage(line, next) /\ client = "menu"
                  /\ next = (IF line = Command("get image") THEN "size" ELSE "reply")
    BY <2>1 DEF TypeCommand, ClientPhases
  <2>2. ASSUME NEW line \in RegistrationForms \cup LoginForms, FillIn(line)
        PROVE  /\ SendMessage(line, "answer") /\ "answer" \in ClientPhases
               /\ client \in {"registering", "logging_in"}
    BY <2>2 DEF FillIn, ClientPhases
  <2> QED
    BY <2>1, <2>2 DEF UserLines
<1>2. next \in {"size", "reply", "answer"} /\ next \notin {"done", "failed"}
  BY <1>1
<1>3. WorkerTyped' /\ ClientTyped' /\ Ends' /\ HandledInOrder'
  BY <1>1, <1>2, SendBasics
<1>4. UNCHANGED <<link, read, torn, early>> /\ UNCHANGED vars
  BY <1>1 DEF SendMessage
<1>5. UNCHANGED <<handled, replies, pc, state, peer>> /\ UNCHANGED Unread
  BY <1>4, WorkerStays DEF Unread
<1>6. client' \notin {"garbled", "garbled_sent"}
  BY <1>1, <1>2 DEF SendMessage
<1>7. ASSUME early = 0, link # "reset", InDialogue
      PROVE  InDialogue'
  <2>1. CASE client' = "failed"
    BY <2>1 DEF InDialogue
  <2>2. CASE client' # "failed"
    <3>1. sent' = Append(sent, line) /\ client' = next
      BY <1>1, <2>2 DEF SendMessage
    <3>2. /\ sent' # <<>> /\ sent'[Len(sent')] = line
          /\ Len(sent') = Len(sent) + 1 /\ Len(sent) \in Nat
      BY <3>1 DEF ClientTyped
    <3>3. CASE client = "menu"
      <4>1. Answered /\ Expecting({"IDLE"})
        BY <1>7, <3>3 DEF InDialogue
      <4>2. UnderWay' /\ Expecting({"IDLE"})'
        BY <1>4, <1>5, <3>2, <4>1, WorkerStays DEF Answered, UnderWay
      <4>3. command' = line /\ (client' = "size" <=> line = Command("get image"))
        BY <1>1, <3>1, <3>3 DEF TypeCommand
      <4> QED
        BY <1>1, <3>1, <3>2, <3>3, <4>2, <4>3 DEF InDialogue
    <3>4. CASE client \in {"registering", "logging_in"}
      <4>1. Answered /\ Expecting(DataStates)
        BY <1>7, <3>4 DEF InDialogue
      <4>2. UnderWay' /\ Expecting(DataStates)'
        BY <1>4, <1>5, <3>2, <4>1, WorkerStays DEF Answered, UnderWay
      <4> QED
        BY <1>1, <3>1, <3>4, <4>2 DEF InDialogue
    <3> QED
      BY <1>1, <3>3, <3>4
  <2> QED
    BY <2>1, <2>2
<1>8. Over => Over'
  BY <1>4, <1>5 DEF Over
<1> QED
  BY <1>3, <1>4, <1>6, <1>7, <1>8 DEF Dialogue

LEMMA NetworkKeeps ==
  ASSUME ClientInv, ConnectionMade \/ ConnectionEnds
  PROVE  ClientInv'
<1> USE DEF ClientInv
<1>1. /\ UNCHANGED <<client, command, attempts, sent, read, torn, early>>
      /\ UNCHANGED vars
      /\ link' \in LinkStates /\ (link' = "eof" => pc[Conn] = "closed")
      /\ link \notin {"reset", "eof"}
  BY DEF ConnectionMade, ConnectionEnds, LinkStates
<1>2. WorkerTyped' /\ ClientTyped' /\ Ends' /\ HandledInOrder'
  <2>1. /\ client' \in ClientPhases /\ attempts' \in 0 .. MaxAttempts
        /\ early' \in Nat /\ read' \in 0 .. Len(replies[Conn])
        /\ torn' \in BOOLEAN /\ (torn' => read' < Len(replies[Conn]))
    BY <1>1 DEF ClientInv, ClientTyped
  <2> QED
    BY <1>1, <2>1, QuietBasics
<1>3. UNCHANGED <<handled, replies, pc, state>>
  BY <1>1, WorkerStays
<1>4. InDialogue => InDialogue'
  BY <1>1, <1>3 DEF InDialogue, Answered, UnderWay, Unread, Expecting
<1> QED
  BY <1>1, <1>2, <1>4 DEF Dialogue, Over

\* The client goes on without an answer: it polls once more, gives up, or finds
\* its connection lost.
LEMMA WaitKeeps ==
  ASSUME ClientInv, Poll \/ GiveUp \/ ConnectionLost
  PROVE  ClientInv'
<1> USE DEF ClientInv
<1>1. /\ UNCHANGED <<link, command, sent, read, torn>> /\ UNCHANGED vars
      /\ client \in Waits \cup {"size", "garbled"}
      /\ client' \in {client, "done", "menu", "failed"}
      /\ attempts' \in 0 .. MaxAttempts /\ early' \in {early, early + 1}
  <2>1. UNCHANGED <<link, command, sent, read, torn>> /\ UNCHANGED vars
    BY DEF Poll, GiveUp, ConnectionLost
  <2>2. /\ client \in Waits \cup {"size", "garbled"}
        /\ client' \in {client, "done", "menu", "failed"}
    BY DEF Poll, GiveUp, ConnectionLost, BackToMenu
  <2>3. early' \in {early, early + 1}
    BY DEF Poll, GiveUp, ConnectionLost
  <2>4. \/ attempts' = attempts
        \/ attempts < MaxAttempts /\ attempts' = attempts + 1
    BY DEF Poll, GiveUp, ConnectionLost
  <2>5. attempts' \in 0 .. MaxAttempts
    BY <2>4, ClientConstants DEF ClientTyped
  <2> QED
    BY <2>1, <2>2, <2>3, <2>5
<1>2. WorkerTyped' /\ ClientTyped' /\ Ends' /\ HandledInOrder'
  <2>1. /\ client' \in ClientPhases /\ link' \in LinkStates
        /\ client \notin {"done", "failed"}
        /\ (link' = "eof" => pc[Conn] = "closed")
    BY <1>1 DEF ClientTyped, ClientPhases, Waits, Ends
  <2>2. /\ early' \in Nat /\ read' \in 0 .. Len(replies[Conn])
        /\ torn' \in BOOLEAN /\ (torn' => read' < Len(replies[Conn]))
    BY <1>1 DEF ClientTyped
  <2> QED
    BY <1>1, <2>1, <2>2, QuietBasics
<1>3. UNCHANGED <<handled, replies, pc, state>> /\ UNCHANGED Unread
  BY <1>1, WorkerStays DEF Unread
<1>4. CASE Poll
  <2>1. UNCHANGED <<client, early>>
    BY <1>4 DEF Poll
  <2>2. InDialogue => InDialogue'
    BY <1>1, <1>3, <2>1 DEF InDialogue, Answered, UnderWay, Unread, Expecting
  <2> QED
    BY <1>1, <1>2, <1>3, <2>1, <2>2 DEF Dialogue, Over
<1>5. CASE GiveUp
  <2>1. early' = early + 1 /\ early \in Nat
    BY <1>5 DEF GiveUp, ClientTyped
  <2> QED
    BY <1>2, <2>1 DEF Dialogue
<1>6. CASE ConnectionLost
  <2>1. (link = "reset" \/ Over) /\ UNCHANGED early
    BY <1>6 DEF ConnectionLost, Over
  <2> QED
    BY <1>1, <1>2, <1>3, <2>1 DEF Dialogue, Over
<1> QED
  BY <1>4, <1>5, <1>6

\* The client reads n of the replies it has not read, and perhaps a part more.
LEMMA ReceiveBasics ==
  ASSUME ClientInv, NEW n, NEW cut \in BOOLEAN, Receive(n, cut),
         client' \in ClientPhases, early' \in Nat, client \notin {"done", "failed"}
  PROVE  /\ WorkerTyped' /\ ClientTyped' /\ Ends' /\ HandledInOrder'
         /\ UNCHANGED <<link, command, sent, handled, replies, pc, state>>
         /\ n \in 0 .. Len(Unread) /\ Unread \in Seq(ReplyTexts)
         /\ torn' = cut /\ (n > 0 \/ cut) /\ (cut => n < Len(Unread))
         /\ Unread' = SubSeq(Unread, n + 1, Len(Unread))
<1> USE DEF ClientInv
<1>1. /\ UNCHANGED <<link, command, attempts, sent>> /\ UNCHANGED vars
      /\ n \in 0 .. Len(Unread) /\ read' = read + n /\ torn' = cut
      /\ (n > 0 \/ cut) /\ (cut => n < Len(Unread))
  BY DEF Receive
<1>2. UNCHANGED <<handled, replies, pc, state>>
  BY <1>1, WorkerStays
<1>3. /\ read' \in 0 .. Len(replies[Conn])
      /\ Unread' = SubSeq(Unread, n + 1, Len(Unread))
  BY <1>1, <1>2, UnreadShrinks
<1>4. torn' => read' < Len(replies[Conn])
  BY <1>1, <1>2, UnreadFacts
<1>5. WorkerTyped' /\ ClientTyped' /\ Ends' /\ HandledInOrder'
  <2>1. /\ attempts' \in 0 .. MaxAttempts /\ torn' \in BOOLEAN
        /\ link' \in LinkStates /\ (link' = "eof" => pc[Conn] = "closed")
    BY <1>1 DEF ClientTyped, Ends
  <2> QED
    BY <1>1, <1>3, <1>4, <2>1, QuietBasics
<1>6. Unread \in Seq(ReplyTexts)
  BY UnreadFacts
<1> QED
  BY <1>1, <1>2, <1>3, <1>5, <1>6

LEMMA RestOfPair ==
  ASSUME NEW a, NEW b
  PROVE  <<a, b>>[1] = a /\ SubSeq(<<a, b>>, 2, Len(<<a, b>>)) = <<b>>
<1> DEFINE pair == <<a, b>>
           last == <<b>>
           rest == SubSeq(pair, 2, Len(pair))
<1>1. pair \in Seq({a, b}) /\ Len(pair) = 2 /\ pair[1] = a /\ pair[2] = b
  OBVIOUS
<1> HIDE DEF pair
<1>2. rest \in Seq({a, b}) /\ Len(rest) = 1 /\ rest[1] = b
  BY <1>1
<1>3. last \in Seq({a, b}) /\ Len(last) = 1 /\ last[1] = b
  OBVIOUS
<1> HIDE DEF rest, last
<1>4. \A i \in 1 .. Len(rest) : rest[i] = last[i]
  BY <1>2, <1>3
<1>5. rest = last
  BY <1>2, <1>3, <1>4, SeqEqual
<1> QED
  BY <1>1, <1>5 DEF pair, rest, last

LEMMA LastRead ==
  ASSUME NEW S, NEW u \in Seq(S), NEW n \in 1 .. Len(u), n = Len(u)
  PROVE  SubSeq(u, n + 1, Len(u)) = <<>>
OBVIOUS

\* All that can be unread in such a wait is one reply.
LEMMA DialogueUnread ==
  ASSUME ClientInv, InDialogue, Unread # <<>>,
         client \in {"reply", "answer", "image_sent"}
  PROVE  Len(Unread) = 1
<1>1. CASE client = "reply"
  <2>1. command # Command("get image") /\ Unread = CommandReplies(command)
    BY <1>1 DEF InDialogue, UnderWay
  <2>2. PICK text \in ReplyTexts : Unread = <<text>>
    BY <2>1, CommandReplyTypes, Zenon
  <2> QED
    BY <2>2
<1>2. CASE client = "answer"
  BY <1>2 DEF InDialogue, UnderWay, Answered
<1>3. CASE client = "image_sent"
  <2>1. Unread = <<"Image sent">>
    BY <1>3, Zenon DEF InDialogue
  <2>2. \A text : Len(<<text>>) = 1
    OBVIOUS
  <2> QED
    BY <2>1, <2>2, Zenon
<1> QED
  BY <1>1, <1>2, <1>3

\* As long as no wait ended early, something to read is what is due.
LEMMA ReceiveDue ==
  ASSUME ClientInv, NEW n, NEW cut \in BOOLEAN, Receive(n, cut), early = 0
  PROVE  InDialogue /\ Unread # <<>> /\ ~torn
<1>1. n \in 0 .. Len(Unread) /\ (n > 0 \/ n < Len(Unread)) /\ link # "reset"
  BY DEF Receive
<1>2. Unread # <<>>
  <2>1. ASSUME Unread = <<>> PROVE FALSE
    <3>1. Len(Unread) = 0
      BY <2>1
    <3> QED
      BY <1>1, <3>1
  <2> QED
    BY <2>1
<1>3. early > 0 <=> early # 0
  BY DEF ClientInv, ClientTyped
<1> QED
  BY <1>1, <1>2, <1>3 DEF ClientInv, Dialogue, Over

\* A wait for a text, and what is left when it did not end early.
LEMMA TextReceived ==
  ASSUME ClientInv, NEW n, NEW cut \in BOOLEAN, ReceiveText(n, cut),
         client' \in ClientPhases \ {"garbled", "garbled_sent"},
         client \in {"reply", "answer", "image_sent", "garbled_sent"}
  PROVE  /\ WorkerTyped' /\ ClientTyped' /\ Ends' /\ HandledInOrder'
         /\ UNCHANGED <<link, command, sent, handled, replies, pc, state>>
         /\ (early' = 0 => InDialogue') => ClientInv'
         /\ early' = 0 => /\ early = 0 /\ n > 0 /\ ~torn
                          /\ InDialogue /\ Unread # <<>>
                          /\ (Len(Unread) = 1 => n = 1 /\ ~cut /\ Unread' = <<>>)
<1>1. /\ Receive(n, cut) /\ early \in Nat
      /\ early' = early + (IF n = 0 THEN 1 ELSE 0)
  BY DEF ReceiveText, ClientInv, ClientTyped
<1>2. early' \in Nat /\ (early' = 0 => early = 0 /\ n # 0)
  BY <1>1
<1>3. /\ WorkerTyped' /\ ClientTyped' /\ Ends' /\ HandledInOrder'
      /\ UNCHANGED <<link, command, sent, handled, replies, pc, state>>
      /\ n \in 0 .. Len(Unread) /\ Unread \in Seq(ReplyTexts)
      /\ torn' = cut /\ (n > 0 \/ cut) /\ (cut => n < Len(Unread))
      /\ Unread' = SubSeq(Unread, n + 1, Len(Unread))
  BY <1>1, <1>2, ReceiveBasics
<1>4. ASSUME early' = 0
      PROVE  /\ early = 0 /\ n > 0 /\ ~torn /\ InDialogue /\ Unread # <<>>
             /\ (Len(Unread) = 1 => n = 1 /\ ~cut /\ Unread' = <<>>)
  <2>1. early = 0 /\ n > 0
    BY <1>2, <1>3, <1>4
  <2>2. InDialogue /\ Unread # <<>> /\ ~torn
    BY <1>1, <2>1, ReceiveDue
  <2>3. ASSUME Len(Unread) = 1 PROVE n = 1 /\ ~cut /\ Unread' = <<>>
    <3>1. n = 1 /\ ~cut /\ n \in 1 .. Len(Unread) /\ n = Len(Unread)
      BY <1>3, <2>1, <2>3
    <3> QED
      BY <1>3, <3>1, LastRead
  <2> QED
    BY <2>1, <2>2, <2>3
<1>5. torn' => early' > 0
  <2>1. ASSUME torn', ~(early' > 0) PROVE FALSE
    <3>1. early' = 0 /\ cut
      BY <1>2, <1>3, <2>1
    <3>2. n < Len(Unread) /\ InDialogue /\ n > 0 /\ early = 0
      BY <1>3, <1>4, <3>1
    <3>3. client # "garbled_sent"
      BY <3>2 DEF ClientInv, Dialogue
    <3>4. Len(Unread) = 1
      BY <3>2, <3>3, <1>4, <3>1, DialogueUnread
    <3> QED
      BY <1>3, <3>2, <3>4
  <2> QED
    BY <2>1
<1>6. ASSUME early' = 0 => InDialogue' PROVE ClientInv'
  BY <1>3, <1>5, <1>6 DEF ClientInv, Dialogue
<1> QED
  BY <1>3, <1>4, <1>6

LEMMA ReceiveReplyKeeps ==
  ASSUME ClientInv, NEW n, NEW cut \in BOOLEAN, ReceiveReply(n, cut)
  PROVE  ClientInv'
<1>1. /\ client = "reply" /\ ReceiveText(n, cut)
      /\ client' \in {"registering", "logging_in", "menu", "done"}
  BY DEF ReceiveReply, BackToMenu
<1>2. /\ UNCHANGED <<link, command, sent, handled, replies, pc, state>>
      /\ (early' = 0 => InDialogue') => ClientInv'
      /\ early' = 0 => /\ early = 0 /\ n > 0 /\ ~torn
                       /\ InDialogue /\ Unread # <<>>
                       /\ (Len(Unread) = 1 => n = 1 /\ ~cut /\ Unread' = <<>>)
  BY <1>1, TextReceived DEF ClientPhases
<1>3. SUFFICES ASSUME early' = 0 PROVE InDialogue'
  BY <1>2
<1>4. InDialogue /\ Unread # <<>> /\ ~torn
  BY <1>2, <1>3
<1>5. /\ command # Command("get image") /\ Len(handled[Conn]) = Len(sent)
      /\ Unread = CommandReplies(command) /\ Expecting({AfterCommand(command)})
  BY <1>1, <1>4 DEF InDialogue, UnderWay
<1>6. Len(Unread) = 1
  BY <1>1, <1>4, DialogueUnread
<1>7. n = 1 /\ ~cut /\ Answered'
  <2>1. n = 1 /\ ~cut /\ Unread' = <<>>
    BY <1>2, <1>3, <1>6
  <2> QED
    BY <1>2, <1>5, <2>1 DEF Answered
<1>8. Expecting({AfterCommand(command)})'
  BY <1>2, <1>5 DEF Expecting
<1>9. CASE command \in {Command("register"), Command("login")}
  <2>1. Unread[1] \in Prompts /\ AfterCommand(command) \in DataStates
    BY <1>5, <1>9, PromptsData
  <2>2. MustPrompt(n)
    BY <1>4, <1>7, <2>1 DEF MustPrompt, Begun
  <2>3. client' \in {"registering", "logging_in"}
    BY <1>9, <2>2 DEF ReceiveReply
  <2>4. Expecting(DataStates)'
    BY <1>2, <1>8, <2>1 DEF Expecting
  <2> QED
    BY <1>7, <2>3, <2>4 DEF InDialogue
<1>10. CASE command \notin {Command("register"), Command("login")}
  <2>1. AfterCommand(command) = "IDLE"
    BY <1>10, PromptsData
  <2>2. client' \in {"menu", "done"}
    BY <1>1, <1>10 DEF ReceiveReply, BackToMenu
  <2>3. Expecting({"IDLE"})'
    BY <1>2, <1>8, <2>1 DEF Expecting
  <2> QED
    BY <1>7, <2>2, <2>3 DEF InDialogue
<1> QED
  BY <1>9, <1>10

LEMMA ReceiveAnswerKeeps ==
  ASSUME ClientInv, NEW n, NEW cut \in BOOLEAN, ReceiveAnswer(n, cut)
  PROVE  ClientInv'
<1>1. /\ client \in {"answer", "image_sent", "garbled_sent"} /\ ReceiveText(n, cut)
      /\ client' \in {"menu", "done", "failed"}
  BY DEF ReceiveAnswer, BackToMenu
<1>2. /\ UNCHANGED <<link, command, sent, handled, replies, pc, state>>
      /\ (early' = 0 => InDialogue') => ClientInv'
      /\ early' = 0 => /\ early = 0 /\ n > 0 /\ ~torn
                       /\ InDialogue /\ Unread # <<>>
                       /\ (Len(Unread) = 1 => n = 1 /\ ~cut /\ Unread' = <<>>)
  BY <1>1, TextReceived DEF ClientPhases
<1>3. SUFFICES ASSUME early' = 0 PROVE InDialogue'
  BY <1>2
<1>4. InDialogue /\ Unread # <<>> /\ early = 0
  BY <1>2, <1>3
<1>5. client \in {"answer", "image_sent"}
  BY <1>1, <1>4 DEF ClientInv, Dialogue
<1>6. Len(handled[Conn]) = Len(sent) /\ Expecting({"IDLE"}) /\ Len(Unread) = 1
  <2>1. CASE client = "answer"
    BY <1>4, <2>1 DEF InDialogue, UnderWay, Answered
  <2>2. CASE client = "image_sent"
    BY <1>4, <2>2 DEF InDialogue
  <2> QED
    BY <1>5, <2>1, <2>2
<1>7. Answered' /\ Expecting({"IDLE"})'
  BY <1>2, <1>3, <1>6 DEF Answered, Expecting
<1> QED
  BY <1>1, <1>7 DEF InDialogue

\* If no wait ended early, what the client takes for an image is one.
LEMMA SizeDue ==
  ASSUME ClientInv, NEW n, NEW cut \in BOOLEAN, Receive(n, cut), client = "size",
         early = 0
  PROVE  /\ Unread = <<"image", "Image sent">> /\ ~torn
         /\ Len(handled[Conn]) = Len(sent) /\ Expecting({"IDLE"})
<1>1. InDialogue /\ Unread # <<>> /\ ~torn
  BY ReceiveDue
<1>2. /\ command = Command("get image") /\ Len(handled[Conn]) = Len(sent)
      /\ Unread = CommandReplies(command) /\ Expecting({AfterCommand(command)})
  BY <1>1 DEF InDialogue, UnderWay
<1>3. command \notin {Command("register"), Command("login")}
  BY <1>2, CommandsDiffer
<1>4. AfterCommand(command) = "IDLE"
  BY <1>3, PromptsData
<1>5. Unread = <<"image", "Image sent">>
  BY <1>2, CommandReplyValues, Zenon
<1> QED
  BY <1>1, <1>2, <1>4, <1>5

LEMMA ReceiveImageKeeps ==
  ASSUME ClientInv, ReceiveImage
  PROVE  ClientInv'
<1>1. /\ client = "size" /\ Receive(1, FALSE) /\ UNCHANGED early
      /\ client' = "image_sent" /\ FALSE \in BOOLEAN
  BY DEF ReceiveImage
<1>2. /\ WorkerTyped' /\ ClientTyped' /\ Ends' /\ HandledInOrder'
      /\ UNCHANGED <<link, command, sent, handled, replies, pc, state>>
      /\ torn' = FALSE /\ Unread' = SubSeq(Unread, 2, Len(Unread))
  <2>1. client' \in ClientPhases /\ client \notin {"done", "failed"} /\ early' \in Nat
    BY <1>1 DEF ClientPhases, ClientInv, ClientTyped
  <2>2. 1 + 1 = 2
    OBVIOUS
  <2> QED
    BY <1>1, <2>1, <2>2, ReceiveBasics, Zenon
<1>3. ASSUME early = 0 PROVE InDialogue'
  <2>1. /\ Unread = <<"image", "Image sent">>
        /\ Len(handled[Conn]) = Len(sent) /\ Expecting({"IDLE"})
    BY <1>1, <1>3, SizeDue
  <2>2. Unread' = <<"Image sent">>
    BY <1>2, <2>1, RestOfPair
  <2>3. Expecting({"IDLE"})' /\ Len(handled'[Conn]) = Len(sent')
    BY <1>2, <2>1 DEF Expecting
  <2> QED
    BY <1>1, <2>2, <2>3 DEF InDialogue
<1> QED
  BY <1>1, <1>2, <1>3 DEF ClientInv, Dialogue

\* Text or pixels as a size, and what follows them.
LEMMA ReceiveGarbledKeeps ==
  ASSUME ClientInv, NEW n, NEW cut \in BOOLEAN,
         ReceiveGarbage(n, cut) \/ ReceiveGarbledPixels(n, cut)
  PROVE  ClientInv'
<1>1. /\ client' \in {"garbled", "garbled_sent", "failed"} /\ client' \in ClientPhases
      /\ client \notin {"done", "failed"}
      /\ early \in Nat /\ early' \in {early, early + 1}
  BY DEF ReceiveGarbage, ReceiveGarbledPixels, ClientPhases, ClientInv, ClientTyped
<1>2. early > 0
  <2>1. CASE ReceiveGarbage(n, cut)
    <3>1. /\ client = "size" /\ Receive(n, cut) /\ (torn \/ Unread[1] # "image")
      BY <2>1 DEF ReceiveGarbage
    <3>2. ASSUME early = 0 PROVE FALSE
      <4>1. Unread = <<"image", "Image sent">> /\ ~torn
        BY <3>1, <3>2, SizeDue
      <4> QED
        BY <3>1, <4>1, RestOfPair
    <3> QED
      BY <1>1, <3>2
  <2>2. CASE ReceiveGarbledPixels(n, cut)
    BY <2>2 DEF ReceiveGarbledPixels, ClientInv, Dialogue
  <2> QED
    BY <2>1, <2>2
<1>3. early' \in Nat /\ early' > 0
  BY <1>1, <1>2
<1>4. WorkerTyped' /\ ClientTyped' /\ Ends' /\ HandledInOrder'
  <2>1. CASE Receive(n, cut)
    BY <1>1, <1>3, <2>1, ReceiveBasics
  <2>2. CASE UNCHANGED <<vars, link, command, attempts, sent, read, torn>>
    <3>1. /\ link' \in LinkStates /\ attempts' \in 0 .. MaxAttempts
          /\ read' \in 0 .. Len(replies[Conn]) /\ torn' \in BOOLEAN
          /\ (torn' => read' < Len(replies[Conn]))
          /\ (link' = "eof" => pc[Conn] = "closed")
      BY <2>2 DEF ClientInv, ClientTyped, Ends
    <3> QED
      BY <1>1, <1>3, <2>2, <3>1, QuietBasics
  <2> QED
    BY <2>1, <2>2 DEF ReceiveGarbage, ReceiveGarbledPixels
<1> QED
  BY <1>3, <1>4 DEF ClientInv, Dialogue

LEMMA LeaveKeeps ==
  ASSUME ClientInv, ClientLeaves
  PROVE  ClientInv'
<1>1. /\ client \in {"done", "failed"} /\ UNCHANGED clientVars
      /\ UNCHANGED <<state, pc, handled, replies>>
      /\ peer' = [peer EXCEPT ![Conn] = FALSE]
  BY DEF ClientLeaves, HangUp
<1>2. UNCHANGED <<link, client, command, attempts, sent, read, torn, early>>
  BY <1>1 DEF clientVars
<1>3. WorkerTyped'
  BY <1>1 DEF ClientInv, WorkerTyped
<1>4. ClientTyped' /\ Ends' /\ HandledInOrder'
  BY <1>1, <1>2 DEF ClientInv, ClientTyped, Ends, HandledInOrder
<1>5. InDialogue' /\ client' \notin {"garbled", "garbled_sent"}
  <2>1. client' \in {"done", "failed"}
    BY <1>1, <1>2
  <2> QED
    BY <2>1, Zenon DEF InDialogue
<1> QED
  BY <1>2, <1>3, <1>4, <1>5 DEF ClientInv, Dialogue

-----------------------------------------------------------------------------
(* The invariant and what follows from it. *)

LEMMA ClientInvInit ==
  ASSUME ClientInit
  PROVE  ClientInv
<1> USE ClientConstants DEF ClientInit, Init, SessionsFresh, Fresh
<1>1. WorkerTyped
  BY DEF WorkerTyped, ClientStates
<1>2. handled[Conn] = <<>> /\ replies[Conn] = <<>> /\ pc[Conn] = "recv"
      /\ state[Conn] = "IDLE" /\ peer[Conn] /\ sent = <<>> /\ read = 0
  OBVIOUS
<1>3. ClientTyped
  <2>1. attempts \in 0 .. MaxAttempts
    OBVIOUS
  <2>2. read \in 0 .. Len(replies[Conn]) /\ sent \in Seq(UserLines)
    BY <1>2
  <2>3. link \in LinkStates /\ client \in ClientPhases /\ early \in Nat /\ torn = FALSE
    BY DEF LinkStates, ClientPhases
  <2> QED
    BY <2>1, <2>2, <2>3 DEF ClientTyped
<1>4. HandledInOrder /\ Unread = <<>>
  BY <1>2 DEF HandledInOrder, Unread
<1>5. InDialogue
  BY <1>2, <1>4 DEF InDialogue, Answered, Expecting
<1> QED
  BY <1>1, <1>2, <1>3, <1>4, <1>5 DEF ClientInv, Ends, Dialogue

LEMMA ClientInvStep ==
  ASSUME ClientInv, [ClientNext]_dialogueVars
  PROVE  ClientInv'
<1>1. CASE UNCHANGED dialogueVars
  BY <1>1 DEF dialogueVars, vars, sessionVars, clientVars, ClientInv, WorkerTyped,
              ClientTyped, Ends, HandledInOrder, Dialogue, InDialogue, Over, Answered,
              UnderWay, Expecting, Unread
<1>2. CASE ConnectionMade \/ ConnectionEnds
  BY <1>2, NetworkKeeps
<1>3. CASE \/ \E line \in Commands : TypeCommand(line)
           \/ \E line \in RegistrationForms \cup LoginForms : FillIn(line)
  BY <1>3, SendKeeps
<1>4. CASE Receives \/ ReceivesGarbled
  BY <1>4, ReceiveReplyKeeps, ReceiveAnswerKeeps, ReceiveImageKeeps, ReceiveGarbledKeeps
  DEF Receives, ReceivesGarbled
<1>5. CASE Poll \/ GiveUp \/ ConnectionLost
  BY <1>5, WaitKeeps
<1>6. CASE WorkerActs \/ ServerEnds
  BY <1>6, WorkerBasics, WorkerDialogue DEF ClientInv
<1>7. CASE ClientLeaves
  BY <1>7, LeaveKeeps
<1> QED
  BY <1>1, <1>2, <1>3, <1>4, <1>5, <1>6, <1>7 DEF ClientNext, ClientWaits

LEMMA ClientInvariant == ClientSpec => []ClientInv
BY ClientInvInit, ClientInvStep, PTL DEF ClientSpec

\* Every variable of the client stays in its range; it never reads more than it
\* was sent, and the worker handles its lines in the order it sent them.
THEOREM ClientTypeCorrect == ClientSpec => []ClientTypeOK
<1>1. ASSUME ClientInv PROVE ClientTypeOK
  <2>1. sent \in Seq(UserLines) /\ Len(handled[Conn]) \in 0 .. Len(sent)
    BY <1>1, ClientConstants DEF ClientInv, WorkerTyped, ClientTyped, HandledInOrder
  <2>2. IsPrefix(handled[Conn], sent)
    BY <1>1, <2>1, ClientConstants DEF ClientInv, HandledInOrder, IsPrefix, WorkerTyped
  <2> QED
    BY <1>1, <2>2 DEF ClientInv, ClientTyped, ClientTypeOK
<1> QED
  BY <1>1, ClientInvariant, PTL

\* Client and worker agree at every prompt unless a wait ended early: whatever
\* the user types and however long the network takes, all lines are handled,
\* all replies read, and the worker waits for a command (client.cpp 68-118).
THEOREM StaysInStep == ClientSpec => []InStep
<1>1. ASSUME ClientInv PROVE InStep
  <2>1. SUFFICES ASSUME client = "menu", link = "open", early = 0
                 PROVE  /\ handled[Conn] = sent /\ read = Len(replies[Conn])
                        /\ pc[Conn] # "closed" => state[Conn] = "IDLE"
    BY DEF InStep
  <2>2. Answered /\ Expecting({"IDLE"})
    BY <1>1, <2>1 DEF ClientInv, Dialogue, Over, InDialogue
  <2>3. handled[Conn] = sent
    BY <1>1, <2>2 DEF ClientInv, HandledInOrder, Answered, ClientTyped
  <2>4. read = Len(replies[Conn])
    BY <1>1, <2>2, UnreadFacts DEF ClientInv, Answered
  <2> QED
    BY <2>2, <2>3, <2>4 DEF Expecting
<1> QED
  BY <1>1, ClientInvariant, PTL

\* The client never takes text or pixels for the size of an image unless a wait
\* ended before a reply was whole (client.cpp 200-244).
THEOREM NoGarbageUnlessBehind == ClientSpec => []GarbledOnlyWhenBehind
<1>1. ClientInv => GarbledOnlyWhenBehind
  BY DEF ClientInv, Dialogue, GarbledOnlyWhenBehind
<1> QED
  BY <1>1, ClientInvariant, PTL

-----------------------------------------------------------------------------
(* How far the client can be behind. *)

\* How many replies a phase may still wait for.
Slack(phase) ==
    IF phase \in {"size", "garbled"} THEN 2 ELSE IF phase \in Waits THEN 1 ELSE 0

\* While the connection is there, no reply is missing but those, and one for
\* each wait that ended early.
LagInv ==
    link \notin {"eof", "reset"} /\ client \notin {"done", "failed"} =>
        Len(Due(sent)) <= read + early + Slack(client)

ImageLine == Command("get image")

\* Only "get image" is answered by two replies.
LEMMA RepliesCount ==
  ASSUME NEW line, NEW expected \in ClientStates
  PROVE  /\ Len(Replies(expected, line)) \in 0 .. 2
         /\ line # ImageLine => Len(Replies(expected, line)) = 1
<1>1. \A w : Len(<<w>>) = 1
  OBVIOUS
<1>2. CASE expected # "IDLE"
  <2>1. \E w : Replies(expected, line) = <<w>>
    <3>1. expected \in DataStates
      BY <1>2 DEF ClientStates, DataStates
    <3>2. CASE expected = "WAITING_REGISTER_DATA"
      BY <3>2, Zenon DEF Replies
    <3>3. CASE expected = "WAITING_LOGIN_DATA"
      BY <3>3, Zenon DEF Replies
    <3> QED
      BY <3>1, <3>2, <3>3 DEF DataStates
  <2>2. Len(Replies(expected, line)) = 1
    BY <1>1, <2>1, Zenon
  <2> QED
    BY <2>2
<1>3. CASE expected = "IDLE"
  <2> DEFINE r == CommandReplies(line)
  <2>1. Replies(expected, line) = [i \in DOMAIN r |-> {r[i]}]
    BY <1>3 DEF Replies
  <2>2. r \in Seq(ReplyTexts)
    BY CommandReplyTypes
  <2>3. Len(r) \in 0 .. 2 /\ (line # ImageLine => Len(r) = 1)
    <3>1. CASE line # ImageLine
      <4>1. \E w : r = <<w>>
        BY <3>1, CommandReplyTypes, Zenon DEF ImageLine
      <4>2. Len(r) = 1
        BY <1>1, <4>1, Zenon
      <4> QED
        BY <4>2
    <3>2. CASE line = ImageLine
      <4>1. \A v, w : Len(<<v, w>>) = 2
        OBVIOUS
      <4>2. \E v, w : r = <<v, w>>
        BY <3>2, CommandReplyValues, Zenon DEF ImageLine
      <4>3. Len(r) = 2
        BY <4>1, <4>2, Zenon
      <4> QED
        BY <3>2, <4>3
    <3> QED
      BY <3>1, <3>2
  <2> HIDE DEF r
  <2>4. Len([i \in DOMAIN r |-> {r[i]}]) = Len(r)
    <3>1. DOMAIN r = 1 .. Len(r) /\ Len(r) \in Nat
      BY <2>2, LenProperties
    <3> QED
      BY <3>1
  <2> QED
    BY <2>1, <2>3, <2>4
<1> QED
  BY <1>2, <1>3

\* A line asks for one reply more, or for two if it asks for an image.
LEMMA DueGrows ==
  ASSUME ClientInv, NEW line \in UserLines
  PROVE  /\ Len(Due(sent)) \in Nat
         /\ Len(Due(Append(sent, line))) \in Len(Due(sent)) .. Len(Due(sent)) + 2
         /\ line # ImageLine =>
               Len(Due(Append(sent, line))) = Len(Due(sent)) + 1
<1> DEFINE e == Expects(sent)[Len(sent)]
           d == Due(sent)
           r == Replies(e, line)
<1>1. /\ e \in ClientStates /\ d \in Seq(SUBSET ReplyTexts)
      /\ r \in Seq(SUBSET ReplyTexts) /\ Due(Append(sent, line)) = d \o r
  BY OneLineMore DEF ClientInv, ClientTyped
<1>2. Len(r) \in 0 .. 2 /\ (line # ImageLine => Len(r) = 1)
  BY <1>1, RepliesCount
<1> HIDE DEF d, r
<1>3. Len(d \o r) = Len(d) + Len(r) /\ Len(d) \in Nat
  BY <1>1
<1>4. Len(d \o r) \in Len(d) .. Len(d) + 2
  <2>1. ASSUME NEW a \in Nat, NEW b \in 0 .. 2 PROVE a + b \in a .. a + 2
    OBVIOUS
  <2> QED
    BY <1>2, <1>3, <2>1, Zenon
<1>5. ASSUME line # ImageLine PROVE Len(d \o r) = Len(d) + 1
  BY <1>2, <1>3, <1>5, Zenon
<1> QED
  BY <1>1, <1>3, <1>4, <1>5, Zenon DEF d

LEMMA DueCount ==
  ASSUME ClientInv
  PROVE  Len(Due(sent)) \in Nat
<1>1. sent \in Seq(UserLines)
  BY DEF ClientInv, ClientTyped
<1>2. CASE UserLines = {}
  <2>1. sent = <<>>
    BY <1>1, <1>2
  <2> QED
    BY <2>1, NothingDue
<1>3. CASE UserLines # {}
  BY <1>3, DueGrows
<1> QED
  BY <1>2, <1>3

\* A form is no command.
LEMMA FormsAreData ==
  ASSUME NEW form \in RegistrationForms \cup LoginForms
  PROVE  form # ImageLine
<1>1. Len(form) > 1
  BY ClientConstants
<1>2. ASSUME NEW x PROVE Len(<<x>>) = 1
  OBVIOUS
<1>3. Len(ImageLine) = 1
  BY <1>2, Zenon DEF ImageLine, Command
<1>4. ASSUME form = ImageLine PROVE FALSE
  <2>1. Len(form) = 1
    BY <1>3, <1>4, Zenon
  <2> QED
    BY <1>1, <2>1
<1> QED
  BY <1>4, Zenon

LEMMA SendKeepsLag ==
  ASSUME ClientInv, LagInv,
         \/ \E line \in Commands : TypeCommand(line)
         \/ \E line \in RegistrationForms \cup LoginForms : FillIn(line)
  PROVE  LagInv'
<1>1. PICK line \in UserLines, next \in {"size", "reply", "answer"} :
         /\ SendMessage(line, next)
         /\ next = "size" \/ line # ImageLine
         /\ client \in {"menu", "registering", "logging_in"}
  <2>1. ASSUME NEW line \in Commands, TypeCommand(line)
        PROVE  \E next \in {"size", "reply", "answer"} :
                  /\ SendMessage(line, next) /\ client = "menu"
                  /\ next = "size" \/ line # ImageLine
    BY <2>1, Zenon DEF TypeCommand, ImageLine
  <2>2. ASSUME NEW line \in RegistrationForms \cup LoginForms, FillIn(line)
        PROVE  /\ SendMessage(line, "answer") /\ line # ImageLine
               /\ client \in {"registering", "logging_in"}
    BY <2>2, FormsAreData DEF FillIn
  <2> QED
    BY <2>1, <2>2 DEF UserLines
<1>2. UNCHANGED <<link, read, early>> /\ read \in Nat /\ early \in Nat
  BY <1>1, UnreadFacts DEF SendMessage, ClientInv, ClientTyped
<1>3. SUFFICES ASSUME link \notin {"eof", "reset"}, client' # "failed"
               PROVE  Len(Due(sent)') <= read + early + Slack(client')
  BY <1>2 DEF LagInv
<1>4. sent' = Append(sent, line) /\ client' = next
  BY <1>1, <1>3 DEF SendMessage
<1>5. /\ Len(Due(sent)) \in Nat
      /\ Len(Due(sent)') \in Len(Due(sent)) .. Len(Due(sent)) + 2
      /\ line # ImageLine => Len(Due(sent)') = Len(Due(sent)) + 1
  BY <1>4, DueGrows
<1>6. Len(Due(sent)') <= Len(Due(sent)) + Slack(client')
  <2>1. CASE next = "size"
    <3>1. Slack(client') = 2
      BY <1>4, <2>1 DEF Slack
    <3> QED
      BY <1>5, <3>1
  <2>2. CASE next # "size"
    <3>1. Slack(client') = 1 /\ line # ImageLine
      BY <1>1, <1>4, <2>2 DEF Slack, Waits
    <3> QED
      BY <1>5, <3>1
  <2> QED
    BY <2>1, <2>2
<1>7. Slack(client) = 0 /\ client \notin {"done", "failed"} /\ Slack(client') \in Nat
  BY <1>1 DEF Slack, Waits
<1>8. Len(Due(sent)) <= read + early
  BY <1>2, <1>3, <1>7 DEF LagInv
<1> QED
  BY <1>2, <1>5, <1>6, <1>7, <1>8

\* A wait that ends has read a reply or is counted.
LEMMA WaitKeepsLag ==
  ASSUME ClientInv, LagInv, UNCHANGED <<link, sent>>, client \notin {"done", "failed"},
         read' \in Nat, early' \in Nat,
         \/ client' \in {"done", "failed"}
         \/ read + early + Slack(client) <= read' + early' + Slack(client')
  PROVE  LagInv'
<1>1. SUFFICES ASSUME link \notin {"eof", "reset"},
                      read + early + Slack(client) <= read' + early' + Slack(client')
               PROVE  Len(Due(sent)) <= read' + early' + Slack(client')
  BY DEF LagInv
<1>2. Len(Due(sent)) <= read + early + Slack(client)
  BY <1>1 DEF LagInv
<1>3. /\ read \in Nat /\ early \in Nat /\ Slack(client) \in Nat /\ Slack(client') \in Nat
  BY UnreadFacts DEF ClientInv, ClientTyped, Slack
<1>4. Len(Due(sent)) \in Nat
  BY DueCount
<1> QED
  BY <1>1, <1>2, <1>3, <1>4

LEMMA ReceiveKeepsLag ==
  ASSUME ClientInv, LagInv, Receives \/ ReceivesGarbled
  PROVE  LagInv'
<1>1. \/ \E n, cut : \/ ReceiveReply(n, cut) \/ ReceiveAnswer(n, cut)
                      \/ ReceiveGarbage(n, cut) \/ ReceiveGarbledPixels(n, cut)
      \/ ReceiveImage
  BY DEF Receives, ReceivesGarbled
<1>2. read \in Nat /\ early \in Nat
  BY UnreadFacts DEF ClientInv, ClientTyped
<1>3. ASSUME NEW m, NEW c, Receive(m, c)
      PROVE  /\ UNCHANGED <<link, sent>> /\ m \in Nat
             /\ read' = read + m /\ read' \in Nat
  <2>1. UNCHANGED <<link, sent>> /\ m \in 0 .. Len(Unread) /\ read' = read + m
    BY <1>3 DEF Receive
  <2>2. Len(Unread) \in Nat
    BY UnreadFacts DEF ClientInv
  <2> QED
    BY <1>2, <2>1, <2>2
<1>4. ASSUME NEW n, NEW cut, ReceiveReply(n, cut) \/ ReceiveAnswer(n, cut)
      PROVE  LagInv'
  <2>1. /\ Receive(n, cut) /\ early' = early + (IF n = 0 THEN 1 ELSE 0)
        /\ client \in {"reply", "answer", "image_sent", "garbled_sent"}
    BY <1>4 DEF ReceiveReply, ReceiveAnswer, ReceiveText
  <2>2. n \in Nat /\ read' = read + n /\ read' \in Nat /\ UNCHANGED <<link, sent>>
    BY <1>3, <2>1
  <2>3. early' \in Nat /\ read' \in Nat /\ read + early + 1 <= read' + early'
    BY <1>2, <2>1, <2>2
  <2>4. Slack(client) = 1 /\ Slack(client') \in Nat
    BY <2>1 DEF Slack, Waits
  <2>5. read + early + Slack(client) <= read' + early' + Slack(client')
    <3>1. ASSUME NEW a \in Nat, NEW b \in Nat, NEW c \in Nat, NEW d \in Nat,
                 NEW k \in Nat, a + b + 1 <= c + d
          PROVE  a + b + 1 <= c + d + k
      BY <3>1
    <3> QED
      BY <1>2, <2>3, <2>4, <3>1, Zenon
  <2> QED
    BY <2>1, <2>2, <2>3, <2>5, WaitKeepsLag
<1>5. CASE ReceiveImage
  <2>1. /\ Receive(1, FALSE) /\ UNCHANGED early
        /\ client = "size" /\ client' = "image_sent"
    BY <1>5 DEF ReceiveImage
  <2>2. read' = read + 1 /\ read' \in Nat /\ UNCHANGED <<link, sent>>
    BY <1>3, <2>1
  <2>3. Slack(client) = 2 /\ Slack(client') = 1
    BY <2>1 DEF Slack, Waits
  <2>4. read + early + Slack(client) <= read' + early' + Slack(client')
    BY <1>2, <2>1, <2>2, <2>3
  <2> QED
    BY <1>2, <2>1, <2>2, <2>4, WaitKeepsLag
<1>6. ASSUME NEW n, NEW cut, ReceiveGarbage(n, cut)
      PROVE  LagInv'
  <2>1. /\ Receive(n, cut) /\ UNCHANGED early
        /\ client = "size" /\ client' = "garbled"
    BY <1>6 DEF ReceiveGarbage
  <2>2. n \in Nat /\ read' = read + n /\ read' \in Nat /\ UNCHANGED <<link, sent>>
    BY <1>3, <2>1
  <2>3. Slack(client) = 2 /\ Slack(client') = 2
    BY <2>1 DEF Slack
  <2>4. read + early + Slack(client) <= read' + early' + Slack(client')
    BY <1>2, <2>1, <2>2, <2>3
  <2> QED
    BY <1>2, <2>1, <2>2, <2>4, WaitKeepsLag
<1>7. ASSUME NEW n, NEW cut, ReceiveGarbledPixels(n, cut)
      PROVE  LagInv'
  <2>1. /\ \/ Receive(n, cut)
           \/ UNCHANGED <<vars, link, command, attempts, sent, read, torn>>
        /\ client = "garbled"
        /\ \/ client' \in {"garbled", "failed"} /\ early' = early
           \/ client' = "garbled_sent" /\ early' = early + 1
    BY <1>7 DEF ReceiveGarbledPixels
  <2>2. read' \in Nat /\ read <= read' /\ UNCHANGED <<link, sent>>
    BY <1>2, <1>3, <2>1
  <2>3. /\ Slack(client) = 2
        /\ client' = "garbled" => Slack(client') = 2
        /\ client' = "garbled_sent" => Slack(client') = 1
    BY <2>1 DEF Slack, Waits
  <2>4. CASE client' = "failed"
    <3>1. early' \in Nat /\ client \notin {"done", "failed"}
      BY <1>2, <2>1
    <3> QED
      BY <2>2, <2>4, <3>1, WaitKeepsLag
  <2>5. CASE client' # "failed"
    <3>1. \/ Slack(client') = 2 /\ early' = early
          \/ Slack(client') = 1 /\ early' = early + 1
      BY <2>1, <2>3, <2>5
    <3>2. early' \in Nat /\ read + early + 2 <= read' + early' + Slack(client')
      BY <1>2, <2>2, <3>1
    <3> QED
      BY <2>1, <2>2, <2>3, <3>2, WaitKeepsLag
  <2> QED
    BY <2>4, <2>5
<1> QED
  BY <1>1, <1>4, <1>5, <1>6, <1>7

\* Giving up is counted; a lost connection is not open.
LEMMA LimitKeepsLag ==
  ASSUME ClientInv, LagInv, Poll \/ GiveUp \/ ConnectionLost
  PROVE  LagInv'
<1>1. read \in Nat /\ early \in Nat
  BY UnreadFacts DEF ClientInv, ClientTyped
<1>2. UNCHANGED <<link, sent, read>>
  BY DEF Poll, GiveUp, ConnectionLost
<1>3. CASE Poll
  BY <1>2, <1>3 DEF Poll, LagInv
<1>4. CASE GiveUp
  <2>1. /\ early' = early + 1 /\ client \in Waits
        /\ client' \in {"done", "menu", "failed"}
    BY <1>4 DEF GiveUp, BackToMenu
  <2>2. Slack(client) = 1 /\ Slack(client') = 0 /\ client \notin {"done", "failed"}
    BY <2>1 DEF Slack, Waits
  <2>3. /\ early' \in Nat /\ read' \in Nat
        /\ read + early + Slack(client) <= read' + early' + Slack(client')
    BY <1>1, <1>2, <2>1, <2>2
  <2> QED
    BY <1>2, <2>2, <2>3, WaitKeepsLag
<1>5. CASE ConnectionLost
  <2>1. link' \in {"eof", "reset"}
    BY <1>2, <1>5 DEF ConnectionLost
  <2> QED
    BY <2>1 DEF LagInv
<1> QED
  BY <1>3, <1>4, <1>5

LEMMA LagInvStep ==
  ASSUME ClientInv, LagInv, [ClientNext]_dialogueVars
  PROVE  LagInv'
<1>1. CASE UNCHANGED clientVars
  BY <1>1 DEF clientVars, LagInv
<1>2. CASE UNCHANGED dialogueVars \/ WorkerActs \/ ServerEnds \/ ClientLeaves
  <2>1. UNCHANGED clientVars
    BY <1>2 DEF dialogueVars, WorkerActs, ServerEnds, ClientLeaves, clientVars
  <2> QED
    BY <1>1, <2>1
<1>3. CASE ConnectionMade \/ ConnectionEnds
  <2>1. /\ UNCHANGED <<client, sent, read, early>>
        /\ link \notin {"eof", "reset"}
    BY <1>3 DEF ConnectionMade, ConnectionEnds
  <2> QED
    BY <2>1 DEF LagInv
<1>4. CASE \/ \E line \in Commands : TypeCommand(line)
           \/ \E line \in RegistrationForms \cup LoginForms : FillIn(line)
  BY <1>4, SendKeepsLag
<1>5. CASE Receives \/ ReceivesGarbled
  BY <1>5, ReceiveKeepsLag
<1>6. CASE Poll \/ GiveUp \/ ConnectionLost
  BY <1>6, LimitKeepsLag
<1> QED
  BY <1>2, <1>3, <1>4, <1>5, <1>6 DEF ClientNext, ClientWaits

\* At the prompt of a client that is still connected, no more replies are
\* missing than waits ended early: each such wait puts it one reply behind at
\* most, however the network cuts and joins them (client.cpp 83-114, 144-160,
\* 180-196, 270-283).
THEOREM NoFurtherBehind == ClientSpec => []BehindByEarlyWaits
<1>1. ClientInit => LagInv
  <2>1. ASSUME ClientInit PROVE LagInv
    <3>1. sent = <<>> /\ read = 0 /\ early = 0 /\ client = "menu"
      BY <2>1 DEF ClientInit
    <3>2. Len(Due(sent)) = 0 /\ Slack(client) = 0
      BY <3>1, NothingDue DEF Slack, Waits
    <3> QED
      BY <3>1, <3>2 DEF LagInv
  <2> QED
    BY <2>1
<1>2. ClientInv /\ LagInv => BehindByEarlyWaits
  <2>1. SUFFICES ASSUME ClientInv, LagInv, client = "menu", link = "open"
                 PROVE  Len(Due(sent)) - read <= early
    BY DEF BehindByEarlyWaits
  <2>2. Slack(client) = 0 /\ read \in Nat /\ early \in Nat
    BY <2>1, UnreadFacts DEF Slack, Waits, ClientInv, ClientTyped
  <2>3. Len(Due(sent)) <= read + early
    BY <2>1, <2>2 DEF LagInv
  <2> QED
    BY <2>2, <2>3, DueCount, <2>1
<1>3. ClientInv /\ LagInv /\ [ClientNext]_dialogueVars => LagInv'
  BY LagInvStep
<1> QED
  BY <1>1, <1>2, <1>3, ClientInvariant, PTL DEF ClientSpec

-----------------------------------------------------------------------------
(* What was sent, against what was asked. *)

LEMMA OneReplyFits ==
  ASSUME NEW text, NEW W, text \in W
  PROVE  FitsWholly(<<text>>, <<W>>)
BY DEF FitsWholly, Fits

LEMMA CommandReplyFits ==
  ASSUME NEW line
  PROVE  FitsWholly(CommandReplies(line), Replies("IDLE", line))
<1> DEFINE r == CommandReplies(line)
<1>1. r \in Seq(ReplyTexts)
  BY CommandReplyTypes
<1>2. Replies("IDLE", line) = [i \in DOMAIN r |-> {r[i]}]
  BY DEF Replies
<1> HIDE DEF r
<1>3. DOMAIN r = 1 .. Len(r) /\ Len(r) \in Nat
  BY <1>1, LenProperties
<1>4. FitsWholly(r, [i \in DOMAIN r |-> {r[i]}])
  BY <1>3 DEF FitsWholly, Fits
<1> QED
  BY <1>2, <1>4 DEF r

LEMMA DataReplyFits ==
  ASSUME NEW line, NEW outcome, NEW text
  PROVE  /\ outcome = RegistrationOutcome(line) =>
               /\ outcome # "accepted" =>
                     FitsWholly(<<"Registration" \o " failed - " \o outcome>>,
                                Replies("WAITING_REGISTER_DATA", line))
               /\ outcome = "accepted" =>
                     FitsWholly(<<"Registration successful">>,
                                Replies("WAITING_REGISTER_DATA", line))
         /\ outcome = LoginOutcome(line) =>
               /\ outcome # "accepted" =>
                     FitsWholly(<<"Login" \o " failed - " \o outcome>>,
                                Replies("WAITING_LOGIN_DATA", line))
               /\ outcome = "accepted" /\ text \in LoginAnswers =>
                     FitsWholly(<<text>>, Replies("WAITING_LOGIN_DATA", line))
<1> DEFINE refused(verb) == verb \o " failed - " \o outcome
<1>1. ASSUME outcome = RegistrationOutcome(line)
      PROVE  Replies("WAITING_REGISTER_DATA", line) =
                <<IF outcome = "accepted" THEN {"Registration successful"}
                  ELSE {refused("Registration")}>>
  BY <1>1, Zenon DEF Replies
<1>2. ASSUME outcome = LoginOutcome(line)
      PROVE  Replies("WAITING_LOGIN_DATA", line) =
                <<IF outcome = "accepted" THEN LoginAnswers ELSE {refused("Login")}>>
  BY <1>2, Zenon DEF Replies
<1>3. \A t, W : t \in W => FitsWholly(<<t>>, <<W>>)
  BY OneReplyFits
<1> DEFINE R == refused("Registration")
           L == refused("Login")
<1>4. /\ R = "Registration" \o " failed - " \o outcome
      /\ L = "Login" \o " failed - " \o outcome
  OBVIOUS
<1> HIDE DEF R, L
<1> QED
  BY <1>1, <1>2, <1>3, <1>4

\* A whole answer to the lines before, and one to this line.
LEMMA AnswerFits ==
  ASSUME NEW lines \in Seq(UserLines), NEW line \in UserLines,
         NEW given \in Seq(ReplyTexts), NEW texts \in Seq(ReplyTexts),
         FitsWholly(given, Due(lines)), FitsWholly(texts, Replies(Expected(lines), line))
  PROVE  FitsWholly(given \o texts, Due(Append(lines, line)))
<1>1. /\ Due(lines) \in Seq(SUBSET ReplyTexts)
      /\ Replies(Expected(lines), line) \in Seq(SUBSET ReplyTexts)
      /\ Due(Append(lines, line)) = Due(lines) \o Replies(Expected(lines), line)
  BY OneLineMore DEF Expected
<1>2. Fits(texts, Replies(Expected(lines), line))
  BY DEF FitsWholly
<1> QED
  BY <1>1, <1>2, FitsTogether

LEMMA SilenceFits ==
  ASSUME NEW lines \in Seq(UserLines), NEW line \in UserLines,
         NEW given \in Seq(ReplyTexts), Fits(given, Due(lines))
  PROVE  Fits(given, Due(Append(lines, line)))
<1>1. /\ Due(lines) \in Seq(SUBSET ReplyTexts)
      /\ Replies(Expected(lines), line) \in Seq(SUBSET ReplyTexts)
      /\ Due(Append(lines, line)) = Due(lines) \o Replies(Expected(lines), line)
  BY OneLineMore DEF Expected
<1> QED
  BY <1>1, FitsLonger

LEMMA LastLine ==
  ASSUME NEW S, NEW s \in Seq(S), s # <<>>
  PROVE  /\ Front(s) \in Seq(S) /\ Last(s) \in S
         /\ s = Append(Front(s), Last(s))
<1> DEFINE f == Front(s)
           t == Append(f, Last(s))
<1>1. Len(s) \in Nat /\ Len(s) > 0
  OBVIOUS
<1>2. f \in Seq(S) /\ Len(f) = Len(s) - 1 /\ \A i \in 1 .. Len(f) : f[i] = s[i]
  <2>1. f = SubSeq(s, 1, Len(s) - 1)
    BY DEF Front
  <2>2. 1 \in Int /\ Len(s) - 1 \in Int /\ \A i \in 1 .. Len(s) - 1 : s[i] \in S
    BY <1>1, ElementOfSeq
  <2>3. /\ SubSeq(s, 1, Len(s) - 1) \in Seq(S)
        /\ Len(SubSeq(s, 1, Len(s) - 1))
             = IF 1 <= Len(s) - 1 THEN (Len(s) - 1) - 1 + 1 ELSE 0
        /\ \A i \in 1 .. (Len(s) - 1) - 1 + 1 :
              SubSeq(s, 1, Len(s) - 1)[i] = s[1 + i - 1]
    BY <2>2, SubSeqProperties
  <2> HIDE DEF f
  <2>4. (Len(s) - 1) - 1 + 1 = Len(s) - 1 /\ \A i \in Int : 1 + i - 1 = i
    BY <1>1
  <2>5. Len(f) = Len(s) - 1
    <3>1. Len(f) = IF 1 <= Len(s) - 1 THEN (Len(s) - 1) - 1 + 1 ELSE 0
      BY <2>1, <2>3, Zenon
    <3>2. \A n \in Nat : n > 0 => (IF 1 <= n - 1 THEN (n - 1) - 1 + 1 ELSE 0) = n - 1
      OBVIOUS
    <3> QED
      BY <1>1, <3>1, <3>2
  <2>6. ASSUME NEW i \in 1 .. Len(f) PROVE f[i] = s[i]
    BY <1>1, <2>1, <2>3, <2>4, <2>5
  <2> QED
    BY <2>1, <2>3, <2>5, <2>6
<1>3. Last(s) = s[Len(s)] /\ Last(s) \in S
  BY <1>1 DEF Last
<1> HIDE DEF f
<1>4. t \in Seq(S) /\ Len(t) = Len(s) /\ \A i \in 1 .. Len(s) : t[i] = s[i]
  BY <1>1, <1>2, <1>3
<1>5. t = s
  BY <1>4, SeqEqual
<1> QED
  BY <1>2, <1>3, <1>5 DEF f

\* The worker has taken a line and answers it.
LEMMA AnswerKeepsReplies ==
  ASSUME WorkerTyped, NEW lines \in Seq(UserLines), NEW line \in UserLines,
         NEW texts \in Seq(ReplyTexts),
         Owed(lines), FitsWholly(texts, Replies(Expected(lines), line)),
         Send(Conn, texts), UNCHANGED peer, handled'[Conn] = Append(lines, line),
         pc'[Conn] \in {"recv", "closed"},
         state'[Conn] = IF Expected(lines) = "IDLE" THEN AfterCommand(line) ELSE "IDLE"
  PROVE  RepliesInv'
<1> DEFINE more == Append(lines, line)
<1>1. /\ replies[Conn] \in Seq(ReplyTexts)
      /\ replies'[Conn] = IF peer[Conn] THEN replies[Conn] \o texts ELSE replies[Conn]
  BY ClientConstants DEF WorkerTyped, Send
<1>2. state'[Conn] = Expected(more)
  BY OneLineMore DEF Expected
<1>3. Fits(replies'[Conn], Due(more)) /\ (peer[Conn] => FitsWholly(replies'[Conn], Due(more)))
  <2>1. CASE peer[Conn]
    <3>1. FitsWholly(replies[Conn] \o texts, Due(more))
      BY <1>1, <2>1, AnswerFits DEF Owed
    <3> QED
      BY <1>1, <2>1, <3>1 DEF FitsWholly
  <2>2. CASE ~peer[Conn]
    BY <1>1, <2>2, SilenceFits DEF Owed
  <2> QED
    BY <2>1, <2>2
<1>4. Done(Conn)' = more
  BY DEF Done
<1> HIDE DEF more
<1>5. Owed(more)'
  BY <1>3 DEF Owed
<1> QED
  BY <1>2, <1>3, <1>4, <1>5 DEF RepliesInv, Working, more, Owed

LEMMA TakenLine ==
  ASSUME WorkerTyped, ClientTyped, TakesLine
  PROVE  /\ NextLine \in UserLines /\ handled[Conn] \in Seq(UserLines)
         /\ handled'[Conn] = Append(handled[Conn], NextLine)
         /\ Done(Conn) = handled[Conn]
BY ClientConstants DEF WorkerTyped, ClientTyped, TakesLine, NextLine, Done

LEMMA ServeLineKeepsReplies ==
  ASSUME ClientInv, RepliesInv, ServeLine
  PROVE  RepliesInv'
<1> USE ClientConstants
<1> DEFINE lines == handled[Conn]
           line == NextLine
<1>1. TakesLine /\ UNCHANGED peer
  BY DEF ServeLine, TakesLine, NextLine, Take, HandleCommand, HandleRegistrationData,
         HandleLoginData, RejectData, AcceptData
<1>2. /\ line \in UserLines /\ lines \in Seq(UserLines) /\ Done(Conn) = lines
      /\ handled'[Conn] = Append(lines, line)
  BY <1>1, TakenLine DEF ClientInv
<1>3. Owed(lines) /\ state[Conn] = Expected(lines) /\ pc[Conn] = "recv"
  BY <1>1, <1>2 DEF RepliesInv, TakesLine
<1> HIDE DEF lines, line
<1>4. CASE HandleCommand(Conn, line)
  <2>1. Expected(lines) = "IDLE" /\ Send(Conn, CommandReplies(line))
    BY <1>3, <1>4 DEF HandleCommand
  <2>2. /\ state'[Conn] = AfterCommand(line) /\ pc'[Conn] \in {"recv", "closed"}
    BY <1>4 DEF HandleCommand, Goto, ClientInv, WorkerTyped
  <2>3. /\ CommandReplies(line) \in Seq(ReplyTexts)
        /\ FitsWholly(CommandReplies(line), Replies(Expected(lines), line))
    BY <2>1, CommandReplyTypes, CommandReplyFits
  <2> QED
    BY <1>1, <1>2, <1>3, <2>1, <2>2, <2>3, AnswerKeepsReplies DEF ClientInv
<1>5. ASSUME NEW waiting \in DataStates, NEW verb, NEW outcome,
             RejectData(Conn, line, waiting, verb, outcome),
             verb \o " failed - " \o outcome \in ReplyTexts,
             outcome # "accepted" =>
                FitsWholly(<<verb \o " failed - " \o outcome>>, Replies(waiting, line))
      PROVE  RepliesInv'
  <2> DEFINE text == verb \o " failed - " \o outcome
  <2>1. /\ Expected(lines) = waiting /\ waiting # "IDLE" /\ outcome # "accepted"
        /\ Send(Conn, <<text>>)
    BY <1>3, <1>5 DEF RejectData, DataStates
  <2>2. state'[Conn] = "IDLE" /\ pc'[Conn] = "recv"
    BY <1>3, <1>5 DEF RejectData, ClientInv, WorkerTyped
  <2>3. FitsWholly(<<text>>, Replies(Expected(lines), line)) /\ text \in ReplyTexts
    BY <1>5, <2>1
  <2> HIDE DEF text
  <2>4. <<text>> \in Seq(ReplyTexts)
    BY <2>3
  <2>5. state'[Conn] = IF Expected(lines) = "IDLE" THEN AfterCommand(line) ELSE "IDLE"
    BY <2>1, <2>2
  <2> QED
    BY <1>1, <1>2, <1>3, <2>1, <2>2, <2>3, <2>4, <2>5, AnswerKeepsReplies DEF ClientInv
<1>6. ASSUME NEW waiting \in DataStates, NEW outcome, NEW next \in {"insert", "find"},
             AcceptData(Conn, line, waiting, outcome, next),
             next = "insert" => waiting = "WAITING_REGISTER_DATA"
                                /\ outcome = RegistrationOutcome(line),
             next = "find" => waiting = "WAITING_LOGIN_DATA"
                              /\ outcome = LoginOutcome(line)
      PROVE  RepliesInv'
  <2>1. /\ state[Conn] = waiting /\ outcome = "accepted"
        /\ pc'[Conn] = next /\ UNCHANGED <<state, replies, peer>>
    BY <1>1, <1>6 DEF AcceptData, Goto, ClientInv, WorkerTyped
  <2>2. /\ handled'[Conn] # <<>> /\ Last(handled'[Conn]) = line
        /\ Front(handled'[Conn]) = lines
    <3>1. Front(Append(lines, line)) = lines
      BY <1>2, OneLineMore
    <3>2. Append(lines, line) # <<>> /\ Last(Append(lines, line)) = line
      BY <1>2 DEF Last
    <3> QED
      BY <1>2, <3>1, <3>2
  <2>3. Done(Conn)' = lines
    BY <1>6, <2>1, <2>2 DEF Done
  <2>4. DataAccepted(Last(handled[Conn]))'
    BY <1>6, <2>1, <2>2 DEF DataAccepted
  <2>5. Owed(Done(Conn))' /\ state'[Conn] = Expected(Done(Conn)')
    BY <1>3, <2>1, <2>3 DEF Owed
  <2>6. pc'[Conn] # "closed"
    BY <1>6, <2>1
  <2> QED
    BY <2>2, <2>4, <2>5, <2>6 DEF RepliesInv
<1>7. CASE HandleRegistrationData(Conn, line)
  <2>1. PICK outcome : outcome = RegistrationOutcome(line)
    OBVIOUS
  <2>2. "Registration" \o " failed - " \o outcome \in ReplyTexts
    BY <1>2, <2>1 DEF ReplyTexts
  <2>3. outcome # "accepted" => FitsWholly(<<"Registration" \o " failed - " \o outcome>>,
                                           Replies("WAITING_REGISTER_DATA", line))
    BY <2>1, DataReplyFits
  <2>4. "WAITING_REGISTER_DATA" \in DataStates
    BY DEF DataStates
  <2>5. \/ RejectData(Conn, line, "WAITING_REGISTER_DATA", "Registration", outcome)
        \/ AcceptData(Conn, line, "WAITING_REGISTER_DATA", outcome, "insert")
    BY <1>7, <2>1 DEF HandleRegistrationData
  <2> QED
    BY <1>5, <1>6, <2>1, <2>2, <2>3, <2>4, <2>5
<1>8. CASE HandleLoginData(Conn, line)
  <2>1. PICK outcome : outcome = LoginOutcome(line)
    OBVIOUS
  <2>2. "Login" \o " failed - " \o outcome \in ReplyTexts
    BY <1>2, <2>1 DEF ReplyTexts
  <2>3. outcome # "accepted" => FitsWholly(<<"Login" \o " failed - " \o outcome>>,
                                           Replies("WAITING_LOGIN_DATA", line))
    BY <2>1, DataReplyFits
  <2>4. "WAITING_LOGIN_DATA" \in DataStates
    BY DEF DataStates
  <2>5. \/ RejectData(Conn, line, "WAITING_LOGIN_DATA", "Login", outcome)
        \/ AcceptData(Conn, line, "WAITING_LOGIN_DATA", outcome, "find")
    BY <1>8, <2>1 DEF HandleLoginData
  <2> QED
    BY <1>5, <1>6, <2>1, <2>2, <2>3, <2>4, <2>5
<1> QED
  BY <1>4, <1>7, <1>8 DEF ServeLine, line, NextLine

\* The line in work, when it is answered.
LEMMA ConcludeKeepsReplies ==
  ASSUME ClientInv, RepliesInv, ConfirmRegistration(Conn) \/ AnswerLogin(Conn)
  PROVE  RepliesInv'
<1> USE ClientConstants
<1> DEFINE lines == Front(handled[Conn])
           line == Last(handled[Conn])
<1>1. PICK text : /\ Conclude(Conn, text) /\ pc[Conn] \in {"confirm", "answer"}
                  /\ pc[Conn] = "confirm" => text = "Registration successful"
                  /\ pc[Conn] = "answer" => text \in LoginAnswers
  <2>1. CASE ConfirmRegistration(Conn)
    BY <2>1 DEF ConfirmRegistration
  <2>2. CASE AnswerLogin(Conn)
    BY <2>2 DEF AnswerLogin, LoginAnswers
  <2> QED
    BY <2>1, <2>2
<1>2. pc[Conn] \in Working /\ pc[Conn] # "closed" /\ pc[Conn] # "recv"
  BY <1>1 DEF Working
<1>3. handled[Conn] \in Seq(UserLines) /\ handled[Conn] # <<>> /\ DataAccepted(line)
  BY <1>2 DEF RepliesInv, ClientInv, WorkerTyped
<1>4. lines \in Seq(UserLines) /\ line \in UserLines /\ handled[Conn] = Append(lines, line)
  BY <1>3, LastLine
<1>5. Done(Conn) = lines
  BY <1>2 DEF Done
<1> HIDE DEF lines, line
<1>6. Owed(lines) /\ state[Conn] = Expected(lines)
  BY <1>2, <1>5 DEF RepliesInv
<1>7. /\ Expected(lines) # "IDLE" /\ text \in ReplyTexts
      /\ FitsWholly(<<text>>, Replies(Expected(lines), line))
  <2>1. CASE pc[Conn] = "confirm"
    <3>1. /\ Expected(lines) = "WAITING_REGISTER_DATA" /\ text = "Registration successful"
          /\ RegistrationOutcome(line) = "accepted"
      BY <1>1, <1>3, <1>6, <2>1 DEF DataAccepted
    <3>2. FitsWholly(<<text>>, Replies("WAITING_REGISTER_DATA", line))
      BY <3>1, DataReplyFits
    <3> QED
      BY <3>1, <3>2 DEF ReplyTexts
  <2>2. CASE pc[Conn] = "answer"
    <3>1. /\ Expected(lines) = "WAITING_LOGIN_DATA" /\ text \in LoginAnswers
          /\ LoginOutcome(line) = "accepted"
      BY <1>1, <1>3, <1>6, <2>2 DEF DataAccepted
    <3>2. FitsWholly(<<text>>, Replies("WAITING_LOGIN_DATA", line))
      BY <3>1, DataReplyFits
    <3> QED
      BY <3>1, <3>2 DEF ReplyTexts
  <2> QED
    BY <1>1, <2>1, <2>2
<1>8. /\ Send(Conn, <<text>>) /\ UNCHANGED peer /\ handled'[Conn] = Append(lines, line)
      /\ state'[Conn] = "IDLE" /\ pc'[Conn] = "recv"
  BY <1>1, <1>4 DEF Conclude, Goto, ClientInv, WorkerTyped
<1>9. <<text>> \in Seq(ReplyTexts)
  BY <1>7
<1>10. state'[Conn] = IF Expected(lines) = "IDLE" THEN AfterCommand(line) ELSE "IDLE"
  BY <1>7, <1>8
<1> QED
  BY <1>4, <1>6, <1>7, <1>8, <1>9, <1>10, AnswerKeepsReplies DEF ClientInv

\* The statement runs while the line is in work.
LEMMA StatementKeepsReplies ==
  ASSUME ClientInv, RepliesInv, StoreUser(Conn) \/ LookUpUser(Conn)
  PROVE  RepliesInv'
<1>1. /\ UNCHANGED <<state, handled, replies, peer>>
      /\ \/ pc[Conn] = "insert" /\ pc'[Conn] = "confirm"
         \/ pc[Conn] = "find" /\ pc'[Conn] = "answer"
  BY ClientConstants DEF StoreUser, LookUpUser, Goto, ClientInv, WorkerTyped
<1>2. UNCHANGED Done(Conn)
  BY <1>1 DEF Done
<1>4. DataAccepted(Last(handled[Conn])) => DataAccepted(Last(handled[Conn]))'
  BY <1>1 DEF DataAccepted
<1>5. /\ Owed(Done(Conn)) /\ state[Conn] = Expected(Done(Conn))
      /\ handled[Conn] # <<>> /\ DataAccepted(Last(handled[Conn]))
  BY <1>1 DEF RepliesInv, Working
<1>6. Owed(Done(Conn))'
  BY <1>1, <1>2, <1>5 DEF Owed
<1> QED
  BY <1>1, <1>2, <1>4, <1>5, <1>6 DEF RepliesInv

\* The end of a session may leave a line in work unanswered, and no other.
LEMMA EndKeepsReplies ==
  ASSUME ClientInv, RepliesInv, EndSession(Conn) \/ ServerEnds
  PROVE  RepliesInv'
<1>1. /\ UNCHANGED <<handled, replies>> /\ pc'[Conn] = "closed" /\ pc[Conn] # "closed"
      /\ pc[Conn] \in Working \cup {"recv"}
      /\ handled[Conn] \in Seq(UserLines) /\ replies[Conn] \in Seq(ReplyTexts)
  BY ClientConstants DEF EndSession, ServerEnds, Goto, ClientInv, WorkerTyped
<1>2. Fits(replies[Conn], Due(Done(Conn)))
  BY <1>1 DEF RepliesInv, Owed
<1>3. Fits(replies[Conn], Due(handled[Conn]))
  <2>1. CASE pc[Conn] = "recv"
    BY <1>2, <2>1 DEF Done
  <2>2. CASE pc[Conn] \in Working
    <3>1. Done(Conn) = Front(handled[Conn]) /\ handled[Conn] # <<>>
      BY <1>1, <2>2 DEF Done, RepliesInv, Working
    <3>2. /\ Front(handled[Conn]) \in Seq(UserLines) /\ Last(handled[Conn]) \in UserLines
          /\ handled[Conn] = Append(Front(handled[Conn]), Last(handled[Conn]))
      BY <1>1, <3>1, LastLine
    <3> QED
      BY <1>1, <1>2, <3>1, <3>2, SilenceFits
  <2> QED
    BY <1>1, <2>1, <2>2
<1> QED
  BY <1>1, <1>3 DEF RepliesInv, Working

\* What no step of the worker changes, and what the client leaving does.
LEMMA QuietKeepsReplies ==
  ASSUME RepliesInv, UNCHANGED <<state, pc, handled, replies>>, peer'[Conn] => peer[Conn]
  PROVE  RepliesInv'
<1>1. UNCHANGED Done(Conn)
  BY DEF Done
<1>2. Owed(Done(Conn)) => Owed(Done(Conn))'
  BY <1>1 DEF Owed
<1>3. DataAccepted(Last(handled[Conn])) => DataAccepted(Last(handled[Conn]))'
  BY DEF DataAccepted
<1> QED
  BY <1>1, <1>2, <1>3 DEF RepliesInv

LEMMA RepliesInvInit ==
  ASSUME ClientInit
  PROVE  RepliesInv
<1>1. /\ handled[Conn] = <<>> /\ replies[Conn] = <<>> /\ pc[Conn] = "recv"
      /\ state[Conn] = "IDLE"
  BY ClientConstants DEF ClientInit, Init, SessionsFresh, Fresh
<1>2. Len(<<>>) = 0
  OBVIOUS
<1>3. Expected(<<>>) = "IDLE"
  BY <1>2, NothingDue DEF Expected
<1>4. Due(<<>>) = <<>>
  BY NothingDue
<1>5. FitsWholly(<<>>, <<>>)
  BY DEF FitsWholly, Fits
<1> QED
  BY <1>1, <1>3, <1>4, <1>5 DEF RepliesInv, Owed, Done, Working, FitsWholly

LEMMA RepliesInvStep ==
  ASSUME ClientInv, RepliesInv, [ClientNext]_dialogueVars
  PROVE  RepliesInv'
<1>1. CASE ServeLine
  BY <1>1, ServeLineKeepsReplies
<1>2. CASE StoreUser(Conn) \/ LookUpUser(Conn)
  BY <1>2, StatementKeepsReplies
<1>3. CASE ConfirmRegistration(Conn) \/ AnswerLogin(Conn)
  BY <1>3, ConcludeKeepsReplies
<1>4. CASE EndSession(Conn) \/ ServerEnds
  BY <1>4, EndKeepsReplies
<1>5. CASE ClientLeaves
  <2>1. UNCHANGED <<state, pc, handled, replies>> /\ ~peer'[Conn]
    BY <1>5, ClientConstants DEF ClientLeaves, HangUp, ClientInv, WorkerTyped
  <2> QED
    BY <2>1, QuietKeepsReplies
<1>6. CASE UNCHANGED vars
  BY <1>6, QuietKeepsReplies DEF vars, sessionVars
<1>7. \/ UNCHANGED vars
      \/ WorkerActs \/ ServerEnds \/ ClientLeaves
  <2>1. CASE UNCHANGED dialogueVars
    BY <2>1 DEF dialogueVars
  <2>2. CASE ConnectionMade \/ ConnectionEnds
    BY <2>2 DEF ConnectionMade, ConnectionEnds
  <2>3. CASE \/ \E line \in Commands : TypeCommand(line)
             \/ \E line \in RegistrationForms \cup LoginForms : FillIn(line)
    BY <2>3 DEF TypeCommand, FillIn, SendMessage
  <2>4. CASE Receives \/ ReceivesGarbled
    BY <2>4 DEF Receives, ReceivesGarbled, ReceiveReply, ReceiveAnswer, ReceiveText,
                ReceiveImage, ReceiveGarbage, ReceiveGarbledPixels, Receive
  <2>5. CASE Poll \/ GiveUp \/ ConnectionLost
    BY <2>5 DEF Poll, GiveUp, ConnectionLost
  <2> QED
    BY <2>1, <2>2, <2>3, <2>4, <2>5 DEF ClientNext, ClientWaits
<1> QED
  BY <1>1, <1>2, <1>3, <1>4, <1>5, <1>6, <1>7 DEF WorkerActs

\* Every line of a connection is taken for what it is, command or data, and
\* answered once and in order, for as long as client and worker are there; one
\* that leaves in the middle is owed nothing more (threaded_server.cpp 128-173).
THEOREM AnsweredAsAsked == ClientSpec => []ReplyMatchesHistory
<1>1. ASSUME ClientInv, RepliesInv PROVE ReplyMatchesHistory
  <2>1. pc[Conn] \in Working \cup {"recv", "closed"}
    BY <1>1, ClientConstants DEF ClientInv, WorkerTyped
  <2>2. pc[Conn] = "closed" => Done(Conn) = handled[Conn]
    BY DEF Done
  <2>3. /\ Fits(replies[Conn], Due(Done(Conn)))
        /\ peer[Conn] /\ pc[Conn] = "recv" => FitsWholly(replies[Conn], Due(Done(Conn)))
    BY <1>1, <2>1, <2>2 DEF RepliesInv, Owed
  <2> QED
    BY <2>3, ClientConstants DEF ReplyMatchesHistory
<1>2. ClientInit => RepliesInv
  BY RepliesInvInit
<1>3. ClientInv /\ RepliesInv /\ [ClientNext]_dialogueVars => RepliesInv'
  BY RepliesInvStep
<1> QED
  BY <1>1, <1>2, <1>3, ClientInvariant, PTL DEF ClientSpec

=============================================================================
