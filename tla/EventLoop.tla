------------------------------- MODULE EventLoop -------------------------------
(***************************************************************************)
(* class Server of server/src/source/server.cpp: one thread that serves    *)
(* all clients from a loop around select, on sockets that do not block.    *)
(* ThreadedServer overrides run(), so that main never enters this loop.    *)
(*                                                                         *)
(* A complete line is one element of inbox, and an image is ImageSize      *)
(* bytes of which the first HeaderSize are width and height.  The database *)
(* is left out: insert_user's result is not looked at, and find_user has   *)
(* two answers.                                                            *)
(***************************************************************************)
EXTENDS DataLine, Histories, FiniteSets, SequencesExt

CONSTANTS
    Sockets,      \* values a SOCKET handle can take
    Listener,     \* the handle of the listening socket, socket_fd
    Lines,        \* lines a client may send
    MaxLines,     \* bound: lines of all open connections, dropped ones apart
    BacklogBound, \* length of the listen() queue
    FdSetSize,    \* FD_SETSIZE, 64 with Winsock
    HeaderSize,   \* 8
    ImageSize,    \* 8 + 64 * 64 * 4
    ChunkSize     \* 1024

ASSUME EventLoopConstants ==
    /\ IsFiniteSet(Sockets) /\ Listener \notin Sockets
    /\ MaxLines \in Nat /\ BacklogBound \in Nat /\ FdSetSize \in Nat \ {0}
    /\ HeaderSize \in 1 .. ImageSize - 1 /\ ImageSize \in Nat
    /\ ChunkSize \in Nat \ {0}

VARIABLES
    pc, index,         \* where run() is; i + 1 of the loop over client_sockets
    readfds, writefds, \* what select reported and the round has not come to yet
    client_sockets,    \* local of run(): sockets in order of arrival
    client_states,     \* the map from sockets to their ClientState
    open,              \* handles that are open
    backlog,           \* connections not yet accepted
    inbox,             \* lines that have arrived and were not received
    peer,              \* whether the client is still there
    full,              \* whether the system takes no more bytes for the client
    handled,           \* history: lines of the connection that were not dropped
    out,               \* history: what the system took for the client
    lost               \* history: a text was not taken whole

loopVars    == <<pc, index, readfds, writefds, client_sockets, client_states>>
clientVars  == <<inbox, peer, full>>
historyVars == <<handled, out, lost>>
vars == <<loopVars, open, backlog, clientVars, historyVars>>

SendingStates == {"SENDING_IMAGE_HEADER", "SENDING_IMAGE_DATA"}
ClientStates  == SendingStates \cup
                 {"IDLE", "WAITING_REGISTER_DATA", "WAITING_LOGIN_DATA"}

ClientState(state, sent, lines) ==
    [state |-> state, bytes_sent |-> sent, buffer |-> lines]

\* ClientState()
NewClient == ClientState("IDLE", 0, <<>>)

All(value) == [s \in Sockets |-> value]

Init ==
    /\ pc = "scan" /\ index = 1
    /\ readfds = {} /\ writefds = {}
    /\ client_sockets = <<>> /\ client_states = <<>>
    /\ open = {} /\ backlog = 0
    /\ inbox = All(<<>>) /\ peer = All(FALSE) /\ full = All(FALSE)
    /\ handled = All(<<>>) /\ out = All(<<>>) /\ lost = All(FALSE)

-----------------------------------------------------------------------------
(* The clients and the network. *)

Connect ==
    /\ backlog < BacklogBound /\ backlog' = backlog + 1
    /\ UNCHANGED <<loopVars, open, clientVars, historyVars>>

LinesUnderWay ==
    MapThenFoldSet(+, 0, LAMBDA s : Len(inbox[s]) + Len(handled[s]),
                   LAMBDA S : CHOOSE s \in S : TRUE, Sockets)

SendLine(s, line) ==
    /\ peer[s] /\ LinesUnderWay < MaxLines
    /\ inbox' = [inbox EXCEPT ![s] = Append(@, line)]
    /\ UNCHANGED <<loopVars, open, backlog, peer, full, historyVars>>

HangUp(s) ==
    /\ peer[s] /\ peer' = [peer EXCEPT ![s] = FALSE]
    /\ UNCHANGED <<loopVars, open, backlog, inbox, full, historyVars>>

\* The client stops to read what it was sent, for good.
Stall(s) ==
    /\ peer[s] /\ out[s] # <<>> /\ ~full[s] /\ full' = [full EXCEPT ![s] = TRUE]
    /\ UNCHANGED <<loopVars, open, backlog, inbox, peer, historyVars>>

-----------------------------------------------------------------------------
(* run(): select, accept, and the loop over the clients. *)

Sending(s) == s \in DOMAIN client_states /\ client_states[s].state \in SendingStates

\* FD_SET ignores a socket for which the set has no room; readfds holds the
\* listening socket first.
Polled ==
    {client_sockets[i] : i \in {j \in DOMAIN client_sockets : j <= FdSetSize - 1}}
Awaited ==
    {client_sockets[i] : i \in {j \in DOMAIN client_sockets :
        /\ Sending(client_sockets[j])
        /\ Cardinality({k \in 1 .. j : Sending(client_sockets[k])}) <= FdSetSize}}

Readable(s) == IF s = Listener THEN backlog > 0 ELSE inbox[s] # <<>> \/ ~peer[s]

RoundOver == pc = "scan" /\ index > Len(client_sockets)

\* Mutation of Select: the first of the two sending states is forgotten.
SelectDataOnly ==
    /\ RoundOver /\ index' = 1
    /\ readfds' = {s \in Polled \cup {Listener} : Readable(s)}
    /\ writefds' = {s \in Awaited : /\ ~full[s]
                                    /\ client_states[s].state = "SENDING_IMAGE_DATA"}
    /\ pc' = IF ~(ToSet(client_sockets) \subseteq open) THEN "returned"
             ELSE IF Listener \in readfds' THEN "accept" ELSE "scan"
    /\ UNCHANGED <<client_sockets, client_states, open, backlog, clientVars,
                   historyVars>>

\* A closed handle in a set makes select fail, and run() return.
Select ==
    /\ RoundOver /\ index' = 1
    /\ readfds' = {s \in Polled \cup {Listener} : Readable(s)}
    /\ writefds' = {s \in Awaited : ~full[s]}
    /\ pc' = IF ~(ToSet(client_sockets) \subseteq open) THEN "returned"
             ELSE IF Listener \in readfds' THEN "accept" ELSE "scan"
    /\ UNCHANGED <<client_sockets, client_states, open, backlog, clientVars,
                   historyVars>>

\* No handle is left.
AcceptFails ==
    /\ pc = "accept" /\ open = Sockets
    /\ pc' = "scan" /\ readfds' = readfds \ {Listener}
    /\ UNCHANGED <<index, writefds, client_sockets, client_states, open, backlog,
                   clientVars, historyVars>>

Accept(s) ==
    /\ pc = "accept" /\ s \notin open
    /\ pc' = "scan" /\ readfds' = readfds \ {Listener}
    /\ open' = open \cup {s} /\ backlog' = backlog - 1
    /\ client_sockets' = Append(client_sockets, s)
    /\ client_states' = [t \in DOMAIN client_states \cup {s} |->
                            IF t = s THEN NewClient ELSE client_states[t]]
    /\ peer' = [peer EXCEPT ![s] = TRUE]
    /\ UNCHANGED <<index, writefds, inbox, full, historyVars>>

Current == client_sockets[index]

NextClient ==
    /\ pc' = "scan" /\ index' = index + 1
    /\ readfds' = readfds \ {Current} /\ writefds' = writefds \ {Current}

\* What was on its way in a connection, and its history, end with it.
Forget(s) ==
    /\ inbox' = [inbox EXCEPT ![s] = <<>>]
    /\ peer' = [peer EXCEPT ![s] = FALSE] /\ full' = [full EXCEPT ![s] = FALSE]
    /\ handled' = [handled EXCEPT ![s] = <<>>]
    /\ out' = [out EXCEPT ![s] = <<>>] /\ lost' = [lost EXCEPT ![s] = FALSE]

\* Mutation of Disconnect: the index is not taken back after the erase.
DisconnectAndSkip(s) ==
    /\ open' = open \ {s}
    /\ client_states' = [t \in DOMAIN client_states \ {s} |-> client_states[t]]
    /\ client_sockets' = RemoveAt(client_sockets, index)
    /\ index' = index + 1
    /\ Forget(s) /\ pc' = "scan"
    /\ readfds' = readfds \ {s} /\ writefds' = writefds \ {s}
    /\ UNCHANGED backlog

\* Mutation of Disconnect: the socket stays in client_sockets.
DisconnectAndKeep(s) ==
    /\ open' = open \ {s}
    /\ client_states' = [t \in DOMAIN client_states \ {s} |-> client_states[t]]
    /\ index' = index + 1
    /\ Forget(s) /\ pc' = "scan"
    /\ readfds' = readfds \ {s} /\ writefds' = writefds \ {s}
    /\ UNCHANGED <<client_sockets, backlog>>

\* handle_client_read returned true; --i undoes the ++i of the loop.
Disconnect(s) ==
    /\ open' = open \ {s}
    /\ client_states' = [t \in DOMAIN client_states \ {s} |-> client_states[t]]
    /\ client_sockets' = RemoveAt(client_sockets, index)
    /\ Forget(s) /\ pc' = "scan"
    /\ readfds' = readfds \ {s} /\ writefds' = writefds \ {s}
    /\ UNCHANGED <<index, backlog>>

-----------------------------------------------------------------------------
(* handle_client_read and the handlers of the lines. *)

Recv(n) ==
    /\ pc = "scan" /\ index <= Len(client_sockets) /\ Current \in readfds
    /\ n \in 1 .. Len(inbox[Current])
    /\ pc' = "messages"
    /\ client_states' = [client_states EXCEPT ![Current].buffer =
                            SubSeq(inbox[Current], 1, n)]
    /\ inbox' = [inbox EXCEPT ![Current] = SubSeq(@, n + 1, Len(@))]
    /\ UNCHANGED <<index, readfds, writefds, client_sockets, open, backlog,
                   peer, full, historyVars>>

\* recv returns 0, or an error with which lines may get lost.
RecvEnds ==
    /\ pc = "scan" /\ index <= Len(client_sockets) /\ Current \in readfds
    /\ ~peer[Current]
    /\ Disconnect(Current)

Text(words) == <<words, 0>>
Byte(k)     == <<"byte", k>>

\* The result of send is not looked at.  A text of which the system takes a part
\* only is lost too: the client's buffer fills up just before it, and the part is
\* left out.
Reply(s, words) ==
    IF full[s] THEN lost' = [lost EXCEPT ![s] = TRUE] /\ UNCHANGED out
               ELSE out' = [out EXCEPT ![s] = Append(@, Text(words))]
                    /\ UNCHANGED lost

Command(name) == <<Field(name, FALSE)>>

\* The replies of the commands after which the connection goes on.
CommandReply(line) ==
    CASE line = Command("register") -> "Send email,password,name,surname,note"
      [] line = Command("login")    -> "Send email,password"
      [] line = Command("logout")   -> "Logged out"
      [] OTHER                      -> "Unknown command"

AfterCommand(line) ==
    CASE line = Command("register")  -> "WAITING_REGISTER_DATA"
      [] line = Command("login")     -> "WAITING_LOGIN_DATA"
      [] line = Command("get image") -> "SENDING_IMAGE_HEADER"
      [] OTHER                       -> "IDLE"

\* handle_login_data here has no test for an empty line of its own.
EventLoginOutcome(line) ==
    IF line = EmptyLine THEN "invalid format" ELSE LoginOutcome(line)

LoginAnswers == {"Login successful", "Login failed - user not found"}

DataReplies(waiting, line) ==
    LET registration == RegistrationOutcome(line)
        login == EventLoginOutcome(line)
    IN  IF waiting = "WAITING_REGISTER_DATA"
        THEN IF registration = "accepted" THEN {"Registration successful"}
             ELSE {"Registration failed - " \o registration}
        ELSE IF login = "accepted" THEN LoginAnswers
             ELSE {"Login failed - " \o login}

\* The next line of the buffer, found in a state of from, leaves state to.
NextMessage(s, line, from) ==
    /\ pc = "messages" /\ s = Current
    /\ client_states[s].buffer # <<>> /\ line = Head(client_states[s].buffer)
    /\ client_states[s].state \in from

TakeMessage(s, line, from, to) ==
    /\ NextMessage(s, line, from)
    /\ client_states' = [client_states EXCEPT ![s] =
           ClientState(to, IF to \in SendingStates \ from THEN 0 ELSE @.bytes_sent,
                       Tail(@.buffer))]
    /\ UNCHANGED <<pc, index, readfds, writefds, client_sockets, open, backlog,
                   clientVars>>

History(s, line) == handled' = [handled EXCEPT ![s] = Append(@, line)]

HandleCommand(s, line) ==
    /\ line \notin {Command("exit"), Command("get image")}
    /\ TakeMessage(s, line, {"IDLE"}, AfterCommand(line))
    /\ Reply(s, CommandReply(line)) /\ History(s, line)

QueueImage(s, line) ==
    /\ line = Command("get image")
    /\ TakeMessage(s, line, {"IDLE"}, AfterCommand(line))
    /\ History(s, line) /\ UNCHANGED <<out, lost>>

\* After "Goodbye!" the lines left in the buffer go with the ClientState.
HandleExit(s, line) ==
    /\ line = Command("exit")
    /\ NextMessage(s, line, {"IDLE"})
    /\ Disconnect(s)

\* Mutation of HandleData: after a refused line the client may try again.
HandleDataAgain(s, line) ==
    \E waiting \in {"WAITING_REGISTER_DATA", "WAITING_LOGIN_DATA"},
       words \in DataReplies(client_states[s].state, line) :
        /\ TakeMessage(s, line, {waiting},
               IF words \in LoginAnswers \cup {"Registration successful"}
               THEN "IDLE" ELSE waiting)
        /\ Reply(s, words) /\ History(s, line)

HandleData(s, line) ==
    \E waiting \in {"WAITING_REGISTER_DATA", "WAITING_LOGIN_DATA"} :
        /\ TakeMessage(s, line, {waiting}, "IDLE")
        /\ \E words \in DataReplies(waiting, line) : Reply(s, words)
        /\ History(s, line)

\* Mutation of DropMessage: the line is answered.
AnswerMessage(s, line) ==
    /\ TakeMessage(s, line, SendingStates, client_states[s].state)
    /\ Reply(s, CommandReply(line)) /\ UNCHANGED handled

\* While an image is being sent lines are taken and forgotten.
DropMessage(s, line) ==
    /\ TakeMessage(s, line, SendingStates, client_states[s].state)
    /\ UNCHANGED historyVars

HandleMessage ==
    /\ pc = "messages"
    /\ LET s == Current  buffer == client_states[s].buffer IN
       /\ buffer # <<>>
       /\ LET line == Head(buffer) IN
          \/ HandleCommand(s, line) \/ QueueImage(s, line) \/ HandleExit(s, line)
          \/ HandleData(s, line) \/ DropMessage(s, line)

\* Neither read nor written, or read and no line left.
Done ==
    \/ pc = "scan" /\ index <= Len(client_sockets) /\ Current \notin readfds
    \/ pc = "messages" /\ client_states[Current].buffer = <<>>

NotWritable ==
    /\ Done /\ Current \notin writefds
    /\ NextClient
    /\ UNCHANGED <<client_sockets, client_states, open, backlog, clientVars,
                   historyVars>>

-----------------------------------------------------------------------------
(* handle_client_write. *)

Bytes(from, n) == [k \in 1 .. n |-> Byte(from + k)]

\* send fails: the system has no room any more.
WriteFails ==
    /\ Done /\ Current \in writefds /\ full[Current]
    /\ NextClient
    /\ UNCHANGED <<client_sockets, client_states, open, backlog, clientVars,
                   historyVars>>

\* One call of send with at most limit bytes; n of them are taken.
SendBytes(s, from, limit, n) ==
    /\ Done /\ s = Current /\ s \in writefds /\ ~full[s]
    /\ client_states[s].state = from
    /\ n \in 1 .. limit - client_states[s].bytes_sent
    /\ NextClient
    /\ UNCHANGED <<client_sockets, open, backlog, clientVars, handled>>

WriteHeader(n) ==
    LET s == Current  sent == client_states[s].bytes_sent IN
    /\ SendBytes(s, "SENDING_IMAGE_HEADER", HeaderSize, n)
    /\ out' = [out EXCEPT ![s] = @ \o Bytes(sent, n)] /\ UNCHANGED lost
    /\ client_states' = [client_states EXCEPT ![s] =
           ClientState(IF sent + n >= HeaderSize THEN "SENDING_IMAGE_DATA" ELSE @.state,
                       sent + n, @.buffer)]

\* The text after the image follows the last bytes at once, and is lost when
\* there is no room left.
WriteData(n) ==
    LET s == Current
        sent == client_states[s].bytes_sent
        ends == sent + n >= ImageSize
    IN
    /\ n <= ChunkSize
    /\ SendBytes(s, "SENDING_IMAGE_DATA", ImageSize, n)
    /\ client_states' = [client_states EXCEPT ![s] =
           ClientState(IF ends THEN "IDLE" ELSE @.state,
                       IF ends THEN 0 ELSE sent + n, @.buffer)]
    /\ \/ /\ out' = [out EXCEPT ![s] = @ \o Bytes(sent, n)]
          /\ lost' = [lost EXCEPT ![s] = @ \/ ends]
       \/ /\ ends
          /\ out' = [out EXCEPT ![s] = Append(@ \o Bytes(sent, n), Text("Image sent"))]
          /\ UNCHANGED lost

-----------------------------------------------------------------------------

LoopStep ==
    \/ Select \/ AcceptFails \/ \E s \in Sockets : Accept(s)
    \/ RecvEnds \/ \E n \in 1 .. MaxLines : Recv(n)
    \/ HandleMessage \/ NotWritable \/ WriteFails
    \/ \E n \in 1 .. HeaderSize : WriteHeader(n)
    \/ \E n \in 1 .. ChunkSize : WriteData(n)

ClientStep ==
    \/ Connect
    \/ \E s \in Sockets : \/ \E line \in Lines : SendLine(s, line)
                          \/ HangUp(s) \/ Stall(s)

Next == LoopStep \/ ClientStep

\* The thread runs; clients may stop at any point.
Spec == Init /\ [][Next]_vars /\ WF_vars(LoopStep)

-----------------------------------------------------------------------------
(* Properties. *)

\* Every variable of the loop stays in its range.  At the end of a round the
\* index is just past the clients (lines 113-130).
TypeOK ==
    /\ pc \in {"accept", "scan", "messages"}
    /\ readfds \subseteq Sockets \cup {Listener} /\ writefds \subseteq Sockets
    /\ index \in 1 .. Len(client_sockets) + 1
    /\ \A s \in DOMAIN client_states :
          /\ client_states[s].state \in ClientStates
          /\ client_states[s].bytes_sent \in 0 .. ImageSize - 1

\* The list, the map and the system agree about who is connected, whatever
\* comes and goes during a round: with a closed handle in the list select would
\* end the server (lines 78-121).
SocketsAgree ==
    /\ ToSet(client_sockets) = DOMAIN client_states
    /\ ToSet(client_sockets) = open
    /\ IsInjective(client_sockets)

\* No text gets between the bytes of an image, and none of them is missing or
\* sent twice, whatever the client sends meanwhile (lines 177-224).
ImageUnbroken ==
    \A s \in Sockets : \A i \in 1 .. Len(out[s]) - 1 : \A k \in 1 .. ImageSize - 1 :
        (out[s][i] = Byte(k)) <=> (out[s][i + 1] = Byte(k + 1))

\* What a session expects after each of its lines, from those lines alone.  After
\* an image has been sent it waits for a command again.
AfterReplies(line) == IF line = Command("get image") THEN "IDLE" ELSE AfterCommand(line)

Expects(lines) == Expectations([i \in DOMAIN lines |-> AfterReplies(lines[i])])

\* The replies to a line, each the set of those that may be given; every byte of
\* an image is one.
Replies(expected, line) ==
    CASE expected # "IDLE" -> <<{Text(words) : words \in DataReplies(expected, line)}>>
      [] expected = "IDLE" /\ line = Command("get image") ->
            Append([k \in 1 .. ImageSize |-> {Byte(k)}], {Text("Image sent")})
      [] expected = "IDLE" /\ line # Command("get image") ->
            <<{Text(CommandReply(line))}>>

Due(lines) ==
    LET expects == Expects(lines)
    IN  Joined([i \in DOMAIN lines |-> Replies(expects[i - 1], lines[i])])

\* Unless a text was lost, the client was sent the replies to the lines that
\* were not dropped, in order, and all of them when no image is under way: the
\* loop answers as the worker of a thread would (lines 158-305).
RepliesMatch ==
    \A s \in Sockets : ~lost[s] =>
        /\ Fits(out[s], Due(handled[s]))
        /\ ~Sending(s) => FitsWholly(out[s], Due(handled[s]))

\* Every client for which readfds has room is read again and again as long as
\* there is something to read, and an image under way makes progress to its end
\* while the client takes it, whatever the others do.
EveryoneServed ==
    \A s \in Sockets :
        /\ []<>(s \in Polled /\ Readable(s) => pc = "messages" /\ Current = s)
        /\ []<>(s \in Awaited => full[s])

=============================================================================
