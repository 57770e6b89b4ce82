-------------------------------- MODULE Client --------------------------------
(***************************************************************************)
(* The console client of client/src/source/client.cpp in a dialogue with a *)
(* worker of module Session, over one TCP connection.                      *)
(*                                                                         *)
(* The connection carries lines one way and replies the other, in order    *)
(* and for any time; sent and replies are the whole history of each        *)
(* direction, and handled and read say how far the other side has come.  A *)
(* reply is a text, or the header and the pixels of an image.  It need not *)
(* arrive as it was sent: one recv may deliver several replies, and of the *)
(* last a part only, whose rest the next recv meets.                       *)
(***************************************************************************)
EXTENDS Session

CONSTANTS
    Conn,               \* the connection, the only session there is
    Commands,           \* what the user types at the prompt
    RegistrationForms,  \* what handle_registration makes of the user's input
    LoginForms,         \* what handle_login makes of it
    MaxAttempts         \* polls before the client gives up (100 or 50)

ASSUME ClientConstants ==
    /\ Sessions = {Conn}
    /\ MaxAttempts \in Nat \ {0}
    /\ \A form \in RegistrationForms \cup LoginForms : Len(form) > 1

VARIABLES
    link,      \* the client's end of the connection
    client,    \* where the client is
    command,   \* local of run()
    attempts,  \* polls of the current wait
    sent,      \* history: lines sent
    read,      \* how many replies were received whole
    torn,      \* whether a part of the next one was
    early      \* history: waits that ended before a reply was whole

clientVars == <<link, client, command, attempts, sent, read, torn, early>>
dialogueVars == <<vars, clientVars>>

LinkStates == {"connecting", "refused", "open", "eof", "reset"}
ClientPhases == {"menu", "reply", "registering", "logging_in", "answer", "size",
                 "image_sent", "garbled", "garbled_sent", "done", "failed"}

\* The waits that poll with a limit.
Waits == {"reply", "answer", "image_sent", "garbled_sent"}

ClientInit ==
    /\ Init
    /\ link = "connecting" /\ client = "menu"
    /\ command = EmptyLine /\ attempts = 0
    /\ sent = <<>> /\ read = 0 /\ torn = FALSE /\ early = 0

\* The next command, or the return of run().  An image whose size is none ends
\* the process when memory for it is not there.
BackToMenu ==
    \/ client' = IF command = Command("exit") THEN "done" ELSE "menu"
    \/ client = "garbled_sent" /\ client' = "failed"

-----------------------------------------------------------------------------
(* The network. *)

\* connect_to_server does not wait: the socket does not block.
ConnectionMade ==
    /\ link = "connecting" /\ link' \in {"open", "refused"}
    /\ UNCHANGED <<vars, client, command, attempts, sent, read, torn, early>>

\* The client's system learns that the server closed the connection.
ConnectionEnds ==
    /\ link = "open" /\ pc[Conn] = "closed" /\ link' \in {"eof", "reset"}
    /\ UNCHANGED <<vars, client, command, attempts, sent, read, torn, early>>

-----------------------------------------------------------------------------
(* send_message, which ends the process when send fails. *)

SendMessage(line, next) ==
    /\ Len(sent) < MaxLines
    /\ \/ /\ link \in {"open", "eof"}
          /\ sent' = Append(sent, line)
          /\ client' = next /\ attempts' = 0
       \/ /\ link # "open"
          /\ client' = "failed" /\ UNCHANGED <<sent, attempts>>
    /\ UNCHANGED <<vars, link, read, torn, early>>

TypeCommand(line) ==
    /\ client = "menu"
    /\ command' = line
    /\ SendMessage(line, IF line = Command("get image") THEN "size" ELSE "reply")

FillIn(line) ==
    /\ \/ client = "registering" /\ line \in RegistrationForms
       \/ client = "logging_in"  /\ line \in LoginForms
    /\ SendMessage(line, "answer")
    /\ UNCHANGED command

-----------------------------------------------------------------------------
(* The waits.  recv on a socket that does not block. *)

Unread == SubSeq(replies[Conn], read + 1, Len(replies[Conn]))

\* What was received ends with the n-th unread reply, or in the next one.
Receive(n, cut) ==
    /\ link # "reset"
    /\ n \in 0 .. Len(Unread) /\ (n > 0 \/ cut) /\ (cut => n < Len(Unread))
    /\ read' = read + n /\ torn' = cut
    /\ UNCHANGED <<vars, link, command, attempts, sent>>

\* A wait for a text ends with the first bytes, at most 1023 of them: never a
\* whole image.
ReceiveText(n, cut) ==
    /\ Receive(n, cut)
    /\ \A i \in 1 .. n : Unread[i] = "image" => i = 1 /\ torn
    /\ early' = early + (IF n = 0 THEN 1 ELSE 0)

\* response.find("Send email")
Prompts == {"Send email,password,name,surname,note", "Send email,password"}

Begun(i) == i = 1 /\ torn

\* A part of a prompt holds these words or does not.
MayPrompt(n, cut) ==
    \E i \in 1 .. IF cut THEN n + 1 ELSE n : Unread[i] \in Prompts /\ ~Begun(i)

\* The rest of an image may hide what follows it: the string ends at a zero.
MustPrompt(n) ==
    \E i \in 1 .. n :
        /\ Unread[i] \in Prompts /\ ~Begun(i)
        /\ \A j \in 1 .. i - 1 : Unread[j] # "image"

\* Mutation of ReceiveReply: only the prompt of "register" is recognised.
ReceiveReplyOnce(n, cut) ==
    /\ client = "reply"
    /\ ReceiveText(n, cut)
    /\ \/ /\ command = Command("register") /\ MayPrompt(n, cut)
          /\ client' = "registering"
       \/ ~(command = Command("register") /\ MustPrompt(n)) /\ BackToMenu

\* run() takes whatever arrives first for the answer to its command.
ReceiveReply(n, cut) ==
    /\ client = "reply"
    /\ ReceiveText(n, cut)
    /\ \/ /\ command = Command("register") /\ MayPrompt(n, cut)
          /\ client' = "registering"
       \/ /\ command = Command("login") /\ MayPrompt(n, cut)
          /\ client' = "logging_in"
       \/ /\ ~(command \in {Command("register"), Command("login")} /\ MustPrompt(n))
          /\ BackToMenu

\* handle_registration and handle_login, and get_image after the image, which
\* is then saved or refused.
ReceiveAnswer(n, cut) ==
    /\ client \in {"answer", "image_sent", "garbled_sent"}
    /\ ReceiveText(n, cut)
    /\ BackToMenu

\* Mutation of ReceiveImage: the text after the pixels is not waited for.
ReceiveImageOnly ==
    /\ client = "size" /\ ~torn
    /\ Receive(1, FALSE) /\ Unread[1] = "image"
    /\ client' = "menu"
    /\ UNCHANGED early

\* get_image: width and height from the first eight bytes, then the pixels,
\* in whatever parts they come.
ReceiveImage ==
    /\ client = "size" /\ ~torn
    /\ Receive(1, FALSE) /\ Unread[1] = "image"
    /\ client' = "image_sent"
    /\ UNCHANGED early

\* The first eight bytes are of a text, or from the middle of an image.  Every
\* text is longer: only what is left of one may end before the eighth.
ReceiveGarbage(n, cut) ==
    /\ client = "size" /\ Unread # <<>>
    /\ torn \/ Unread[1] # "image"
    /\ Receive(n, cut) /\ (n = 0 \/ (n = 1 /\ torn))
    /\ client' = "garbled"
    /\ UNCHANGED early

\* The size says how much is read as pixels: nothing, if it is 0 or negative as
\* an int; more than ever comes; or more than there is memory for.
ReceiveGarbledPixels(n, cut) ==
    /\ client = "garbled"
    /\ \/ Receive(n, cut)
       \/ UNCHANGED <<vars, link, command, attempts, sent, read, torn>>
    /\ \/ client' \in {"garbled", "failed"} /\ UNCHANGED early
       \/ client' = "garbled_sent" /\ early' = early + 1

\* Mutation of Poll: the client sleeps without counting.
PollForever ==
    /\ client \in Waits /\ link = "open" /\ attempts < MaxAttempts
    /\ UNCHANGED dialogueVars

\* Mutation of Poll: the limit itself is allowed.
PollOnceMore ==
    /\ client \in Waits /\ link = "open" /\ attempts <= MaxAttempts
    /\ attempts' = attempts + 1
    /\ UNCHANGED <<vars, link, client, command, sent, read, torn, early>>

\* WSAEWOULDBLOCK: the client sleeps, counts and tries again.
Poll ==
    /\ client \in Waits /\ link = "open" /\ attempts < MaxAttempts
    /\ attempts' = attempts + 1
    /\ UNCHANGED <<vars, link, client, command, sent, read, torn, early>>

GiveUp ==
    /\ client \in Waits /\ attempts = MaxAttempts
    /\ BackToMenu
    /\ early' = early + 1
    /\ UNCHANGED <<vars, link, command, attempts, sent, read, torn>>

\* recv fails, or returns 0.  Only run() and the reading of an image look for
\* the 0; the other waits try again at once, without end.
ConnectionLost ==
    /\ client \in Waits \cup {"size", "garbled"}
    /\ \/ link = "reset"
       \/ link = "eof" /\ Unread = <<>> /\ client \in {"reply", "size", "garbled"}
    /\ BackToMenu
    /\ UNCHANGED <<vars, link, command, attempts, sent, read, torn, early>>

-----------------------------------------------------------------------------
(* The other side. *)

\* The worker takes the lines as they were sent.
ServeLine ==
    /\ Len(handled[Conn]) < Len(sent)
    /\ LET line == sent[Len(handled[Conn]) + 1] IN
       \/ HandleCommand(Conn, line)
       \/ HandleRegistrationData(Conn, line)
       \/ HandleLoginData(Conn, line)

WorkerActs ==
    /\ \/ ServeLine
       \/ StoreUser(Conn) \/ ConfirmRegistration(Conn)
       \/ LookUpUser(Conn) \/ AnswerLogin(Conn) \/ EndSession(Conn)
    /\ UNCHANGED clientVars

\* The server process ends.
ServerEnds ==
    /\ pc[Conn] # "closed" /\ Goto(Conn, "closed")
    /\ UNCHANGED <<state, job, found, peer, handled, replies, confirmed, dbVars,
                   clientVars>>

\* ~Client, or the end of the client's process.
ClientLeaves ==
    /\ client \in {"done", "failed"} /\ HangUp(Conn)
    /\ UNCHANGED clientVars

-----------------------------------------------------------------------------

Receives ==
    \/ \E n \in 0 .. Len(Unread), cut \in BOOLEAN :
          ReceiveReply(n, cut) \/ ReceiveAnswer(n, cut) \/ ReceiveGarbage(n, cut)
    \/ ReceiveImage

\* No fairness here: the bytes this waits for may never come.
ReceivesGarbled ==
    \E n \in 0 .. Len(Unread), cut \in BOOLEAN : ReceiveGarbledPixels(n, cut)

ClientWaits == Receives \/ Poll \/ GiveUp \/ ConnectionLost

ClientNext ==
    \/ ConnectionMade \/ ConnectionEnds
    \/ \E line \in Commands : TypeCommand(line)
    \/ \E line \in RegistrationForms \cup LoginForms : FillIn(line)
    \/ ClientWaits \/ ReceivesGarbled
    \/ WorkerActs \/ ServerEnds \/ ClientLeaves

\* The client's own loops run on; the user, the network and the server may
\* take any time.
ClientSpec ==
    /\ ClientInit /\ [][ClientNext]_dialogueVars
    /\ WF_dialogueVars(ClientWaits)

-----------------------------------------------------------------------------
(* Properties. *)

\* Every variable of the client stays in its range; it never reads more than
\* it was sent, nor is more handled than it sent.
ClientTypeOK ==
    /\ link \in LinkStates /\ client \in ClientPhases
    /\ attempts \in 0 .. MaxAttempts /\ early \in Nat /\ torn \in BOOLEAN
    /\ read \in 0 .. Len(replies[Conn])
    /\ torn => read < Len(replies[Conn])
    /\ IsPrefix(handled[Conn], sent)

\* As long as no wait ended early, by its limit or with the first bytes of a
\* text, client and server agree whenever the user is asked for a command: all
\* lines are handled, all replies read to their end, and the worker waits for a
\* command too (client.cpp 68-118, threaded_server 128-172).
InStep ==
    (client = "menu" /\ link = "open" /\ early = 0) =>
        /\ handled[Conn] = sent
        /\ read = Len(replies[Conn])
        /\ pc[Conn] # "closed" => state[Conn] = "IDLE"

\* The client never resynchronises: a late answer, or the rest of a text, is
\* taken for the answer to the next command.  But it falls back by no more than
\* one reply with each wait that ended early, and catches up whenever one recv
\* delivers several (client.cpp 83-114, 144-160, 180-196, 270-283).
BehindByEarlyWaits ==
    (client = "menu" /\ link = "open") => Len(Due(sent)) - read <= early

\* An image size is never made of text or of pixels, unless a wait ended early
\* before (client.cpp 200-244).
GarbledOnlyWhenBehind == client = "garbled" => early > 0

\* A wait with a limit ends, whatever server and network do short of closing
\* the connection in order.
WaitsEnd == (client \in Waits) ~> (client \notin Waits \/ link = "eof")

=============================================================================
