------------------------------ MODULE LineFraming ------------------------------
(***************************************************************************)
(* How the bytes of a connection become messages: the buffer of a client,  *)
(* local_state.buffer of a worker (threaded_server.cpp) or                 *)
(* client_states[s].buffer of the event loop (server.cpp), which cuts it   *)
(* at every newline by the same code.                                      *)
(*                                                                         *)
(* TCP keeps the order of the bytes and nothing else: recv returns them in *)
(* pieces of any size up to its own limit, so that a line may take several *)
(* calls and a call may bring several lines.                               *)
(***************************************************************************)
EXTENDS Naturals, FiniteSets, Sequences, SequencesExt, Places

CONSTANTS
    Inputs,     \* what a client may send, as sequences of characters
    RecvLimit   \* sizeof(buf) - 1, which is 1023

ASSUME FramingConstants ==
    /\ Inputs \subseteq Seq(STRING)
    /\ RecvLimit \in Nat \ {0}

VARIABLES
    arriving,   \* sent by the client and not yet returned by recv
    buffer,     \* received and not yet cut
    messages,   \* history: what the handler was called with
    closed,     \* the handler asked for the connection to be closed
    input       \* history: all the client sends

framingVars == <<arriving, buffer, messages, closed, input>>

Newline == "\n"
Return  == "\r"

FramingInit ==
    /\ input \in Inputs /\ arriving = input
    /\ buffer = <<>> /\ messages = <<>> /\ closed = FALSE

NewlinesAt(chars) == {i \in DOMAIN chars : chars[i] = Newline}

\* A carriage return before the newline goes with it.
Chomp(line) ==
    IF line # <<>> /\ Last(line) = Return THEN Front(line) ELSE line

\* Mutation of Receive: what is left in the buffer is overwritten.
ReceiveAfresh(n) ==
    /\ ~closed /\ NewlinesAt(buffer) = {}
    /\ buffer' = SubSeq(arriving, 1, n)
    /\ arriving' = SubSeq(arriving, n + 1, Len(arriving))
    /\ UNCHANGED <<messages, closed, input>>

\* recv is called again only when the buffer holds no complete line.
Receive(n) ==
    /\ ~closed /\ NewlinesAt(buffer) = {}
    /\ buffer' = buffer \o SubSeq(arriving, 1, n)
    /\ arriving' = SubSeq(arriving, n + 1, Len(arriving))
    /\ UNCHANGED <<messages, closed, input>>

\* A turn of the loop over the newlines.  The handler returns true for "exit",
\* and the connection is closed with the rest of the buffer unread.
TakeMessage ==
    /\ ~closed /\ NewlinesAt(buffer) # {}
    /\ LET pos == Min(NewlinesAt(buffer)) IN
       /\ messages' = Append(messages, Chomp(SubSeq(buffer, 1, pos - 1)))
       /\ buffer' = SubSeq(buffer, pos + 1, Len(buffer))
    /\ closed' \in BOOLEAN
    /\ UNCHANGED <<arriving, input>>

FramingNext ==
    \/ \E n \in 1 .. Min({RecvLimit, Len(arriving)}) : Receive(n)
    \/ TakeMessage

FramingSpec == FramingInit /\ [][FramingNext]_framingVars

-----------------------------------------------------------------------------
(* Properties. *)

\* The lines of a text, read off the places of its newlines.
LineEnd(chars, k) == IF k = 0 THEN 0 ELSE Nth(NewlinesAt(chars), k)

Line(chars, k) ==
    Chomp(SubSeq(chars, LineEnd(chars, k - 1) + 1, LineEnd(chars, k) - 1))

LinesOf(chars) == [k \in 1 .. Cardinality(NewlinesAt(chars)) |-> Line(chars, k)]

Received == SubSeq(input, 1, Len(input) - Len(arriving))

\* However the bytes were cut by TCP, the handler is called with the complete
\* lines of what was received, each once and in order, and none is left over
\* when recv is called again (threaded_server.cpp 94-112, server.cpp 152-172).
FramingExact ==
    /\ IsPrefix(messages, LinesOf(Received))
    /\ (~closed /\ NewlinesAt(buffer) = {}) => messages = LinesOf(Received)

=============================================================================
