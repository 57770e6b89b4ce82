------------------------------- MODULE Histories -------------------------------
(***************************************************************************)
(* What the client of a server was sent, held against what it asked for.   *)
(*                                                                         *)
(* A line is a command or, after a command that asks for data, data.  The  *)
(* replies due to a line are a sequence: for each reply the set of those   *)
(* that may be given.                                                      *)
(***************************************************************************)
EXTENDS Naturals, Sequences

\* What is expected after each line, if the i-th one, taken for a command, asks
\* for afters[i].
Expectations(afters) ==
    LET expects[n \in 0 .. Len(afters)] ==
            IF n > 0 /\ expects[n - 1] = "IDLE" THEN afters[n] ELSE "IDLE"
    IN  expects

Joined(parts) ==
    LET joined[n \in 0 .. Len(parts)] ==
            IF n = 0 THEN <<>> ELSE joined[n - 1] \o parts[n]
    IN  joined[Len(parts)]

\* Nothing but what is due was given, in order.
Fits(given, due) ==
    /\ Len(given) <= Len(due)
    /\ \A i \in 1 .. Len(given) : given[i] \in due[i]

\* And nothing is missing.
FitsWholly(given, due) == Fits(given, due) /\ Len(given) = Len(due)

=============================================================================
