----------------------------- MODULE AccountService -----------------------------
(***************************************************************************)
(* What the sessions may take the server for: accounts that are stored and *)
(* looked up at one moment between a request and its answer, and that a    *)
(* stored account never leaves, whatever becomes of the sessions.          *)
(*                                                                         *)
(* A request is sure if the database cannot fail on it.  One that is not   *)
(* may be answered with nothing stored, or with an account not being seen; *)
(* but also then no account is lost, and none seen that was never stored.  *)
(***************************************************************************)
CONSTANT Sessions, Addresses

VARIABLES
    stored,   \* emails that have an account
    call      \* the request each session waits for, or Idle

Idle == [op |-> "idle"]
Asked(op, email, sure, answer) ==
    [op |-> op, email |-> email, sure |-> sure, answer |-> answer]

Init == stored = {} /\ call = [c \in Sessions |-> Idle]

Ask(c) ==
    /\ call[c] = Idle
    /\ \E op \in {"register", "login"}, email \in Addresses, sure \in BOOLEAN :
          call' = [call EXCEPT ![c] = Asked(op, email, sure, "none")]
    /\ UNCHANGED stored

Store(c) ==
    \E email \in Addresses, sure \in BOOLEAN :
        /\ call[c] = Asked("register", email, sure, "none")
        /\ \/ stored' = stored \cup {email}
           \/ ~sure /\ UNCHANGED stored
        /\ call' = [call EXCEPT ![c] = Asked("register", email, sure, "yes")]

LookUp(c) ==
    \E email \in Addresses, sure \in BOOLEAN, answer \in {"yes", "no"} :
        /\ call[c] = Asked("login", email, sure, "none")
        /\ answer = "yes" => email \in stored
        /\ sure /\ answer = "no" => email \notin stored
        /\ call' = [call EXCEPT ![c] = Asked("login", email, sure, answer)]
        /\ UNCHANGED stored

\* The answer is delivered, or the session is over before it.
Return(c) ==
    /\ call[c] # Idle
    /\ call' = [call EXCEPT ![c] = Idle]
    /\ UNCHANGED stored

Restart == call' = [c \in Sessions |-> Idle] /\ UNCHANGED stored

Next ==
    \/ \E c \in Sessions : Ask(c) \/ Store(c) \/ LookUp(c) \/ Return(c)
    \/ Restart

Spec == Init /\ [][Next]_<<stored, call>>

=============================================================================
