---------------------------- MODULE AccountsProofs ----------------------------
(***************************************************************************)
(* Theorems about the accounts and the database behind them, for any       *)
(* number of sessions, lines, restarts and rows.                           *)
(*                                                                         *)
(* That Accounts implements AccountService holds of any disk, text and     *)
(* crash.  The stronger promises of the other theorems about Accounts hold *)
(* only of a server that is Healthy: Steady, and without apostrophes.      *)
(* See the runs apostrophe and half_setup.  The theorems about DatabaseUse *)
(* hold of any calls, failing or not.                                      *)
(***************************************************************************)
EXTENDS Accounts, DatabaseUse, WellFoundedInduction, TLAPS

Healthy == Steady /\ Quoted = {}

\* What setup has done of users.db when it is where server says.
SetupInv ==
    /\ server \in {"down", "exists"} => db_file \in {"absent", "table"}
    /\ server = "create" => db_file = "absent"
    /\ server = "open new" => db_file = "empty"
    /\ server = "table" => db_file = "empty" /\ db = "open"
    /\ server = "open old" => db_file = "table"
    /\ UpMeansTable

\* A worker about to confirm a registration has stored it.
ConfirmingInv == \A c \in Sessions : pc[c] = "confirm" => Email(job[c]) \in Emails

WorkersTyped ==
    /\ pc \in [Sessions -> {"recv", "insert", "confirm", "find", "answer", "closed"}]
    /\ job \in [Sessions -> Lines \cup {EmptyLine}]
    /\ found = [c \in Sessions |-> found[c]]
    /\ \A c \in Sessions : pc[c] \in {"recv", "closed"} \/ job[c] \in Lines
    /\ server \in SetupStates \cup {"down", "up"}

\* The ids are bounded, so that a row found has a largest one.
RowsTyped == last_id \in Nat /\ UserIds \subseteq 1 .. last_id

AccountsInv ==
    /\ WorkersTyped /\ RowsTyped
    /\ Steady  => SetupInv
    /\ Healthy => ConfirmingInv /\ ConfirmedStored

-----------------------------------------------------------------------------

LEMMA AccountsInvInit == AccountsInit => AccountsInv
BY AccountsConstants
DEF Steady, AccountsInit, SessionsFresh, Fresh, AccountsInv, WorkersTyped, SetupInv,
       UpMeansTable, ConfirmingInv, ConfirmedStored, SetupStates, RowsTyped,
       UserIds

\* A row once inserted stays: no step of a session takes one away.
LEMMA RowsStay ==
  ASSUME RowsTyped, NEW c \in Sessions, SessionStep(c)
  PROVE  /\ Emails \subseteq Emails'
         /\ UNCHANGED <<db_file, db>>
         /\ RowsTyped'
<1> USE DEF dbVars, Emails, RowsTyped, UserIds
<1>1. ASSUME NEW line \in Lines, HandleCommand(c, line)
      PROVE  UNCHANGED dbVars
  BY <1>1 DEF HandleCommand
<1>2. ASSUME NEW line \in Lines, HandleRegistrationData(c, line)
      PROVE  UNCHANGED dbVars
  BY <1>2 DEF HandleRegistrationData, RejectData, AcceptData
<1>3. ASSUME NEW line \in Lines, HandleLoginData(c, line)
      PROVE  UNCHANGED dbVars
  BY <1>3 DEF HandleLoginData, RejectData, AcceptData
<1>4. CASE StoreUser(c)
  BY <1>4 DEF StoreUser, InsertUser
<1>5. CASE \/ ConfirmRegistration(c) \/ LookUpUser(c) \/ AnswerLogin(c)
           \/ HangUp(c) \/ EndSession(c)
  BY <1>5 DEF ConfirmRegistration, LookUpUser, AnswerLogin, Conclude, HangUp,
              EndSession
<1> QED
  BY <1>1, <1>2, <1>3, <1>4, <1>5 DEF SessionStep

\* A step of a session of a server that is up.
LEMMA SessionKeepsInv ==
  ASSUME AccountsInv, server = "up", UNCHANGED server,
         NEW c \in Sessions, SessionStep(c)
  PROVE  AccountsInv'
<1>1. Emails \subseteq Emails' /\ UNCHANGED <<db_file, db>> /\ RowsTyped'
  BY RowsStay DEF AccountsInv
<1>2. Steady => SetupInv'
  BY <1>1 DEF AccountsInv, SetupInv, UpMeansTable, TableReachable
<1> USE DEF AccountsInv, WorkersTyped, ConfirmingInv, ConfirmedStored, Goto
<1>3. ASSUME NEW line \in Lines, HandleCommand(c, line)
      PROVE  AccountsInv'
  BY <1>1, <1>2, <1>3 DEF HandleCommand, Take
<1>4. ASSUME NEW line \in Lines, NEW waiting, NEW verb, NEW outcome,
             RejectData(c, line, waiting, verb, outcome)
      PROVE  AccountsInv'
  BY <1>1, <1>2, <1>4 DEF RejectData, Take
<1>5. ASSUME NEW line \in Lines, NEW waiting, NEW outcome,
             NEW next \in {"insert", "find"},
             AcceptData(c, line, waiting, outcome, next)
      PROVE  AccountsInv'
  BY <1>1, <1>2, <1>5 DEF AcceptData, Take
<1>6. ASSUME NEW line \in Lines, HandleRegistrationData(c, line)
      PROVE  AccountsInv'
  BY <1>4, <1>5, <1>6 DEF HandleRegistrationData
<1>7. ASSUME NEW line \in Lines, HandleLoginData(c, line)
      PROVE  AccountsInv'
  BY <1>4, <1>5, <1>7 DEF HandleLoginData
<1>8. CASE StoreUser(c)
  <2>1. Healthy => Email(job[c]) \in Emails'
    BY <1>8 DEF StoreUser, InsertUser, LiteralLine, Literal, Healthy, Steady, Emails,
                SetupInv, UpMeansTable
  <2> QED
    BY <1>1, <1>2, <1>8, <2>1 DEF StoreUser
<1>9. CASE ConfirmRegistration(c)
  BY <1>1, <1>2, <1>9 DEF ConfirmRegistration, Conclude
<1>10. CASE LookUpUser(c)
  BY <1>1, <1>2, <1>10 DEF LookUpUser
<1>11. CASE AnswerLogin(c)
  BY <1>1, <1>2, <1>11 DEF AnswerLogin, Conclude
<1>12. CASE HangUp(c) \/ EndSession(c)
  BY <1>1, <1>2, <1>12 DEF HangUp, EndSession
<1> QED
  BY <1>3, <1>6, <1>7, <1>8, <1>9, <1>10, <1>11, <1>12 DEF SessionStep

\* A step of setup.
LEMMA SetupKeepsInv ==
  ASSUME AccountsInv, Start \/ Setup
  PROVE  AccountsInv'
<1>1. UNCHANGED <<sessionVars, confirmed, users, last_id>>
  BY DEF Start, vars, dbVars, Setup, SetupGoto, CheckFile, MakeFile, OpenNew,
         MakeTable, OpenOld, CreateDb, OpenDb, CreateTable
<1>2. RowsTyped' /\ (Healthy => ConfirmingInv' /\ ConfirmedStored')
  BY <1>1 DEF AccountsInv, ConfirmingInv, ConfirmedStored, Emails, sessionVars,
              RowsTyped, UserIds
<1>3. Steady => SetupInv'
  BY DEF Start, vars, dbVars, Setup, SetupGoto, CheckFile, MakeFile, OpenNew,
         MakeTable, OpenOld, CreateDb, OpenDb, CreateTable, FileOpened, Steady,
         AccountsInv, WorkersTyped, SetupInv, UpMeansTable, TableReachable,
         SetupStates
<1>4. server' \in SetupStates \cup {"down", "up"}
  BY DEF Start, Setup, SetupGoto, CheckFile, MakeFile, OpenNew, MakeTable,
         OpenOld, SetupStates
<1> QED
  BY <1>1, <1>2, <1>3, <1>4 DEF AccountsInv, WorkersTyped, sessionVars

\* The end of the process.
LEMMA CrashKeepsInv == ASSUME AccountsInv, Crash PROVE AccountsInv'
<1>1. Steady => SetupInv'
  BY DEF Crash, Steady, AccountsInv, WorkersTyped, SetupInv, UpMeansTable,
         TableReachable, SetupStates
<1> QED
  BY <1>1 DEF Crash, Fresh, AccountsInv, WorkersTyped, ConfirmingInv,
              ConfirmedStored, Emails, RowsTyped, UserIds

LEMMA AccountsInvStep ==
  AccountsInv /\ [AccountsNext]_accountsVars => AccountsInv'
<1> SUFFICES ASSUME AccountsInv, [AccountsNext]_accountsVars PROVE AccountsInv'
  OBVIOUS
<1>1. CASE Start \/ Setup  BY <1>1, SetupKeepsInv
<1>2. CASE Serve  BY <1>2, SessionKeepsInv DEF Serve, Next
<1>3. CASE Crash  BY <1>3, CrashKeepsInv
<1>4. CASE UNCHANGED accountsVars
  BY <1>4 DEF accountsVars, vars, sessionVars, dbVars, AccountsInv,
              WorkersTyped, SetupInv, UpMeansTable, TableReachable,
              ConfirmingInv, ConfirmedStored, Emails, RowsTyped, UserIds
<1> QED
  BY <1>1, <1>2, <1>3, <1>4 DEF AccountsNext

-----------------------------------------------------------------------------

\* A registration a client was told about stays in the table, whatever the
\* other sessions do and whenever the process ends.
THEOREM ConfirmedStaysStored ==
  ASSUME Healthy
  PROVE  AccountsSpec => []ConfirmedStored
<1>1. AccountsInv => ConfirmedStored
  BY DEF AccountsInv
<1> QED
  BY <1>1, AccountsInvInit, AccountsInvStep, PTL DEF AccountsSpec

-----------------------------------------------------------------------------
(* What a lookup answers. *)

LEMMA MaxExists ==
  ASSUME NEW n \in Nat, NEW S \in SUBSET (1 .. n), S # {}
  PROVE  Max(S) \in S
<1> DEFINE below == {n - x : x \in S}
<1>1. \A x \in S : n - x \in Nat
  OBVIOUS
<1>2. below \subseteq Nat /\ below # {}
  BY <1>1
<1>3. PICK m \in below : \A y \in below : <<y, m>> \notin OpToRel(<, Nat)
  BY <1>2, NatLessThanWellFounded, WFMin
<1>4. \A y \in below : ~(y < m)
  BY <1>2, <1>3 DEF OpToRel
<1>5. PICK x \in S : m = n - x
  BY <1>3
<1>6. \A y \in S : x >= y
  BY <1>4, <1>5
<1> QED
  BY <1>6 DEF Max

\* A lookup finds nothing that is not stored, and all that is when it runs.
LEMMA FoundIffStored ==
  ASSUME RowsTyped, NEW email
  PROVE  /\ FindUser(email) # -1 => email \in Emails
         /\ TableReachable /\ Literal(email) /\ email \in Emails
               => FindUser(email) # -1
<1>1. Rows(email) # {} <=> email \in Emails
  BY DEF Rows, Emails
<1>2. Rows(email) \subseteq 1 .. last_id
  BY DEF Rows, RowsTyped, UserIds
<1>3. Rows(email) # {} => Max(Rows(email)) \in 1 .. last_id
  BY <1>2, MaxExists DEF RowsTyped
<1> QED
  BY <1>1, <1>3 DEF FindUser, RowsTyped

\* No session's step but its own lookup takes it from "find" to "answer".
LEMMA OnlyLookUpAnswers ==
  ASSUME WorkersTyped, NEW s \in Sessions, NEW c \in Sessions, SessionStep(s),
         pc[c] = "find", pc'[c] = "answer"
  PROVE  c = s /\ LookUpUser(c)
<1> USE DEF WorkersTyped, Goto
<1>1. ASSUME NEW line \in Lines, HandleCommand(s, line) PROVE FALSE
  BY <1>1 DEF HandleCommand, Take
<1>2. ASSUME NEW line \in Lines, \/ HandleRegistrationData(s, line)
                                 \/ HandleLoginData(s, line)
      PROVE  FALSE
  BY <1>2 DEF HandleRegistrationData, HandleLoginData, RejectData, AcceptData,
              Take
<1>3. CASE StoreUser(s) \/ ConfirmRegistration(s) \/ AnswerLogin(s)
  BY <1>3 DEF StoreUser, ConfirmRegistration, AnswerLogin, Conclude
<1>4. CASE HangUp(s) \/ EndSession(s)
  BY <1>4 DEF HangUp, EndSession
<1>5. CASE LookUpUser(s)
  BY <1>5 DEF LookUpUser
<1> QED
  BY <1>1, <1>2, <1>3, <1>4, <1>5 DEF SessionStep

\* A login of a user whose registration was confirmed to whichever client is
\* not refused: it finds a row, whatever the others do meanwhile.
THEOREM ConfirmedLogsIn ==
  ASSUME Healthy
  PROVE  AccountsSpec => LoginSeesConfirmed
<1> DEFINE Refused(c) == pc[c] = "find" /\ pc'[c] = "answer" /\ found'[c] = -1
           Justified == \A c \in Sessions : Refused(c) => Email(job[c]) \notin confirmed
<1>1. AccountsInv /\ [AccountsNext]_accountsVars => [Justified]_vars
  <2> SUFFICES ASSUME AccountsInv, [AccountsNext]_accountsVars,
                      NEW c \in Sessions, Refused(c)
               PROVE  Email(job[c]) \notin confirmed
    OBVIOUS
  <2>1. ASSUME Serve PROVE Email(job[c]) \notin confirmed
    <3>1. LookUpUser(c) /\ server = "up"
      BY <2>1, OnlyLookUpAnswers DEF Serve, Next, AccountsInv
    <3>2. FindUser(Email(job[c])) = -1
      BY <3>1 DEF LookUpUser, FindResults, Healthy, Steady, AccountsInv, WorkersTyped
    <3>3. Email(job[c]) \notin Emails
      BY <3>1, <3>2, FoundIffStored
      DEF AccountsInv, SetupInv, UpMeansTable, Healthy, Literal
    <3> QED
      BY <3>3 DEF AccountsInv, ConfirmedStored
  <2>2. ASSUME Start \/ Setup \/ UNCHANGED accountsVars PROVE pc' = pc
    BY <2>2 DEF Start, vars, Setup, SetupGoto, CheckFile, MakeFile, OpenNew,
                MakeTable, OpenOld, sessionVars, accountsVars
  <2>3. ASSUME Crash PROVE pc'[c] = "recv"
    BY <2>3 DEF Crash, Fresh
  <2> QED
    BY <2>1, <2>2, <2>3 DEF AccountsNext
<1> QED
  BY <1>1, AccountsInvInit, AccountsInvStep, PTL
  DEF AccountsSpec, LoginSeesConfirmed

-----------------------------------------------------------------------------
(* The refinement. *)

LEMMA InsertAddsEmail ==
  ASSUME NEW id, NEW email, users' = users \cup {[id |-> id, email |-> email]}
  PROVE  Emails' = Emails \cup {email}
<1>1. [id |-> id, email |-> email].email = email
  OBVIOUS
<1>2. \A e : e \in Emails' <=> \E u \in users' : e = u.email
  BY DEF Emails
<1>3. \A e : e \in Emails <=> \E u \in users : e = u.email
  BY DEF Emails
<1>4. \A e : e \in Emails' <=> e \in Emails \cup {email}
  BY <1>1, <1>2, <1>3
<1> QED
  BY <1>4

\* A step of worker c leaves the calls of the others alone.
LEMMA OthersKeepCall ==
  ASSUME WorkersTyped, NEW c \in Sessions, NEW s \in Sessions \ {c},
         pc'[s] = pc[s], job'[s] = job[s], found'[s] = found[s]
  PROVE  Call(s)' = Call(s)
BY DEF Call, Email

\* A step of a session is a request, a moment of the database, an answer, or
\* nothing its client can tell.
LEMMA SessionStepMaps ==
  ASSUME AccountsInv, server = "up", NEW c \in Sessions, SessionStep(c)
  PROVE  [Atomic!Next]_<<Emails, Calls>>
<1> DEFINE Becomes(r) == Calls' = [Calls EXCEPT ![c] = r]
           inserts == Steady /\ LiteralLine(job[c])
           finds == Steady /\ Literal(Email(job[c]))
           asked(op, sure, answer) ==
               [op |-> op, email |-> Email(job[c]), sure |-> sure,
                answer |-> answer]
<1> USE DEF AccountsInv, WorkersTyped, Goto, Emails, Calls
<1>1. ASSUME NEW r, Call(c)' = r,
             \A s \in Sessions \ {c} : /\ pc'[s] = pc[s]
                                      /\ job'[s] = job[s]
                                      /\ found'[s] = found[s]
      PROVE  Becomes(r)
  BY <1>1, OthersKeepCall
<1>2. ASSUME Becomes(Call(c)) PROVE UNCHANGED Calls
  BY <1>2
<1>3. ASSUME NEW line \in Lines, HandleCommand(c, line)
      PROVE  UNCHANGED <<Emails, Calls>>
  <2>1. Call(c)' = Call(c)
    BY <1>3 DEF HandleCommand, Take, Call, Email
  <2> QED
    BY <1>1, <1>2, <1>3, <2>1 DEF HandleCommand, Take, dbVars
<1>4. ASSUME NEW line \in Lines, NEW waiting, NEW verb, NEW outcome,
             RejectData(c, line, waiting, verb, outcome)
      PROVE  UNCHANGED <<Emails, Calls>>
  <2>1. Call(c)' = Call(c)
    BY <1>4 DEF RejectData, Take, Call, Email
  <2> QED
    BY <1>1, <1>2, <1>4, <2>1 DEF RejectData, Take, dbVars
<1>5. ASSUME NEW line \in Lines, NEW waiting, NEW outcome,
             NEW next \in {"insert", "find"},
             AcceptData(c, line, waiting, outcome, next)
      PROVE  Atomic!Ask(c)
  <2> DEFINE op == IF next = "insert" THEN "register" ELSE "login"
             sure == Steady /\ (IF next = "insert" THEN LiteralLine(line)
                                                   ELSE Literal(Email(line)))
             r == [op |-> op, email |-> Email(line), sure |-> sure,
                   answer |-> "none"]
  <2>1. Call(c)' = r /\ Calls[c] = [op |-> "idle"]
    BY <1>5 DEF AcceptData, Take, Call
  <2>2. Becomes(r) /\ UNCHANGED Emails
    BY <1>1, <1>5, <2>1 DEF AcceptData, Take, dbVars
  <2>3. op \in {"register", "login"}
    OBVIOUS
  <2> QED
    BY <2>1, <2>2, <2>3 DEF Atomic!Ask, Atomic!Idle, Atomic!Asked
<1>6. ASSUME NEW line \in Lines, HandleRegistrationData(c, line)
      PROVE  Atomic!Ask(c) \/ UNCHANGED <<Emails, Calls>>
  BY <1>4, <1>5, <1>6 DEF HandleRegistrationData
<1>7. ASSUME NEW line \in Lines, HandleLoginData(c, line)
      PROVE  Atomic!Ask(c) \/ UNCHANGED <<Emails, Calls>>
  BY <1>4, <1>5, <1>7 DEF HandleLoginData
<1>8. pc[c] \in {"recv", "closed"} \/ job[c] \in Lines
  OBVIOUS
<1>9. CASE StoreUser(c)
  <2>1. Email(job[c]) \in {Email(line) : line \in Lines} /\ inserts \in BOOLEAN
    BY <1>8, <1>9 DEF StoreUser, LiteralLine
  <2>2. /\ Call(c) = asked("register", inserts, "none")
        /\ Call(c)' = asked("register", inserts, "yes")
    BY <1>9 DEF StoreUser, Call
  <2>3. Becomes(asked("register", inserts, "yes"))
    BY <1>1, <1>9, <2>2 DEF StoreUser
  <2>4. \/ users' = users \cup {[id |-> last_id + 1, email |-> Email(job[c])]}
        \/ ~inserts /\ UNCHANGED users
    BY <1>9 DEF StoreUser, InsertUser, Steady, SetupInv, UpMeansTable, dbVars
  <2>5. \/ Emails' = Emails \cup {Email(job[c])}
        \/ ~inserts /\ UNCHANGED Emails
    BY <2>4, InsertAddsEmail
  <2> HIDE DEF inserts
  <2> QED
    BY <2>1, <2>2, <2>3, <2>5 DEF Atomic!Next, Atomic!Store, Atomic!Asked
<1>10. CASE ConfirmRegistration(c) \/ AnswerLogin(c)
  <2>1. Call(c) # [op |-> "idle"]
    BY <1>10 DEF ConfirmRegistration, AnswerLogin, Call
  <2>2. Call(c)' = [op |-> "idle"]
    BY <1>10 DEF ConfirmRegistration, AnswerLogin, Conclude, Call
  <2>3. Becomes([op |-> "idle"]) /\ UNCHANGED Emails
    BY <1>1, <1>10, <2>2 DEF ConfirmRegistration, AnswerLogin, Conclude, dbVars
  <2> QED
    BY <2>1, <2>3 DEF Atomic!Next, Atomic!Return, Atomic!Idle
<1>11. CASE LookUpUser(c)
  <2> DEFINE answer == IF found'[c] # -1 THEN "yes" ELSE "no"
  <2>1. Email(job[c]) \in {Email(line) : line \in Lines} /\ finds \in BOOLEAN
    BY <1>8, <1>11 DEF LookUpUser, Literal
  <2>2. found'[c] \in FindResults(Email(job[c]))
    BY <1>11 DEF LookUpUser
  <2>3. found'[c] # -1 => Email(job[c]) \in Emails
    BY <2>2, FoundIffStored DEF FindResults
  <2>4. finds /\ found'[c] = -1 => Email(job[c]) \notin Emails
    BY <2>2, FoundIffStored DEF FindResults, SetupInv, UpMeansTable, Steady
  <2>5. /\ Call(c) = asked("login", finds, "none")
        /\ Call(c)' = asked("login", finds, answer)
    BY <1>11 DEF LookUpUser, Call
  <2>6. Becomes(asked("login", finds, answer)) /\ UNCHANGED Emails
    BY <1>1, <1>11, <2>5 DEF LookUpUser, dbVars
  <2>7. /\ answer \in {"yes", "no"}
        /\ answer = "yes" => Email(job[c]) \in Emails
        /\ finds /\ answer = "no" => Email(job[c]) \notin Emails
    BY <2>3, <2>4
  <2> HIDE DEF finds, answer
  <2> QED
    BY <2>1, <2>5, <2>6, <2>7 DEF Atomic!Next, Atomic!LookUp, Atomic!Asked
<1>12. CASE HangUp(c) \/ EndSession(c)
  <2>1. Call(c)' = Call(c)
    BY <1>12 DEF HangUp, EndSession, Call, Email
  <2> QED
    BY <1>1, <1>2, <1>12, <2>1 DEF HangUp, EndSession, dbVars
<1> QED
  BY <1>3, <1>6, <1>7, <1>9, <1>10, <1>11, <1>12 DEF SessionStep, Atomic!Next

LEMMA StepMaps ==
  ASSUME AccountsInv, [AccountsNext]_accountsVars
  PROVE  [Atomic!Next]_<<Emails, Calls>>
<1>1. ASSUME UNCHANGED <<pc, job, found, users>>
      PROVE  UNCHANGED <<Emails, Calls>>
  BY <1>1 DEF Emails, Calls, Call, Email
<1>2. CASE Start \/ Setup \/ UNCHANGED accountsVars
  BY <1>1, <1>2 DEF Start, vars, dbVars, Setup, SetupGoto, CheckFile, MakeFile,
         OpenNew, MakeTable, OpenOld, CreateDb, OpenDb, CreateTable, sessionVars,
         accountsVars
<1>3. CASE Serve
  BY <1>3, SessionStepMaps DEF Serve, Next
<1>4. CASE Crash
  <2>1. \A s \in Sessions : Call(s)' = [op |-> "idle"]
    BY <1>4 DEF Crash, Fresh, Call
  <2> QED
    BY <1>4, <2>1 DEF Crash, Emails, Calls, Atomic!Next, Atomic!Restart, Atomic!Idle
<1> QED
  BY <1>2, <1>3, <1>4 DEF AccountsNext

\* Setup, workers, connection and restarts implement accounts that are stored
\* and looked up atomically and never lost, whatever fails: a statement that
\* does spoils no request but its own.
THEOREM AccountsAreAtomic == AccountsSpec => AccountsAtomic
<1>1. AccountsInit => Atomic!Init
  BY DEF AccountsInit, SessionsFresh, Fresh, Emails, Calls, Call, Atomic!Init,
         Atomic!Idle
<1>2. AccountsInv /\ [AccountsNext]_accountsVars
         => [Atomic!Next]_<<Emails, Calls>>
  BY StepMaps
<1> QED
  BY <1>1, <1>2, AccountsInvInit, AccountsInvStep, PTL
  DEF AccountsSpec, AccountsAtomic, Atomic!Spec

-----------------------------------------------------------------------------
(* Class Database under any sequence of calls, any of which may fail.      *)

\* All ids given out in a table's life are within the sequence, and no row has
\* the id of a row deleted before.
IdsInv ==
    /\ last_id \in Nat
    /\ UserIds \subseteq 1 .. last_id
    /\ retired \subseteq 1 .. last_id
    /\ IdsNeverReused

LEMMA IdsInvInit == UseInit => IdsInv
BY DEF UseInit, IdsInv, UserIds, IdsNeverReused

\* A call that runs no statement on the rows.
LEMMA QuietCallKeepsIds ==
  ASSUME IdsInv, UNCHANGED <<users, last_id, retired>>
  PROVE  IdsInv'
BY DEF IdsInv, UserIds, IdsNeverReused

LEMMA RegisteringKeepsIds == ASSUME IdsInv, Registering PROVE IdsInv'
<1> PICK e \in Texts : InsertUser(e, Literal(e)) /\ UNCHANGED retired
  BY DEF Registering
<1>1. CASE UNCHANGED dbVars
  BY <1>1, QuietCallKeepsIds DEF dbVars
<1>2. CASE ~UNCHANGED dbVars
  <2>1. /\ last_id' = last_id + 1
        /\ users' = users \cup {[id |-> last_id + 1, email |-> e]}
    BY <1>2 DEF InsertUser
  <2>2. ASSUME NEW u \in users' PROVE u.id \in UserIds \cup {last_id + 1}
    BY <2>1, <2>2, u \in users \/ u = [id |-> last_id + 1, email |-> e]
    DEF UserIds
  <2>3. UserIds' \subseteq UserIds \cup {last_id + 1}
    BY <2>2 DEF UserIds
  <2> QED
    BY <2>1, <2>3 DEF IdsInv, IdsNeverReused
<1> QED
  BY <1>1, <1>2

LEMMA DeletingKeepsIds == ASSUME IdsInv, Deleting PROVE IdsInv'
<1>1. users' \subseteq users /\ UNCHANGED last_id
  BY DEF Deleting, DeleteUser, dbVars
<1>2. UserIds' \subseteq UserIds
  BY <1>1 DEF UserIds
<1>3. retired' = retired \cup (UserIds \ UserIds')
  BY DEF Deleting, UserIds
<1> QED
  BY <1>1, <1>2, <1>3 DEF IdsInv, IdsNeverReused

\* With the table its ids are forgotten, all at once.
LEMMA DroppingKeepsIds == ASSUME IdsInv, Dropping PROVE IdsInv'
<1>1. CASE UNCHANGED dbVars
  BY <1>1, QuietCallKeepsIds DEF Dropping, dbVars
<1>2. CASE users' = {} /\ last_id' = 0 /\ db_file' # db_file
  <2>1. UserIds' = {} /\ retired' = {}
    BY <1>2 DEF Dropping, UserIds
  <2> QED
    BY <1>2, <2>1 DEF IdsInv, IdsNeverReused
<1> QED
  BY <1>1, <1>2 DEF Dropping, DeleteTable, DeleteDb, TableReachable

LEMMA IdsInvStep == IdsInv /\ [UseNext]_useVars => IdsInv'
<1> SUFFICES ASSUME IdsInv, [UseNext]_useVars PROVE IdsInv'
  OBVIOUS
<1>1. CASE Opening
  BY <1>1, QuietCallKeepsIds
  DEF Opening, CreateDb, OpenDb, CreateTable, dbVars
<1>2. CASE Registering  BY <1>2, RegisteringKeepsIds
<1>3. CASE Deleting  BY <1>3, DeletingKeepsIds
<1>4. CASE Dropping  BY <1>4, DroppingKeepsIds
<1>5. CASE Closing  BY <1>5, QuietCallKeepsIds DEF Closing
<1>6. CASE UNCHANGED useVars
  BY <1>6, QuietCallKeepsIds DEF useVars, dbVars
<1> QED
  BY <1>1, <1>2, <1>3, <1>4, <1>5, <1>6 DEF UseNext

\* In a table's life the id of a deleted user never designates another one.
THEOREM IdsStayUnique == UseSpec => []IdsNeverReused
<1>1. IdsInv => IdsNeverReused
  BY DEF IdsInv
<1> QED
  BY <1>1, IdsInvInit, IdsInvStep, PTL DEF UseSpec

LEMMA MaxIsLargest ==
  ASSUME NEW n \in Nat, NEW S \in SUBSET (1 .. n), n \in S
  PROVE  Max(S) = n
<1>1. \A y \in S : n >= y
  OBVIOUS
<1>2. \A x \in S : (\A y \in S : x >= y) => x = n
  OBVIOUS
<1> QED
  BY <1>1, <1>2 DEF Max

\* A row just inserted is the one find_user finds, whatever rows with its
\* email there are.
THEOREM LatestIsFound == UseSpec => LatestRegistrationFound
<1> DEFINE Latest == \A u \in users' \ users : FindUser(u.email)' = u.id
<1>1. IdsInv /\ [UseNext]_useVars => [Latest]_useVars
  <2> SUFFICES ASSUME IdsInv, UseNext, NEW u \in users' \ users
               PROVE  FindUser(u.email)' = u.id
    BY DEF useVars
  <2>1. CASE Registering
    <3>1. PICK e \in Texts : InsertUser(e, Literal(e))
      BY <2>1 DEF Registering
    <3>2. /\ TableReachable /\ Literal(e)
          /\ last_id' = last_id + 1
          /\ users' = users \cup {[id |-> last_id + 1, email |-> e]}
          /\ UNCHANGED <<db_file, db>>
      BY <3>1 DEF InsertUser, dbVars
    <3>3. u = [id |-> last_id + 1, email |-> e]
      BY <3>2
    <3>4. IdsInv'
      BY IdsInvStep
    <3>5. Rows(e)' \subseteq 1 .. last_id + 1 /\ last_id + 1 \in Nat
      BY <3>2, <3>4 DEF Rows, IdsInv, UserIds
    <3>6. last_id + 1 \in Rows(e)'
      BY <3>2 DEF Rows
    <3>7. Max(Rows(e)') = last_id + 1
      BY <3>5, <3>6, MaxIsLargest
    <3> QED
      BY <3>2, <3>3, <3>6, <3>7 DEF FindUser, TableReachable, Literal
  <2>2. CASE Opening \/ Deleting \/ Dropping \/ Closing
    <3>1. users' \subseteq users
      BY <2>2 DEF Opening, CreateDb, OpenDb, CreateTable, Deleting, DeleteUser,
                  Dropping, DeleteTable, DeleteDb, Closing, dbVars
    <3> QED
      BY <3>1
  <2> QED
    BY <2>1, <2>2 DEF UseNext
<1> QED
  BY <1>1, IdsInvInit, IdsInvStep, PTL DEF UseSpec, LatestRegistrationFound

=============================================================================
