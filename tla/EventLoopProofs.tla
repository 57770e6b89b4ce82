---------------------------- MODULE EventLoopProofs ----------------------------
(***************************************************************************)
(* Theorems about EventLoop for any handles, lines, backlog and sizes, and *)
(* for any number of lines under way.                                      *)
(*                                                                         *)
(* Three invariants, each of which needs the ones before it: LoopInv for   *)
(* the tables, OutInv for the bytes of images, AnswersInv for the replies. *)
(***************************************************************************)
EXTENDS EventLoop, PlacesProofs, SequenceTheorems, TLAPS

-----------------------------------------------------------------------------
(* Lists without repetition. *)

LEMMA RemoveAtProperties ==
  ASSUME NEW S, NEW q \in Seq(S), NEW i \in 1 .. Len(q)
  PROVE  /\ RemoveAt(q, i) \in Seq(S)
         /\ Len(RemoveAt(q, i)) = Len(q) - 1
         /\ \A j \in 1 .. Len(q) - 1 :
               RemoveAt(q, i)[j] = IF j < i THEN q[j] ELSE q[j + 1]
<1> DEFINE a == SubSeq(q, 1, i - 1)
           b == SubSeq(q, i + 1, Len(q))
<1>1. Len(q) \in Nat /\ \A j \in 1 .. Len(q) : q[j] \in S
  BY LenProperties, ElementOfSeq
<1>2. /\ a \in Seq(S) /\ Len(a) = i - 1
      /\ \A j \in 1 .. i - 1 : a[j] = q[j]
  BY <1>1, SubSeqProperties
<1>3. /\ b \in Seq(S) /\ Len(b) = Len(q) - i
      /\ \A j \in 1 .. Len(q) - i : b[j] = q[j + i]
  BY <1>1, SubSeqProperties
<1>4. /\ a \o b = RemoveAt(q, i)
  BY DEF RemoveAt
<1> HIDE DEF a, b
<1>5. /\ a \o b \in Seq(S)
      /\ Len(a \o b) = Len(a) + Len(b)
      /\ \A j \in 1 .. Len(a) + Len(b) :
            (a \o b)[j] = IF j <= Len(a) THEN a[j] ELSE b[j - Len(a)]
  BY <1>2, <1>3, ConcatProperties
<1>6. Len(a) + Len(b) = Len(q) - 1
  BY <1>1, <1>2, <1>3
<1>7. ASSUME NEW j \in 1 .. Len(q) - 1
      PROVE  (a \o b)[j] = IF j < i THEN q[j] ELSE q[j + 1]
  <2>1. (a \o b)[j] = IF j <= i - 1 THEN a[j] ELSE b[j - (i - 1)]
    <3>1. (a \o b)[j] = IF j <= Len(a) THEN a[j] ELSE b[j - Len(a)]
      BY <1>5, <1>6
    <3> QED
      BY <1>2, <3>1
  <2>2. CASE j < i
    <3>1. j <= i - 1 /\ j \in 1 .. i - 1
      BY <1>1, <2>2
    <3> QED
      BY <1>2, <2>1, <2>2, <3>1
  <2>3. CASE ~(j < i)
    <3>1. /\ ~(j <= i - 1) /\ j - (i - 1) \in 1 .. Len(q) - i
          /\ (j - (i - 1)) + i = j + 1
      BY <1>1, <2>3
    <3>2. b[j - (i - 1)] = q[(j - (i - 1)) + i]
      BY <1>3, <3>1
    <3> QED
      BY <2>1, <2>3, <3>1, <3>2
  <2> QED
    BY <2>2, <2>3
<1> QED
  BY <1>4, <1>5, <1>6, <1>7

LEMMA RemoveFromList ==
  ASSUME NEW S, NEW q \in Seq(S), NEW i \in 1 .. Len(q), IsInjective(q)
  PROVE  /\ IsInjective(RemoveAt(q, i))
         /\ ToSet(RemoveAt(q, i)) = ToSet(q) \ {q[i]}
<1> DEFINE r == RemoveAt(q, i)
           from(j) == IF j < i THEN j ELSE j + 1
<1>1. Len(q) \in Nat /\ DOMAIN q = 1 .. Len(q) /\ DOMAIN r = 1 .. Len(q) - 1
  BY RemoveAtProperties, LenProperties
<1>2. \A j \in 1 .. Len(q) - 1 : r[j] = q[from(j)]
  BY RemoveAtProperties
<1>3. \A j \in 1 .. Len(q) - 1 : from(j) \in 1 .. Len(q) /\ from(j) # i
  BY <1>1
<1>4. IsInjective(r)
  <2> SUFFICES ASSUME NEW j \in 1 .. Len(q) - 1, NEW k \in 1 .. Len(q) - 1,
                      r[j] = r[k]
               PROVE  j = k
    BY <1>1 DEF IsInjective
  <2>1. from(j) = from(k)
    BY <1>1, <1>2, <1>3 DEF IsInjective
  <2> QED
    BY <1>1, <2>1
<1>5. ASSUME NEW x \in ToSet(r) PROVE x \in ToSet(q) \ {q[i]}
  <2>1. PICK j \in 1 .. Len(q) - 1 : x = r[j]
    BY <1>1, <1>5 DEF ToSet
  <2> QED
    BY <1>1, <1>2, <1>3, <2>1 DEF ToSet, IsInjective
<1>6. ASSUME NEW x \in ToSet(q) \ {q[i]} PROVE x \in ToSet(r)
  <2>1. PICK k \in 1 .. Len(q) : x = q[k]
    BY <1>1, <1>6 DEF ToSet
  <2>2. k # i
    BY <1>6, <2>1
  <2>3. PICK j \in 1 .. Len(q) - 1 : from(j) = k
    <3>1. CASE k < i
      <4>1. k \in 1 .. Len(q) - 1 /\ from(k) = k
        BY <1>1, <3>1
      <4> QED
        BY <4>1
    <3>2. CASE k > i
      <4>1. k - 1 \in 1 .. Len(q) - 1 /\ from(k - 1) = k
        BY <1>1, <3>2
      <4> QED
        BY <4>1
    <3> QED
      BY <1>1, <2>2, <3>1, <3>2
  <2> QED
    BY <1>1, <1>2, <2>1, <2>3 DEF ToSet
<1> QED
  BY <1>4, <1>5, <1>6

LEMMA AppendToList ==
  ASSUME NEW S, NEW q \in Seq(S), NEW x \in S, IsInjective(q), x \notin ToSet(q)
  PROVE  /\ IsInjective(Append(q, x))
         /\ ToSet(Append(q, x)) = ToSet(q) \cup {x}
<1> DEFINE r == Append(q, x)
<1>1. /\ Len(q) \in Nat /\ DOMAIN q = 1 .. Len(q) /\ DOMAIN r = 1 .. Len(q) + 1
      /\ \A j \in 1 .. Len(q) : r[j] = q[j]
      /\ r[Len(q) + 1] = x
  BY AppendProperties, LenProperties
<1>2. \A j \in 1 .. Len(q) : q[j] # x
  BY <1>1 DEF ToSet
<1>3. IsInjective(r)
  <2> SUFFICES ASSUME NEW j \in 1 .. Len(q) + 1, NEW k \in 1 .. Len(q) + 1,
                      r[j] = r[k]
               PROVE  j = k
    BY <1>1 DEF IsInjective
  <2> QED
    BY <1>1, <1>2 DEF IsInjective
<1>4. ASSUME NEW y \in ToSet(r) PROVE y \in ToSet(q) \cup {x}
  <2>1. PICK j \in 1 .. Len(q) + 1 : y = r[j]
    BY <1>1, <1>4 DEF ToSet
  <2> QED
    BY <1>1, <2>1 DEF ToSet
<1>5. ASSUME NEW y \in ToSet(q) \cup {x} PROVE y \in ToSet(r)
  <2>1. CASE y = x
    BY <1>1, <2>1 DEF ToSet
  <2>2. CASE y \in ToSet(q)
    BY <1>1, <2>2 DEF ToSet
  <2> QED
    BY <1>5, <2>1, <2>2
<1> QED
  BY <1>3, <1>4, <1>5

-----------------------------------------------------------------------------
(* The types of the loop's variables, and the list of its clients. *)

Records == [state : ClientStates, bytes_sent : 0 .. ImageSize - 1, buffer : Seq(Lines)]

LoopTyped ==
    /\ pc \in {"accept", "scan", "messages"}
    /\ open \subseteq Sockets
    /\ readfds \subseteq Sockets \cup {Listener} /\ writefds \subseteq Sockets
    /\ client_sockets \in Seq(Sockets)
    /\ index \in 1 .. Len(client_sockets) + 1
    /\ pc = "messages" => index <= Len(client_sockets)
    /\ client_states \in [open -> Records]
    /\ inbox \in [Sockets -> Seq(Lines)]

ListInv == ToSet(client_sockets) = open /\ IsInjective(client_sockets)

\* Nothing of an image is counted as sent when no image is under way.
Resting ==
    \A s \in open : client_states[s].state \notin SendingStates
                        => client_states[s].bytes_sent = 0

LoopInv == LoopTyped /\ ListInv /\ Resting

LEMMA CurrentIsOpen ==
  ASSUME LoopInv, index <= Len(client_sockets)
  PROVE  Current \in open /\ Current \in Sockets
<1>1. DOMAIN client_sockets = 1 .. Len(client_sockets) /\ Len(client_sockets) \in Nat
  BY LenProperties DEF LoopInv, LoopTyped
<1>2. index \in DOMAIN client_sockets
  BY <1>1 DEF LoopInv, LoopTyped
<1> QED
  BY <1>2 DEF Current, ToSet, LoopInv, ListInv, LoopTyped

LEMMA RecordUpdate ==
  ASSUME NEW st \in ClientStates, NEW b \in 0 .. ImageSize - 1, NEW q \in Seq(Lines)
  PROVE  /\ ClientState(st, b, q) \in Records
         /\ ClientState(st, b, q).state = st
         /\ ClientState(st, b, q).bytes_sent = b
BY DEF ClientState, Records

\* The loop disconnects a client: list, map and system forget it together.
LEMMA DisconnectKeeps ==
  ASSUME LoopInv, index <= Len(client_sockets), Disconnect(Current)
  PROVE  LoopInv'
<1>1. Current \in open /\ index \in 1 .. Len(client_sockets)
  BY CurrentIsOpen DEF LoopInv, LoopTyped
<1>2. /\ client_sockets' \in Seq(Sockets)
      /\ Len(client_sockets') = Len(client_sockets) - 1
  BY <1>1, RemoveAtProperties DEF LoopInv, LoopTyped, Disconnect
<1>3. IsInjective(client_sockets') /\ ToSet(client_sockets') = open \ {Current}
  BY <1>1, RemoveFromList DEF LoopInv, LoopTyped, ListInv, Disconnect, Current
<1>4. /\ client_states' \in [open \ {Current} -> Records]
      /\ \A t \in open \ {Current} : client_states'[t] = client_states[t]
  BY DEF LoopInv, LoopTyped, Disconnect
<1>5. inbox' \in [Sockets -> Seq(Lines)]
  <2>1. <<>> \in Seq(Lines)
    BY EmptySeq
  <2> QED
    BY <2>1 DEF LoopInv, LoopTyped, Disconnect, Forget
<1>6. open' = open \ {Current}
  BY DEF Disconnect
<1>7. LoopTyped'
  <2>1. index' \in 1 .. Len(client_sockets') + 1
    <3>1. Len(client_sockets) \in Nat
      BY LenProperties DEF LoopInv, LoopTyped
    <3> QED
      BY <1>1, <1>2, <3>1 DEF Disconnect
  <2> QED
    BY <1>2, <1>4, <1>5, <1>6, <2>1 DEF LoopInv, LoopTyped, Disconnect
<1>8. ListInv'
  BY <1>3, <1>6 DEF ListInv
<1>9. Resting'
  BY <1>4, <1>6 DEF Resting, LoopInv
<1> QED
  BY <1>7, <1>8, <1>9 DEF LoopInv

\* A step that changes the record of the current client only.
LEMMA RecordKeeps ==
  ASSUME LoopInv, NEW r \in Records, index <= Len(client_sockets),
         r.state \notin SendingStates => r.bytes_sent = 0,
         client_states' = [client_states EXCEPT ![Current] = r],
         UNCHANGED <<client_sockets, open>>,
         pc' \in {"accept", "scan", "messages"},
         readfds' \subseteq readfds, writefds' \subseteq writefds,
         index' \in 1 .. Len(client_sockets) + 1,
         pc' = "messages" => index' <= Len(client_sockets),
         inbox' \in [Sockets -> Seq(Lines)]
  PROVE  LoopInv'
<1>1. Current \in open
  BY CurrentIsOpen
<1>2. /\ client_states' \in [open -> Records]
      /\ \A t \in open : client_states'[t] = IF t = Current THEN r ELSE client_states[t]
  BY <1>1 DEF LoopInv, LoopTyped
<1>3. LoopTyped'
  BY <1>2 DEF LoopInv, LoopTyped
<1>4. ListInv'
  BY DEF LoopInv, ListInv
<1>5. Resting'
  BY <1>2 DEF LoopInv, Resting
<1> QED
  BY <1>3, <1>4, <1>5 DEF LoopInv

\* A step that changes no record and no list.
LEMMA ScanKeeps ==
  ASSUME LoopInv, UNCHANGED <<client_states, client_sockets, open>>,
         pc' \in {"accept", "scan", "messages"},
         readfds' \subseteq Sockets \cup {Listener}, writefds' \subseteq Sockets,
         index' \in 1 .. Len(client_sockets) + 1,
         pc' = "messages" => index' <= Len(client_sockets),
         inbox' \in [Sockets -> Seq(Lines)]
  PROVE  LoopInv'
BY DEF LoopInv, LoopTyped, ListInv, Resting

-----------------------------------------------------------------------------
(* Every step keeps LoopInv. *)

LEMMA InitialLoop == Init => LoopInv
<1> SUFFICES ASSUME Init PROVE LoopInv
  OBVIOUS
<1>1. <<>> \in Seq(Sockets) /\ <<>> \in Seq(Lines) /\ Len(<<>>) = 0
  BY EmptySeq
<1>2. client_states \in [open -> Records]
  BY DEF Init
<1>3. LoopTyped
  BY <1>1, <1>2 DEF Init, LoopTyped, All
<1>4. ListInv
  BY DEF Init, ListInv, ToSet, IsInjective
<1>5. Resting
  BY DEF Init, Resting
<1> QED
  BY <1>3, <1>4, <1>5 DEF LoopInv

LEMMA ClientsKeep ==
  ASSUME LoopInv, ClientStep
  PROVE  LoopInv'
<1>1. CASE Connect
  BY <1>1 DEF Connect, loopVars, clientVars, LoopInv, LoopTyped, ListInv, Resting
<1>2. ASSUME NEW s \in Sockets, NEW line \in Lines, SendLine(s, line)
      PROVE  LoopInv'
  <2>1. Append(inbox[s], line) \in Seq(Lines)
    BY AppendProperties DEF LoopInv, LoopTyped
  <2>2. inbox' \in [Sockets -> Seq(Lines)]
    BY <1>2, <2>1 DEF SendLine, LoopInv, LoopTyped
  <2> QED
    BY <1>2, <2>2 DEF SendLine, loopVars, LoopInv, LoopTyped, ListInv, Resting
<1>3. ASSUME NEW s \in Sockets, HangUp(s)
      PROVE  LoopInv'
  BY <1>3 DEF HangUp, loopVars, LoopInv, LoopTyped, ListInv, Resting
<1>4. ASSUME NEW s \in Sockets, Stall(s)
      PROVE  LoopInv'
  BY <1>4 DEF Stall, loopVars, LoopInv, LoopTyped, ListInv, Resting
<1> QED
  BY <1>1, <1>2, <1>3, <1>4 DEF ClientStep

LEMMA SelectKeeps ==
  ASSUME LoopInv, Select
  PROVE  LoopInv'
<1>1. DOMAIN client_sockets = 1 .. Len(client_sockets) /\ Len(client_sockets) \in Nat
  BY LenProperties DEF LoopInv, LoopTyped
<1>2. Polled \subseteq Sockets /\ Awaited \subseteq Sockets
  BY <1>1, ElementOfSeq DEF LoopInv, LoopTyped, Polled, Awaited
<1>3. readfds' \subseteq Sockets \cup {Listener}
  BY <1>2 DEF Select
<1>4. writefds' \subseteq Sockets
  BY <1>2 DEF Select
<1>5. pc' \in {"accept", "scan"}
  BY DEF Select, LoopInv, ListInv
<1>6. UNCHANGED <<client_states, client_sockets, open, inbox>> /\ index' = 1
  BY DEF Select, clientVars
<1>7. inbox' \in [Sockets -> Seq(Lines)] /\ index' \in 1 .. Len(client_sockets) + 1
  BY <1>1, <1>6 DEF LoopInv, LoopTyped
<1> QED
  BY <1>3, <1>4, <1>5, <1>6, <1>7, ScanKeeps

LEMMA AcceptKeeps ==
  ASSUME LoopInv, NEW s \in Sockets, Accept(s)
  PROVE  LoopInv'
<1>1. s \notin open /\ open' = open \cup {s}
  BY DEF Accept
<1>2. /\ client_sockets' \in Seq(Sockets)
      /\ Len(client_sockets') = Len(client_sockets) + 1
      /\ Len(client_sockets) \in Nat
  BY AppendProperties, LenProperties DEF Accept, LoopInv, LoopTyped
<1>3. IsInjective(client_sockets') /\ ToSet(client_sockets') = open \cup {s}
  BY <1>1, AppendToList DEF Accept, LoopInv, LoopTyped, ListInv
<1>4. NewClient \in Records /\ NewClient.state = "IDLE" /\ NewClient.bytes_sent = 0
  <2>1. <<>> \in Seq(Lines)
    BY EmptySeq
  <2>2. 0 \in 0 .. ImageSize - 1
    BY EventLoopConstants
  <2> QED
    BY <2>1, <2>2, RecordUpdate DEF NewClient, ClientStates
<1>5. /\ client_states' \in [open \cup {s} -> Records]
      /\ \A t \in open \cup {s} :
            client_states'[t] = IF t = s THEN NewClient ELSE client_states[t]
  BY <1>4 DEF Accept, LoopInv, LoopTyped
<1>6. LoopTyped'
  <2>1. index' \in 1 .. Len(client_sockets') + 1
    BY <1>2 DEF Accept, LoopInv, LoopTyped
  <2>2. pc' = "scan" /\ readfds' \subseteq readfds
    BY DEF Accept
  <2> QED
    BY <1>1, <1>2, <1>5, <2>1, <2>2 DEF Accept, LoopInv, LoopTyped
<1>7. ListInv'
  BY <1>1, <1>3 DEF ListInv
<1>8. Resting'
  BY <1>1, <1>4, <1>5 DEF Resting, LoopInv
<1> QED
  BY <1>6, <1>7, <1>8 DEF LoopInv

LEMMA RecvKeeps ==
  ASSUME LoopInv, NEW n \in 1 .. MaxLines, Recv(n)
  PROVE  LoopInv'
<1>1. /\ index <= Len(client_sockets) /\ Current \in open /\ Current \in Sockets
      /\ n \in 1 .. Len(inbox[Current]) /\ inbox[Current] \in Seq(Lines)
      /\ client_states[Current] \in Records
  BY CurrentIsOpen DEF Recv, LoopInv, LoopTyped
<1> DEFINE taken == SubSeq(inbox[Current], 1, n)
           rest  == SubSeq(inbox[Current], n + 1, Len(inbox[Current]))
           r == [client_states[Current] EXCEPT !.buffer = taken]
<1>2. taken \in Seq(Lines) /\ rest \in Seq(Lines)
  <2>1. /\ Len(inbox[Current]) \in Nat
        /\ \A i \in 1 .. Len(inbox[Current]) : inbox[Current][i] \in Lines
    BY <1>1, LenProperties, ElementOfSeq
  <2> QED
    BY <1>1, <2>1, SubSeqProperties
<1>3. /\ r \in Records /\ r.state = client_states[Current].state
      /\ r.bytes_sent = client_states[Current].bytes_sent
  BY <1>1, <1>2 DEF Records
<1>4. /\ client_states' = [client_states EXCEPT ![Current] = r]
      /\ inbox' = [inbox EXCEPT ![Current] = rest]
      /\ pc' = "messages"
      /\ UNCHANGED <<index, readfds, writefds, client_sockets, open>>
  BY <1>1 DEF Recv, LoopInv, LoopTyped
<1>5. inbox' \in [Sockets -> Seq(Lines)]
  BY <1>2, <1>4 DEF LoopInv, LoopTyped
<1>6. index' \in 1 .. Len(client_sockets) + 1 /\ index' <= Len(client_sockets)
  BY <1>1, <1>4 DEF LoopInv, LoopTyped
<1>7. r.state \notin SendingStates => r.bytes_sent = 0
  BY <1>1, <1>3 DEF LoopInv, Resting
<1> HIDE DEF r
<1> QED
  BY <1>1, <1>3, <1>4, <1>5, <1>6, <1>7, RecordKeeps

\* What TakeMessage leaves in the record of the client.
LEMMA MessageKeeps ==
  ASSUME LoopInv, NEW s, NEW line, NEW from, NEW to \in ClientStates,
         (from = SendingStates /\ to \in from) \/ from \cap SendingStates = {},
         TakeMessage(s, line, from, to)
  PROVE  /\ LoopInv'
         /\ s = Current /\ s \in open /\ line \in Lines
         /\ client_states'[s].state = to
         /\ client_states'[s].bytes_sent = client_states[s].bytes_sent
         /\ \A t \in open : t # s => client_states'[t] = client_states[t]
         /\ client_states[s].state \in from
         /\ UNCHANGED open
<1>1. /\ s = Current /\ Current \in open /\ index <= Len(client_sockets)
      /\ client_states[s] \in Records /\ client_states[s].state \in from
      /\ client_states[s].buffer # <<>> /\ line = Head(client_states[s].buffer)
  BY CurrentIsOpen DEF TakeMessage, NextMessage, LoopInv, LoopTyped
<1>2. Tail(client_states[s].buffer) \in Seq(Lines) /\ line \in Lines
  BY <1>1, HeadTailProperties DEF Records
<1> DEFINE sent == client_states[s].bytes_sent
           b == IF to \in SendingStates \ from THEN 0 ELSE sent
           r == ClientState(to, b, Tail(client_states[s].buffer))
<1>3. b = sent /\ (to \notin SendingStates => b = 0)
  <2>1. client_states[s].state \notin SendingStates => sent = 0
    BY <1>1 DEF LoopInv, Resting
  <2>2. CASE from = SendingStates /\ to \in from
    BY <2>2
  <2>3. CASE from \cap SendingStates = {}
    <3>1. sent = 0
      BY <1>1, <2>1, <2>3
    <3> QED
      BY <3>1
  <2> QED
    BY <2>2, <2>3
<1>4. /\ r \in Records /\ r.state = to /\ r.bytes_sent = sent
      /\ client_states' = [client_states EXCEPT ![Current] = r]
  <2>1. sent \in 0 .. ImageSize - 1
    BY <1>1 DEF Records
  <2>2. r \in Records
    BY <1>1, <1>2, <1>3, <2>1, RecordUpdate
  <2>3. r.state = to /\ r.bytes_sent = sent
    BY <1>3 DEF ClientState
  <2>4. client_states' = [client_states EXCEPT ![Current] = r]
    BY <1>1 DEF TakeMessage
  <2> QED
    BY <2>2, <2>3, <2>4
<1> HIDE DEF r, b
<1>5. /\ UNCHANGED <<pc, index, readfds, writefds, client_sockets, open, inbox>>
  BY DEF TakeMessage, clientVars
<1>6. /\ pc' \in {"accept", "scan", "messages"} /\ inbox' \in [Sockets -> Seq(Lines)]
      /\ index' \in 1 .. Len(client_sockets) + 1
      /\ pc' = "messages" => index' <= Len(client_sockets)
  BY <1>1, <1>5 DEF LoopInv, LoopTyped
<1>7. LoopInv'
  BY <1>1, <1>3, <1>4, <1>5, <1>6, RecordKeeps
<1>8. /\ client_states'[s] = r
      /\ \A t \in open : t # s => client_states'[t] = client_states[t]
  BY <1>1, <1>4 DEF LoopInv, LoopTyped
<1> QED
  BY <1>1, <1>2, <1>4, <1>5, <1>7, <1>8

LEMMA HandleMessageKeeps ==
  ASSUME LoopInv, HandleMessage
  PROVE  LoopInv'
<1>1. PICK line : \/ HandleCommand(Current, line) \/ QueueImage(Current, line)
                  \/ HandleExit(Current, line) \/ HandleData(Current, line)
                  \/ DropMessage(Current, line)
  BY DEF HandleMessage
<1>2. AfterCommand(line) \in ClientStates
  BY DEF AfterCommand, ClientStates, SendingStates
<1>3. {"IDLE"} \cap SendingStates = {}
  BY DEF SendingStates
<1>4. CASE HandleCommand(Current, line) \/ QueueImage(Current, line)
  <2>1. TakeMessage(Current, line, {"IDLE"}, AfterCommand(line))
    BY <1>4 DEF HandleCommand, QueueImage
  <2> QED
    BY <1>2, <1>3, <2>1, MessageKeeps
<1>5. CASE HandleExit(Current, line)
  <2>1. index <= Len(client_sockets) /\ Disconnect(Current)
    BY <1>5 DEF HandleExit, NextMessage, LoopInv, LoopTyped
  <2> QED
    BY <2>1, DisconnectKeeps
<1>6. CASE HandleData(Current, line)
  <2>1. PICK waiting \in {"WAITING_REGISTER_DATA", "WAITING_LOGIN_DATA"} :
             TakeMessage(Current, line, {waiting}, "IDLE")
    BY <1>6 DEF HandleData
  <2>2. {waiting} \cap SendingStates = {} /\ "IDLE" \in ClientStates
    BY DEF SendingStates, ClientStates
  <2> QED
    BY <2>1, <2>2, MessageKeeps
<1>7. CASE DropMessage(Current, line)
  <2>1. TakeMessage(Current, line, SendingStates, client_states[Current].state)
    BY <1>7 DEF DropMessage
  <2>2. client_states[Current].state \in SendingStates
    BY <2>1 DEF TakeMessage, NextMessage
  <2>3. client_states[Current].state \in ClientStates
    BY <2>2 DEF ClientStates
  <2> QED
    BY <2>1, <2>2, <2>3, MessageKeeps
<1> QED
  BY <1>1, <1>4, <1>5, <1>6, <1>7

\* The loop goes on to the next client.
LEMMA NextClientKeeps ==
  ASSUME LoopInv, Done, NextClient, UNCHANGED inbox
  PROVE  /\ index <= Len(client_sockets)
         /\ pc' = "scan" /\ index' \in 1 .. Len(client_sockets) + 1
         /\ readfds' \subseteq readfds /\ writefds' \subseteq writefds
         /\ inbox' \in [Sockets -> Seq(Lines)]
<1>1. Len(client_sockets) \in Nat
  BY LenProperties DEF LoopInv, LoopTyped
<1>2. index <= Len(client_sockets)
  BY DEF Done, LoopInv, LoopTyped
<1> QED
  BY <1>1, <1>2 DEF NextClient, LoopInv, LoopTyped

\* The current client was sent n bytes more.  When they were the last it was sent
\* the text, or the text was lost.
Wrote(n) ==
    LET sent == client_states[Current].bytes_sent IN
    /\ sent + n <= ImageSize
    /\ client_states[Current].state \in SendingStates
    /\ client_states'[Current].bytes_sent =
           IF sent + n = ImageSize THEN 0 ELSE sent + n
    /\ sent + n = ImageSize => client_states'[Current].state = "IDLE"
    /\ sent + n # ImageSize => client_states'[Current].state \in SendingStates
    /\ UNCHANGED handled
    /\ \/ /\ out' = [out EXCEPT ![Current] = @ \o Bytes(sent, n)]
          /\ \/ UNCHANGED lost /\ sent + n # ImageSize
             \/ lost' = [lost EXCEPT ![Current] = @ \/ sent + n = ImageSize]
       \/ /\ sent + n = ImageSize /\ UNCHANGED lost
          /\ out' = [out EXCEPT ![Current] =
                        Append(@ \o Bytes(sent, n), Text("Image sent"))]

\* What WriteHeader and WriteData leave in the record of the client.
LEMMA WriteKeeps ==
  ASSUME LoopInv,
         (\E n \in 1 .. HeaderSize : WriteHeader(n))
            \/ (\E n \in 1 .. ChunkSize : WriteData(n))
  PROVE  /\ LoopInv' /\ UNCHANGED open /\ Current \in open
         /\ \A t \in open : t # Current => client_states'[t] = client_states[t]
         /\ \E n \in Nat \ {0} : Wrote(n)
<1> DEFINE sent == client_states[Current].bytes_sent
           buffer == client_states[Current].buffer
<1>1. /\ Done /\ NextClient /\ UNCHANGED <<client_sockets, open, inbox>>
      /\ client_states[Current].state \in SendingStates
  BY DEF WriteHeader, WriteData, SendBytes, SendingStates, clientVars
<1>2. /\ index <= Len(client_sockets)
      /\ pc' = "scan" /\ index' \in 1 .. Len(client_sockets) + 1
      /\ readfds' \subseteq readfds /\ writefds' \subseteq writefds
      /\ inbox' \in [Sockets -> Seq(Lines)]
  BY <1>1, NextClientKeeps
<1>3. Current \in open /\ Current \in Sockets
  BY <1>2, CurrentIsOpen
<1>4. sent \in 0 .. ImageSize - 1 /\ buffer \in Seq(Lines)
  BY <1>3 DEF LoopInv, LoopTyped, Records
<1>5. ASSUME NEW st \in ClientStates, NEW b \in 0 .. ImageSize - 1,
             st \notin SendingStates => b = 0,
             client_states' = [client_states EXCEPT
                                  ![Current] = ClientState(st, b, buffer)]
      PROVE  /\ LoopInv'
             /\ \A t \in open : t # Current => client_states'[t] = client_states[t]
             /\ client_states'[Current].bytes_sent = b
             /\ client_states'[Current].state = st
  <2> DEFINE r == ClientState(st, b, buffer)
  <2>1. r \in Records /\ r.state = st /\ r.bytes_sent = b
    BY <1>4, RecordUpdate
  <2>2. /\ client_states'[Current] = r
        /\ \A t \in open : t # Current => client_states'[t] = client_states[t]
    BY <1>3, <1>5 DEF LoopInv, LoopTyped
  <2>3. client_states' = [client_states EXCEPT ![Current] = r]
    BY <1>5
  <2> HIDE DEF r
  <2>4. LoopInv'
    BY <1>1, <1>2, <1>5, <2>1, <2>3, RecordKeeps
  <2> QED
    BY <2>1, <2>2, <2>4
<1>6. ASSUME NEW n \in 1 .. HeaderSize, WriteHeader(n)
      PROVE  /\ LoopInv'
             /\ \A t \in open : t # Current => client_states'[t] = client_states[t]
             /\ Wrote(n)
  <2> DEFINE st == IF sent + n >= HeaderSize THEN "SENDING_IMAGE_DATA"
                   ELSE client_states[Current].state
  <2>1. n \in 1 .. HeaderSize - sent
    BY <1>6 DEF WriteHeader, SendBytes
  <2>2. sent + n \in 0 .. ImageSize - 1
    BY <1>4, <2>1, EventLoopConstants
  <2>3. st \in SendingStates /\ st \in ClientStates
    BY <1>1 DEF SendingStates, ClientStates
  <2>4. client_states' = [client_states EXCEPT ![Current] = ClientState(st, sent + n, buffer)]
    BY <1>6 DEF WriteHeader
  <2>5. /\ out' = [out EXCEPT ![Current] = @ \o Bytes(sent, n)]
        /\ UNCHANGED <<handled, lost>>
    BY <1>6 DEF WriteHeader, SendBytes
  <2> HIDE DEF st
  <2>6. /\ LoopInv' /\ client_states'[Current].bytes_sent = sent + n
        /\ client_states'[Current].state = st
        /\ \A t \in open : t # Current => client_states'[t] = client_states[t]
    BY <1>5, <2>2, <2>3, <2>4
  <2>7. sent + n # ImageSize /\ sent + n <= ImageSize
    BY <2>2, EventLoopConstants
  <2> QED
    BY <1>1, <2>3, <2>5, <2>6, <2>7 DEF Wrote
<1>7. ASSUME NEW n \in 1 .. ChunkSize, WriteData(n)
      PROVE  /\ LoopInv'
             /\ \A t \in open : t # Current => client_states'[t] = client_states[t]
             /\ Wrote(n)
  <2> DEFINE st == IF sent + n >= ImageSize THEN "IDLE" ELSE client_states[Current].state
             b == IF sent + n >= ImageSize THEN 0 ELSE sent + n
  <2>1. n \in 1 .. ImageSize - sent
    BY <1>7 DEF WriteData, SendBytes
  <2>2. /\ sent + n <= ImageSize /\ b \in 0 .. ImageSize - 1
        /\ b = IF sent + n = ImageSize THEN 0 ELSE sent + n
        /\ sent + n >= ImageSize <=> sent + n = ImageSize
    BY <1>4, <2>1, EventLoopConstants
  <2>3. st \in ClientStates /\ (st \notin SendingStates => b = 0)
    BY <1>1 DEF SendingStates, ClientStates
  <2>4. client_states' = [client_states EXCEPT ![Current] = ClientState(st, b, buffer)]
    BY <1>7 DEF WriteData
  <2>5. \/ /\ out' = [out EXCEPT ![Current] = @ \o Bytes(sent, n)]
           /\ lost' = [lost EXCEPT ![Current] = @ \/ sent + n = ImageSize]
        \/ /\ sent + n = ImageSize /\ UNCHANGED lost
           /\ out' = [out EXCEPT ![Current] =
                         Append(@ \o Bytes(sent, n), Text("Image sent"))]
    BY <1>7, <2>2 DEF WriteData
  <2>6. /\ UNCHANGED handled
        /\ sent + n = ImageSize => st = "IDLE"
        /\ sent + n # ImageSize => st \in SendingStates
    BY <1>1, <1>7, <2>2 DEF WriteData, SendBytes
  <2> HIDE DEF st, b
  <2>7. /\ LoopInv' /\ client_states'[Current].bytes_sent = b
        /\ client_states'[Current].state = st
        /\ \A t \in open : t # Current => client_states'[t] = client_states[t]
    BY <1>5, <2>2, <2>3, <2>4
  <2> QED
    BY <1>1, <2>2, <2>5, <2>7, <2>6 DEF Wrote
<1> QED
  BY <1>1, <1>3, <1>6, <1>7

LEMMA LoopStepKeeps ==
  ASSUME LoopInv, LoopStep
  PROVE  LoopInv'
<1>1. Len(client_sockets) \in Nat
  BY LenProperties DEF LoopInv, LoopTyped
<1>2. CASE AcceptFails
  <2>1. /\ pc' = "scan" /\ readfds' \subseteq readfds
        /\ UNCHANGED <<index, writefds, client_sockets, client_states, open, inbox>>
    BY <1>2 DEF AcceptFails, clientVars
  <2> QED
    BY <2>1, ScanKeeps DEF LoopInv, LoopTyped
<1>3. CASE RecvEnds
  BY <1>3, DisconnectKeeps DEF RecvEnds
<1>4. CASE NotWritable \/ WriteFails
  <2>1. /\ Done /\ NextClient
        /\ UNCHANGED <<client_sockets, client_states, open, inbox>>
    BY <1>4 DEF NotWritable, WriteFails, clientVars
  <2>2. /\ pc' = "scan" /\ index' \in 1 .. Len(client_sockets) + 1
        /\ readfds' \subseteq readfds /\ writefds' \subseteq writefds
        /\ inbox' \in [Sockets -> Seq(Lines)]
    BY <2>1, NextClientKeeps
  <2> QED
    BY <2>1, <2>2, ScanKeeps DEF LoopInv, LoopTyped
<1> QED
  BY <1>2, <1>3, <1>4, SelectKeeps, AcceptKeeps, RecvKeeps, HandleMessageKeeps,
     WriteKeeps DEF LoopStep

LEMMA StepKeeps == LoopInv /\ [Next]_vars => LoopInv'
<1> SUFFICES ASSUME LoopInv, [Next]_vars PROVE LoopInv'
  OBVIOUS
<1>1. CASE UNCHANGED vars
  BY <1>1 DEF vars, loopVars, clientVars, LoopInv, LoopTyped, ListInv, Resting
<1> QED
  BY <1>1, LoopStepKeeps, ClientsKeep DEF Next

LEMMA LoopInvariant == Spec => []LoopInv
BY InitialLoop, StepKeeps, PTL DEF Spec

\* Every variable of the loop stays in its range, for any handles, lines and
\* sizes; the index never leaves the list while clients come and go (lines 68-133).
THEOREM TypeCorrect == Spec => []TypeOK
<1>1. LoopInv => TypeOK
  <2> SUFFICES ASSUME LoopInv PROVE TypeOK
    OBVIOUS
  <2>1. \A s \in DOMAIN client_states : client_states[s] \in Records
    BY DEF LoopInv, LoopTyped
  <2>2. \A s \in DOMAIN client_states :
           /\ client_states[s].state \in ClientStates
           /\ client_states[s].bytes_sent \in 0 .. ImageSize - 1
    BY <2>1 DEF Records
  <2> QED
    BY <2>2 DEF LoopInv, LoopTyped, TypeOK
<1> QED
  BY <1>1, LoopInvariant, PTL

\* The list, the map and the system agree about who is connected, with any number
\* of clients: select never meets a closed handle (lines 78-121).
THEOREM TablesAgree == Spec => []SocketsAgree
<1>1. LoopInv => SocketsAgree
  BY DEF LoopInv, LoopTyped, ListInv, SocketsAgree
<1> QED
  BY <1>1, LoopInvariant, PTL

-----------------------------------------------------------------------------
(* What the clients are sent. *)

CommandWords == {CommandReply(line) : line \in Lines}
DataWords ==
    UNION {DataReplies(waiting, line) : waiting \in ClientStates, line \in Lines}
Words == {"Image sent"} \cup CommandWords \cup DataWords

Items == {Text(w) : w \in Words} \cup {Byte(k) : k \in Nat}

\* The image bytes in o follow each other, and its last b items begin an image.
Whole(o, b) ==
    /\ \A i \in 1 .. Len(o) - 1 : \A k \in 1 .. ImageSize - 1 :
          (o[i] = Byte(k)) <=> (o[i + 1] = Byte(k + 1))
    /\ \A k \in 1 .. ImageSize - 1 : (b = k) <=> (Len(o) > 0 /\ o[Len(o)] = Byte(k))

Sent(s) == IF s \in open THEN client_states[s].bytes_sent ELSE 0

OutInv ==
    /\ out \in [Sockets -> Seq(Items)]
    /\ \A s \in Sockets : Whole(out[s], Sent(s))

LEMMA WholeEmpty == <<>> \in Seq(Items) /\ Whole(<<>>, 0)
<1>1. <<>> \in Seq(Items) /\ Len(<<>>) = 0
  BY EmptySeq
<1> QED
  BY <1>1 DEF Whole

LEMMA Distinct ==
  /\ \A j, k : Byte(j) = Byte(k) <=> j = k
  /\ \A w : \A k \in Nat \ {0} : Text(w) # Byte(k)
BY DEF Byte, Text

LEMMA WholeText ==
  ASSUME NEW o \in Seq(Items), NEW w \in Words, Whole(o, 0)
  PROVE  Append(o, Text(w)) \in Seq(Items) /\ Whole(Append(o, Text(w)), 0)
<1> DEFINE r == Append(o, Text(w))
<1>1. Text(w) \in Items
  BY DEF Items
<1>2. /\ r \in Seq(Items) /\ Len(o) \in Nat /\ Len(r) = Len(o) + 1
      /\ \A j \in 1 .. Len(o) : r[j] = o[j]
      /\ r[Len(o) + 1] = Text(w)
  BY <1>1, AppendProperties, LenProperties
<1> HIDE DEF r
<1>3. ImageSize \in Nat
  BY EventLoopConstants
<1>4. ASSUME NEW i \in 1 .. Len(r) - 1, NEW k \in 1 .. ImageSize - 1
      PROVE  (r[i] = Byte(k)) <=> (r[i + 1] = Byte(k + 1))
  <2>1. CASE i < Len(o)
    BY <1>2, <2>1 DEF Whole
  <2>2. CASE i = Len(o)
    <3>1. r[i + 1] # Byte(k + 1)
      BY <1>2, <1>3, <2>2, Distinct
    <3>2. r[i] # Byte(k)
      BY <1>2, <1>3, <2>2 DEF Whole
    <3> QED
      BY <3>1, <3>2
  <2> QED
    BY <1>2, <2>1, <2>2
<1>5. ASSUME NEW k \in 1 .. ImageSize - 1
      PROVE  r[Len(r)] # Byte(k)
  <2>1. r[Len(r)] = Text(w) /\ k \in Nat \ {0}
    BY <1>2, <1>3
  <2> QED
    BY <2>1, Distinct
<1>6. Whole(r, 0)
  BY <1>3, <1>4, <1>5 DEF Whole
<1> QED
  BY <1>2, <1>6 DEF r

LEMMA WholeBytes ==
  ASSUME NEW o \in Seq(Items), NEW b \in 0 .. ImageSize - 1, NEW n \in Nat \ {0},
         b + n <= ImageSize, Whole(o, b)
  PROVE  /\ o \o Bytes(b, n) \in Seq(Items)
         /\ Whole(o \o Bytes(b, n), IF b + n = ImageSize THEN 0 ELSE b + n)
<1> DEFINE e == Bytes(b, n)
           r == o \o e
<1>1. ImageSize \in Nat
  BY EventLoopConstants
<1>2. \A j \in 1 .. n : Byte(b + j) \in Items
  BY DEF Items
<1>3. e \in Seq(Items) /\ Len(e) = n /\ \A j \in 1 .. n : e[j] = Byte(b + j)
  <2>1. e \in [1 .. n -> Items] /\ \A j \in 1 .. n : e[j] = Byte(b + j)
    BY <1>2 DEF Bytes
  <2>2. e \in Seq(Items)
    BY <2>1, SeqDef
  <2>3. Len(e) = n
    BY <2>1, <2>2, LenProperties
  <2> QED
    BY <2>1, <2>2, <2>3
<1> HIDE DEF e
<1>4. /\ r \in Seq(Items) /\ Len(r) = Len(o) + Len(e)
      /\ \A i \in 1 .. Len(o) + Len(e) : r[i] = IF i <= Len(o) THEN o[i] ELSE e[i - Len(o)]
  BY <1>3, ConcatProperties
<1>5. Len(o) \in Nat
  BY LenProperties
<1> HIDE DEF r
<1>6. /\ Len(r) = Len(o) + n
      /\ \A i \in 1 .. Len(o) : r[i] = o[i]
      /\ \A j \in 1 .. n : r[Len(o) + j] = Byte(b + j)
  <2>1. Len(r) = Len(o) + n /\ \A i \in 1 .. Len(o) : r[i] = o[i]
    BY <1>3, <1>4, <1>5
  <2>2. ASSUME NEW j \in 1 .. n
        PROVE  r[Len(o) + j] = Byte(b + j)
    <3>1. /\ Len(o) + j \in 1 .. Len(o) + Len(e) /\ ~(Len(o) + j <= Len(o))
          /\ Len(o) + j - Len(o) = j
      BY <1>3, <1>5
    <3>2. r[Len(o) + j] = e[Len(o) + j - Len(o)]
      BY <1>4, <3>1
    <3> QED
      BY <1>3, <3>1, <3>2
  <2> QED
    BY <2>1, <2>2
<1>7. ASSUME NEW i \in 1 .. Len(r) - 1, NEW k \in 1 .. ImageSize - 1
      PROVE  (r[i] = Byte(k)) <=> (r[i + 1] = Byte(k + 1))
  <2>1. CASE i < Len(o)
    <3>1. i \in 1 .. Len(o) - 1 /\ i + 1 \in 1 .. Len(o)
      BY <1>5, <2>1
    <3> QED
      BY <1>6, <3>1 DEF Whole
  <2>2. CASE i = Len(o)
    <3>1. r[i] = o[Len(o)] /\ r[i + 1] = Byte(b + 1)
      BY <1>5, <1>6, <2>2
    <3>2. o[Len(o)] = Byte(k) <=> b = k
      BY <1>5, <2>2 DEF Whole
    <3>3. r[i + 1] = Byte(k + 1) <=> b = k
      BY <1>1, <3>1, Distinct
    <3> QED
      BY <3>1, <3>2, <3>3
  <2>3. CASE i > Len(o)
    <3>1. PICK j \in 1 .. n - 1 : i = Len(o) + j
      <4>1. i - Len(o) \in 1 .. n - 1 /\ i = Len(o) + (i - Len(o))
        BY <1>5, <1>6, <2>3
      <4> QED
        BY <4>1
    <3>2. r[i] = Byte(b + j) /\ r[i + 1] = Byte(b + j + 1)
      <4>1. j \in 1 .. n /\ j + 1 \in 1 .. n /\ i + 1 = Len(o) + (j + 1)
            /\ b + (j + 1) = b + j + 1
        BY <1>5, <3>1
      <4>2. r[Len(o) + (j + 1)] = Byte(b + (j + 1))
        BY <1>6, <4>1
      <4> QED
        BY <1>6, <3>1, <4>1, <4>2
    <3>3. b + j = k <=> b + j + 1 = k + 1
      BY <1>1
    <3> QED
      BY <3>2, <3>3, Distinct
  <2> QED
    BY <1>5, <2>1, <2>2, <2>3
<1>8. ASSUME NEW k \in 1 .. ImageSize - 1
      PROVE  ((IF b + n = ImageSize THEN 0 ELSE b + n) = k)
                <=> (Len(r) > 0 /\ r[Len(r)] = Byte(k))
  <2>1. r[Len(r)] = Byte(b + n) /\ Len(r) > 0
    BY <1>5, <1>6
  <2>2. r[Len(r)] = Byte(k) <=> b + n = k
    BY <2>1, Distinct
  <2> QED
    BY <1>1, <2>1, <2>2
<1>9. Whole(r, IF b + n = ImageSize THEN 0 ELSE b + n)
  BY <1>7, <1>8 DEF Whole
<1> QED
  BY <1>4, <1>9 DEF r, e

LEMMA SameOut ==
  ASSUME OutInv, UNCHANGED out, \A s \in Sockets : Sent(s)' = Sent(s)
  PROVE  OutInv'
BY DEF OutInv

\* The client s was sent something, and nobody else.
LEMMA OutExtended ==
  ASSUME OutInv, NEW s \in Sockets, NEW r \in Seq(Items),
         out' = [out EXCEPT ![s] = r], Whole(r, Sent(s)'),
         \A t \in Sockets : t # s => Sent(t)' = Sent(t)
  PROVE  OutInv'
<1>1. /\ out' \in [Sockets -> Seq(Items)]
      /\ \A t \in Sockets : out'[t] = IF t = s THEN r ELSE out[t]
  BY DEF OutInv
<1>2. \A t \in Sockets : Whole(out'[t], Sent(t)')
  BY <1>1 DEF OutInv
<1> QED
  BY <1>1, <1>2 DEF OutInv

LEMMA ReplyKeeps ==
  ASSUME OutInv, NEW s \in Sockets, NEW words \in Words, Sent(s) = 0,
         \A t \in Sockets : Sent(t)' = Sent(t), Reply(s, words)
  PROVE  OutInv'
<1>1. CASE full[s]
  BY <1>1, SameOut DEF Reply
<1>2. CASE ~full[s]
  <2> DEFINE r == Append(out[s], Text(words))
  <2>1. out[s] \in Seq(Items) /\ Whole(out[s], 0)
    BY DEF OutInv
  <2>2. r \in Seq(Items) /\ Whole(r, 0)
    BY <2>1, WholeText
  <2>3. out' = [out EXCEPT ![s] = r]
    BY <1>2 DEF Reply
  <2> HIDE DEF r
  <2> QED
    BY <2>2, <2>3, OutExtended
<1> QED
  BY <1>1, <1>2

LEMMA DisconnectOut ==
  ASSUME LoopInv, OutInv, index <= Len(client_sockets), Disconnect(Current)
  PROVE  OutInv'
<1>1. PICK s \in Sockets : s = Current
  BY CurrentIsOpen
<1>2. out' = [out EXCEPT ![s] = <<>>]
  BY <1>1 DEF Disconnect, Forget
<1>3. Sent(s)' = 0 /\ \A t \in Sockets : t # s => Sent(t)' = Sent(t)
  BY <1>1 DEF Disconnect, Sent, LoopInv, LoopTyped
<1> QED
  BY <1>2, <1>3, WholeEmpty, OutExtended

LEMMA HandleMessageOut ==
  ASSUME LoopInv, OutInv, HandleMessage
  PROVE  OutInv'
<1>1. PICK line : \/ HandleCommand(Current, line) \/ QueueImage(Current, line)
                  \/ HandleExit(Current, line) \/ HandleData(Current, line)
                  \/ DropMessage(Current, line)
  BY DEF HandleMessage
<1>2. index <= Len(client_sockets) /\ Current \in Sockets
  BY CurrentIsOpen DEF HandleMessage, LoopInv, LoopTyped
<1>3. /\ AfterCommand(line) \in ClientStates /\ "IDLE" \in ClientStates
      /\ "IDLE" \notin SendingStates
  BY DEF AfterCommand, ClientStates, SendingStates
<1>4. ASSUME NEW from, NEW to \in ClientStates,
             (from = SendingStates /\ to \in from) \/ from \cap SendingStates = {},
             TakeMessage(Current, line, from, to)
      PROVE  /\ line \in Lines /\ client_states[Current].state \in from
             /\ \A t \in Sockets : Sent(t)' = Sent(t)
             /\ from \cap SendingStates = {} => Sent(Current) = 0
  <2>1. /\ Current \in open /\ line \in Lines
        /\ client_states'[Current].bytes_sent = client_states[Current].bytes_sent
        /\ \A t \in open : t # Current => client_states'[t] = client_states[t]
        /\ client_states[Current].state \in from
        /\ UNCHANGED open
    BY <1>4, MessageKeeps
  <2>2. \A t \in Sockets : Sent(t)' = Sent(t)
    BY <2>1 DEF Sent
  <2>3. from \cap SendingStates = {} => Sent(Current) = 0
    BY <2>1 DEF Sent, LoopInv, Resting
  <2> QED
    BY <2>1, <2>2, <2>3
<1>5. CASE HandleCommand(Current, line)
  <2>1. /\ TakeMessage(Current, line, {"IDLE"}, AfterCommand(line))
        /\ Reply(Current, CommandReply(line))
    BY <1>5 DEF HandleCommand
  <2>2. {"IDLE"} \cap SendingStates = {}
    BY <1>3
  <2>3. line \in Lines /\ Sent(Current) = 0 /\ \A t \in Sockets : Sent(t)' = Sent(t)
    BY <1>3, <1>4, <2>1, <2>2
  <2>4. CommandReply(line) \in Words
    <3>1. CommandReply(line) \in CommandWords
      BY <2>3 DEF CommandWords
    <3> QED
      BY <3>1 DEF Words
  <2> QED
    BY <1>2, <2>1, <2>3, <2>4, ReplyKeeps
<1>6. CASE QueueImage(Current, line)
  <2>1. TakeMessage(Current, line, {"IDLE"}, AfterCommand(line)) /\ UNCHANGED out
    BY <1>6 DEF QueueImage
  <2>2. {"IDLE"} \cap SendingStates = {}
    BY <1>3
  <2> QED
    BY <1>3, <1>4, <2>1, <2>2, SameOut
<1>7. CASE HandleExit(Current, line)
  BY <1>2, <1>7, DisconnectOut DEF HandleExit
<1>8. CASE HandleData(Current, line)
  <2>1. PICK waiting \in {"WAITING_REGISTER_DATA", "WAITING_LOGIN_DATA"} :
             /\ TakeMessage(Current, line, {waiting}, "IDLE")
             /\ \E words \in DataReplies(waiting, line) : Reply(Current, words)
    BY <1>8 DEF HandleData
  <2>2. {waiting} \cap SendingStates = {} /\ waiting \in ClientStates
    BY DEF SendingStates, ClientStates
  <2>3. line \in Lines /\ Sent(Current) = 0 /\ \A t \in Sockets : Sent(t)' = Sent(t)
    BY <1>3, <1>4, <2>1, <2>2
  <2>4. PICK words \in DataReplies(waiting, line) : Reply(Current, words)
    BY <2>1
  <2>5. words \in Words
    <3>1. words \in DataWords
      BY <2>2, <2>3 DEF DataWords
    <3> QED
      BY <3>1 DEF Words
  <2> QED
    BY <1>2, <2>3, <2>4, <2>5, ReplyKeeps
<1>9. CASE DropMessage(Current, line)
  <2>1. /\ TakeMessage(Current, line, SendingStates, client_states[Current].state)
        /\ UNCHANGED out
    BY <1>9 DEF DropMessage, historyVars
  <2>2. client_states[Current].state \in SendingStates
    BY <2>1 DEF TakeMessage, NextMessage
  <2>3. client_states[Current].state \in ClientStates
    BY <2>2 DEF ClientStates
  <2>4. \A t \in Sockets : Sent(t)' = Sent(t)
    BY <1>4, <2>1, <2>2, <2>3
  <2> QED
    BY <2>1, <2>4, SameOut
<1> QED
  BY <1>1, <1>5, <1>6, <1>7, <1>8, <1>9

LEMMA WriteOut ==
  ASSUME LoopInv, OutInv,
         (\E n \in 1 .. HeaderSize : WriteHeader(n))
            \/ (\E n \in 1 .. ChunkSize : WriteData(n))
  PROVE  OutInv'
<1>1. /\ UNCHANGED open /\ Current \in open
      /\ \A t \in open : t # Current => client_states'[t] = client_states[t]
      /\ \E n \in Nat \ {0} : Wrote(n)
  BY WriteKeeps
<1>2. PICK n \in Nat \ {0} : Wrote(n)
  BY <1>1
<1>0. PICK s \in Sockets : s = Current
  BY <1>1 DEF LoopInv, LoopTyped
<1> DEFINE sent == client_states[s].bytes_sent
           o == out[s]
<1>3. s = Current /\ s \in open /\ Sent(s) = sent /\ sent \in 0 .. ImageSize - 1
  <2>1. client_states[s] \in Records
    BY <1>0, <1>1 DEF LoopInv, LoopTyped
  <2> QED
    BY <1>0, <1>1, <2>1 DEF Records, Sent
<1>4. o \in Seq(Items) /\ Whole(o, sent)
  BY <1>3 DEF OutInv
<1> DEFINE b == IF sent + n = ImageSize THEN 0 ELSE sent + n
           r == o \o Bytes(sent, n)
           q == Append(r, Text("Image sent"))
<1>5. Sent(s)' = b /\ \A t \in Sockets : t # s => Sent(t)' = Sent(t)
  <2>1. client_states'[s].bytes_sent = b
    BY <1>2, <1>3 DEF Wrote
  <2>2. \A t \in Sockets : t # s => Sent(t)' = Sent(t)
    BY <1>1, <1>3 DEF Sent
  <2>3. Sent(s)' = client_states'[s].bytes_sent
    BY <1>1, <1>3 DEF Sent
  <2> QED
    BY <2>1, <2>2, <2>3
<1>6. r \in Seq(Items) /\ Whole(r, b)
  BY <1>2, <1>3, <1>4, WholeBytes DEF Wrote
<1>7. out' = [out EXCEPT ![s] = r]
         \/ (b = 0 /\ out' = [out EXCEPT ![s] = q])
  BY <1>2, <1>3 DEF Wrote
<1> HIDE DEF r, b
<1>8. b = 0 => q \in Seq(Items) /\ Whole(q, b)
  <2>1. "Image sent" \in Words
    BY DEF Words
  <2> QED
    BY <1>6, <2>1, WholeText
<1> HIDE DEF q
<1>9. CASE out' = [out EXCEPT ![s] = r]
  BY <1>3, <1>5, <1>6, <1>9, OutExtended
<1>10. CASE b = 0 /\ out' = [out EXCEPT ![s] = q]
  BY <1>3, <1>5, <1>8, <1>10, OutExtended
<1> QED
  BY <1>7, <1>9, <1>10

LEMMA RecvOut ==
  ASSUME LoopInv, OutInv, NEW n \in 1 .. MaxLines, Recv(n)
  PROVE  OutInv'
<1>1. Current \in open
  BY CurrentIsOpen DEF Recv
<1>2. \A t \in open : client_states'[t].bytes_sent = client_states[t].bytes_sent
  <2>1. client_states[Current] \in Records
    BY <1>1 DEF LoopInv, LoopTyped
  <2> QED
    BY <1>1, <2>1 DEF Recv, LoopInv, LoopTyped, Records
<1>3. UNCHANGED <<open, out>>
  BY DEF Recv, historyVars
<1>4. \A t \in Sockets : Sent(t)' = Sent(t)
  BY <1>2, <1>3 DEF Sent
<1> QED
  BY <1>3, <1>4, SameOut

LEMMA StepKeepsOut == LoopInv /\ OutInv /\ [Next]_vars => OutInv'
<1> SUFFICES ASSUME LoopInv, OutInv, [Next]_vars PROVE OutInv'
  OBVIOUS
<1>1. CASE UNCHANGED <<client_states, open, out>>
  <2>1. \A t \in Sockets : Sent(t)' = Sent(t)
    BY <1>1 DEF Sent
  <2> QED
    BY <1>1, <2>1, SameOut
<1>2. ASSUME NEW s \in Sockets, Accept(s)
      PROVE  OutInv'
  <2>1. UNCHANGED out
    BY <1>2 DEF Accept, historyVars
  <2>2. Sent(s) = 0 /\ Sent(s)' = 0
    BY <1>2 DEF Accept, Sent, NewClient, ClientState
  <2>3. \A t \in Sockets : t # s => Sent(t)' = Sent(t)
    BY <1>2 DEF Accept, Sent, LoopInv, LoopTyped
  <2>4. \A t \in Sockets : Sent(t)' = Sent(t)
    BY <2>2, <2>3
  <2> QED
    BY <2>1, <2>4, SameOut
<1>3. CASE RecvEnds
  BY <1>3, DisconnectOut DEF RecvEnds
<1>4. CASE ClientStep \/ Select \/ AcceptFails \/ NotWritable \/ WriteFails
  BY <1>1, <1>4 DEF ClientStep, Connect, SendLine, HangUp, Stall, Select, AcceptFails,
     NotWritable, WriteFails, loopVars, historyVars
<1>5. CASE UNCHANGED vars
  BY <1>1, <1>5 DEF vars, loopVars, historyVars
<1> QED
  BY <1>2, <1>3, <1>4, <1>5, RecvOut, HandleMessageOut, WriteOut DEF Next, LoopStep

\* Whatever clients send meanwhile, and in whatever parts the system takes it, an
\* image of any size reaches its client without a gap, a repetition or a text
\* between its bytes (lines 177-224).
THEOREM ImagesArriveWhole == Spec => []ImageUnbroken
<1>1. Init => OutInv
  <2> SUFFICES ASSUME Init PROVE OutInv
    OBVIOUS
  <2>1. \A s \in Sockets : out[s] = <<>> /\ Sent(s) = 0
    BY DEF Init, All, Sent
  <2> QED
    BY <2>1, WholeEmpty DEF OutInv, Init, All
<1>2. OutInv => ImageUnbroken
  BY DEF OutInv, Whole, ImageUnbroken
<1> QED
  BY <1>1, <1>2, LoopInvariant, StepKeepsOut, PTL DEF Spec

-----------------------------------------------------------------------------
(* Answers, against what was asked. *)

Expected(lines) == Expects(lines)[Len(lines)]

\* After what is due in before, b bytes of an image were sent.
Begun(o, before, b) ==
    /\ Len(o) = Len(before) + b
    /\ Fits(o, before \o Replies("IDLE", Command("get image")))

\* Of the image that was asked for last as many bytes were sent as the record says.
UnderWay(s) ==
    \E before \in Seq(Lines) :
        /\ handled[s] = Append(before, Command("get image"))
        /\ Expected(before) = "IDLE"
        /\ ~lost[s] => Begun(out[s], Due(before), client_states[s].bytes_sent)

\* No image is under way: everything is answered, and the state of the client is
\* what its lines ask for.
Settled(s) ==
    /\ s \in open => client_states[s].state = Expected(handled[s])
    /\ ~lost[s] => FitsWholly(out[s], Due(handled[s]))

Answered(s) == IF Sending(s) THEN UnderWay(s) ELSE Settled(s)

AnswersInv ==
    /\ handled \in [Sockets -> Seq(Lines)] /\ lost \in [Sockets -> BOOLEAN]
    /\ \A s \in Sockets : s \notin open => handled[s] = <<>> /\ out[s] = <<>>
    /\ \A s \in Sockets : Answered(s)

CommandStates == {"IDLE", "WAITING_REGISTER_DATA", "WAITING_LOGIN_DATA"}

LEMMA AfterRepliesType ==
  ASSUME NEW line
  PROVE  /\ AfterReplies(line) \in CommandStates
         /\ line = Command("get image") => AfterCommand(line) = "SENDING_IMAGE_HEADER"
         /\ line # Command("get image") => AfterCommand(line) = AfterReplies(line)
<1>1. \A n, m : Command(n) = Command(m) => n = m
  BY DEF Command, Field
<1>2. /\ Command("get image") # Command("register")
      /\ Command("get image") # Command("login")
      /\ Command("register") # Command("login")
  BY <1>1
<1>3. /\ line = Command("register") => AfterCommand(line) = "WAITING_REGISTER_DATA"
      /\ line = Command("login") => AfterCommand(line) = "WAITING_LOGIN_DATA"
      /\ line = Command("get image") => AfterCommand(line) = "SENDING_IMAGE_HEADER"
      /\ line \notin {Command("register"), Command("login"), Command("get image")} =>
            AfterCommand(line) = "IDLE"
  BY <1>2 DEF AfterCommand
<1> QED
  BY <1>2, <1>3 DEF AfterReplies, CommandStates

LEMMA RepliesType ==
  ASSUME NEW line \in Lines, NEW expected \in CommandStates
  PROVE  Replies(expected, line) \in Seq(SUBSET Items)
<1>1. ASSUME NEW w \in SUBSET Items PROVE <<w>> \in Seq(SUBSET Items)
  OBVIOUS
<1>2. CASE expected # "IDLE"
  <2> DEFINE w == {Text(words) : words \in DataReplies(expected, line)}
  <2>1. expected \in ClientStates
    BY DEF CommandStates, ClientStates
  <2>2. w \in SUBSET Items
    <3>1. ASSUME NEW words \in DataReplies(expected, line) PROVE words \in Words
      <4>1. words \in DataWords
        BY <2>1 DEF DataWords
      <4> QED
        BY <4>1 DEF Words
    <3> QED
      BY <3>1 DEF Items
  <2>3. Replies(expected, line) = <<w>>
    BY <1>2, Zenon DEF Replies
  <2> HIDE DEF w
  <2> QED
    BY <1>1, <2>2, <2>3
<1>3. CASE expected = "IDLE" /\ line = Command("get image")
  <2> DEFINE image == [k \in 1 .. ImageSize |-> {Byte(k)}]
             last == {Text("Image sent")}
  <2>1. image \in Seq(SUBSET Items)
    <3>1. ImageSize \in Nat /\ \A k \in 1 .. ImageSize : {Byte(k)} \in SUBSET Items
      BY EventLoopConstants DEF Items
    <3> QED
      BY <3>1
  <2>2. last \in SUBSET Items
    BY DEF Items, Words
  <2>3. Replies(expected, line) = Append(image, last)
    BY <1>3, Zenon DEF Replies
  <2> HIDE DEF image, last
  <2> QED
    BY <2>1, <2>2, <2>3, AppendProperties
<1>4. CASE expected = "IDLE" /\ line # Command("get image")
  <2> DEFINE w == {Text(CommandReply(line))}
  <2>1. w \in SUBSET Items
    BY DEF Items, Words, CommandWords
  <2>2. Replies(expected, line) = <<w>>
    BY <1>4, Zenon DEF Replies
  <2> HIDE DEF w
  <2> QED
    BY <1>1, <2>1, <2>2
<1> QED
  BY <1>2, <1>3, <1>4

LEMMA ExpectsIs ==
  ASSUME NEW lines \in Seq(Lines)
  PROVE  /\ \A n \in 0 .. Len(lines) : Expects(lines)[n] \in CommandStates
         /\ Expects(lines)[0] = "IDLE"
<1> DEFINE afters == [i \in DOMAIN lines |-> AfterReplies(lines[i])]
<1>1. afters \in Seq(CommandStates) /\ Len(afters) = Len(lines) /\ "IDLE" \in CommandStates
  <2>1. DOMAIN lines = 1 .. Len(lines) /\ Len(lines) \in Nat
    BY LenProperties
  <2>2. \A i \in DOMAIN lines : AfterReplies(lines[i]) \in CommandStates
    BY AfterRepliesType
  <2> QED
    BY <2>1, <2>2 DEF CommandStates
<1>2. Expects(lines) = Expectations(afters)
  BY DEF Expects
<1> HIDE DEF afters
<1> QED
  BY <1>1, <1>2, ExpectationsIs

\* One line more leaves what was expected and due, and adds what it asks for.
LEMMA OneLineMore ==
  ASSUME NEW lines \in Seq(Lines), NEW line \in Lines
  PROVE  LET more == Append(lines, line)
             e == Expected(lines)
         IN  /\ e \in CommandStates
             /\ Expected(more) = IF e = "IDLE" THEN AfterReplies(line) ELSE "IDLE"
             /\ Due(lines) \in Seq(SUBSET Items)
             /\ Replies(e, line) \in Seq(SUBSET Items)
             /\ Due(more) = Due(lines) \o Replies(e, line)
<1> DEFINE more == Append(lines, line)
           N == Len(lines)
           e == Expects(lines)[N]
           afters == [i \in DOMAIN lines |-> AfterReplies(lines[i])]
           aftermore == [i \in DOMAIN more |-> AfterReplies(more[i])]
           parts == [i \in DOMAIN lines |-> Replies(Expects(lines)[i - 1], lines[i])]
           partsmore == [i \in DOMAIN more |-> Replies(Expects(more)[i - 1], more[i])]
           P == Seq(SUBSET Items)
<1>1. /\ more \in Seq(Lines) /\ Len(more) = N + 1 /\ N \in Nat
      /\ \A n \in 1 .. N : more[n] = lines[n]
      /\ more[N + 1] = line
      /\ DOMAIN lines = 1 .. N /\ DOMAIN more = 1 .. N + 1
  OBVIOUS
<1>2. /\ Due(lines) = Joined(parts) /\ Due(more) = Joined(partsmore)
      /\ Expects(lines) = Expectations(afters) /\ Expects(more) = Expectations(aftermore)
      /\ Expected(lines) = e
  BY DEF Due, Expects, Expected
<1>3. Expected(more) = Expects(more)[N + 1]
  BY <1>1 DEF Expected
<1> HIDE DEF more
<1>4. /\ afters \in Seq(CommandStates) /\ Len(afters) = N
      /\ aftermore = Append(afters, AfterReplies(line))
      /\ AfterReplies(line) \in CommandStates /\ "IDLE" \in CommandStates
  <2>1. \A l : AfterReplies(l) \in CommandStates
    BY AfterRepliesType
  <2>2. afters \in Seq(CommandStates) /\ Len(afters) = N
    BY <1>1, <2>1
  <2>3. aftermore \in Seq(CommandStates) /\ Len(aftermore) = N + 1
    BY <1>1, <2>1
  <2>4. /\ \A i \in 1 .. N : aftermore[i] = afters[i]
        /\ aftermore[N + 1] = AfterReplies(line)
    BY <1>1
  <2> HIDE DEF afters, aftermore, N
  <2> QED
    BY <2>1, <2>2, <2>3, <2>4, AppendIs DEF CommandStates
<1> HIDE DEF afters, aftermore
<1>5. /\ \A n \in 0 .. N : Expects(more)[n] = Expects(lines)[n]
      /\ Expects(more)[N + 1] = IF e = "IDLE" THEN AfterReplies(line) ELSE "IDLE"
  BY <1>2, <1>4, ExpectationsGrow
<1>6. /\ \A n \in 0 .. N : Expects(lines)[n] \in CommandStates
      /\ e \in CommandStates
  BY <1>1, ExpectsIs
<1>7. Replies(e, line) \in P
  BY <1>6, RepliesType
<1>8. parts \in Seq(P) /\ partsmore = Append(parts, Replies(e, line))
  <2>1. ASSUME NEW n \in 1 .. N PROVE Replies(Expects(lines)[n - 1], lines[n]) \in P
    <3>1. n - 1 \in 0 .. N /\ lines[n] \in Lines
      BY <1>1, ElementOfSeq
    <3> QED
      BY <1>6, <3>1, RepliesType
  <2>2. /\ \A n \in 1 .. N : partsmore[n] = parts[n]
        /\ partsmore[N + 1] = Replies(e, line)
    <3>1. ASSUME NEW n \in 1 .. N PROVE partsmore[n] = parts[n]
      <4>1. n - 1 \in 0 .. N /\ n \in 1 .. N + 1
        BY <1>1
      <4> QED
        BY <1>1, <1>5, <4>1
    <3>2. N + 1 \in 1 .. N + 1 /\ (N + 1) - 1 = N /\ N \in 0 .. N
      BY <1>1
    <3>3. partsmore[N + 1] = Replies(e, line)
      BY <1>1, <1>5, <3>2
    <3> QED
      BY <3>1, <3>3
  <2> HIDE DEF P, N
  <2>3. parts \in Seq(P) /\ Len(parts) = N
    BY <1>1, <2>1
  <2>4. partsmore \in Seq(P) /\ Len(partsmore) = N + 1
    <3>1. ASSUME NEW n \in 1 .. N + 1 PROVE partsmore[n] \in P
      <4>1. CASE n = N + 1
        BY <1>7, <2>2, <4>1
      <4>2. CASE n # N + 1
        <5>1. n \in 1 .. N
          BY <1>1, <4>2
        <5>2. partsmore[n] = Replies(Expects(lines)[n - 1], lines[n])
          BY <1>1, <2>2, <5>1
        <5> QED
          BY <2>1, <5>1, <5>2
      <4> QED
        BY <4>1, <4>2
    <3>2. \A n \in 1 .. N + 1 : Replies(Expects(more)[n - 1], more[n]) \in P
      BY <1>1, <3>1
    <3> QED
      BY <1>1, <3>2
  <2> HIDE DEF parts, partsmore, e
  <2> QED
    BY <1>7, <2>2, <2>3, <2>4, AppendIs
<1> HIDE DEF parts, partsmore, e
<1>9. Due(lines) \in P /\ Due(more) = Due(lines) \o Replies(e, line)
  BY <1>2, <1>7, <1>8, JoinedGrow
<1> QED
  BY <1>2, <1>3, <1>5, <1>6, <1>7, <1>9 DEF more, e

LEMMA NothingDue ==
  Expected(<<>>) = "IDLE" /\ Due(<<>>) = <<>> /\ FitsWholly(<<>>, Due(<<>>))
<1> DEFINE none == [i \in DOMAIN <<>> |-> Replies(Expects(<<>>)[i - 1], <<>>[i])]
<1>1. none = <<>>
  OBVIOUS
<1>2. Due(<<>>) = Joined(none)
  BY DEF Due
<1>3. <<>> \in Seq(Lines) /\ Len(<<>>) = 0
  OBVIOUS
<1>4. Expected(<<>>) = "IDLE"
  BY <1>3, ExpectsIs DEF Expected
<1>5. Due(<<>>) = <<>>
  BY <1>1, <1>2, NothingJoined
<1> QED
  BY <1>4, <1>5 DEF FitsWholly, Fits

\* The replies to a request for an image.
LEMMA ImageReplies ==
  LET image == Replies("IDLE", Command("get image"))
  IN  /\ image \in Seq(SUBSET Items) /\ Len(image) = ImageSize + 1
      /\ \A k \in 1 .. ImageSize : image[k] = {Byte(k)}
      /\ image[ImageSize + 1] = {Text("Image sent")}
<1> DEFINE bytes == [k \in 1 .. ImageSize |-> {Byte(k)}]
           last == {Text("Image sent")}
<1>1. Replies("IDLE", Command("get image")) = Append(bytes, last)
  BY Zenon DEF Replies
<1>2. ImageSize \in Nat
  BY EventLoopConstants
<1>3. /\ bytes \in Seq(SUBSET Items) /\ Len(bytes) = ImageSize
      /\ \A k \in 1 .. ImageSize : bytes[k] = {Byte(k)}
  <2>1. \A k \in 1 .. ImageSize : {Byte(k)} \in SUBSET Items
    BY <1>2 DEF Items
  <2> QED
    BY <1>2, <2>1
<1>4. last \in SUBSET Items
  BY DEF Items, Words
<1> DEFINE D == SUBSET Items
           q == Append(bytes, last)
<1> HIDE DEF bytes, D
<1>5. bytes \in Seq(D) /\ last \in D
  BY <1>3, <1>4 DEF D
<1> HIDE DEF last
<1>6. /\ q \in Seq(D) /\ Len(q) = Len(bytes) + 1
      /\ \A k \in 1 .. Len(bytes) : q[k] = bytes[k]
      /\ q[Len(bytes) + 1] = last
  BY <1>5, AppendProperties
<1> HIDE DEF q
<1>7. /\ q \in Seq(D) /\ Len(q) = ImageSize + 1
      /\ \A k \in 1 .. ImageSize : q[k] = {Byte(k)}
      /\ q[ImageSize + 1] = last
  BY <1>2, <1>3, <1>6
<1> QED
  BY <1>1, <1>7 DEF last, D, q

\* n bytes more, and the text after the last of them.
LEMMA ImageGoesOn ==
  ASSUME NEW before \in Seq(SUBSET Items), NEW o \in Seq(Items),
         NEW b \in 0 .. ImageSize - 1, NEW n \in Nat \ {0}, b + n <= ImageSize,
         Begun(o, before, b)
  PROVE  LET r == o \o Bytes(b, n) IN
         /\ r \in Seq(Items) /\ Begun(r, before, b + n)
         /\ b + n = ImageSize =>
               FitsWholly(Append(r, Text("Image sent")),
                          before \o Replies("IDLE", Command("get image")))
<1> DEFINE image == Replies("IDLE", Command("get image"))
           due == before \o image
           e == Bytes(b, n)
           r == o \o e
           L == Len(before)
<1>1. ImageSize \in Nat /\ L \in Nat /\ Len(o) = L + b
  BY EventLoopConstants, LenProperties DEF Begun
<1>2. /\ image \in Seq(SUBSET Items) /\ Len(image) = ImageSize + 1
      /\ \A k \in 1 .. ImageSize : image[k] = {Byte(k)}
      /\ image[ImageSize + 1] = {Text("Image sent")}
  BY ImageReplies
<1> HIDE DEF image
<1>0. Len(image) = ImageSize + 1
  BY <1>2
<1>3. /\ Len(due) = L + ImageSize + 1
      /\ \A k \in 1 .. ImageSize + 1 : due[L + k] = image[k]
  <2> DEFINE D == SUBSET Items
  <2>0. before \in Seq(D) /\ image \in Seq(D)
    BY <1>2
  <2> HIDE DEF D
  <2>1. /\ Len(due) = Len(before) + Len(image)
        /\ \A i \in 1 .. Len(before) + Len(image) :
              due[i] = IF i <= Len(before) THEN before[i] ELSE image[i - Len(before)]
    BY <2>0, ConcatProperties
  <2> HIDE DEF due
  <2>2. ASSUME NEW k \in 1 .. ImageSize + 1 PROVE due[L + k] = image[k]
    <3>1. L + k \in 1 .. L + Len(image) /\ ~(L + k <= L) /\ (L + k) - L = k
      BY <1>0, <1>1
    <3>2. due[L + k] = image[(L + k) - L]
      BY <2>1, <3>1
    <3> QED
      BY <3>1, <3>2
  <2>3. Len(due) = L + ImageSize + 1
    <3>1. Len(due) = L + Len(image)
      BY <2>1
    <3> QED
      BY <1>0, <1>1, <3>1
  <2> QED
    BY <2>2, <2>3
<1>4. Fits(o, due)
  BY DEF Begun, image
<1> HIDE DEF due
<1>5. e \in Seq(Items) /\ Len(e) = n /\ \A j \in 1 .. n : e[j] = Byte(b + j)
  <2>1. \A j \in 1 .. n : Byte(b + j) \in Items
    BY DEF Items
  <2>2. e \in [1 .. n -> Items] /\ \A j \in 1 .. n : e[j] = Byte(b + j)
    BY <2>1 DEF Bytes
  <2>3. e \in Seq(Items)
    BY <2>2, SeqDef
  <2> QED
    BY <2>2, <2>3, LenProperties
<1> HIDE DEF e
<1>6. /\ r \in Seq(Items) /\ Len(r) = Len(o) + Len(e)
      /\ \A i \in 1 .. Len(o) + Len(e) : r[i] = IF i <= Len(o) THEN o[i] ELSE e[i - Len(o)]
  BY <1>5, ConcatProperties
<1> HIDE DEF r, L
<1>7. Len(r) = L + (b + n) /\ Len(r) <= Len(due)
  BY <1>1, <1>3, <1>5, <1>6
<1>8. ASSUME NEW i \in 1 .. Len(r) PROVE r[i] \in due[i]
  <2>1. CASE i <= Len(o)
    <3>1. i \in 1 .. Len(o) /\ r[i] = o[i]
      BY <1>1, <1>5, <1>6, <2>1
    <3> QED
      BY <1>4, <3>1 DEF Fits
  <2>2. CASE ~(i <= Len(o))
    <3>1. PICK j \in 1 .. n : i = Len(o) + j
      <4>1. i - Len(o) \in 1 .. n /\ i = Len(o) + (i - Len(o))
        BY <1>1, <1>5, <1>6, <2>2
      <4> QED
        BY <4>1
    <3>2. /\ i - Len(o) = j /\ b + j \in 1 .. ImageSize /\ i = L + (b + j)
          /\ b + j \in 1 .. ImageSize + 1
      BY <1>1, <3>1
    <3>3. r[i] = Byte(b + j)
      <4>1. r[i] = e[i - Len(o)]
        BY <1>6, <2>2
      <4> QED
        BY <1>5, <3>2, <4>1
    <3>4. due[i] = {Byte(b + j)}
      BY <1>2, <1>3, <3>2
    <3> QED
      BY <3>3, <3>4
  <2> QED
    BY <2>1, <2>2
<1>9. Fits(r, due)
  BY <1>7, <1>8 DEF Fits
<1>10. ASSUME b + n = ImageSize
       PROVE  FitsWholly(Append(r, Text("Image sent")), due)
  <2> DEFINE x == Text("Image sent")
             q == Append(r, x)
  <2>1. x \in Items /\ r \in Seq(Items)
    BY <1>6 DEF Items, Words
  <2> HIDE DEF x
  <2>2. /\ Len(q) = Len(r) + 1 /\ Len(r) \in Nat
        /\ \A i \in 1 .. Len(r) : q[i] = r[i]
        /\ q[Len(r) + 1] = x
    BY <2>1, AppendProperties, LenProperties
  <2> HIDE DEF q
  <2>3. Len(r) = L + ImageSize /\ Len(q) = L + (ImageSize + 1) /\ Len(q) = Len(due)
    <3>1. Len(due) = L + ImageSize + 1 /\ Len(r) = L + (b + n) /\ Len(q) = Len(r) + 1
      BY <1>3, <1>7, <2>2
    <3> QED
      BY <1>1, <1>10, <3>1
  <2>4. ASSUME NEW i \in 1 .. Len(q) PROVE q[i] \in due[i]
    <3>1. CASE i \in 1 .. Len(r)
      BY <1>8, <2>2, <3>1
    <3>2. CASE i \notin 1 .. Len(r)
      <4>1. i = Len(r) + 1 /\ i = L + (ImageSize + 1)
            /\ ImageSize + 1 \in 1 .. ImageSize + 1
        <5>1. Len(q) = Len(r) + 1 /\ Len(r) \in Nat
          BY <2>2
        <5> QED
          BY <1>1, <2>3, <3>2, <5>1
      <4>2. q[i] = x /\ due[i] = {x}
        BY <1>2, <1>3, <2>2, <4>1 DEF x
      <4> QED
        BY <4>2
    <3> QED
      BY <3>1, <3>2
  <2>5. FitsWholly(q, due)
    <3>1. Len(q) \in Nat /\ Len(q) = Len(due) /\ Len(q) <= Len(due)
      BY <2>2, <2>3
    <3> QED
      BY <2>4, <3>1 DEF FitsWholly, Fits
  <2> QED
    BY <2>5 DEF q, x
<1>11. r \in Seq(Items) /\ Begun(r, before, b + n)
  BY <1>6, <1>7, <1>9 DEF Begun, due, image, L
<1> QED
  BY <1>10, <1>11 DEF r, due, image, e

-----------------------------------------------------------------------------
(* Every step keeps AnswersInv. *)

LeftAlone(t) ==
    /\ handled'[t] = handled[t] /\ out'[t] = out[t] /\ lost'[t] = lost[t]
    /\ t \in open' <=> t \in open
    /\ t \in open => /\ client_states'[t].state = client_states[t].state
                     /\ client_states'[t].bytes_sent = client_states[t].bytes_sent

LEMMA LeftAloneAnswered ==
  ASSUME LoopInv, LoopInv', NEW t \in Sockets, LeftAlone(t), Answered(t)
  PROVE  Answered(t)'
<1>1. /\ DOMAIN client_states = open /\ DOMAIN client_states' = open'
  BY DEF LoopInv, LoopTyped
<1>2. Sending(t)' <=> Sending(t)
  BY <1>1 DEF Sending, LeftAlone
<1>3. UnderWay(t) /\ Sending(t) => UnderWay(t)'
  BY <1>1 DEF UnderWay, LeftAlone, Sending
<1>4. Settled(t) => Settled(t)'
  BY DEF Settled, LeftAlone
<1> QED
  BY <1>2, <1>3, <1>4 DEF Answered

\* The step is about the client s.
LEMMA OneAnswers ==
  ASSUME LoopInv, LoopInv', AnswersInv, NEW s \in Sockets,
         \A t \in Sockets : t # s => LeftAlone(t),
         handled' \in [Sockets -> Seq(Lines)], lost' \in [Sockets -> BOOLEAN],
         s \notin open' => handled'[s] = <<>> /\ out'[s] = <<>>, Answered(s)'
  PROVE  AnswersInv'
<1>1. \A t \in Sockets : Answered(t)'
  BY LeftAloneAnswered DEF AnswersInv
<1>2. \A t \in Sockets : t \notin open' => handled'[t] = <<>> /\ out'[t] = <<>>
  BY DEF AnswersInv, LeftAlone
<1> QED
  BY <1>1, <1>2 DEF AnswersInv

LEMMA NothingAnswered ==
  ASSUME LoopInv, LoopInv', AnswersInv, UNCHANGED <<handled, lost>>,
         \A t \in Sockets : LeftAlone(t)
  PROVE  AnswersInv'
<1>1. \A t \in Sockets : Answered(t)'
  BY LeftAloneAnswered DEF AnswersInv
<1>2. \A t \in Sockets : t \notin open' => handled'[t] = <<>> /\ out'[t] = <<>>
  BY DEF AnswersInv, LeftAlone
<1> QED
  BY <1>1, <1>2 DEF AnswersInv

\* A line was taken from s and is answered at once, if the system takes the text.
LEMMA ReplyAnswers ==
  ASSUME LoopInv, LoopInv', OutInv, AnswersInv,
         NEW s \in Sockets, NEW line \in Lines, NEW words \in Words,
         s \in open, UNCHANGED open, client_states[s].state \in CommandStates,
         \A t \in open : t # s => client_states'[t] = client_states[t],
         Reply(s, words), History(s, line),
         \E w \in SUBSET Items : /\ Replies(client_states[s].state, line) = <<w>>
                                 /\ Text(words) \in w,
         client_states'[s].state =
             IF client_states[s].state = "IDLE" THEN AfterReplies(line) ELSE "IDLE"
  PROVE  AnswersInv'
<1> DEFINE h == handled[s]
           e == client_states[s].state
           x == Text(words)
<1>1. DOMAIN client_states = open /\ DOMAIN client_states' = open'
  BY DEF LoopInv, LoopTyped
<1>2. \A c \in CommandStates : c \notin SendingStates
  BY DEF CommandStates, SendingStates
<1>3. Settled(s) /\ h \in Seq(Lines) /\ out[s] \in Seq(Items) /\ lost[s] \in BOOLEAN
  BY <1>1, <1>2 DEF AnswersInv, Answered, Sending, OutInv
<1>4. e = Expected(h) /\ (~lost[s] => FitsWholly(out[s], Due(h)))
  BY <1>3 DEF Settled
<1>5. PICK w \in SUBSET Items : Replies(e, line) = <<w>> /\ x \in w
  OBVIOUS
<1>6. /\ handled' = [handled EXCEPT ![s] = Append(h, line)]
      /\ handled' \in [Sockets -> Seq(Lines)]
      /\ handled'[s] = Append(h, line)
      /\ \A t \in Sockets : t # s => handled'[t] = handled[t]
  <2>1. Append(h, line) \in Seq(Lines)
    BY <1>3, AppendProperties
  <2> QED
    BY <2>1 DEF History, AnswersInv
<1>7. /\ Expected(Append(h, line)) = IF e = "IDLE" THEN AfterReplies(line) ELSE "IDLE"
      /\ Due(Append(h, line)) = Due(h) \o <<w>>
      /\ Due(h) \in Seq(SUBSET Items)
  BY <1>3, <1>4, <1>5, OneLineMore
<1>8. /\ lost' \in [Sockets -> BOOLEAN]
      /\ \A t \in Sockets : t # s => lost'[t] = lost[t] /\ out'[t] = out[t]
      /\ ~lost'[s] => ~lost[s] /\ out'[s] = Append(out[s], x)
  BY <1>3 DEF Reply, AnswersInv, OutInv
<1>9. ~lost'[s] => FitsWholly(out'[s], Due(Append(h, line)))
  <2>1. SUFFICES ASSUME ~lost'[s]
                 PROVE  FitsWholly(Append(out[s], x), Due(h) \o <<w>>)
    BY <1>7, <1>8
  <2>2. x \in Items
    BY DEF Items
  <2>3. FitsWholly(out[s], Due(h))
    BY <1>4, <1>8, <2>1
  <2> DEFINE D == SUBSET Items
             d == Due(h)
  <2>4. w \in D /\ d \in Seq(D)
    BY <1>7
  <2> HIDE DEF D, d, x
  <2>5. Append(out[s], x) = out[s] \o <<x>>
    BY <1>3, <2>2, AppendIsConcat
  <2>6. <<x>> \in Seq(Items) /\ <<w>> \in Seq(D)
    BY <2>2, <2>4
  <2>7. FitsWholly(<<x>>, <<w>>) /\ Fits(<<x>>, <<w>>)
    BY <1>5 DEF FitsWholly, Fits
  <2>8. FitsWholly(out[s] \o <<x>>, d \o <<w>>)
    BY <1>3, <2>3, <2>4, <2>6, <2>7, FitsTogether DEF d
  <2> QED
    BY <2>5, <2>8 DEF d
<1>10. client_states'[s].state = Expected(Append(h, line))
  BY <1>7
<1>11. Settled(s)'
  BY <1>6, <1>9, <1>10 DEF Settled
<1>12. client_states'[s].state \in CommandStates
  BY AfterRepliesType DEF CommandStates
<1>13. ~Sending(s)'
  BY <1>1, <1>2, <1>12 DEF Sending
<1>14. Answered(s)'
  BY <1>11, <1>13 DEF Answered
<1>15. \A t \in Sockets : t # s => LeftAlone(t)
  BY <1>6, <1>8 DEF LeftAlone
<1> QED
  BY <1>6, <1>8, <1>14, <1>15, OneAnswers

\* What was expected of a client that is not being sent an image.
LEMMA WaitsForLine ==
  ASSUME LoopInv, AnswersInv, NEW s \in Sockets, s \in open,
         client_states[s].state \in CommandStates
  PROVE  Settled(s) /\ client_states[s].state = Expected(handled[s])
<1>1. ~Sending(s)
  BY DEF Sending, CommandStates, SendingStates
<1> QED
  BY <1>1 DEF AnswersInv, Answered, Settled

LEMMA CommandAnswers ==
  ASSUME LoopInv, OutInv, AnswersInv, NEW s \in Sockets, s = Current, NEW line,
         HandleCommand(s, line)
  PROVE  AnswersInv'
<1> DEFINE w == {Text(CommandReply(line))}
<1>1. /\ line # Command("get image") /\ TakeMessage(s, line, {"IDLE"}, AfterCommand(line))
      /\ Reply(s, CommandReply(line)) /\ History(s, line)
  BY DEF HandleCommand
<1>2. /\ AfterCommand(line) \in ClientStates /\ {"IDLE"} \cap SendingStates = {}
      /\ AfterCommand(line) = AfterReplies(line)
  BY <1>1, AfterRepliesType DEF AfterCommand, ClientStates, SendingStates
<1>3. /\ LoopInv' /\ s \in open /\ line \in Lines
      /\ client_states'[s].state = AfterReplies(line)
      /\ \A t \in open : t # s => client_states'[t] = client_states[t]
      /\ client_states[s].state \in {"IDLE"} /\ UNCHANGED open
  BY <1>1, <1>2, MessageKeeps
<1>4. CommandReply(line) \in Words
  BY <1>3 DEF Words, CommandWords
<1>5. w \in SUBSET Items /\ Text(CommandReply(line)) \in w
  BY <1>4 DEF Items
<1>6. Replies("IDLE", line) = <<w>>
  BY <1>1, Zenon DEF Replies
<1> HIDE DEF w
<1>7. client_states[s].state = "IDLE" /\ "IDLE" \in CommandStates
  BY <1>3 DEF CommandStates
<1> QED
  BY <1>1, <1>3, <1>4, <1>5, <1>6, <1>7, ReplyAnswers

LEMMA DataAnswers ==
  ASSUME LoopInv, OutInv, AnswersInv, NEW s \in Sockets, s = Current, NEW line,
         HandleData(s, line)
  PROVE  AnswersInv'
<1>1. PICK waiting \in {"WAITING_REGISTER_DATA", "WAITING_LOGIN_DATA"} :
         /\ TakeMessage(s, line, {waiting}, "IDLE")
         /\ \E words \in DataReplies(waiting, line) : Reply(s, words)
         /\ History(s, line)
  BY DEF HandleData
<1>2. PICK words \in DataReplies(waiting, line) : Reply(s, words)
  BY <1>1
<1>3. /\ "IDLE" \in ClientStates /\ {waiting} \cap SendingStates = {}
      /\ waiting \in ClientStates /\ waiting # "IDLE" /\ waiting \in CommandStates
  BY DEF ClientStates, SendingStates, CommandStates
<1>4. /\ LoopInv' /\ s \in open /\ line \in Lines
      /\ client_states'[s].state = "IDLE"
      /\ \A t \in open : t # s => client_states'[t] = client_states[t]
      /\ client_states[s].state \in {waiting} /\ UNCHANGED open
  BY <1>1, <1>3, MessageKeeps
<1> DEFINE w == {Text(v) : v \in DataReplies(waiting, line)}
<1>5. \A v \in DataReplies(waiting, line) : v \in Words
  <2>1. \A v \in DataReplies(waiting, line) : v \in DataWords
    BY <1>3, <1>4 DEF DataWords
  <2> QED
    BY <2>1 DEF Words
<1>6. w \in SUBSET Items /\ Text(words) \in w
  BY <1>2, <1>5 DEF Items
<1>7. Replies(waiting, line) = <<w>>
  BY <1>3, Zenon DEF Replies
<1> HIDE DEF w
<1>8. client_states[s].state = waiting /\ words \in Words
  BY <1>2, <1>4, <1>5
<1> QED
  BY <1>1, <1>2, <1>3, <1>4, <1>6, <1>7, <1>8, ReplyAnswers

\* Of the image asked for nothing was sent yet.
LEMMA ImageAnswers ==
  ASSUME LoopInv, OutInv, AnswersInv, NEW s \in Sockets, s = Current, NEW line,
         QueueImage(s, line)
  PROVE  AnswersInv'
<1> DEFINE h == handled[s]
           image == Replies("IDLE", line)
<1>1. /\ line = Command("get image") /\ TakeMessage(s, line, {"IDLE"}, AfterCommand(line))
      /\ History(s, line) /\ UNCHANGED <<out, lost>>
  BY DEF QueueImage
<1>2. /\ AfterCommand(line) = "SENDING_IMAGE_HEADER"
      /\ AfterCommand(line) \in ClientStates /\ {"IDLE"} \cap SendingStates = {}
      /\ AfterCommand(line) \in SendingStates
  BY <1>1, AfterRepliesType DEF ClientStates, SendingStates
<1>3. /\ LoopInv' /\ s \in open /\ line \in Lines
      /\ client_states'[s].state = AfterCommand(line)
      /\ client_states'[s].bytes_sent = client_states[s].bytes_sent
      /\ \A t \in open : t # s => client_states'[t] = client_states[t]
      /\ client_states[s].state \in {"IDLE"} /\ UNCHANGED open
  BY <1>1, <1>2, MessageKeeps
<1>4. /\ client_states'[s].bytes_sent = 0
      /\ client_states[s].state = "IDLE" /\ "IDLE" \in CommandStates
  BY <1>2, <1>3 DEF LoopInv, Resting, CommandStates
<1>5. Settled(s) /\ Expected(h) = "IDLE"
  BY <1>3, <1>4, WaitsForLine
<1>6. /\ h \in Seq(Lines) /\ out[s] \in Seq(Items) /\ lost[s] \in BOOLEAN
  BY DEF AnswersInv, OutInv
<1>7. /\ handled' \in [Sockets -> Seq(Lines)]
      /\ handled'[s] = Append(h, line)
      /\ \A t \in Sockets : t # s => handled'[t] = handled[t]
  <2>1. Append(h, line) \in Seq(Lines)
    BY <1>3, <1>6, AppendProperties
  <2> QED
    BY <1>1, <2>1 DEF History, AnswersInv
<1>8. /\ Due(h) \in Seq(SUBSET Items) /\ image \in Seq(SUBSET Items)
  BY <1>3, <1>5, <1>6, OneLineMore
<1>9. ~lost[s] => Begun(out[s], Due(h), 0)
  <2>1. SUFFICES ASSUME ~lost[s] PROVE Begun(out[s], Due(h), 0)
    OBVIOUS
  <2>2. Fits(out[s], Due(h)) /\ Len(out[s]) = Len(Due(h))
    BY <1>5, <2>1 DEF Settled, FitsWholly
  <2> DEFINE D == SUBSET Items
             d == Due(h)
  <2>3. d \in Seq(D) /\ image \in Seq(D)
    BY <1>8
  <2>4. Len(d) \in Nat
    BY <1>8, LenProperties
  <2> HIDE DEF D, d, image
  <2>5. Fits(out[s], d \o image)
    BY <1>6, <2>2, <2>3, FitsLonger DEF d
  <2>6. Len(out[s]) = Len(d) + 0
    BY <2>2, <2>4 DEF d
  <2> QED
    BY <1>1, <2>5, <2>6 DEF Begun, d, image
<1>10. UnderWay(s)'
  BY <1>1, <1>4, <1>5, <1>6, <1>7, <1>9 DEF UnderWay
<1>11. Sending(s)'
  BY <1>2, <1>3 DEF Sending, LoopInv, LoopTyped
<1>12. Answered(s)'
  BY <1>10, <1>11 DEF Answered
<1>13. \A t \in Sockets : t # s => LeftAlone(t)
  BY <1>1, <1>3, <1>7 DEF LeftAlone
<1>14. lost' \in [Sockets -> BOOLEAN]
  BY <1>1 DEF AnswersInv
<1> QED
  BY <1>3, <1>7, <1>12, <1>13, <1>14, OneAnswers

LEMMA DroppedAnswers ==
  ASSUME LoopInv, AnswersInv, NEW s \in Sockets, s = Current, NEW line,
         DropMessage(s, line)
  PROVE  AnswersInv'
<1>1. /\ TakeMessage(s, line, SendingStates, client_states[s].state)
      /\ UNCHANGED <<handled, out, lost>>
  BY DEF DropMessage, historyVars
<1>2. client_states[s].state \in SendingStates /\ client_states[s].state \in ClientStates
  BY <1>1 DEF TakeMessage, NextMessage, ClientStates
<1>3. /\ LoopInv' /\ UNCHANGED open
      /\ client_states'[s].state = client_states[s].state
      /\ client_states'[s].bytes_sent = client_states[s].bytes_sent
      /\ \A t \in open : t # s => client_states'[t] = client_states[t]
  BY <1>1, <1>2, MessageKeeps
<1>4. \A t \in Sockets : LeftAlone(t)
  BY <1>1, <1>3 DEF LeftAlone
<1> QED
  BY <1>1, <1>3, <1>4, NothingAnswered

\* The history of a connection ends with it.
LEMMA DisconnectAnswers ==
  ASSUME LoopInv, OutInv, AnswersInv, index <= Len(client_sockets), Disconnect(Current)
  PROVE  AnswersInv'
<1>1. PICK s \in Sockets : s = Current
  BY CurrentIsOpen
<1>2. LoopInv'
  BY DisconnectKeeps
<1>3. /\ open' = open \ {s} /\ s \notin open'
      /\ handled' = [handled EXCEPT ![s] = <<>>]
      /\ out' = [out EXCEPT ![s] = <<>>] /\ lost' = [lost EXCEPT ![s] = FALSE]
  BY <1>1 DEF Disconnect, Forget
<1>4. \A t \in open : t # s => client_states'[t] = client_states[t]
  BY <1>1 DEF Disconnect, LoopInv, LoopTyped
<1>5. /\ handled' \in [Sockets -> Seq(Lines)] /\ lost' \in [Sockets -> BOOLEAN]
      /\ handled'[s] = <<>> /\ out'[s] = <<>>
  <2>1. <<>> \in Seq(Lines)
    BY EmptySeq
  <2> QED
    BY <1>3, <2>1 DEF AnswersInv, OutInv
<1>6. \A t \in Sockets : t # s => LeftAlone(t)
  BY <1>3, <1>4 DEF LeftAlone, AnswersInv, OutInv
<1>7. Settled(s)'
  BY <1>3, <1>5, NothingDue DEF Settled
<1>8. ~Sending(s)'
  BY <1>2, <1>3 DEF Sending, LoopInv, LoopTyped
<1>9. Answered(s)'
  BY <1>7, <1>8 DEF Answered
<1> QED
  BY <1>2, <1>5, <1>6, <1>9, OneAnswers

LEMMA AcceptAnswers ==
  ASSUME LoopInv, OutInv, AnswersInv, NEW s \in Sockets, Accept(s)
  PROVE  AnswersInv'
<1>1. LoopInv'
  BY AcceptKeeps
<1>2. /\ s \notin open /\ open' = open \cup {s} /\ UNCHANGED <<handled, out, lost>>
  BY DEF Accept, historyVars
<1>3. /\ client_states'[s].state = "IDLE"
      /\ \A t \in open : t # s => client_states'[t] = client_states[t]
  BY <1>2 DEF Accept, NewClient, ClientState, LoopInv, LoopTyped
<1>4. /\ handled'[s] = <<>> /\ out'[s] = <<>>
      /\ handled' \in [Sockets -> Seq(Lines)] /\ lost' \in [Sockets -> BOOLEAN]
  BY <1>2 DEF AnswersInv
<1>5. \A t \in Sockets : t # s => LeftAlone(t)
  BY <1>2, <1>3 DEF LeftAlone
<1>6. Settled(s)'
  BY <1>3, <1>4, NothingDue DEF Settled
<1>7. ~Sending(s)'
  BY <1>3 DEF Sending, SendingStates
<1>8. Answered(s)'
  BY <1>6, <1>7 DEF Answered
<1> QED
  BY <1>1, <1>4, <1>5, <1>8, OneAnswers

LEMMA RecvAnswers ==
  ASSUME LoopInv, AnswersInv, NEW n \in 1 .. MaxLines, Recv(n)
  PROVE  AnswersInv'
<1>1. Current \in open /\ LoopInv'
  BY CurrentIsOpen, RecvKeeps DEF Recv
<1>2. \A t \in open : /\ client_states'[t].state = client_states[t].state
                      /\ client_states'[t].bytes_sent = client_states[t].bytes_sent
  <2>1. client_states[Current] \in Records
    BY <1>1 DEF LoopInv, LoopTyped
  <2> QED
    BY <1>1, <2>1 DEF Recv, LoopInv, LoopTyped, Records
<1>3. UNCHANGED <<open, handled, out, lost>>
  BY DEF Recv, historyVars
<1>4. \A t \in Sockets : LeftAlone(t)
  BY <1>2, <1>3 DEF LeftAlone
<1> QED
  BY <1>1, <1>3, <1>4, NothingAnswered

LEMMA AppendedIs ==
  ASSUME NEW q \in Seq(Lines), NEW x, Append(q, x) \in Seq(Lines)
  PROVE  x \in Lines
<1> DEFINE S == Lines \cup {x}
           a == Append(q, x)
<1>1. q \in Seq(S) /\ x \in S
  <2>1. Len(q) \in Nat /\ \A i \in 1 .. Len(q) : q[i] \in S
    BY LenProperties, ElementOfSeq
  <2> QED
    BY <2>1
<1> HIDE DEF S
<1>2. Len(a) = Len(q) + 1 /\ a[Len(q) + 1] = x /\ Len(q) \in Nat
  BY <1>1, AppendProperties, LenProperties
<1> HIDE DEF a
<1>3. a \in Seq(Lines)
  BY DEF a
<1>4. a[Len(a)] \in Lines
  BY <1>2, <1>3, ElementOfSeq
<1> QED
  BY <1>2, <1>4

LEMMA WriteAnswers ==
  ASSUME LoopInv, OutInv, AnswersInv,
         (\E n \in 1 .. HeaderSize : WriteHeader(n))
            \/ (\E n \in 1 .. ChunkSize : WriteData(n))
  PROVE  AnswersInv'
<1>1. /\ LoopInv' /\ UNCHANGED open /\ Current \in open
      /\ \A t \in open : t # Current => client_states'[t] = client_states[t]
      /\ \E n \in Nat \ {0} : Wrote(n)
  BY WriteKeeps
<1>2. PICK n \in Nat \ {0} : Wrote(n)
  BY <1>1
<1>3. PICK s \in Sockets : s = Current
  BY <1>1 DEF LoopInv, LoopTyped
<1> DEFINE sent == client_states[s].bytes_sent
           r == out[s] \o Bytes(sent, n)
           q == Append(r, Text("Image sent"))
<1>4. /\ s \in open /\ client_states[s] \in Records /\ sent \in 0 .. ImageSize - 1
      /\ DOMAIN client_states = open /\ DOMAIN client_states' = open
  BY <1>1, <1>3 DEF LoopInv, LoopTyped, Records
<1>5. /\ sent + n <= ImageSize /\ client_states[s].state \in SendingStates
      /\ client_states'[s].bytes_sent = IF sent + n = ImageSize THEN 0 ELSE sent + n
      /\ sent + n = ImageSize => client_states'[s].state = "IDLE"
      /\ sent + n # ImageSize => client_states'[s].state \in SendingStates
      /\ UNCHANGED handled
  BY <1>2, <1>3 DEF Wrote
<1>6. \/ /\ out' = [out EXCEPT ![s] = r]
         /\ \/ UNCHANGED lost /\ sent + n # ImageSize
            \/ lost' = [lost EXCEPT ![s] = @ \/ sent + n = ImageSize]
      \/ /\ sent + n = ImageSize /\ UNCHANGED lost
         /\ out' = [out EXCEPT ![s] = q]
  BY <1>2, <1>3 DEF Wrote
<1>7. UnderWay(s)
  BY <1>4, <1>5 DEF AnswersInv, Answered, Sending
<1>8. PICK before \in Seq(Lines) :
         /\ handled[s] = Append(before, Command("get image"))
         /\ Expected(before) = "IDLE"
         /\ ~lost[s] => Begun(out[s], Due(before), sent)
  BY <1>7 DEF UnderWay
<1>9. Command("get image") \in Lines
  <2>1. Append(before, Command("get image")) \in Seq(Lines)
    BY <1>8 DEF AnswersInv
  <2> QED
    BY <1>8, <2>1, AppendedIs
<1>10. /\ Due(before) \in Seq(SUBSET Items)
       /\ Due(handled[s]) = Due(before) \o Replies("IDLE", Command("get image"))
       /\ Expected(handled[s]) = AfterReplies(Command("get image"))
  BY <1>8, <1>9, OneLineMore
<1>11. out \in [Sockets -> Seq(Items)] /\ out[s] \in Seq(Items)
  BY DEF OutInv
<1>12. ~lost[s] => /\ Begun(r, Due(before), sent + n)
                   /\ sent + n = ImageSize => FitsWholly(q, Due(handled[s]))
  BY <1>4, <1>5, <1>8, <1>10, <1>11, ImageGoesOn
<1> HIDE DEF r, q
<1>13. /\ lost' \in [Sockets -> BOOLEAN]
       /\ ~lost'[s] => ~lost[s]
       /\ \A t \in Sockets : t # s => lost'[t] = lost[t] /\ out'[t] = out[t]
  BY <1>6, <1>11 DEF AnswersInv
<1>14. \A t \in Sockets : t # s => LeftAlone(t)
  BY <1>1, <1>3, <1>5, <1>13 DEF LeftAlone
<1>0. s \in open' /\ handled' \in [Sockets -> Seq(Lines)]
  BY <1>1, <1>4, <1>5 DEF AnswersInv
<1>15. CASE sent + n = ImageSize
  <2>1. ~lost'[s] => out'[s] = q
    BY <1>6, <1>11, <1>15 DEF AnswersInv
  <2>2. Settled(s)'
    <3>1. AfterReplies(Command("get image")) = "IDLE"
      BY DEF AfterReplies
    <3>2. client_states'[s].state = Expected(handled[s])
      BY <1>5, <1>10, <1>15, <3>1
    <3>3. ~lost'[s] => FitsWholly(out'[s], Due(handled[s]))
      BY <1>12, <1>13, <1>15, <2>1
    <3> QED
      BY <1>5, <3>2, <3>3 DEF Settled
  <2>3. ~Sending(s)'
    BY <1>5, <1>15 DEF Sending, SendingStates
  <2>4. Answered(s)'
    BY <2>2, <2>3 DEF Answered
  <2> QED
    BY <1>0, <1>1, <1>13, <1>14, <2>4, OneAnswers
<1>16. CASE sent + n # ImageSize
  <2>1. out'[s] = r /\ client_states'[s].bytes_sent = sent + n
    BY <1>5, <1>6, <1>11, <1>16
  <2>2. UnderWay(s)'
    <3>1. ~lost'[s] => Begun(out'[s], Due(before), client_states'[s].bytes_sent)
      BY <1>12, <1>13, <2>1
    <3>2. handled'[s] = Append(before, Command("get image"))
      BY <1>5, <1>8
    <3> QED
      BY <1>8, <3>1, <3>2 DEF UnderWay
  <2>3. Sending(s)'
    BY <1>1, <1>4, <1>5, <1>16 DEF Sending
  <2>4. Answered(s)'
    BY <2>2, <2>3 DEF Answered
  <2> QED
    BY <1>0, <1>1, <1>13, <1>14, <2>4, OneAnswers
<1> QED
  BY <1>15, <1>16

LEMMA HandleMessageAnswers ==
  ASSUME LoopInv, OutInv, AnswersInv, HandleMessage
  PROVE  AnswersInv'
<1>1. index <= Len(client_sockets) /\ Current \in Sockets
  BY CurrentIsOpen DEF HandleMessage, LoopInv, LoopTyped
<1>2. PICK line : \/ HandleCommand(Current, line) \/ QueueImage(Current, line)
                  \/ HandleExit(Current, line) \/ HandleData(Current, line)
                  \/ DropMessage(Current, line)
  BY DEF HandleMessage
<1>3. PICK s \in Sockets : s = Current
  BY <1>1
<1>4. CASE HandleExit(Current, line)
  BY <1>1, <1>4, DisconnectAnswers DEF HandleExit
<1> QED
  BY <1>2, <1>3, <1>4, CommandAnswers, ImageAnswers, DataAnswers, DroppedAnswers

LEMMA StepKeepsAnswers == LoopInv /\ OutInv /\ AnswersInv /\ [Next]_vars => AnswersInv'
<1> SUFFICES ASSUME LoopInv, OutInv, AnswersInv, [Next]_vars PROVE AnswersInv'
  OBVIOUS
<1>1. LoopInv'
  BY StepKeeps
<1>2. CASE UNCHANGED <<client_states, open, handled, out, lost>>
  <2>1. \A t \in Sockets : LeftAlone(t)
    BY <1>2 DEF LeftAlone
  <2> QED
    BY <1>1, <1>2, <2>1, NothingAnswered
<1>3. CASE ClientStep \/ Select \/ AcceptFails \/ NotWritable \/ WriteFails
  BY <1>2, <1>3 DEF ClientStep, Connect, SendLine, HangUp, Stall, Select, AcceptFails,
     NotWritable, WriteFails, loopVars, historyVars
<1>4. CASE UNCHANGED vars
  BY <1>2, <1>4 DEF vars, loopVars, historyVars
<1>5. CASE RecvEnds
  BY <1>5, DisconnectAnswers DEF RecvEnds
<1> QED
  BY <1>3, <1>4, <1>5, AcceptAnswers, RecvAnswers, HandleMessageAnswers, WriteAnswers
     DEF Next, LoopStep

LEMMA InitialAnswers == Init => OutInv /\ AnswersInv
<1> SUFFICES ASSUME Init PROVE OutInv /\ AnswersInv
  OBVIOUS
<1>1. \A s \in Sockets : /\ out[s] = <<>> /\ handled[s] = <<>> /\ lost[s] = FALSE
                         /\ Sent(s) = 0 /\ ~Sending(s) /\ s \notin open
  BY DEF Init, All, Sent, Sending
<1>2. OutInv
  BY <1>1, WholeEmpty DEF OutInv, Init, All
<1>3. handled \in [Sockets -> Seq(Lines)] /\ lost \in [Sockets -> BOOLEAN]
  <2>1. <<>> \in Seq(Lines)
    BY EmptySeq
  <2> QED
    BY <2>1 DEF Init, All
<1>4. \A s \in Sockets : Answered(s)
  BY <1>1, NothingDue DEF Answered, Settled
<1> QED
  BY <1>1, <1>2, <1>3, <1>4 DEF AnswersInv

LEMMA AnswersMatch == AnswersInv => RepliesMatch
<1> SUFFICES ASSUME AnswersInv, NEW s \in Sockets, ~lost[s]
             PROVE  /\ Fits(out[s], Due(handled[s]))
                    /\ ~Sending(s) => FitsWholly(out[s], Due(handled[s]))
  BY DEF RepliesMatch
<1>1. CASE Sending(s)
  <2>1. PICK before \in Seq(Lines) :
           /\ handled[s] = Append(before, Command("get image"))
           /\ Expected(before) = "IDLE"
           /\ Begun(out[s], Due(before), client_states[s].bytes_sent)
    BY <1>1 DEF AnswersInv, Answered, UnderWay
  <2>2. Append(before, Command("get image")) \in Seq(Lines)
    BY <2>1 DEF AnswersInv
  <2>3. Command("get image") \in Lines
    BY <2>1, <2>2, AppendedIs
  <2>4. Due(handled[s]) = Due(before) \o Replies("IDLE", Command("get image"))
    BY <2>1, <2>3, OneLineMore
  <2> QED
    BY <1>1, <2>1, <2>4 DEF Begun
<1>2. CASE ~Sending(s)
  <2>1. FitsWholly(out[s], Due(handled[s]))
    BY <1>2 DEF AnswersInv, Answered, Settled
  <2> QED
    BY <2>1 DEF FitsWholly
<1> QED
  BY <1>1, <1>2

\* Whatever the clients send, and in whatever order the loop serves them, everyone
\* to whom no text was lost was sent the replies to its own lines and nothing else:
\* for any clients, lines and image (lines 158-305).
THEOREM LoopAnswersAsAsked == Spec => []RepliesMatch
BY InitialAnswers, LoopInvariant, StepKeepsOut, StepKeepsAnswers, AnswersMatch, PTL DEF Spec

=============================================================================
