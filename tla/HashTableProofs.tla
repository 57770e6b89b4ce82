---------------------------- MODULE HashTableProofs ----------------------------
(***************************************************************************)
(* What careful callers may rely on, for any keys, values and capacity.    *)
(***************************************************************************)
EXTENDS HashTable, PlacesProofs, SequenceTheorems

Nodes == {Blank} \cup {Node(key, value) : key \in Keys, value \in Values}

\* No chain of a table used with care is null, and only the first node of a
\* chain that was never filled has no key.
ChainsUsable ==
    /\ arr \in [Buckets -> Seq(Nodes)]
    /\ \A i \in Buckets :
          /\ arr[i] # <<>>
          /\ arr[i] = <<Blank>> \/ \A j \in DOMAIN arr[i] : ~arr[i][j].blank

CarefulInv == careful => ~undefined /\ ChainsUsable

LEMMA NodeFacts ==
  ASSUME NEW key, NEW value
  PROVE  Blank.blank /\ ~Node(key, value).blank
BY DEF Blank, Node

LEMMA CarefulInvInit == Init => CarefulInv
<1> SUFFICES ASSUME Init PROVE ~undefined /\ ChainsUsable
  BY DEF CarefulInv
<1>1. Blank \in Nodes
  BY DEF Nodes
<1> QED
  BY <1>1 DEF Init, ChainsUsable

\* The chain an insertion leaves.
LEMMA InsertKeepsUsable ==
  ASSUME ChainsUsable, NEW key \in Keys, Index[key] \in Buckets,
         NEW value \in Values,
         arr' = [arr EXCEPT ![Index[key]] = IF Unused(@)
                    THEN <<Node(key, value)>> ELSE Append(@, Node(key, value))]
  PROVE  ChainsUsable'
<1> DEFINE new == Node(key, value)
           at == Index[key]
<1>1. new \in Nodes /\ ~new.blank
  BY NodeFacts DEF Nodes
<1>2. arr[at] \in Seq(Nodes) /\ arr[at] # <<>>
  BY DEF ChainsUsable
<1>3. arr'[at] = IF Unused(arr[at]) THEN <<new>> ELSE Append(arr[at], new)
  BY DEF ChainsUsable
<1> HIDE DEF new
<1>4. arr'[at] \in Seq(Nodes) /\ arr'[at] # <<>>
  <2>1. CASE Unused(arr[at])
    <3>1. <<new>> \in Seq(Nodes) /\ <<new>> # <<>>
      BY <1>1
    <3> QED  BY <2>1, <3>1, <1>3
  <2>2. CASE ~Unused(arr[at])
    <3>1. Append(arr[at], new) \in Seq(Nodes) /\ Append(arr[at], new) # <<>>
      BY <1>1, <1>2
    <3> QED  BY <2>2, <3>1, <1>3
  <2> QED  BY <2>1, <2>2
<1>5. \A j \in DOMAIN arr'[at] : ~arr'[at][j].blank
  <2>1. CASE Unused(arr[at])  BY <2>1, <1>1, <1>3
  <2>2. CASE ~Unused(arr[at])
    <3>1. \A j \in DOMAIN arr[at] : ~arr[at][j].blank
      BY <2>2, <1>2, NodeFacts DEF ChainsUsable, Unused
    <3> QED
      BY <2>2, <3>1, <1>1, <1>2, <1>3
  <2> QED  BY <2>1, <2>2
<1>6. arr' \in [Buckets -> Seq(Nodes)]
  BY <1>4 DEF ChainsUsable
<1>7. \A i \in Buckets \ {at} : arr'[i] = arr[i]
  BY DEF ChainsUsable
<1> QED
  BY <1>4, <1>5, <1>6, <1>7 DEF ChainsUsable

LEMMA CarefulInvStep == CarefulInv /\ [Next]_vars => CarefulInv'
<1> SUFFICES ASSUME CarefulInv, [Next]_vars, careful'
             PROVE  ~undefined' /\ ChainsUsable'
  BY DEF CarefulInv
<1>1. ASSUME NEW key \in Keys, OutOfRange(key)
      PROVE  FALSE
  BY <1>1, HashConstants DEF OutOfRange, Careful, Index
<1>2. ASSUME NEW key \in Keys, deleteKey(key)
      PROVE  FALSE
  BY <1>2 DEF deleteKey, Careful
<1>3. ASSUME NEW key \in Keys, search(key)
      PROVE  ~undefined' /\ ChainsUsable'
  <2>1. careful /\ Found(key) # {} /\ Reached(key)
    BY <1>3 DEF search, Careful
  <2>2. PICK i \in DOMAIN Chain(key) : ~Chain(key)[i].blank
    BY <2>1 DEF Found, Holds
  <2>3. Chain(key) # <<Blank>> /\ Chain(key) # <<>>
    <3>1. ASSUME Chain(key) = <<Blank>> PROVE FALSE
      <4>1. i = 1
        BY <2>2, <3>1
      <4> QED
        BY <2>2, <3>1, <4>1, NodeFacts
    <3> QED
      BY <2>1, <3>1 DEF Chain, Reached, CarefulInv, ChainsUsable
  <2>4. ~Unused(Chain(key))
    BY <2>1, <2>3 DEF Unused, Chain, Reached, CarefulInv, ChainsUsable
  <2> QED
    BY <1>3, <2>1, <2>3, <2>4 DEF search, CarefulInv, ChainsUsable
<1>4. ASSUME NEW key \in Keys, NEW value \in Values, insert(key, value)
      PROVE  ~undefined' /\ ChainsUsable'
  <2>1. careful /\ Reached(key) /\ ChainsUsable /\ ~undefined
    BY <1>4 DEF insert, Careful, CarefulInv
  <2>2. Chain(key) # <<>>
    BY <2>1 DEF Chain, Reached, ChainsUsable
  <2>3. ~undefined'
    BY <1>4, <2>1, <2>2 DEF insert
  <2> QED
    BY <1>4, <2>1, <2>2, <2>3, InsertKeepsUsable DEF insert, Reached
<1>5. CASE UNCHANGED vars
  BY <1>5 DEF vars, CarefulInv, ChainsUsable
<1> QED
  BY <1>1, <1>2, <1>3, <1>4, <1>5 DEF Next

\* Callers that remove nothing and search only for ASCII keys they have inserted
\* never make the table follow a null pointer or leave its array.
THEOREM CarefulUseIsDefined == Spec => []CarefulUseDefined
<1>1. CarefulInv => CarefulUseDefined
  BY DEF CarefulInv, CarefulUseDefined
<1> QED
  BY <1>1, CarefulInvInit, CarefulInvStep, PTL DEF Spec

-----------------------------------------------------------------------------
(* The count of elements. *)

\* Only the first node of a chain can have no key, and then it is the only one.
ChainsSound ==
    /\ arr \in [Buckets -> Seq(Nodes)]
    /\ \A i \in Buckets :
          arr[i] = <<Blank>> \/ \A j \in DOMAIN arr[i] : ~arr[i][j].blank

AllFilled == UNION {Filled(i) : i \in Buckets}
FilledLen(chain) == IF chain = <<Blank>> THEN 0 ELSE Len(chain)

CountInv ==
    /\ ChainsSound /\ IsFiniteSet(AllFilled)
    /\ numberOfElements \in Int /\ CountMatches

LEMMA FilledIs ==
  ASSUME ChainsSound, NEW i \in Buckets
  PROVE  /\ Filled(i) = {<<i, j>> : j \in 1 .. FilledLen(arr[i])}
         /\ FilledLen(arr[i]) \in Nat
<1>1. arr[i] \in Seq(Nodes)
  BY DEF ChainsSound
<1>2. CASE arr[i] = <<Blank>>
  <2>1. Len(arr[i]) = 1 /\ arr[i][1].blank
    BY <1>2, NodeFacts
  <2>2. {n \in DOMAIN arr[i] : ~arr[i][n].blank} = {}
    BY <1>1, <2>1
  <2> QED
    BY <1>2, <2>2 DEF Filled, FilledLen
<1>3. CASE arr[i] # <<Blank>>
  <2>1. {n \in DOMAIN arr[i] : ~arr[i][n].blank} = 1 .. Len(arr[i])
    BY <1>1, <1>3, LenProperties DEF ChainsSound
  <2> QED
    BY <1>1, <1>3, <2>1, LenProperties DEF Filled, FilledLen
<1> QED
  BY <1>2, <1>3

LEMMA ChainReplaced ==
  ASSUME ChainsSound, NEW at \in Buckets, NEW new \in Seq(Nodes),
         \A j \in DOMAIN new : ~new[j].blank,
         arr' = [arr EXCEPT ![at] = new]
  PROVE  /\ ChainsSound'
         /\ \A i \in Buckets \ {at} : Filled(i)' = Filled(i)
         /\ Filled(at)' = {<<at, j>> : j \in 1 .. Len(new)}
<1>1. /\ arr' \in [Buckets -> Seq(Nodes)] /\ arr'[at] = new
      /\ \A i \in Buckets \ {at} : arr'[i] = arr[i]
  BY DEF ChainsSound
<1>2. ChainsSound'
  BY <1>1 DEF ChainsSound
<1>3. {n \in DOMAIN new : ~new[n].blank} = 1 .. Len(new)
  BY LenProperties
<1> QED
  BY <1>1, <1>2, <1>3 DEF Filled

LEMMA ChainGrows ==
  ASSUME ChainsSound, NEW at \in Buckets, NEW new \in Seq(Nodes),
         \A j \in DOMAIN new : ~new[j].blank,
         arr' = [arr EXCEPT ![at] = new], Len(new) = FilledLen(arr[at]) + 1
  PROVE  AllFilled' = AllFilled \cup {<<at, Len(new)>>} /\ <<at, Len(new)>> \notin AllFilled
<1>1. /\ \A i \in Buckets \ {at} : Filled(i)' = Filled(i)
      /\ Filled(at)' = {<<at, j>> : j \in 1 .. Len(new)}
  BY ChainReplaced
<1>2. \A i \in Buckets : /\ Filled(i) = {<<i, j>> : j \in 1 .. FilledLen(arr[i])}
                          /\ FilledLen(arr[i]) \in Nat
  BY FilledIs
<1>3. 1 .. Len(new) = (1 .. FilledLen(arr[at])) \cup {Len(new)}
      /\ Len(new) \notin 1 .. FilledLen(arr[at])
  BY <1>2
<1>4. Filled(at)' = Filled(at) \cup {<<at, Len(new)>>}
  BY <1>1, <1>2, <1>3
<1>5. <<at, Len(new)>> \notin Filled(at)
  BY <1>2, <1>3
<1>6. ASSUME NEW i \in Buckets \ {at} PROVE <<at, Len(new)>> \notin Filled(i)
  BY <1>2
<1>7. <<at, Len(new)>> \notin AllFilled
  BY <1>5, <1>6 DEF AllFilled
<1>8. AllFilled' = AllFilled \cup {<<at, Len(new)>>}
  BY <1>1, <1>4, Zenon DEF AllFilled
<1> QED
  BY <1>7, <1>8

LEMMA ChainShrinks ==
  ASSUME ChainsSound, NEW at \in Buckets, NEW new \in Seq(Nodes),
         \A j \in DOMAIN new : ~new[j].blank,
         arr' = [arr EXCEPT ![at] = new], Len(new) + 1 = FilledLen(arr[at])
  PROVE  AllFilled' = AllFilled \ {<<at, FilledLen(arr[at])>>}
         /\ <<at, FilledLen(arr[at])>> \in AllFilled
<1> DEFINE last == <<at, FilledLen(arr[at])>>
<1>1. /\ \A i \in Buckets \ {at} : Filled(i)' = Filled(i)
      /\ Filled(at)' = {<<at, j>> : j \in 1 .. Len(new)}
  BY ChainReplaced
<1>2. \A i \in Buckets : /\ Filled(i) = {<<i, j>> : j \in 1 .. FilledLen(arr[i])}
                          /\ FilledLen(arr[i]) \in Nat
  BY FilledIs
<1>3. 1 .. Len(new) = (1 .. FilledLen(arr[at])) \ {FilledLen(arr[at])}
      /\ FilledLen(arr[at]) \in 1 .. FilledLen(arr[at])
  BY <1>2
<1>4. Filled(at)' = Filled(at) \ {last}
  BY <1>1, <1>2, <1>3
<1>5. last \in Filled(at)
  BY <1>2, <1>3
<1>6. ASSUME NEW i \in Buckets \ {at} PROVE last \notin Filled(i)
  BY <1>2
<1> HIDE DEF last
<1>7. last \in AllFilled
  BY <1>5 DEF AllFilled
<1>8. AllFilled' = AllFilled \ {last}
  BY <1>1, <1>4, <1>6, Zenon DEF AllFilled
<1> QED
  BY <1>7, <1>8 DEF last

LEMMA CountInvInit == ASSUME Init PROVE CountInv
<1>1. Blank \in Nodes
  BY DEF Nodes
<1>2. ChainsSound
  BY <1>1 DEF Init, ChainsSound
<1>3. \A i \in Buckets : FilledLen(arr[i]) = 0
  BY DEF Init, FilledLen
<1>4. \A i \in Buckets : Filled(i) = {}
  BY <1>2, <1>3, FilledIs
<1>5. AllFilled = {}
  BY <1>4 DEF AllFilled
<1> QED
  BY <1>2, <1>5, FS_EmptySet, HashConstants DEF Init, CountInv, CountMatches, AllFilled

LEMMA InsertCounts ==
  ASSUME CountInv, NEW key \in Keys, NEW value \in Values, insert(key, value)
  PROVE  CountInv'
<1> DEFINE at == Index[key]
           new == Node(key, value)
           chain == IF Unused(arr[at]) THEN <<new>> ELSE Append(arr[at], new)
<1>1. CASE Chain(key) = <<>>
  BY <1>1 DEF insert, Undefined, CountInv, CountMatches, ChainsSound, AllFilled, Filled
<1>2. CASE Chain(key) # <<>>
  <2>1. /\ at \in Buckets /\ arr[at] # <<>> /\ arr' = [arr EXCEPT ![at] = chain]
        /\ numberOfElements' = numberOfElements + 1
    BY <1>2 DEF insert, Reached, Chain
  <2>2. new \in Nodes /\ ~new.blank /\ arr[at] \in Seq(Nodes)
    BY <2>1, NodeFacts DEF Nodes, CountInv, ChainsSound
  <2>3. Unused(arr[at]) <=> arr[at] = <<Blank>>
    BY <2>1, <2>2, NodeFacts DEF Unused, CountInv, ChainsSound
  <2> HIDE DEF new
  <2>4. /\ chain \in Seq(Nodes) /\ Len(chain) = FilledLen(arr[at]) + 1
        /\ \A j \in DOMAIN chain : ~chain[j].blank
    <3>1. CASE arr[at] = <<Blank>>
      <4>1. chain = <<new>> /\ FilledLen(arr[at]) = 0
        BY <2>3, <3>1 DEF FilledLen
      <4>2. <<new>> \in Seq(Nodes) /\ Len(<<new>>) = 1 /\ \A j \in DOMAIN <<new>> : j = 1
        BY <2>2
      <4>3. \A j \in DOMAIN <<new>> : <<new>>[j] = new
        BY <4>2
      <4> HIDE DEF chain
      <4>4. chain \in Seq(Nodes) /\ Len(chain) = FilledLen(arr[at]) + 1
        BY <4>1, <4>2
      <4>5. \A j \in DOMAIN chain : ~chain[j].blank
        BY <2>2, <4>1, <4>3
      <4> QED
        BY <4>4, <4>5
    <3>2. CASE arr[at] # <<Blank>>
      <4>1. chain = Append(arr[at], new) /\ FilledLen(arr[at]) = Len(arr[at])
        BY <2>3, <3>2 DEF FilledLen
      <4>2. \A j \in DOMAIN arr[at] : ~arr[at][j].blank
        BY <2>1, <3>2 DEF CountInv, ChainsSound
      <4> QED
        BY <2>2, <4>1, <4>2
    <3> QED
      BY <3>1, <3>2
  <2> HIDE DEF chain
  <2>5. ChainsSound' /\ AllFilled' = AllFilled \cup {<<at, Len(chain)>>}
        /\ <<at, Len(chain)>> \notin AllFilled
    BY <2>1, <2>4, ChainGrows, ChainReplaced DEF CountInv
  <2>6. /\ IsFiniteSet(AllFilled') /\ Cardinality(AllFilled') = Cardinality(AllFilled) + 1
    BY <2>5, FS_AddElement DEF CountInv
  <2>7. Cardinality(AllFilled) \in Nat /\ initial \in Nat
    BY FS_CardinalityType, HashConstants DEF CountInv
  <2> QED
    BY <2>1, <2>5, <2>6, <2>7 DEF CountInv, CountMatches, AllFilled
<1> QED
  BY <1>1, <1>2

\* The chain without one of its nodes.
LEMMA Unlinked ==
  ASSUME NEW S, NEW chain \in Seq(S), NEW i \in 1 .. Len(chain)
  PROVE  /\ RemoveAt(chain, i) \in Seq(S) /\ Len(RemoveAt(chain, i)) = Len(chain) - 1
         /\ \A j \in 1 .. Len(chain) - 1 :
               RemoveAt(chain, i)[j] = IF j < i THEN chain[j] ELSE chain[j + 1]
<1> DEFINE before == SubSeq(chain, 1, i - 1)
           after  == SubSeq(chain, i + 1, Len(chain))
<1>1. /\ before \in Seq(S) /\ Len(before) = i - 1
      /\ \A j \in 1 .. i - 1 : before[j] = chain[j]
      /\ after \in Seq(S) /\ Len(after) = Len(chain) - i
      /\ \A j \in 1 .. Len(chain) - i : after[j] = chain[i + j]
  OBVIOUS
<1> HIDE DEF before, after
<1>2. /\ before \o after \in Seq(S) /\ Len(before \o after) = Len(chain) - 1
      /\ \A j \in 1 .. Len(chain) - 1 : (before \o after)[j] =
            IF j < i THEN chain[j] ELSE chain[j + 1]
  <2>1. /\ before \o after \in Seq(S) /\ Len(before \o after) = Len(before) + Len(after)
        /\ \A j \in 1 .. Len(before) + Len(after) : (before \o after)[j] =
              IF j <= Len(before) THEN before[j] ELSE after[j - Len(before)]
    BY <1>1, ConcatProperties, Zenon
  <2>2. Len(before) + Len(after) = Len(chain) - 1
    BY <1>1
  <2>3. ASSUME NEW j \in 1 .. Len(chain) - 1
        PROVE  (before \o after)[j] = IF j < i THEN chain[j] ELSE chain[j + 1]
    <3>1. CASE j < i
      BY <1>1, <2>1, <2>2, <2>3, <3>1
    <3>2. CASE ~(j < i)
      <4>1. j - Len(before) \in 1 .. Len(chain) - i /\ i + (j - Len(before)) = j + 1
            /\ ~(j <= Len(before))
        BY <1>1, <2>3, <3>2
      <4>2. (before \o after)[j] = after[j - Len(before)]
        BY <2>1, <2>2, <2>3, <4>1
      <4> QED
        BY <1>1, <3>2, <4>1, <4>2
    <3> QED
      BY <3>1, <3>2
  <2> QED
    BY <2>1, <2>2, <2>3
<1> QED
  BY <1>2 DEF RemoveAt, before, after

LEMMA DeleteCounts ==
  ASSUME CountInv, NEW key \in Keys, deleteKey(key)
  PROVE  CountInv'
<1> DEFINE at == Index[key]
           first == Min(Found(key))
           chain == RemoveAt(arr[at], first)
<1>1. CASE Found(key) = {}
  BY <1>1 DEF deleteKey, CountInv, CountMatches, ChainsSound, AllFilled, Filled
<1>2. CASE Found(key) # {}
  <2>1. /\ at \in Buckets /\ arr' = [arr EXCEPT ![at] = chain]
        /\ numberOfElements' = numberOfElements - 1
    BY <1>2 DEF deleteKey, Reached
  <2>2. arr[at] \in Seq(Nodes) /\ Chain(key) = arr[at]
    BY <2>1 DEF CountInv, ChainsSound, Chain
  <2>3. arr[at] # <<Blank>> /\ FilledLen(arr[at]) = Len(arr[at])
    <3>1. PICK i \in DOMAIN arr[at] : ~arr[at][i].blank
      BY <1>2, <2>2 DEF Found, Holds
    <3>2. ASSUME arr[at] = <<Blank>> PROVE FALSE
      <4>1. i = 1
        BY <3>1, <3>2
      <4> QED
        BY <3>1, <3>2, <4>1, NodeFacts
    <3> QED
      BY <3>2 DEF FilledLen
  <2>4. first \in 1 .. Len(arr[at])
    <3>1. Found(key) \in SUBSET Nat /\ Found(key) \subseteq 1 .. Len(arr[at])
      BY <2>2, LenProperties DEF Found
    <3> QED
      BY <1>2, <3>1, MinIsLeast
  <2> HIDE DEF first
  <2>5. /\ chain \in Seq(Nodes) /\ Len(chain) = Len(arr[at]) - 1
        /\ \A j \in 1 .. Len(arr[at]) - 1 :
              chain[j] = IF j < first THEN arr[at][j] ELSE arr[at][j + 1]
    BY <2>2, <2>4, Unlinked
  <2>6. \A j \in 1 .. Len(arr[at]) : ~arr[at][j].blank
    BY <2>1, <2>2, <2>3, LenProperties DEF CountInv, ChainsSound
  <2> HIDE DEF chain
  <2>7. \A j \in DOMAIN chain : ~chain[j].blank
    <3>1. DOMAIN chain = 1 .. Len(arr[at]) - 1
      BY <2>5, LenProperties
    <3>2. \A j \in 1 .. Len(arr[at]) - 1 : j \in 1 .. Len(arr[at]) /\ j + 1 \in 1 .. Len(arr[at])
      BY <2>2
    <3> QED
      BY <2>5, <2>6, <3>1, <3>2
  <2>8. Len(chain) + 1 = FilledLen(arr[at])
    BY <2>2, <2>3, <2>5
  <2>9. ChainsSound' /\ AllFilled' = AllFilled \ {<<at, FilledLen(arr[at])>>}
        /\ <<at, FilledLen(arr[at])>> \in AllFilled
    BY <2>1, <2>5, <2>7, <2>8, ChainShrinks, ChainReplaced DEF CountInv
  <2>10. /\ IsFiniteSet(AllFilled') /\ Cardinality(AllFilled') = Cardinality(AllFilled) - 1
    BY <2>9, FS_RemoveElement DEF CountInv
  <2>11. Cardinality(AllFilled) \in Nat /\ initial \in Nat
    BY FS_CardinalityType, HashConstants DEF CountInv
  <2> QED
    BY <2>1, <2>9, <2>10, <2>11 DEF CountInv, CountMatches, AllFilled
<1> QED
  BY <1>1, <1>2

LEMMA CountInvStep == ASSUME CountInv, [Next]_vars PROVE CountInv'
<1>1. ASSUME UNCHANGED <<arr, numberOfElements>> PROVE CountInv'
  BY <1>1 DEF CountInv, CountMatches, ChainsSound, AllFilled, Filled
<1>2. ASSUME NEW key \in Keys, OutOfRange(key) \/ search(key)
      PROVE  UNCHANGED <<arr, numberOfElements>>
  BY <1>2 DEF OutOfRange, search, Undefined
<1>3. CASE Next
  BY <1>1, <1>2, <1>3, InsertCounts, DeleteCounts DEF Next
<1> QED
  BY <1>1, <1>3 DEF vars

\* Through any insertions, deletions and searches numberOfElements has changed by
\* the number of nodes with a key (lines 45-94).
THEOREM CountIsRight == Spec => []CountMatches
<1>1. CountInv => CountMatches
  BY DEF CountInv
<1> QED
  BY <1>1, CountInvInit, CountInvStep, PTL DEF Spec

-----------------------------------------------------------------------------
(* A chain as the queues of its keys. *)

FoundIn(chain, key)  == {i \in DOMAIN chain : Holds(chain[i], key)}
ValuesIn(chain, key) == [n \in 1 .. Cardinality(FoundIn(chain, key)) |->
                            chain[Nth(FoundIn(chain, key), n)].value]

LEMMA FoundPlaces ==
  ASSUME NEW chain \in Seq(Nodes), NEW key
  PROVE  /\ IsPlaces(FoundIn(chain, key)) /\ FoundIn(chain, key) \subseteq 1 .. Len(chain)
         /\ Cardinality(FoundIn(chain, key)) \in Nat
<1>1. FoundIn(chain, key) \subseteq 1 .. Len(chain) /\ Len(chain) \in Nat
  BY LenProperties DEF FoundIn
<1>2. IsFiniteSet(1 .. Len(chain))
  BY <1>1, FS_Interval
<1>3. FoundIn(chain, key) \in SUBSET (1 .. Len(chain)) /\ FoundIn(chain, key) \in SUBSET Nat
  BY <1>1
<1>4. IsPlaces(FoundIn(chain, key))
  BY <1>2, <1>3, FS_Subset DEF IsPlaces
<1> QED
  BY <1>1, <1>4, RankType

LEMMA ValuesAre ==
  ASSUME NEW chain \in Seq(Nodes), NEW key
  PROVE  /\ ValuesIn(chain, key) \in Seq(Values)
         /\ Len(ValuesIn(chain, key)) = Cardinality(FoundIn(chain, key))
         /\ \A n \in 1 .. Cardinality(FoundIn(chain, key)) :
               /\ Nth(FoundIn(chain, key), n) \in FoundIn(chain, key)
               /\ ValuesIn(chain, key)[n] = chain[Nth(FoundIn(chain, key), n)].value
<1> DEFINE c == Cardinality(FoundIn(chain, key))
<1>1. c \in Nat /\ IsPlaces(FoundIn(chain, key))
  BY FoundPlaces
<1>2. ASSUME NEW i \in FoundIn(chain, key) PROVE chain[i].value \in Values
  <2>1. chain[i] \in Nodes /\ ~chain[i].blank
    BY <1>2, FoundPlaces, ElementOfSeq DEF FoundIn, Holds
  <2>2. PICK k \in Keys, v \in Values : chain[i] = Node(k, v)
    BY <2>1, NodeFacts DEF Nodes
  <2> QED
    BY <2>2 DEF Node
<1>3. \A n \in 1 .. c : Nth(FoundIn(chain, key), n) \in FoundIn(chain, key)
  BY <1>1, NthExists
<1> DEFINE value(n) == chain[Nth(FoundIn(chain, key), n)].value
<1>4. \A n \in 1 .. c : value(n) \in Values
  BY <1>2, <1>3
<1>5. ValuesIn(chain, key) = [n \in 1 .. c |-> value(n)]
  BY DEF ValuesIn
<1> HIDE DEF value, c
<1> QED
  BY <1>1, <1>3, <1>4, <1>5 DEF value, c

\* Two chains whose nodes for a key hold the same values in the same order.
LEMMA SameValues ==
  ASSUME NEW chain \in Seq(Nodes), NEW other \in Seq(Nodes), NEW key,
         NEW f \in Bijection(FoundIn(chain, key), FoundIn(other, key)),
         \A i, j \in FoundIn(chain, key) : i < j => f[i] < f[j],
         \A i \in FoundIn(chain, key) : other[f[i]].value = chain[i].value
  PROVE  ValuesIn(other, key) = ValuesIn(chain, key)
<1> DEFINE S == FoundIn(chain, key)
           T == FoundIn(other, key)
<1>1. /\ Cardinality(T) = Cardinality(S)
      /\ \A i \in S : Rank(T, f[i]) = Rank(S, i)
  BY FoundPlaces, RankMoves
<1>2. ASSUME NEW n \in 1 .. Cardinality(S)
      PROVE  ValuesIn(other, key)[n] = ValuesIn(chain, key)[n]
  <2>1. Nth(S, n) \in S /\ Rank(S, Nth(S, n)) = n
    BY <1>2, FoundPlaces, NthExists
  <2>2. f[Nth(S, n)] \in T
    BY <2>1 DEF Bijection, Injection
  <2>3. Nth(T, n) = f[Nth(S, n)]
    BY <1>1, <2>1, <2>2, FoundPlaces, NthIs
  <2> QED
    BY <1>1, <1>2, <2>1, <2>3, ValuesAre
<1>3. /\ ValuesIn(chain, key) \in Seq(Values) /\ ValuesIn(other, key) \in Seq(Values)
      /\ Len(ValuesIn(chain, key)) = Cardinality(S)
      /\ Len(ValuesIn(other, key)) = Cardinality(S)
  BY <1>1, ValuesAre
<1> HIDE DEF S, T
<1> QED
  BY <1>2, <1>3, SeqEqual

LEMMA NoValues ==
  ASSUME NEW key
  PROVE  ValuesIn(<<>>, key) = <<>> /\ ValuesIn(<<Blank>>, key) = <<>>
<1>1. FoundIn(<<>>, key) = {}
  BY DEF FoundIn
<1>2. FoundIn(<<Blank>>, key) = {}
  <2>1. \A i \in DOMAIN <<Blank>> : i = 1
    OBVIOUS
  <2> QED
    BY <2>1, NodeFacts DEF FoundIn, Holds
<1>3. /\ <<>> \in Seq(Nodes) /\ <<Blank>> \in Seq(Nodes)
  BY DEF Nodes
<1>4. /\ ValuesIn(<<>>, key) \in Seq(Values) /\ Len(ValuesIn(<<>>, key)) = 0
      /\ ValuesIn(<<Blank>>, key) \in Seq(Values) /\ Len(ValuesIn(<<Blank>>, key)) = 0
  BY <1>1, <1>2, <1>3, ValuesAre, FS_EmptySet
<1> QED
  BY <1>4

LEMMA AppendQueues ==
  ASSUME NEW chain \in Seq(Nodes), NEW key \in Keys, NEW value \in Values
  PROVE  /\ ValuesIn(Append(chain, Node(key, value)), key)
               = Append(ValuesIn(chain, key), value)
         /\ \A k \in Keys \ {key} :
               ValuesIn(Append(chain, Node(key, value)), k) = ValuesIn(chain, k)
<1> DEFINE node == Node(key, value)
           new  == Append(chain, node)
           last == Len(chain) + 1
<1>1. node \in Nodes /\ ~node.blank /\ node.key = key /\ node.value = value
  <2>1. node \in Nodes
    BY DEF Nodes
  <2> QED
    BY <2>1 DEF Node
<1> HIDE DEF node
<1>2. /\ new \in Seq(Nodes) /\ Len(new) = last /\ new[last] = node
      /\ \A i \in 1 .. Len(chain) : new[i] = chain[i]
  BY <1>1
<1> HIDE DEF new
<1>3. \A k : FoundIn(chain, k) \subseteq 1 .. Len(chain) /\ FoundIn(new, k) \subseteq 1 .. last
  BY <1>2, FoundPlaces
<1>4. \A k : \A i \in 1 .. Len(chain) : i \in FoundIn(new, k) <=> i \in FoundIn(chain, k)
  BY <1>2, LenProperties DEF FoundIn
<1>5. ASSUME NEW k \in Keys \ {key} PROVE ValuesIn(new, k) = ValuesIn(chain, k)
  <2>1. last \notin FoundIn(new, k)
    BY <1>1, <1>2 DEF FoundIn, Holds
  <2>2. FoundIn(new, k) = FoundIn(chain, k)
    <3>1. \A i \in 1 .. last : i = last \/ i \in 1 .. Len(chain)
      OBVIOUS
    <3>2. 1 .. Len(chain) \subseteq 1 .. last
      OBVIOUS
    <3> QED
      BY <1>3, <1>4, <2>1, <3>1, <3>2
  <2>3. \A n \in 1 .. Cardinality(FoundIn(chain, k)) :
           new[Nth(FoundIn(chain, k), n)].value = chain[Nth(FoundIn(chain, k), n)].value
    BY <1>2, <1>3, ValuesAre
  <2> QED
    BY <2>2, <2>3 DEF ValuesIn
<1>6. ValuesIn(new, key) = Append(ValuesIn(chain, key), value)
  <2> DEFINE S == FoundIn(chain, key)
             T == FoundIn(new, key)
             c == Cardinality(S)
  <2>1. last \in T /\ last \notin S
    <3>1. last \in DOMAIN new
      BY <1>2
    <3> QED
      BY <1>1, <1>2, <1>3, <3>1 DEF FoundIn, Holds
  <2>2. T = S \cup {last}
    <3>1. \A i \in 1 .. last : i = last \/ i \in 1 .. Len(chain)
      OBVIOUS
    <3>2. 1 .. Len(chain) \subseteq 1 .. last
      OBVIOUS
    <3> QED
      BY <1>3, <1>4, <2>1, <3>1, <3>2
  <2>3. IsPlaces(S) /\ IsPlaces(T) /\ S \subseteq 1 .. Len(chain) /\ c \in Nat
    BY <1>2, FoundPlaces
  <2>4. Cardinality(T) = c + 1
    BY <2>1, <2>2, <2>3, FS_AddElement DEF IsPlaces
  <2>5. ASSUME NEW i \in S PROVE Rank(T, i) = Rank(S, i)
    <3>1. ~(last <= i)
      BY <2>3, <2>5
    <3>2. Upto(T, i) = Upto(S, i)
      BY <2>2, <3>1 DEF Upto
    <3> QED
      BY <3>2 DEF Rank
  <2>6. Nth(T, c + 1) = last
    <3>1. Upto(T, last) = T
      <4>1. \A i \in T : i <= last
        BY <2>2, <2>3
      <4> QED
        BY <4>1 DEF Upto
    <3>2. Rank(T, last) = c + 1
      BY <2>4, <3>1 DEF Rank
    <3> QED
      BY <2>1, <2>3, <3>2, NthIs
  <2>7. ASSUME NEW n \in 1 .. c
        PROVE  ValuesIn(new, key)[n] = ValuesIn(chain, key)[n]
    <3>1. Nth(S, n) \in S /\ Rank(S, Nth(S, n)) = n
      BY <2>3, <2>7, NthExists
    <3>2. Nth(S, n) \in T /\ Rank(T, Nth(S, n)) = n
      BY <2>2, <2>5, <3>1
    <3>3. Nth(T, n) = Nth(S, n)
      BY <2>3, <3>2, NthIs
    <3>4. new[Nth(S, n)] = chain[Nth(S, n)] /\ n \in 1 .. Cardinality(T)
      BY <1>2, <2>3, <2>4, <2>7, <3>1
    <3>5. /\ ValuesIn(new, key)[n] = new[Nth(T, n)].value
          /\ ValuesIn(chain, key)[n] = chain[Nth(S, n)].value
      BY <1>2, <2>7, <3>4, ValuesAre
    <3> QED
      BY <3>3, <3>4, <3>5
  <2>8. ValuesIn(new, key)[c + 1] = value
    <3>1. c + 1 \in 1 .. Cardinality(T)
      BY <2>3, <2>4
    <3> QED
      BY <1>1, <1>2, <2>6, <3>1, ValuesAre
  <2>9. /\ ValuesIn(chain, key) \in Seq(Values) /\ Len(ValuesIn(chain, key)) = c
        /\ ValuesIn(new, key) \in Seq(Values) /\ Len(ValuesIn(new, key)) = c + 1
    BY <1>2, <2>4, ValuesAre
  <2> DEFINE longer == Append(ValuesIn(chain, key), value)
  <2>10. /\ longer \in Seq(Values) /\ Len(longer) = c + 1 /\ longer[c + 1] = value
         /\ \A n \in 1 .. c : longer[n] = ValuesIn(chain, key)[n]
    BY <2>9
  <2> HIDE DEF S, T, c, longer
  <2>11. \A n \in 1 .. Len(longer) : ValuesIn(new, key)[n] = longer[n]
    <3>1. \A n \in 1 .. c + 1 : n = c + 1 \/ n \in 1 .. c
      BY <2>3
    <3> QED
      BY <2>7, <2>8, <2>10, <3>1
  <2>12. ValuesIn(new, key) = longer
    BY <2>9, <2>10, <2>11, SeqEqual
  <2> QED
    BY <2>12 DEF longer
<1> QED
  BY <1>5, <1>6 DEF new, node


\* Where the nodes for a key stand once the node at a place is unlinked.
Shifted(chain, key, at) ==
    [i \in FoundIn(chain, key) \ {at} |-> IF i < at THEN i ELSE i - 1]

LEMMA UnlinkMoves ==
  ASSUME NEW chain \in Seq(Nodes), NEW key, NEW at \in 1 .. Len(chain),
         NEW i \in FoundIn(chain, key) \ {at}
  PROVE  /\ Shifted(chain, key, at)[i] \in 1 .. Len(chain) - 1
         /\ RemoveAt(chain, at)[Shifted(chain, key, at)[i]] = chain[i]
<1> DEFINE new == RemoveAt(chain, at)
           place == Shifted(chain, key, at)[i]
<1>1. /\ Len(chain) \in Nat
      /\ \A j \in 1 .. Len(chain) - 1 : new[j] = IF j < at THEN chain[j] ELSE chain[j + 1]
  BY Unlinked
<1>2. i \in 1 .. Len(chain) /\ i # at /\ place = IF i < at THEN i ELSE i - 1
  BY FoundPlaces DEF Shifted
<1> HIDE DEF new, place
<1>3. place \in 1 .. Len(chain) - 1
  BY <1>1, <1>2
<1>4. ASSUME i < at PROVE new[place] = chain[i]
  BY <1>1, <1>2, <1>3, <1>4
<1>5. ASSUME ~(i < at) PROVE new[place] = chain[i]
  <2>1. place = i - 1 /\ ~(place < at) /\ place + 1 = i
    BY <1>2, <1>5
  <2> QED
    BY <1>1, <1>3, <2>1
<1> QED
  BY <1>3, <1>4, <1>5 DEF new, place

LEMMA UnlinkShifts ==
  ASSUME NEW chain \in Seq(Nodes), NEW key, NEW at \in 1 .. Len(chain)
  PROVE  /\ RemoveAt(chain, at) \in Seq(Nodes)
         /\ Shifted(chain, key, at) \in Bijection(FoundIn(chain, key) \ {at},
                                                  FoundIn(RemoveAt(chain, at), key))
         /\ \A i, j \in FoundIn(chain, key) \ {at} :
               i < j => Shifted(chain, key, at)[i] < Shifted(chain, key, at)[j]
<1> DEFINE new == RemoveAt(chain, at)
           R == FoundIn(chain, key) \ {at}
           T == FoundIn(new, key)
           f == Shifted(chain, key, at)
<1>1. /\ new \in Seq(Nodes) /\ Len(new) = Len(chain) - 1
      /\ \A j \in 1 .. Len(chain) - 1 : new[j] = IF j < at THEN chain[j] ELSE chain[j + 1]
  BY Unlinked
<1>2. \A i \in R : i \in 1 .. Len(chain) /\ i # at /\ f[i] = IF i < at THEN i ELSE i - 1
  BY FoundPlaces DEF Shifted
<1>3. DOMAIN f = R /\ Len(chain) \in Nat
  BY DEF Shifted
<1>4. \A t \in T : t \in 1 .. Len(chain) - 1 /\ Holds(new[t], key)
  BY <1>1, FoundPlaces DEF FoundIn
<1>5. \A t \in 1 .. Len(chain) - 1 : Holds(new[t], key) => t \in T
  BY <1>1, LenProperties DEF FoundIn
<1>6. \A i \in R : Holds(chain[i], key)
  BY DEF FoundIn
<1>7. \A i \in 1 .. Len(chain) : Holds(chain[i], key) /\ i # at => i \in R
  BY LenProperties DEF FoundIn
<1> HIDE DEF new, R, T, f
<1>8. \A i \in R : f[i] \in 1 .. Len(chain) - 1 /\ new[f[i]] = chain[i]
  BY UnlinkMoves DEF new, R, f
<1>9. \A i \in R : f[i] \in T
  BY <1>5, <1>6, <1>8
<1>10. ASSUME NEW i \in R, NEW j \in R, i < j PROVE f[i] < f[j]
  BY <1>2, <1>10
<1>11. ASSUME NEW i \in R, NEW j \in R, f[i] = f[j] PROVE i = j
  BY <1>2, <1>11
<1>12. ASSUME NEW t \in T PROVE \E i \in R : f[i] = t
  <2>1. t \in 1 .. Len(chain) - 1 /\ Holds(new[t], key)
    BY <1>4, <1>12
  <2> DEFINE i == IF t < at THEN t ELSE t + 1
  <2>2. i \in 1 .. Len(chain) /\ i # at
    BY <1>3, <2>1
  <2>3. new[t] = chain[i]
    BY <1>1, <2>1
  <2>4. i \in R
    BY <1>7, <2>1, <2>2, <2>3
  <2>5. f[i] = t
    BY <1>2, <2>1, <2>4
  <2> QED
    BY <2>4, <2>5
<1>13. f \in [R -> T]
  <2>1. f = [i \in R |-> f[i]]
    BY <1>3 DEF f, Shifted, R
  <2> QED
    BY <1>9, <2>1
<1>14. f \in Bijection(R, T)
  BY <1>11, <1>12, <1>13 DEF Bijection, Injection, Surjection, IsInjective
<1> QED
  BY <1>1, <1>10, <1>14 DEF new, R, T, f

\* The first node for a key holds the head of its queue.
LEMMA HeadQueue ==
  ASSUME NEW chain \in Seq(Nodes), NEW key, FoundIn(chain, key) # {}
  PROVE  /\ Min(FoundIn(chain, key)) \in 1 .. Len(chain)
         /\ Min(FoundIn(chain, key)) \in FoundIn(chain, key)
         /\ Cardinality(FoundIn(chain, key)) >= 1
         /\ ValuesIn(chain, key) # <<>>
         /\ Head(ValuesIn(chain, key)) = chain[Min(FoundIn(chain, key))].value
<1> DEFINE S == FoundIn(chain, key)
           values == ValuesIn(chain, key)
<1>1. IsPlaces(S) /\ S \subseteq 1 .. Len(chain)
  BY FoundPlaces
<1>2. Min(S) \in S /\ Min(S) \in 1 .. Len(chain)
  BY <1>1, MinIsLeast DEF IsPlaces
<1>3. Cardinality(S) \in Nat /\ Cardinality(S) # 0
  BY <1>1, FS_EmptySet, RankType DEF IsPlaces
<1>4. values \in Seq(Values) /\ Len(values) = Cardinality(S)
  BY ValuesAre
<1>5. 1 \in 1 .. Cardinality(S)
  BY <1>3
<1>6. values[1] = chain[Min(S)].value
  BY <1>1, <1>5, RankOfFirst, ValuesAre
<1> HIDE DEF S, values
<1>7. values # <<>> /\ Head(values) = values[1]
  BY <1>3, <1>4
<1> QED
  BY <1>2, <1>3, <1>6, <1>7 DEF S, values

LEMMA OthersStay ==
  ASSUME NEW chain \in Seq(Nodes), NEW key,
         NEW at \in 1 .. Len(chain), at \notin FoundIn(chain, key)
  PROVE  ValuesIn(RemoveAt(chain, at), key) = ValuesIn(chain, key)
<1> DEFINE new == RemoveAt(chain, at)
           f == Shifted(chain, key, at)
           S == FoundIn(chain, key)
<1>1. S \ {at} = S
  OBVIOUS
<1>2. /\ new \in Seq(Nodes)
      /\ f \in Bijection(S \ {at}, FoundIn(new, key))
      /\ \A i, j \in S \ {at} : i < j => f[i] < f[j]
      /\ \A i \in S \ {at} : new[f[i]] = chain[i]
  <2>1. new \in Seq(Nodes)
    BY UnlinkShifts
  <2>2. f \in Bijection(S \ {at}, FoundIn(new, key))
    BY UnlinkShifts
  <2>3. \A i, j \in S \ {at} : i < j => f[i] < f[j]
    BY UnlinkShifts
  <2>4. ASSUME NEW i \in S \ {at} PROVE new[f[i]] = chain[i]
    BY <2>4, UnlinkMoves
  <2> QED
    BY <2>1, <2>2, <2>3, <2>4
<1> HIDE DEF new, f, S
<1>3. /\ f \in Bijection(S, FoundIn(new, key))
      /\ \A i, j \in S : i < j => f[i] < f[j]
      /\ \A i \in S : new[f[i]].value = chain[i].value
  BY <1>1, <1>2
<1> QED
  BY <1>2, <1>3, SameValues DEF S, new

LEMMA RemoveQueues ==
  ASSUME NEW chain \in Seq(Nodes), NEW key \in Keys, FoundIn(chain, key) # {}
  PROVE  LET new == RemoveAt(chain, Min(FoundIn(chain, key)))
         IN  /\ ValuesIn(new, key) = Tail(ValuesIn(chain, key))
             /\ \A k \in Keys \ {key} : ValuesIn(new, k) = ValuesIn(chain, k)
<1> DEFINE S == FoundIn(chain, key)
           first == Min(S)
           new == RemoveAt(chain, first)
           T == FoundIn(new, key)
<1>1. /\ first \in 1 .. Len(chain) /\ first \in S
      /\ Cardinality(S) \in Nat /\ Cardinality(S) >= 1
  BY HeadQueue, FoundPlaces
<1>2. new \in Seq(Nodes)
  BY <1>1, UnlinkShifts
<1>3. ASSUME NEW k \in Keys \ {key} PROVE ValuesIn(new, k) = ValuesIn(chain, k)
  <2>1. first \notin FoundIn(chain, k)
    BY <1>1 DEF FoundIn, Holds
  <2> QED
    BY <1>1, <2>1, OthersStay
<1>4. ValuesIn(new, key) = Tail(ValuesIn(chain, key))
  <2> DEFINE f == Shifted(chain, key, first)
             R == S \ {first}
             c == Cardinality(S) - 1
  <2>1. /\ f \in Bijection(R, T) /\ \A i, j \in R : i < j => f[i] < f[j]
        /\ \A i \in R : new[f[i]] = chain[i]
    BY <1>1, UnlinkShifts, UnlinkMoves
  <2>2. IsPlaces(S) /\ IsPlaces(T)
    BY <1>2, FoundPlaces
  <2>3. IsPlaces(R) /\ Cardinality(R) = c /\ c \in Nat
    <3>1. R \in SUBSET S
      OBVIOUS
    <3>2. IsFiniteSet(R) /\ Cardinality(R) = c
      BY <1>1, <2>2, FS_RemoveElement DEF IsPlaces
    <3> QED
      BY <1>1, <2>2, <3>1, <3>2 DEF IsPlaces
  <2>4. /\ Cardinality(T) = c
        /\ \A i \in R : Rank(T, f[i]) = Rank(R, i)
    <3> HIDE DEF f, R, T, c
    <3> QED
      BY <2>1, <2>2, <2>3, RankMoves
  <2>5. \A i \in R : Rank(R, i) = Rank(S, i) - 1
    BY <1>1, <2>2, RankWithoutFirst
  <2>6. Rank(S, first) = 1
    BY <1>1, <2>2, RankOfFirst
  <2>7. /\ ValuesIn(new, key) \in Seq(Values) /\ Len(ValuesIn(new, key)) = c
        /\ ValuesIn(chain, key) \in Seq(Values) /\ Len(ValuesIn(chain, key)) = c + 1
        /\ \A n \in 1 .. c : ValuesIn(new, key)[n] = new[Nth(T, n)].value
        /\ \A n \in 1 .. c + 1 : ValuesIn(chain, key)[n] = chain[Nth(S, n)].value
    BY <1>1, <1>2, <2>4, ValuesAre
  <2>8. \A i \in R : f[i] \in T
    BY <2>1 DEF Bijection, Injection
  <2> HIDE DEF f, T, c, first, new
  <2>9. ASSUME NEW n \in 1 .. c PROVE ValuesIn(new, key)[n] = ValuesIn(chain, key)[n + 1]
    <3>1. n + 1 \in 1 .. c + 1 /\ c + 1 = Cardinality(S) /\ n + 1 # 1
      BY <1>1, <2>3, <2>9 DEF c
    <3> DEFINE i == Nth(S, n + 1)
    <3>2. i \in S /\ Rank(S, i) = n + 1
      BY <2>2, <3>1, NthExists
    <3>3. i \in R
      BY <2>6, <3>1, <3>2
    <3> HIDE DEF i, R, S
    <3>4. f[i] \in T /\ Rank(T, f[i]) = n
      BY <2>4, <2>5, <2>8, <3>2, <3>3
    <3>5. Nth(T, n) = f[i]
      BY <2>2, <3>4, NthIs
    <3>6. new[Nth(T, n)].value = chain[i].value
      BY <2>1, <3>3, <3>5
    <3> QED
      BY <2>7, <3>1, <3>6 DEF i
  <2> DEFINE rest == Tail(ValuesIn(chain, key))
  <2>10. /\ rest \in Seq(Values) /\ Len(rest) = c
         /\ \A n \in 1 .. c : rest[n] = ValuesIn(chain, key)[n + 1]
    <3> DEFINE values == ValuesIn(chain, key)
    <3> HIDE DEF values
    <3>1. values \in Seq(Values) /\ Len(values) = c + 1 /\ c \in Nat
      BY <2>3, <2>7 DEF values
    <3>2. values # <<>>
      BY <3>1
    <3>3. /\ Tail(values) \in Seq(Values) /\ Len(Tail(values)) = c
          /\ \A n \in 1 .. c : Tail(values)[n] = values[n + 1]
      BY <3>1, <3>2, HeadTailProperties
    <3> QED
      BY <3>3 DEF values
  <2> HIDE DEF rest
  <2>11. \A n \in 1 .. Len(rest) : ValuesIn(new, key)[n] = rest[n]
    BY <2>9, <2>10
  <2>12. ValuesIn(new, key) = rest
    BY <2>7, <2>10, <2>11, SeqEqual
  <2> QED
    BY <2>12 DEF rest
<1> QED
  BY <1>3, <1>4


-----------------------------------------------------------------------------
(* The table as a multimap. *)

LEMMA ValuesOfIs ==
  ASSUME NEW key
  PROVE  ValuesOf(key) = IF Index[key] \in Buckets
                         THEN ValuesIn(arr[Index[key]], key) ELSE <<>>
BY DEF ValuesOf, ValuesIn, Found, FoundIn, Chain

\* A new chain changes the queues of the keys that hash to it.
LEMMA ChainQueues ==
  ASSUME ChainsSound, NEW at \in Buckets, NEW new, arr' = [arr EXCEPT ![at] = new]
  PROVE  \A k \in Keys : ValuesOf(k)' = IF Index[k] = at THEN ValuesIn(new, k)
                                                         ELSE ValuesOf(k)
<1>1. /\ arr'[at] = new
      /\ \A i \in Buckets \ {at} : arr'[i] = arr[i]
  BY DEF ChainsSound
<1>2. ASSUME NEW key
      PROVE  ValuesOf(key)' = IF Index[key] \in Buckets
                              THEN ValuesIn(arr'[Index[key]], key) ELSE <<>>
  BY DEF ValuesOf, ValuesIn, Found, FoundIn, Chain
<1> QED
  BY <1>1, <1>2, ValuesOfIs

LEMMA InsertQueues ==
  ASSUME ChainsSound, NEW key \in Keys, NEW value \in Values, insert(key, value)
  PROVE  Queues!Insert(key, value) \/ UNCHANGED <<arr, answer>>
<1> DEFINE at == Index[key]
           node == Node(key, value)
           new == IF Unused(arr[at]) THEN <<node>> ELSE Append(arr[at], node)
<1>1. CASE Chain(key) = <<>>
  BY <1>1 DEF insert, Undefined
<1>2. CASE Chain(key) # <<>>
  <2>1. /\ at \in Buckets /\ arr[at] # <<>> /\ arr' = [arr EXCEPT ![at] = new]
        /\ answer' = answer
    BY <1>2 DEF insert, Reached, Chain
  <2>2. arr[at] \in Seq(Nodes)
    BY <2>1 DEF ChainsSound
  <2>3. /\ ValuesIn(new, key) = Append(ValuesIn(arr[at], key), value)
        /\ \A k \in Keys \ {key} : ValuesIn(new, k) = ValuesIn(arr[at], k)
    <3>1. CASE Unused(arr[at])
      <4>1. arr[at] = <<Blank>>
        <5>1. arr[at][1].blank /\ 1 \in DOMAIN arr[at]
          BY <2>1, <2>2, <3>1 DEF Unused
        <5> QED
          BY <2>1, <5>1 DEF ChainsSound
      <4>2. new = Append(<<>>, node) /\ <<>> \in Seq(Nodes)
        BY <3>1
      <4>3. \A k : ValuesIn(arr[at], k) = ValuesIn(<<>>, k)
        BY <4>1, NoValues
      <4> HIDE DEF new, at
      <4> QED
        BY <4>2, <4>3, AppendQueues
    <3>2. CASE ~Unused(arr[at])
      <4>1. new = Append(arr[at], node)
        BY <3>2
      <4> HIDE DEF new
      <4> QED
        BY <2>2, <4>1, AppendQueues
    <3> QED
      BY <3>1, <3>2
  <2> HIDE DEF new
  <2>4. /\ ValuesOf(key)' = Append(ValuesOf(key), value)
        /\ \A k \in Keys \ {key} : ValuesOf(k)' = ValuesOf(k)
    BY <2>1, <2>3, ChainQueues, ValuesOfIs
  <2> QED
    BY <2>1, <2>4 DEF Queues!Insert
<1> QED
  BY <1>1, <1>2

LEMMA DeleteQueues ==
  ASSUME ChainsSound, NEW key \in Keys, deleteKey(key)
  PROVE  Queues!Delete(key) \/ UNCHANGED <<arr, answer>>
<1> DEFINE at == Index[key]
           new == RemoveAt(arr[at], Min(FoundIn(arr[at], key)))
<1>1. CASE Found(key) = {}
  BY <1>1 DEF deleteKey
<1>2. CASE Found(key) # {}
  <2>1. /\ at \in Buckets /\ FoundIn(arr[at], key) # {}
        /\ arr' = [arr EXCEPT ![at] = new] /\ answer' = answer
    BY <1>2 DEF deleteKey, Reached, Found, FoundIn, Chain
  <2>2. arr[at] \in Seq(Nodes)
    BY <2>1 DEF ChainsSound
  <2>3. /\ ValuesIn(new, key) = Tail(ValuesIn(arr[at], key))
        /\ ValuesIn(arr[at], key) # <<>>
        /\ \A k \in Keys \ {key} : ValuesIn(new, k) = ValuesIn(arr[at], k)
    BY <2>1, <2>2, RemoveQueues, HeadQueue
  <2> HIDE DEF new
  <2>4. /\ ValuesOf(key) # <<>> /\ ValuesOf(key)' = Tail(ValuesOf(key))
        /\ \A k \in Keys \ {key} : ValuesOf(k)' = ValuesOf(k)
    BY <2>1, <2>3, ChainQueues, ValuesOfIs
  <2> QED
    BY <2>1, <2>4 DEF Queues!Delete
<1> QED
  BY <1>1, <1>2

LEMMA SearchQueues ==
  ASSUME ChainsSound, NEW key \in Keys, search(key)
  PROVE  Queues!Search(key) \/ UNCHANGED <<arr, answer>>
<1> DEFINE chain == arr[Index[key]]
<1>1. CASE Chain(key) # <<>> /\ Unused(Chain(key)) /\ Undefined
  BY <1>1 DEF Undefined
<1>2. CASE ~(Chain(key) # <<>> /\ Unused(Chain(key)) /\ Undefined)
  <2>1. /\ Index[key] \in Buckets /\ arr' = arr
        /\ answer' = IF FoundIn(chain, key) = {} THEN Absent
                     ELSE chain[Min(FoundIn(chain, key))].value
    BY <1>2 DEF search, Reached, Found, FoundIn, Chain
  <2>2. chain \in Seq(Nodes) /\ ValuesOf(key) = ValuesIn(chain, key)
    BY <2>1, ValuesOfIs DEF ChainsSound
  <2>3. answer' = IF ValuesOf(key) = <<>> THEN Absent ELSE Head(ValuesOf(key))
    <3>1. CASE FoundIn(chain, key) = {}
      <4>1. ValuesOf(key) \in Seq(Values) /\ Len(ValuesOf(key)) = 0
        BY <2>2, <3>1, ValuesAre, FS_EmptySet
      <4>2. ValuesOf(key) = <<>>
        BY <4>1
      <4> QED
        BY <2>1, <3>1, <4>2
    <3>2. CASE FoundIn(chain, key) # {}
      BY <2>1, <2>2, <3>2, HeadQueue
    <3> QED
      BY <3>1, <3>2
  <2>4. \A k \in Keys : ValuesOf(k)' = ValuesOf(k)
    BY <2>1 DEF ValuesOf, Found, Chain
  <2> QED
    BY <2>3, <2>4 DEF Queues!Search
<1> QED
  BY <1>1, <1>2

LEMMA QueuesInit == ASSUME Init PROVE Queues!Init
<1>1. ASSUME NEW key \in Keys PROVE ValuesOf(key) = <<>>
  BY NoValues, ValuesOfIs DEF Init
<1> QED
  BY <1>1 DEF Init, Queues!Init

LEMMA QueuesStep ==
  ASSUME CountInv, [Next]_vars
  PROVE  [Queues!Next]_<<[key \in Keys |-> ValuesOf(key)], answer>>
<1> DEFINE queues == [key \in Keys |-> ValuesOf(key)]
<1>1. ASSUME UNCHANGED <<arr, answer>> PROVE UNCHANGED <<queues, answer>>
  BY <1>1 DEF ValuesOf, Found, Chain
<1>2. ASSUME NEW key \in Keys, OutOfRange(key) PROVE UNCHANGED <<arr, answer>>
  BY <1>2 DEF OutOfRange, Undefined
<1>3. CASE Next
  <2>1. PICK key \in Keys : \/ OutOfRange(key) \/ deleteKey(key) \/ search(key)
                            \/ \E value \in Values : insert(key, value)
    BY <1>3 DEF Next
  <2>2. CASE deleteKey(key)
    BY <1>1, <2>2, DeleteQueues DEF CountInv, Queues!Next
  <2>3. CASE search(key)
    BY <1>1, <2>3, SearchQueues DEF CountInv, Queues!Next
  <2>4. CASE \E value \in Values : insert(key, value)
    BY <1>1, <2>4, InsertQueues DEF CountInv, Queues!Next
  <2> QED
    BY <1>1, <1>2, <2>1, <2>2, <2>3, <2>4
<1>4. CASE UNCHANGED vars
  BY <1>1, <1>4 DEF vars
<1> QED
  BY <1>3, <1>4

\* IsMultiMap, for any keys, values, capacity and hash: until something
\* undefined happens, and whatever shares a chain, the values of a key are
\* answered and removed oldest first.  Every step of the table is a step of the
\* multimap or leaves its queues and answer alone.
THEOREM KeysQueueUp == Spec => IsMultiMap
<1>1. Init => Queues!Init
  BY QueuesInit
<1>2. CountInv /\ [Next]_vars => [Queues!Next]_<<[key \in Keys |-> ValuesOf(key)], answer>>
  BY QueuesStep
<1>3. CountInv /\ [Next]_vars => CountInv'
  BY CountInvStep
<1>4. Init => CountInv
  BY CountInvInit
<1> QED
  BY <1>1, <1>2, <1>3, <1>4, PTL DEF Spec, IsMultiMap, Queues!Spec

=============================================================================
