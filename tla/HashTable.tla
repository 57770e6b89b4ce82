------------------------------- MODULE HashTable -------------------------------
(***************************************************************************)
(* HashTable<T> of server/src/source/hash_table.cpp: an array of chains.   *)
(* Every chain starts with a node whose key is null, which the first       *)
(* insertion fills; a chain whose last node is deleted is null.            *)
(*                                                                         *)
(* A key is the sequence of its chars, which are signed.                   *)
(***************************************************************************)
EXTENDS Integers, FiniteSets, Sequences, SequencesExt, FiniteSetsExt, Places

CONSTANTS
    Keys, Values,
    initial, capacity,  \* arguments of the constructor, 0 and 10 by default
    Absent,             \* nullptr as the answer of search
    MaxElements         \* bound of numberOfElements

Ascii(key) == \A i \in DOMAIN key : key[i] \in 1 .. 127

\* The remainder of C++, which has the sign of a.
Rem(a, b) == IF a >= 0 THEN a % b ELSE -((-a) % b)

hashFunction(key) ==
    FoldLeft(LAMBDA h, char :
                 [sum |-> Rem(Rem(h.sum, capacity)
                              + Rem(char * h.factor, capacity), capacity),
                  factor |-> Rem(h.factor * 31, 32767)],
             [sum |-> 0, factor |-> 31], key).sum

Index == [key \in Keys |-> hashFunction(key)]

Buckets == 0 .. capacity - 1

ASSUME HashConstants ==
    /\ capacity \in Nat \ {0} /\ initial \in Nat /\ MaxElements \in Nat
    /\ Absent \notin Values
    /\ \A key \in Keys : Ascii(key) => Index[key] \in Buckets

VARIABLES
    arr,                \* the chains
    numberOfElements,
    answer,             \* what the last search returned
    undefined,          \* a null pointer was followed, or arr left
    careful             \* history: the callers asked for nothing but ASCII keys,
                        \* removed nothing and searched for inserted keys only

vars == <<arr, numberOfElements, answer, undefined, careful>>

\* A node whose key and value are null.
Blank == [blank |-> TRUE]
Node(key, value) == [blank |-> FALSE, key |-> key, value |-> value]

Init ==
    /\ arr = [i \in Buckets |-> <<Blank>>]
    /\ numberOfElements = initial /\ answer = Absent
    /\ undefined = FALSE /\ careful = TRUE

Chain(key) == arr[Index[key]]
Holds(node, key) == ~node.blank /\ node.key = key
Found(key) == {i \in DOMAIN Chain(key) : Holds(Chain(key)[i], key)}

\* Null, or not filled yet.
Unused(chain) == chain = <<>> \/ chain[1].blank

Careful(allowed) == careful' = (careful /\ allowed)

\* Undefined behaviour ends what can be said of the table.
Undefined == undefined' = TRUE /\ UNCHANGED <<arr, numberOfElements, answer>>

Reached(key) == ~undefined /\ Index[key] \in Buckets

\* A negative index.
OutOfRange(key) ==
    /\ ~undefined /\ Index[key] \notin Buckets
    /\ Undefined /\ Careful(Ascii(key))

\* Mutation of insert: the first element is linked behind the node without key.
insertBehind(key, value) ==
    /\ Reached(key) /\ numberOfElements < MaxElements
    /\ arr' = [arr EXCEPT ![Index[key]] = Append(@, Node(key, value))]
    /\ numberOfElements' = numberOfElements + 1
    /\ UNCHANGED <<answer, undefined>>
    /\ Careful(Ascii(key))

\* Mutation of insert: the newest element comes first.
insertFirst(key, value) ==
    /\ Reached(key) /\ Chain(key) # <<>> /\ numberOfElements < MaxElements
    /\ arr' = [arr EXCEPT ![Index[key]] =
           IF Unused(@) THEN <<Node(key, value)>> ELSE <<Node(key, value)>> \o @]
    /\ numberOfElements' = numberOfElements + 1
    /\ UNCHANGED <<answer, undefined>>
    /\ Careful(Ascii(key))

insert(key, value) ==
    /\ Reached(key) /\ numberOfElements < MaxElements
    /\ \/ /\ Chain(key) = <<>> /\ Undefined      \* setNode(nullptr, ...)
       \/ /\ Chain(key) # <<>>
          /\ arr' = [arr EXCEPT ![Index[key]] =
                 IF Unused(@) THEN <<Node(key, value)>>
                              ELSE Append(@, Node(key, value))]
          /\ numberOfElements' = numberOfElements + 1
          /\ UNCHANGED <<answer, undefined>>
    /\ Careful(Ascii(key))

\* Mutation of deleteKey: a node behind the first is unlinked without counting.
deleteUncounted(key) ==
    /\ Reached(key)
    /\ \/ Found(key) = {} /\ UNCHANGED <<arr, numberOfElements>>
       \/ /\ Found(key) # {}
          /\ arr' = [arr EXCEPT ![Index[key]] =
                        RemoveAt(@, Min(Found(key)))]
          /\ numberOfElements' = IF Min(Found(key)) = 1
                                 THEN numberOfElements - 1 ELSE numberOfElements
    /\ UNCHANGED <<answer, undefined>>
    /\ Careful(FALSE)

deleteKey(key) ==
    /\ Reached(key)
    /\ \/ Found(key) = {} /\ UNCHANGED <<arr, numberOfElements>>
       \/ /\ Found(key) # {}
          /\ arr' = [arr EXCEPT ![Index[key]] =
                        RemoveAt(@, Min(Found(key)))]
          /\ numberOfElements' = numberOfElements - 1
    /\ UNCHANGED <<answer, undefined>>
    /\ Careful(FALSE)

search(key) ==
    /\ Reached(key)
    /\ Careful(Ascii(key) /\ Found(key) # {})
    /\ \/ Chain(key) # <<>> /\ Unused(Chain(key)) /\ Undefined \* strcmp(nullptr, key)
       \/ /\ Chain(key) = <<>> \/ ~Unused(Chain(key))
          /\ answer' = IF Found(key) = {} THEN Absent
                       ELSE Chain(key)[Min(Found(key))].value
          /\ UNCHANGED <<arr, numberOfElements, undefined>>

Next ==
    \E key \in Keys :
        \/ OutOfRange(key) \/ deleteKey(key) \/ search(key)
        \/ \E value \in Values : insert(key, value)

Spec == Init /\ [][Next]_vars

-----------------------------------------------------------------------------
(* Properties. *)

\* numberOfElements has changed by the number of nodes with a key.
Filled(i) == {<<i, j>> : j \in {n \in DOMAIN arr[i] : ~arr[i][n].blank}}

CountMatches ==
    numberOfElements - initial = Cardinality(UNION {Filled(i) : i \in Buckets})

\* A table from which nothing is ever removed, and that is asked for ASCII keys
\* it holds, follows no null pointer and stays in its array.
CarefulUseDefined == careful => ~undefined

\* The values of a key in its chain, oldest first.
ValuesOf(key) ==
    IF Index[key] \notin Buckets THEN <<>>
    ELSE [n \in 1 .. Cardinality(Found(key)) |->
             Chain(key)[Nth(Found(key), n)].value]

\* As long as nothing undefined has happened, the table is a multimap.
Queues == INSTANCE MultiMap WITH map <- [key \in Keys |-> ValuesOf(key)]

IsMultiMap == Queues!Spec

=============================================================================
