-------------------------------- MODULE MultiMap --------------------------------
(***************************************************************************)
(* What a table with repeated keys promises: the values of a key queue up, *)
(* search answers the oldest one and deleteKey removes it.                 *)
(***************************************************************************)
EXTENDS Sequences

CONSTANTS Keys, Values, Absent

VARIABLES
    map,      \* the values of each key, oldest first
    answer    \* what the last search returned

Init == map = [k \in Keys |-> <<>>] /\ answer = Absent

Insert(k, v) ==
    /\ map' = [map EXCEPT ![k] = Append(@, v)]
    /\ UNCHANGED answer

Delete(k) ==
    /\ map[k] # <<>>
    /\ map' = [map EXCEPT ![k] = Tail(@)]
    /\ UNCHANGED answer

Search(k) ==
    /\ answer' = IF map[k] = <<>> THEN Absent ELSE Head(map[k])
    /\ UNCHANGED map

Next ==
    \E k \in Keys : \/ \E v \in Values : Insert(k, v)
                    \/ Delete(k)
                    \/ Search(k)

Spec == Init /\ [][Next]_<<map, answer>>

=============================================================================
