------------------------------ MODULE PlacesProofs ------------------------------
(***************************************************************************)
(* What the proofs about lines, chains and replies need to know of counted *)
(* places, and of sequences that are defined step by step.                 *)
(***************************************************************************)
EXTENDS Places, Histories, FiniteSetsExt, FunctionTheorems, FiniteSetTheorems,
        SequenceTheorems, WellFoundedInduction, TLAPS

IsPlaces(S) == S \in SUBSET Nat /\ IsFiniteSet(S)

LEMMA MinIsLeast ==
  ASSUME NEW S \in SUBSET Nat, S # {}
  PROVE  Min(S) \in S /\ \A y \in S : Min(S) <= y
<1>1. PICK m \in S : \A y \in S : <<y, m>> \notin OpToRel(<, Nat)
  BY NatLessThanWellFounded, WFMin
<1>2. \A y \in S : ~(y < m)
  BY <1>1 DEF OpToRel
<1>3. \A y \in S : m <= y
  BY <1>2
<1> QED
  BY <1>3 DEF Min

LEMMA RankType ==
  ASSUME NEW S, IsPlaces(S)
  PROVE  /\ Cardinality(S) \in Nat
         /\ \A i : IsFiniteSet(Upto(S, i)) /\ Rank(S, i) \in Nat
<1>1. ASSUME NEW i PROVE IsFiniteSet(Upto(S, i)) /\ Rank(S, i) \in Nat
  <2>1. Upto(S, i) \in SUBSET S
    BY DEF Upto
  <2> QED
    BY <2>1, FS_Subset, FS_CardinalityType DEF IsPlaces, Rank
<1> QED
  BY <1>1, FS_CardinalityType DEF IsPlaces

LEMMA RankMonotone ==
  ASSUME NEW S, IsPlaces(S), NEW i \in Nat, NEW j \in Nat, i <= j
  PROVE  Rank(S, i) <= Rank(S, j)
<1>1. \A x \in S : x \in Nat /\ (x <= i => x <= j)
  BY DEF IsPlaces
<1>2. Upto(S, i) \in SUBSET Upto(S, j)
  BY <1>1 DEF Upto
<1> QED
  BY <1>2, RankType, FS_Subset DEF Rank

LEMMA RankNext ==
  ASSUME NEW S, IsPlaces(S), NEW i \in Nat, NEW j \in S,
         i < j, \A x \in S : x <= i \/ j <= x
  PROVE  Rank(S, j) = Rank(S, i) + 1
<1>1. j \in Nat /\ \A x \in S : x \in Nat
  BY DEF IsPlaces
<1>2. \A x \in S : x <= j <=> x <= i \/ x = j
  BY <1>1
<1>3. ~(j <= i) /\ j <= j
  BY <1>1
<1>4. Upto(S, j) = Upto(S, i) \cup {j} /\ j \notin Upto(S, i)
  BY <1>2, <1>3 DEF Upto
<1> QED
  BY <1>4, RankType, FS_AddElement DEF Rank

LEMMA RankStrict ==
  ASSUME NEW S, IsPlaces(S), NEW i \in Nat, NEW j \in S, i < j
  PROVE  Rank(S, i) < Rank(S, j)
<1>1. Upto(S, i) \cup {j} \in SUBSET Upto(S, j) /\ j \notin Upto(S, i)
  <2>1. j \in Nat /\ \A x \in S : x \in Nat
    BY DEF IsPlaces
  <2>2. ~(j <= i) /\ j <= j /\ \A x \in S : x <= i => x <= j
    BY <2>1
  <2> QED
    BY <2>2 DEF Upto
<1>2. Cardinality(Upto(S, i) \cup {j}) = Rank(S, i) + 1
  BY <1>1, RankType, FS_AddElement DEF Rank
<1>3. Cardinality(Upto(S, i) \cup {j}) <= Rank(S, j)
  BY <1>1, RankType, FS_Subset DEF Rank
<1> QED
  BY <1>2, <1>3, RankType

\* The n-th place is the only one with n places up to it.
LEMMA NthIs ==
  ASSUME NEW S, IsPlaces(S), NEW i \in S
  PROVE  Nth(S, Rank(S, i)) = i
<1>1. ASSUME NEW x \in S, Rank(S, x) = Rank(S, i) PROVE x = i
  <2>1. x \in Nat /\ i \in Nat
    BY DEF IsPlaces
  <2>2. ~(x < i) /\ ~(i < x)
    BY <1>1, <2>1, RankStrict, RankType
  <2> QED
    BY <2>1, <2>2
<1> QED
  BY <1>1 DEF Nth

LEMMA RankOfFirst ==
  ASSUME NEW S, IsPlaces(S), S # {}
  PROVE  Rank(S, Min(S)) = 1 /\ Nth(S, 1) = Min(S)
<1>1. Min(S) \in S /\ \A y \in S : Min(S) <= y
  BY MinIsLeast DEF IsPlaces
<1>2. Upto(S, Min(S)) = {Min(S)}
  <2>1. \A x \in S : x \in Nat
    BY DEF IsPlaces
  <2>2. \A x \in S : x <= Min(S) <=> x = Min(S)
    BY <1>1, <2>1
  <2> QED
    BY <1>1, <2>2 DEF Upto
<1>3. Rank(S, Min(S)) = 1
  BY <1>2, FS_Singleton DEF Rank
<1> QED
  BY <1>1, <1>3, NthIs

LEMMA RankOfAll ==
  ASSUME NEW S, IsPlaces(S), NEW i \in S
  PROVE  Rank(S, i) \in 1 .. Cardinality(S)
<1>1. Upto(S, i) \in SUBSET S /\ i \in Upto(S, i)
  BY DEF Upto, IsPlaces
<1>2. Rank(S, i) <= Cardinality(S)
  BY <1>1, FS_Subset DEF Rank, IsPlaces
<1>3. Rank(S, i) # 0
  BY <1>1, RankType, FS_EmptySet DEF Rank
<1> QED
  BY <1>2, <1>3, RankType

\* There is an n-th place for every n up to the number of places: the least n
\* without one would follow a place that is followed by none.
LEMMA NthExists ==
  ASSUME NEW S, IsPlaces(S), NEW n \in 1 .. Cardinality(S)
  PROVE  Nth(S, n) \in S /\ Rank(S, Nth(S, n)) = n
<1> DEFINE missing == {k \in 1 .. Cardinality(S) : \A i \in S : Rank(S, i) # k}
<1>1. Cardinality(S) \in Nat /\ S \in SUBSET Nat
  BY RankType DEF IsPlaces
<1>2. missing = {}
  <2>1. SUFFICES ASSUME missing # {} PROVE FALSE
    OBVIOUS
  <2> DEFINE k == Min(missing)
  <2>2. k \in missing /\ \A y \in missing : k <= y
    <3>1. missing \in SUBSET Nat
      BY <1>1
    <3> QED
      BY <2>1, <3>1, MinIsLeast
  <2> HIDE DEF k
  <2>3. k \in 1 .. Cardinality(S) /\ \A i \in S : Rank(S, i) # k
    BY <2>2
  <2>4. S # {}
    BY <1>1, <2>3, FS_EmptySet DEF IsPlaces
  <2>5. k # 1
    BY <2>3, <2>4, RankOfFirst, MinIsLeast DEF IsPlaces
  <2>6. k - 1 \in 1 .. Cardinality(S) /\ ~(k <= k - 1)
    BY <1>1, <2>3, <2>5
  <2>7. PICK i \in S : Rank(S, i) = k - 1
    BY <2>2, <2>6
  <2> DEFINE above == {j \in S : i < j}
  <2>8. above # {}
    <3>1. SUFFICES ASSUME above = {} PROVE FALSE
      OBVIOUS
    <3>2. Upto(S, i) = S
      <4>1. \A x \in S : x <= i
        BY <1>1, <3>1
      <4> QED
        BY <4>1 DEF Upto
    <3> QED
      BY <1>1, <2>3, <2>7, <3>2 DEF Rank
  <2>9. Min(above) \in above /\ \A y \in above : Min(above) <= y
    BY <1>1, <2>8, MinIsLeast
  <2>10. Rank(S, Min(above)) = Rank(S, i) + 1
    <3>1. i \in Nat /\ Min(above) \in S /\ i < Min(above)
      BY <1>1, <2>9
    <3>2. \A x \in S : x <= i \/ Min(above) <= x
      BY <1>1, <2>9
    <3> QED
      BY <3>1, <3>2, RankNext
  <2> QED
    <3>1. Rank(S, Min(above)) = k
      BY <2>3, <2>7, <2>10
    <3> QED
      BY <2>3, <2>9, <3>1
<1>3. PICK i \in S : Rank(S, i) = n
  BY <1>2
<1> QED
  BY <1>3, NthIs

\* Moving all places without changing their order leaves their ranks.
LEMMA RankMoves ==
  ASSUME NEW S, IsPlaces(S), NEW T, IsPlaces(T), NEW f \in Bijection(S, T),
         \A i, j \in S : i < j => f[i] < f[j]
  PROVE  /\ Cardinality(T) = Cardinality(S)
         /\ \A i \in S : Rank(T, f[i]) = Rank(S, i)
<1>1. /\ f \in [S -> T] /\ \A t \in T : \E s \in S : f[s] = t
      /\ \A i, j \in S : f[i] = f[j] => i = j
  BY DEF Bijection, Injection, Surjection, IsInjective
<1>2. Cardinality(T) = Cardinality(S)
  BY FS_Bijection DEF IsPlaces, ExistsBijection
<1>3. ASSUME NEW i \in S PROVE Rank(T, f[i]) = Rank(S, i)
  <2> DEFINE A == Upto(S, i)
             B == Upto(T, f[i])
             g == [x \in A |-> f[x]]
  <2>1. ASSUME NEW x \in S PROVE f[x] <= f[i] <=> x <= i
    <3>1. x \in Nat /\ i \in Nat /\ f[x] \in Nat /\ f[i] \in Nat
      BY <1>1 DEF IsPlaces
    <3>2. CASE x < i
      BY <3>1, <3>2
    <3>3. CASE x = i
      BY <3>1, <3>3
    <3>4. CASE i < x
      BY <3>1, <3>4
    <3> QED
      BY <3>1, <3>2, <3>3, <3>4
  <2>2. g \in [A -> B] /\ \A x, y \in A : g[x] = g[y] => x = y
    BY <1>1, <2>1 DEF Upto
  <2>3. \A t \in B : \E x \in A : g[x] = t
    BY <1>1, <2>1 DEF Upto
  <2>4. g \in Bijection(A, B)
    BY <2>2, <2>3, Zenon DEF Bijection, Injection, Surjection, IsInjective
  <2>5. Cardinality(B) = Cardinality(A)
    BY <2>4, RankType, FS_Bijection DEF ExistsBijection
  <2> QED
    BY <2>5 DEF Rank
<1> QED
  BY <1>2, <1>3

\* Without its first place, all others rank one lower.
LEMMA RankWithoutFirst ==
  ASSUME NEW S, IsPlaces(S), S # {}, NEW i \in S \ {Min(S)}
  PROVE  Rank(S \ {Min(S)}, i) = Rank(S, i) - 1
<1>1. Min(S) \in S /\ \A y \in S : Min(S) <= y
  BY MinIsLeast DEF IsPlaces
<1>2. Upto(S \ {Min(S)}, i) = Upto(S, i) \ {Min(S)} /\ Min(S) \in Upto(S, i)
  BY <1>1 DEF Upto
<1> QED
  BY <1>2, RankType, FS_RemoveElement DEF Rank

-----------------------------------------------------------------------------
(* Functions defined step by step. *)

\* What holds at 0 and passes from every number to the next holds up to n.
LEMMA StepByStep ==
  ASSUME NEW n \in Nat, NEW S, 0 \in S, \A i \in 1 .. n : i - 1 \in S => i \in S
  PROVE  0 .. n \subseteq S
<1> DEFINE R == (0 .. n) \ S
<1>1. SUFFICES ASSUME R # {} PROVE FALSE
  OBVIOUS
<1>2. R \in SUBSET Nat
  OBVIOUS
<1> DEFINE m == Min(R)
<1>3. m \in R /\ \A i \in R : m <= i
  BY <1>1, <1>2, MinIsLeast
<1> HIDE DEF m
<1>4. m \in 1 .. n
  BY <1>3
<1>5. m - 1 \in 0 .. n /\ ~(m <= m - 1)
  BY <1>4
<1>6. m - 1 \in S
  BY <1>3, <1>5
<1> QED
  BY <1>3, <1>4, <1>6

Follows(f, n, first, step) ==
    f[0] = first /\ \A i \in 1 .. n : f[i] = step[i][f[i - 1]]

\* There is one for every beginning and every way to go on.
LEMMA StepsExist ==
  ASSUME NEW n \in Nat, NEW T, NEW first \in T, NEW step \in [1 .. n -> [T -> T]]
  PROVE  \E f \in [0 .. n -> T] : Follows(f, n, first, step)
<1> DEFINE Begun(k) == \E f \in [0 .. k -> T] : Follows(f, k, first, step)
           S == {k \in 0 .. n : ~Begun(k)}
<1>1. SUFFICES ASSUME S # {} PROVE FALSE
  <2>1. SUFFICES Begun(n)
    OBVIOUS
  <2> HIDE DEF Begun
  <2>2. n \in 0 .. n
    OBVIOUS
  <2> QED
    BY <2>2
<1>2. S \in SUBSET Nat
  OBVIOUS
<1> DEFINE m == Min(S)
<1>3. m \in S /\ \A k \in S : m <= k
  BY <1>1, <1>2, MinIsLeast
<1> HIDE DEF m
<1>4. m # 0
  <2> DEFINE f == [k \in 0 .. 0 |-> first]
  <2>1. f \in [0 .. 0 -> T] /\ Follows(f, 0, first, step)
    BY DEF Follows
  <2>2. Begun(0)
    BY <2>1
  <2> QED
    BY <1>3, <2>2
<1>5. m \in 1 .. n /\ m - 1 \in 0 .. n /\ ~(m <= m - 1)
  BY <1>3, <1>4
<1>6. Begun(m - 1)
  BY <1>3, <1>5
<1>7. PICK f \in [0 .. m - 1 -> T] :
         f[0] = first /\ \A i \in 1 .. m - 1 : f[i] = step[i][f[i - 1]]
  BY <1>6 DEF Follows
<1> DEFINE g == [k \in 0 .. m |-> IF k = m THEN step[m][f[m - 1]] ELSE f[k]]
<1>8. step[m][f[m - 1]] \in T
  BY <1>5, <1>7
<1>9. g \in [0 .. m -> T] /\ g[0] = first
  BY <1>5, <1>7, <1>8
<1>10. ASSUME NEW i \in 1 .. m PROVE g[i] = step[i][g[i - 1]]
  <2>1. i - 1 \in 0 .. m /\ i - 1 # m /\ i \in 0 .. m
    BY <1>5
  <2>2. g[i - 1] = f[i - 1]
    BY <2>1
  <2>3. CASE i = m
    BY <2>1, <2>2, <2>3
  <2>4. CASE i # m
    <3>1. i \in 1 .. m - 1
      BY <1>5, <2>4
    <3> QED
      BY <1>7, <2>1, <2>2, <2>4, <3>1
  <2> QED
    BY <2>3, <2>4
<1> HIDE DEF g
<1>11. Begun(m)
  BY <1>9, <1>10 DEF Follows
<1> QED
  BY <1>3, <1>11

-----------------------------------------------------------------------------
(* Sequences that are one element longer. *)

LEMMA AppendIs ==
  ASSUME NEW T, NEW s \in Seq(T), NEW x \in T, NEW m \in Seq(T), Len(m) = Len(s) + 1,
         \A i \in 1 .. Len(s) : m[i] = s[i], m[Len(s) + 1] = x
  PROVE  m = Append(s, x)
<1> DEFINE a == Append(s, x)
<1>1. /\ a \in Seq(T) /\ Len(a) = Len(s) + 1 /\ Len(s) \in Nat
      /\ \A i \in 1 .. Len(s) : a[i] = s[i]
      /\ a[Len(s) + 1] = x
  OBVIOUS
<1> HIDE DEF a
<1>2. \A i \in 1 .. Len(a) : m[i] = a[i]
  BY <1>1
<1> QED
  BY <1>1, <1>2, SeqEqual DEF a

-----------------------------------------------------------------------------
(* What is expected and due, one line after the other. *)

LEMMA ExpectationsIs ==
  ASSUME NEW S, NEW afters \in Seq(S), "IDLE" \in S
  PROVE  /\ Expectations(afters) \in [0 .. Len(afters) -> S]
         /\ Expectations(afters)[0] = "IDLE"
         /\ \A n \in 1 .. Len(afters) :
               Expectations(afters)[n] =
                  IF Expectations(afters)[n - 1] = "IDLE" THEN afters[n] ELSE "IDLE"
<1> DEFINE N == Len(afters)
           next(n, s) == IF n > 0 /\ s = "IDLE" THEN afters[n] ELSE "IDLE"
           step == [n \in 1 .. N |-> [s \in S |-> next(n, s)]]
           Is(f) == f = [n \in 0 .. N |-> next(n, f[n - 1])]
           e == Expectations(afters)
<1>1. N \in Nat /\ \A n \in 1 .. N : afters[n] \in S
  BY LenProperties, ElementOfSeq
<1>2. /\ \A n \in 1 .. N : \A s : next(n, s) = IF s = "IDLE" THEN afters[n] ELSE "IDLE"
      /\ \A s : next(0, s) = "IDLE"
  OBVIOUS
<1>3. e = CHOOSE f : Is(f)
  BY DEF Expectations
<1> HIDE DEF next, N
<1>4. step \in [1 .. N -> [S -> S]]
  BY <1>1, <1>2
<1>5. PICK f \in [0 .. N -> S] :
         f[0] = "IDLE" /\ \A n \in 1 .. N : f[n] = step[n][f[n - 1]]
  <2> HIDE DEF step
  <2>1. \E f \in [0 .. N -> S] : Follows(f, N, "IDLE", step)
    BY <1>1, <1>4, StepsExist, Zenon
  <2> QED
    BY <2>1 DEF Follows
<1>6. Is(f)
  <2>1. ASSUME NEW n \in 0 .. N PROVE f[n] = next(n, f[n - 1])
    <3>1. CASE n = 0
      BY <1>2, <1>5, <3>1
    <3>2. CASE n # 0
      <4>1. n \in 1 .. N /\ n - 1 \in 0 .. N
        BY <1>1, <3>2
      <4> QED
        BY <1>5, <4>1
    <3> QED
      BY <3>1, <3>2
  <2> QED
    BY <2>1
<1>7. Is(e)
  <2> HIDE DEF Is, e
  <2> QED
    BY <1>3, <1>6
<1> HIDE DEF e
<1>8. /\ e[0] = "IDLE"
      /\ \A n \in 1 .. N : e[n] = IF e[n - 1] = "IDLE" THEN afters[n] ELSE "IDLE"
  BY <1>1, <1>2, <1>7
<1>9. e \in [0 .. N -> S]
  <2>1. \A n \in 0 .. N : e[n] \in S
    BY <1>1, <1>8
  <2>2. e = [n \in 0 .. N |-> e[n]]
    BY <1>7
  <2> QED
    BY <2>1, <2>2
<1> QED
  BY <1>8, <1>9 DEF e, N

LEMMA ExpectationsGrow ==
  ASSUME NEW S, NEW afters \in Seq(S), NEW after \in S, "IDLE" \in S
  PROVE  LET more == Append(afters, after)
             N == Len(afters)
         IN  /\ \A n \in 0 .. N : Expectations(more)[n] = Expectations(afters)[n]
             /\ Expectations(more)[N + 1] =
                   IF Expectations(afters)[N] = "IDLE" THEN after ELSE "IDLE"
<1> DEFINE more == Append(afters, after)
           N == Len(afters)
           e == Expectations(afters)
           m == Expectations(more)
<1>1. /\ N \in Nat /\ more \in Seq(S) /\ Len(more) = N + 1
      /\ more[N + 1] = after /\ \A n \in 1 .. N : more[n] = afters[n]
  OBVIOUS
<1>2. /\ e[0] = "IDLE"
      /\ \A n \in 1 .. N : e[n] = IF e[n - 1] = "IDLE" THEN afters[n] ELSE "IDLE"
  BY ExpectationsIs
<1>3. /\ m[0] = "IDLE"
      /\ \A n \in 1 .. N + 1 : m[n] = IF m[n - 1] = "IDLE" THEN more[n] ELSE "IDLE"
  <2> HIDE DEF more
  <2>1. /\ m[0] = "IDLE"
        /\ \A n \in 1 .. Len(more) : m[n] = IF m[n - 1] = "IDLE" THEN more[n] ELSE "IDLE"
    BY <1>1, ExpectationsIs
  <2> QED
    BY <1>1, <2>1
<1> HIDE DEF more, N, e, m
<1> DEFINE A == {n \in 0 .. N : m[n] = e[n]}
<1>4. 0 \in A
  BY <1>1, <1>2, <1>3
<1>5. ASSUME NEW n \in 1 .. N, n - 1 \in A PROVE n \in A
  <2>1. n \in 0 .. N /\ n \in 1 .. N + 1
    BY <1>1
  <2> QED
    BY <1>1, <1>2, <1>3, <1>5, <2>1
<1>6. 0 .. N \subseteq A
  <2> HIDE DEF A
  <2> QED
    BY <1>1, <1>4, <1>5, StepByStep, Zenon
<1>7. m[N + 1] = IF e[N] = "IDLE" THEN after ELSE "IDLE"
  <2>1. N + 1 \in 1 .. N + 1 /\ (N + 1) - 1 = N /\ N \in 0 .. N
    BY <1>1
  <2> QED
    BY <1>1, <1>3, <1>6, <2>1
<1> QED
  BY <1>6, <1>7 DEF more, N, e, m

\* The recursive function of Joined.
LEMMA JoinedIs ==
  ASSUME NEW T, NEW parts \in Seq(Seq(T))
  PROVE  \E d \in [0 .. Len(parts) -> Seq(T)] :
            /\ Joined(parts) = d[Len(parts)] /\ d[0] = <<>>
            /\ \A n \in 1 .. Len(parts) : d[n] = d[n - 1] \o parts[n]
<1> DEFINE N == Len(parts)
           Q == Seq(T)
           next(n, s) == IF n = 0 THEN <<>> ELSE s \o parts[n]
           step == [n \in 1 .. N |-> [s \in Q |-> next(n, s)]]
           Is(f) == f = [n \in 0 .. N |-> next(n, f[n - 1])]
           d == CHOOSE f : Is(f)
<1>1. N \in Nat /\ \A n \in 1 .. N : parts[n] \in Q
  BY LenProperties, ElementOfSeq
<1>2. /\ \A n \in 1 .. N : \A s : next(n, s) = s \o parts[n]
      /\ \A s : next(0, s) = <<>>
  OBVIOUS
<1>3. Joined(parts) = d[N]
  BY DEF Joined
<1>4. <<>> \in Q /\ \A s \in Q, t \in Q : s \o t \in Q
  BY EmptySeq, ConcatProperties
<1> HIDE DEF next, N, Q
<1>5. step \in [1 .. N -> [Q -> Q]]
  BY <1>1, <1>2, <1>4
<1>6. PICK f \in [0 .. N -> Q] : f[0] = <<>> /\ \A n \in 1 .. N : f[n] = step[n][f[n - 1]]
  <2> HIDE DEF step
  <2>1. \E f \in [0 .. N -> Q] : Follows(f, N, <<>>, step)
    BY <1>1, <1>4, <1>5, StepsExist, Zenon
  <2> QED
    BY <2>1 DEF Follows
<1>7. Is(f)
  <2>1. ASSUME NEW n \in 0 .. N PROVE f[n] = next(n, f[n - 1])
    <3>1. CASE n = 0
      BY <1>2, <1>6, <3>1
    <3>2. CASE n # 0
      <4>1. n \in 1 .. N /\ n - 1 \in 0 .. N
        BY <1>1, <3>2
      <4> QED
        BY <1>6, <4>1
    <3> QED
      BY <3>1, <3>2
  <2> QED
    BY <2>1
<1>8. Is(d)
  <2> HIDE DEF Is
  <2> QED
    BY <1>7
<1> HIDE DEF d
<1>9. d[0] = <<>> /\ \A n \in 1 .. N : d[n] = d[n - 1] \o parts[n]
  BY <1>1, <1>2, <1>8
<1> DEFINE A == {n \in 0 .. N : d[n] \in Q}
<1>10. 0 .. N \subseteq A
  <2>1. 0 \in A
    BY <1>1, <1>4, <1>9
  <2>2. ASSUME NEW n \in 1 .. N, n - 1 \in A PROVE n \in A
    <3>1. n \in 0 .. N /\ d[n - 1] \in Q /\ parts[n] \in Q
      BY <1>1, <2>2
    <3>2. d[n] = d[n - 1] \o parts[n]
      BY <1>9
    <3>3. d[n - 1] \o parts[n] \in Q
      BY <1>4, <3>1
    <3> QED
      BY <3>1, <3>2, <3>3
  <2> HIDE DEF A
  <2> QED
    BY <1>1, <2>1, <2>2, StepByStep, Zenon
<1>11. d \in [0 .. N -> Q]
  <2>1. d = [n \in 0 .. N |-> d[n]]
    BY <1>8
  <2> QED
    BY <1>10, <2>1
<1> QED
  BY <1>3, <1>9, <1>11 DEF N, Q

LEMMA JoinedGrow ==
  ASSUME NEW T, NEW parts \in Seq(Seq(T)), NEW part \in Seq(T)
  PROVE  /\ Joined(parts) \in Seq(T)
         /\ Joined(Append(parts, part)) = Joined(parts) \o part
<1> DEFINE more == Append(parts, part)
           N == Len(parts)
<1>1. /\ N \in Nat /\ more \in Seq(Seq(T)) /\ Len(more) = N + 1
      /\ more[N + 1] = part /\ \A n \in 1 .. N : more[n] = parts[n]
  OBVIOUS
<1>2. PICK d \in [0 .. N -> Seq(T)] :
         /\ Joined(parts) = d[N] /\ d[0] = <<>>
         /\ \A n \in 1 .. N : d[n] = d[n - 1] \o parts[n]
  BY JoinedIs
<1> HIDE DEF more
<1>3. PICK m \in [0 .. N + 1 -> Seq(T)] :
         /\ Joined(more) = m[N + 1] /\ m[0] = <<>>
         /\ \A n \in 1 .. N + 1 : m[n] = m[n - 1] \o more[n]
  <2>1. \E m \in [0 .. Len(more) -> Seq(T)] :
           /\ Joined(more) = m[Len(more)] /\ m[0] = <<>>
           /\ \A n \in 1 .. Len(more) : m[n] = m[n - 1] \o more[n]
    BY <1>1, JoinedIs
  <2> QED
    BY <1>1, <2>1
<1> HIDE DEF N
<1> DEFINE A == {n \in 0 .. N : m[n] = d[n]}
<1>4. 0 \in A
  BY <1>1, <1>2, <1>3
<1>5. ASSUME NEW n \in 1 .. N, n - 1 \in A PROVE n \in A
  <2>1. n \in 0 .. N /\ n \in 1 .. N + 1
    BY <1>1
  <2> QED
    BY <1>1, <1>2, <1>3, <1>5, <2>1
<1>6. 0 .. N \subseteq A
  <2> HIDE DEF A
  <2> QED
    BY <1>1, <1>4, <1>5, StepByStep, Zenon
<1>7. m[N + 1] = d[N] \o part
  <2>1. N + 1 \in 1 .. N + 1 /\ (N + 1) - 1 = N /\ N \in 0 .. N
    BY <1>1
  <2> QED
    BY <1>1, <1>3, <1>6, <2>1
<1> QED
  BY <1>1, <1>2, <1>3, <1>7 DEF more

LEMMA NothingJoined == Joined(<<>>) = <<>>
<1> DEFINE parts == <<>>
<1>1. parts \in Seq(Seq({})) /\ Len(parts) = 0
  BY EmptySeq
<1> HIDE DEF parts
<1>2. PICK d \in [0 .. Len(parts) -> Seq({})] :
         Joined(parts) = d[Len(parts)] /\ d[0] = <<>>
  BY <1>1, JoinedIs
<1> QED
  BY <1>1, <1>2 DEF parts

-----------------------------------------------------------------------------
(* Replies given and due. *)

LEMMA FitsTogether ==
  ASSUME NEW T, NEW D, NEW given \in Seq(T), NEW more \in Seq(T),
         NEW due \in Seq(D), NEW next \in Seq(D),
         FitsWholly(given, due), Fits(more, next)
  PROVE  /\ Fits(given \o more, due \o next)
         /\ FitsWholly(more, next) => FitsWholly(given \o more, due \o next)
<1> DEFINE g == given \o more
           d == due \o next
           n == Len(due)
<1>1. /\ n \in Nat /\ Len(given) = n /\ Len(more) \in Nat /\ Len(next) \in Nat
      /\ Len(more) <= Len(next)
  BY DEF Fits, FitsWholly
<1>2. /\ Len(g) = n + Len(more) /\ Len(d) = n + Len(next)
      /\ \A i \in 1 .. n + Len(more) : g[i] = IF i <= n THEN given[i] ELSE more[i - n]
      /\ \A i \in 1 .. n + Len(next) : d[i] = IF i <= n THEN due[i] ELSE next[i - n]
  <2>1. /\ Len(g) = Len(given) + Len(more)
        /\ \A i \in 1 .. Len(given) + Len(more) :
              g[i] = IF i <= Len(given) THEN given[i] ELSE more[i - Len(given)]
    BY ConcatProperties
  <2>2. /\ Len(d) = Len(due) + Len(next)
        /\ \A i \in 1 .. Len(due) + Len(next) :
              d[i] = IF i <= Len(due) THEN due[i] ELSE next[i - Len(due)]
    BY ConcatProperties
  <2> HIDE DEF g, d
  <2> QED
    BY <1>1, <2>1, <2>2
<1> HIDE DEF g, d
<1>3. ASSUME NEW i \in 1 .. n + Len(more) PROVE g[i] \in d[i]
  <2>1. i \in 1 .. n + Len(next)
    BY <1>1
  <2>2. CASE i <= n
    <3>1. given[i] \in due[i]
      BY <1>1, <2>2 DEF FitsWholly, Fits
    <3> QED
      BY <1>2, <2>1, <2>2, <3>1
  <2>3. CASE ~(i <= n)
    <3>1. i - n \in 1 .. Len(more)
      BY <1>1, <2>3
    <3>2. more[i - n] \in next[i - n]
      BY <3>1 DEF Fits
    <3> QED
      BY <1>2, <2>1, <2>3, <3>2
  <2> QED
    BY <2>2, <2>3
<1>4. Fits(g, d)
  BY <1>1, <1>2, <1>3 DEF Fits
<1>5. FitsWholly(more, next) => FitsWholly(g, d)
  BY <1>2, <1>4 DEF FitsWholly
<1> QED
  BY <1>4, <1>5 DEF g, d

LEMMA FitsLonger ==
  ASSUME NEW T, NEW D, NEW given \in Seq(T), NEW due \in Seq(D), NEW next \in Seq(D),
         Fits(given, due)
  PROVE  Fits(given, due \o next)
<1> DEFINE d == due \o next
<1>1. /\ Len(d) = Len(due) + Len(next) /\ Len(next) \in Nat
      /\ \A i \in 1 .. Len(due) : d[i] = due[i]
  BY ConcatProperties
<1> HIDE DEF d
<1>2. Len(given) \in Nat /\ Len(due) \in Nat /\ Len(given) <= Len(due)
  BY DEF Fits
<1>3. ASSUME NEW i \in 1 .. Len(given) PROVE given[i] \in d[i]
  BY <1>1, <1>2 DEF Fits
<1> QED
  BY <1>1, <1>2, <1>3 DEF Fits, d

=============================================================================
