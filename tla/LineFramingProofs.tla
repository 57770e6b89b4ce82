--------------------------- MODULE LineFramingProofs ---------------------------
(***************************************************************************)
(* That the handler is called with exactly the lines of what was received, *)
(* for any text a client sends, any limit of recv and any way in which TCP *)
(* cuts the text into pieces; and that reading such a line with getline    *)
(* comes to what its comma-separated fields say.                           *)
(***************************************************************************)
EXTENDS DataLineStream, PlacesProofs, SequenceTheorems

-----------------------------------------------------------------------------
(* Newlines and the lines between them. *)

NewlinesTo(chars, i) == Rank(NewlinesAt(chars), i)

LEMMA NewlinesFinite ==
  ASSUME NEW C, NEW chars \in Seq(C)
  PROVE  /\ NewlinesAt(chars) \subseteq 1 .. Len(chars)
         /\ IsPlaces(NewlinesAt(chars))
         /\ \A i : NewlinesTo(chars, i) \in Nat
<1>1. NewlinesAt(chars) \subseteq 1 .. Len(chars) /\ Len(chars) \in Nat
  BY LenProperties DEF NewlinesAt
<1>2. IsPlaces(NewlinesAt(chars))
  <2>1. IsFiniteSet(1 .. Len(chars))
    BY <1>1, FS_Interval
  <2>2. NewlinesAt(chars) \in SUBSET (1 .. Len(chars)) /\ NewlinesAt(chars) \in SUBSET Nat
    BY <1>1
  <2> QED
    BY <2>1, <2>2, FS_Subset DEF IsPlaces
<1> QED
  BY <1>1, <1>2, RankType DEF NewlinesTo

LEMMA NewlineHere ==
  ASSUME NEW C, NEW chars \in Seq(C), NEW i
  PROVE  i \in NewlinesAt(chars) <=> i \in 1 .. Len(chars) /\ chars[i] = Newline
BY LenProperties DEF NewlinesAt

\* The k-th newline is the only one with k newlines up to it.
LEMMA LineEndIs ==
  ASSUME NEW C, NEW chars \in Seq(C), NEW i \in NewlinesAt(chars),
         NEW k \in Nat \ {0}, NewlinesTo(chars, i) = k
  PROVE  LineEnd(chars, k) = i
BY NewlinesFinite, NthIs DEF LineEnd, NewlinesTo

\* A line that ends within a prefix is a line of the prefix.
LEMMA PrefixNewlines ==
  ASSUME NEW C, NEW chars \in Seq(C), NEW r \in 0 .. Len(chars)
  PROVE  /\ SubSeq(chars, 1, r) \in Seq(C) /\ Len(SubSeq(chars, 1, r)) = r
         /\ NewlinesAt(SubSeq(chars, 1, r)) = {x \in NewlinesAt(chars) : x <= r}
         /\ \A i \in 0 .. r :
               NewlinesTo(SubSeq(chars, 1, r), i) = NewlinesTo(chars, i)
<1> DEFINE prefix == SubSeq(chars, 1, r)
<1>1. prefix \in Seq(C) /\ Len(prefix) = r /\ \A x \in 1 .. r : prefix[x] = chars[x]
  OBVIOUS
<1> HIDE DEF prefix
<1>2. NewlinesAt(prefix) = {x \in NewlinesAt(chars) : x <= r}
  BY <1>1 DEF NewlinesAt
<1>3. ASSUME NEW i \in 0 .. r
      PROVE  NewlinesTo(prefix, i) = NewlinesTo(chars, i)
  <2>1. {x \in NewlinesAt(prefix) : x <= i} = {x \in NewlinesAt(chars) : x <= i}
    BY <1>2, NewlinesFinite
  <2> QED
    BY <2>1 DEF NewlinesTo, Rank, Upto
<1> QED
  BY <1>1, <1>2, <1>3 DEF prefix

LEMMA PrefixPart ==
  ASSUME NEW C, NEW chars \in Seq(C), NEW r \in 0 .. Len(chars),
         NEW a \in Nat \ {0}, NEW b \in Nat, b <= r
  PROVE  SubSeq(SubSeq(chars, 1, r), a, b) = SubSeq(chars, a, b)
<1> DEFINE part == SubSeq(SubSeq(chars, 1, r), a, b)
           same == SubSeq(chars, a, b)
<1>1. /\ part \in Seq(C) /\ same \in Seq(C) /\ Len(part) = Len(same)
      /\ \A x \in 1 .. Len(part) : part[x] = same[x]
  OBVIOUS
<1> HIDE DEF part, same
<1>2. part = same
  BY <1>1, SeqEqual
<1> QED
  BY <1>2 DEF part, same

\* The k-th line ends at a newline with k newlines up to it, no later than i.
EndsBy(chars, k, i) ==
    /\ LineEnd(chars, k) \in NewlinesAt(chars) /\ LineEnd(chars, k) <= i
    /\ NewlinesTo(chars, LineEnd(chars, k)) = k

LEMMA PrefixLine ==
  ASSUME NEW C, NEW chars \in Seq(C), NEW r \in 0 .. Len(chars),
         NEW k \in Nat \ {0}, EndsBy(chars, k, r),
         k # 1 => EndsBy(chars, k - 1, r)
  PROVE  Line(SubSeq(chars, 1, r), k) = Line(chars, k)
<1> DEFINE prefix == SubSeq(chars, 1, r)
<1>1. ASSUME NEW n \in Nat \ {0}, EndsBy(chars, n, r)
      PROVE  LineEnd(prefix, n) = LineEnd(chars, n) /\ LineEnd(chars, n) \in 1 .. r
  <2>1. LineEnd(chars, n) \in 1 .. r
    BY <1>1, NewlinesFinite DEF EndsBy
  <2>2. /\ LineEnd(chars, n) \in NewlinesAt(prefix)
        /\ NewlinesTo(prefix, LineEnd(chars, n)) = n
    BY <1>1, <2>1, PrefixNewlines DEF EndsBy
  <2>3. prefix \in Seq(C)
    OBVIOUS
  <2> QED
    BY <2>1, <2>2, <2>3, LineEndIs
<1>2. LineEnd(prefix, k) = LineEnd(chars, k) /\ LineEnd(chars, k) \in 1 .. r
  BY <1>1
<1>3. LineEnd(prefix, k - 1) = LineEnd(chars, k - 1) /\ LineEnd(chars, k - 1) \in 0 .. r
  <2>1. CASE k = 1
    BY <2>1 DEF LineEnd
  <2>2. CASE k # 1
    BY <1>1, <2>2
  <2> QED
    BY <2>1, <2>2
<1>4. SubSeq(prefix, LineEnd(chars, k - 1) + 1, LineEnd(chars, k) - 1)
        = SubSeq(chars, LineEnd(chars, k - 1) + 1, LineEnd(chars, k) - 1)
  <2>1. /\ LineEnd(chars, k - 1) + 1 \in Nat \ {0} /\ LineEnd(chars, k) - 1 \in Nat
        /\ LineEnd(chars, k) - 1 <= r
    BY <1>2, <1>3
  <2> QED
    BY <2>1, PrefixPart
<1> QED
  BY <1>2, <1>3, <1>4 DEF Line

-----------------------------------------------------------------------------
(* What was received is the messages taken from it and the buffer. *)

\* How much of the input was cut into messages.
Taken == Len(input) - Len(arriving) - Len(buffer)

FramingTyped ==
    /\ input \in Seq(STRING) /\ arriving \in Seq(STRING) /\ buffer \in Seq(STRING)
    /\ messages \in Seq(Seq(STRING)) /\ closed \in BOOLEAN
    /\ Len(arriving) + Len(buffer) <= Len(input)

BytesInOrder ==
    /\ \A i \in 1 .. Len(buffer) : buffer[i] = input[Taken + i]
    /\ \A i \in 1 .. Len(arriving) : arriving[i] = input[Taken + Len(buffer) + i]

CutAtNewlines ==
    /\ NewlinesTo(input, Taken) = Len(messages)
    /\ LineEnd(input, Len(messages)) = Taken
    /\ \A k \in 1 .. Len(messages) :
          EndsBy(input, k, Taken) /\ messages[k] = Line(input, k)

FramingInv == FramingTyped /\ BytesInOrder /\ CutAtNewlines

LEMMA FramingInvInit ==
  ASSUME FramingInit
  PROVE  FramingInv
<1>1. input \in Seq(STRING) /\ arriving = input /\ buffer = <<>> /\ messages = <<>>
      /\ closed = FALSE
  BY FramingConstants DEF FramingInit
<1>2. FramingTyped /\ Taken = 0
  <2>1. Len(buffer) = 0 /\ Len(arriving) = Len(input) /\ Len(input) \in Nat
        /\ buffer \in Seq(STRING) /\ messages \in Seq(Seq(STRING))
    BY <1>1
  <2>2. Taken = 0 /\ Len(arriving) + Len(buffer) <= Len(input)
    BY <2>1 DEF Taken
  <2> QED
    BY <1>1, <2>1, <2>2 DEF FramingTyped
<1>3. BytesInOrder
  BY <1>1, <1>2 DEF BytesInOrder
<1>4. NewlinesTo(input, 0) = 0
  <2>1. {j \in NewlinesAt(input) : j <= 0} = {}
    BY <1>1, NewlinesFinite
  <2> QED
    BY <2>1, FS_EmptySet DEF NewlinesTo, Rank, Upto
<1>5. CutAtNewlines
  BY <1>1, <1>2, <1>4 DEF CutAtNewlines, LineEnd
<1> QED
  BY <1>2, <1>3, <1>5 DEF FramingInv

LEMMA ReceiveKeeps ==
  ASSUME FramingInv, NEW n \in 1 .. Min({RecvLimit, Len(arriving)}), Receive(n)
  PROVE  FramingInv'
<1> USE DEF FramingInv, FramingTyped
<1>1. n \in 1 .. Len(arriving)
  <2>1. {RecvLimit, Len(arriving)} \in SUBSET Nat
    BY FramingConstants
  <2>2. Min({RecvLimit, Len(arriving)}) <= Len(arriving)
        /\ Min({RecvLimit, Len(arriving)}) \in Nat
    BY <2>1, MinIsLeast
  <2> QED
    BY <2>2
<1> DEFINE piece == SubSeq(arriving, 1, n)
           rest  == SubSeq(arriving, n + 1, Len(arriving))
<1>2. /\ piece \in Seq(STRING) /\ Len(piece) = n
      /\ \A i \in 1 .. n : piece[i] = arriving[i]
      /\ rest \in Seq(STRING) /\ Len(rest) = Len(arriving) - n
      /\ \A i \in 1 .. Len(arriving) - n : rest[i] = arriving[n + i]
  BY <1>1
<1>3. buffer' = buffer \o piece /\ arriving' = rest /\ UNCHANGED <<messages, closed, input>>
  BY DEF Receive
<1> HIDE DEF piece, rest
<1>4. /\ buffer' \in Seq(STRING) /\ Len(buffer') = Len(buffer) + n
      /\ \A i \in 1 .. Len(buffer) + n :
            buffer'[i] = IF i <= Len(buffer) THEN buffer[i] ELSE piece[i - Len(buffer)]
  <2>1. /\ buffer \o piece \in Seq(STRING)
        /\ Len(buffer \o piece) = Len(buffer) + Len(piece)
        /\ \A i \in 1 .. Len(buffer) + Len(piece) : (buffer \o piece)[i] =
              IF i <= Len(buffer) THEN buffer[i] ELSE piece[i - Len(buffer)]
    <3>1. buffer \in Seq(STRING) /\ piece \in Seq(STRING)
      BY <1>2
    <3> QED
      BY <3>1, ConcatProperties, Zenon
  <2> QED
    BY <1>2, <1>3, <2>1, Zenon
<1>5. FramingTyped' /\ Taken' = Taken
  <2>1. Len(buffer') = Len(buffer) + n /\ Len(arriving') = Len(arriving) - n
        /\ Len(input') = Len(input)
    BY <1>2, <1>3, <1>4
  <2>2. Len(input) \in Nat /\ Len(arriving) \in Nat /\ Len(buffer) \in Nat /\ n \in Nat
    OBVIOUS
  <2>3. Taken' = Taken /\ Len(arriving') + Len(buffer') <= Len(input')
    BY <2>1, <2>2 DEF Taken
  <2> QED
    BY <1>2, <1>3, <1>4, <2>3
<1>6. BytesInOrder'
  <2>1. Taken \in Nat
    BY DEF Taken
  <2>2. ASSUME NEW i \in 1 .. Len(buffer') PROVE buffer'[i] = input'[Taken' + i]
    <3>1. CASE i <= Len(buffer)
      BY <1>3, <1>4, <1>5, <2>2, <3>1 DEF BytesInOrder
    <3>2. CASE ~(i <= Len(buffer))
      <4>1. i - Len(buffer) \in 1 .. n
        BY <1>1, <1>4, <2>2, <3>2
      <4>2. buffer'[i] = arriving[i - Len(buffer)]
        BY <1>2, <1>4, <2>2, <3>2, <4>1
      <4>3. arriving[i - Len(buffer)] = input[Taken + Len(buffer) + (i - Len(buffer))]
        BY <1>1, <4>1 DEF BytesInOrder
      <4>4. Taken + Len(buffer) + (i - Len(buffer)) = Taken + i
        BY <2>1
      <4> QED
        BY <1>3, <1>5, <4>2, <4>3, <4>4
    <3> QED
      BY <3>1, <3>2
  <2>3. ASSUME NEW i \in 1 .. Len(arriving')
        PROVE  arriving'[i] = input'[Taken' + Len(buffer') + i]
    <3>1. n + i \in 1 .. Len(arriving) /\ arriving'[i] = arriving[n + i]
      BY <1>1, <1>2, <1>3, <2>3
    <3>2. arriving[n + i] = input[Taken + Len(buffer) + (n + i)]
      BY <3>1 DEF BytesInOrder
    <3>3. Taken + Len(buffer) + (n + i) = Taken' + Len(buffer') + i
      BY <1>1, <1>4, <1>5, <2>1, <2>3
    <3> QED
      BY <1>3, <3>1, <3>2, <3>3
  <2> QED
    BY <2>2, <2>3 DEF BytesInOrder
<1>7. CutAtNewlines'
  BY <1>3, <1>5 DEF CutAtNewlines, EndsBy
<1> QED
  BY <1>5, <1>6, <1>7

LEMMA TakeMessageKeeps ==
  ASSUME FramingInv, TakeMessage
  PROVE  FramingInv'
<1> USE DEF FramingInv, FramingTyped
<1> DEFINE pos  == Min(NewlinesAt(buffer))
           line == SubSeq(buffer, 1, pos - 1)
           rest == SubSeq(buffer, pos + 1, Len(buffer))
           m    == Len(messages)
<1>1. /\ pos \in NewlinesAt(buffer) /\ pos \in 1 .. Len(buffer)
      /\ \A y \in NewlinesAt(buffer) : pos <= y
  <2>1. NewlinesAt(buffer) \in SUBSET Nat /\ NewlinesAt(buffer) # {}
        /\ NewlinesAt(buffer) \subseteq 1 .. Len(buffer)
    BY NewlinesFinite DEF TakeMessage
  <2> QED
    BY <2>1, MinIsLeast
<1>2. /\ messages' = Append(messages, Chomp(line)) /\ buffer' = rest
      /\ UNCHANGED <<arriving, input>> /\ closed' \in BOOLEAN
  BY DEF TakeMessage
<1> HIDE DEF pos
<1>3. /\ line \in Seq(STRING) /\ Len(line) = pos - 1
      /\ \A i \in 1 .. pos - 1 : line[i] = buffer[i]
      /\ rest \in Seq(STRING) /\ Len(rest) = Len(buffer) - pos
      /\ \A i \in 1 .. Len(buffer) - pos : rest[i] = buffer[pos + i]
  BY <1>1
<1>4. Chomp(line) \in Seq(STRING)
  <2>1. CASE line # <<>> /\ Last(line) = Return
    <3>1. Front(line) \in Seq(STRING)
      BY <1>3, <2>1 DEF Front
    <3> QED
      BY <2>1, <3>1 DEF Chomp
  <2>2. CASE ~(line # <<>> /\ Last(line) = Return)
    BY <1>3, <2>2 DEF Chomp
  <2> QED
    BY <2>1, <2>2
<1> HIDE DEF rest
<1>5. FramingTyped' /\ Taken' = Taken + pos /\ Taken \in Nat /\ Len(messages') = m + 1
  BY <1>1, <1>2, <1>3, <1>4 DEF Taken
<1>6. BytesInOrder'
  <2>1. ASSUME NEW i \in 1 .. Len(buffer') PROVE buffer'[i] = input'[Taken' + i]
    <3>1. pos + i \in 1 .. Len(buffer) /\ buffer'[i] = buffer[pos + i]
      BY <1>1, <1>2, <1>3, <2>1
    <3>2. Taken + (pos + i) = Taken' + i
      BY <1>1, <1>5, <2>1
    <3> QED
      BY <1>2, <3>1, <3>2 DEF BytesInOrder
  <2>2. ASSUME NEW i \in 1 .. Len(arriving')
        PROVE  arriving'[i] = input'[Taken' + Len(buffer') + i]
    <3>1. Taken' + Len(buffer') + i = Taken + Len(buffer) + i
      BY <1>1, <1>2, <1>3, <1>5, <2>2
    <3> QED
      BY <1>2, <2>2, <3>1 DEF BytesInOrder
  <2> QED
    BY <2>1, <2>2 DEF BytesInOrder
<1>7. /\ Taken + pos \in NewlinesAt(input)
      /\ \A x \in NewlinesAt(input) : x <= Taken \/ Taken + pos <= x
  <2>1. Taken + pos \in 1 .. Len(input) /\ Taken + Len(buffer) <= Len(input)
    BY <1>1, <1>5 DEF Taken
  <2>2. ASSUME NEW i \in 1 .. Len(buffer)
        PROVE  Taken + i \in NewlinesAt(input) <=> i \in NewlinesAt(buffer)
    <3>1. Taken + i \in 1 .. Len(input)
      BY <1>5, <2>1, <2>2
    <3>2. buffer[i] = input[Taken + i]
      BY <2>2 DEF BytesInOrder
    <3> QED
      BY <2>2, <3>1, <3>2, NewlineHere
  <2>3. Taken + pos \in NewlinesAt(input)
    BY <1>1, <2>2
  <2>4. ASSUME NEW x \in NewlinesAt(input), Taken < x, x < Taken + pos PROVE FALSE
    <3>1. x - Taken \in 1 .. Len(buffer) /\ Taken + (x - Taken) = x /\ x - Taken < pos
      BY <1>1, <1>5, <2>1, <2>4, NewlinesFinite
    <3>2. x - Taken \in NewlinesAt(buffer)
      BY <2>2, <2>4, <3>1
    <3> QED
      BY <1>1, <3>1, <3>2
  <2>5. \A x \in NewlinesAt(input) : x \in Nat
    BY NewlinesFinite
  <2> QED
    BY <1>1, <1>5, <2>3, <2>4, <2>5
<1>8. NewlinesTo(input, Taken + pos) = m + 1
  <2>1. Taken < Taken + pos
    BY <1>1, <1>5
  <2> QED
    BY <1>5, <1>7, <2>1, RankNext, NewlinesFinite DEF CutAtNewlines, NewlinesTo
<1>9. LineEnd(input, m + 1) = Taken + pos
  <2>1. m + 1 \in Nat \ {0}
    OBVIOUS
  <2> QED
    BY <1>7, <1>8, <2>1, LineEndIs
<1>10. Chomp(line) = Line(input, m + 1)
  <2> DEFINE same == SubSeq(input, Taken + 1, (Taken + pos) - 1)
  <2>1. /\ same \in Seq(STRING) /\ Len(same) = pos - 1
        /\ \A i \in 1 .. pos - 1 : same[i] = input[Taken + i]
    <3>1. /\ Taken + pos - 1 <= Len(input) /\ Taken \in Nat /\ pos \in Nat \ {0}
      BY <1>1, <1>5 DEF Taken
    <3> QED
      BY <3>1
  <2>2. \A i \in 1 .. pos - 1 : line[i] = input[Taken + i]
    BY <1>1, <1>3 DEF BytesInOrder
  <2> HIDE DEF line, same
  <2>3. line = same
    <3>1. Len(line) = Len(same) /\ \A i \in 1 .. Len(line) : line[i] = same[i]
      BY <1>3, <2>1, <2>2
    <3> QED
      BY <1>3, <2>1, <3>1, SeqEqual
  <2>4. LineEnd(input, (m + 1) - 1) = Taken
    <3>1. (m + 1) - 1 = m
      OBVIOUS
    <3> QED
      BY <3>1, Zenon DEF CutAtNewlines, FramingInv
  <2>5. SubSeq(input, LineEnd(input, (m + 1) - 1) + 1, LineEnd(input, m + 1) - 1) = same
    BY <1>9, <2>4, Zenon DEF same
  <2> QED
    BY <2>3, <2>5, Zenon DEF Line
<1>11. CutAtNewlines'
  <2>1. ASSUME NEW k \in 1 .. m
        PROVE  EndsBy(input, k, Taken + pos) /\ messages'[k] = Line(input, k)
    <3>1. EndsBy(input, k, Taken) /\ messages[k] = Line(input, k)
      BY <2>1 DEF CutAtNewlines
    <3>2. LineEnd(input, k) \in Nat
      BY <3>1, NewlinesFinite DEF EndsBy
    <3>3. messages'[k] = messages[k]
      BY <1>2, <1>4, <2>1
    <3> QED
      BY <1>1, <1>5, <3>1, <3>2, <3>3 DEF EndsBy
  <2>2. EndsBy(input, m + 1, Taken + pos) /\ messages'[m + 1] = Line(input, m + 1)
    <3>1. messages'[m + 1] = Chomp(line)
      BY <1>2, <1>4
    <3>2. Taken + pos <= Taken + pos
      BY <1>1, <1>5
    <3> QED
      BY <1>7, <1>8, <1>9, <1>10, <3>1, <3>2 DEF EndsBy
  <2>3. \A k \in 1 .. m + 1 :
           EndsBy(input, k, Taken + pos) /\ messages'[k] = Line(input, k)
    BY <2>1, <2>2
  <2> QED
    BY <1>2, <1>5, <1>8, <1>9, <2>3 DEF CutAtNewlines, EndsBy
<1> QED
  BY <1>5, <1>6, <1>11

LEMMA FramingInvStep ==
  ASSUME FramingInv, [FramingNext]_framingVars
  PROVE  FramingInv'
<1>1. CASE FramingNext
  BY <1>1, ReceiveKeeps, TakeMessageKeeps DEF FramingNext
<1>2. CASE UNCHANGED framingVars
  BY <1>2 DEF framingVars, FramingInv, FramingTyped, BytesInOrder, CutAtNewlines, Taken
<1> QED
  BY <1>1, <1>2

-----------------------------------------------------------------------------
(* The theorem. *)

\* Whatever the client sends and however TCP cuts it, the handler is called with
\* the complete lines of what was received, each once and in order, and with all
\* of them before recv is called again (threaded_server.cpp 94-112).
THEOREM LinesAreExact == FramingSpec => []FramingExact
<1>1. ASSUME FramingInv PROVE FramingExact
  <2> USE DEF FramingInv, FramingTyped
  <2> DEFINE r == Len(input) - Len(arriving)
             m == Len(messages)
             lines == LinesOf(Received)
  <2>1. r \in 0 .. Len(input) /\ Taken \in 0 .. r /\ r = Taken + Len(buffer)
    BY <1>1 DEF Taken
  <2>2. /\ Received \in Seq(STRING) /\ Len(Received) = r
        /\ NewlinesAt(Received) = {x \in NewlinesAt(input) : x <= r}
    <3>1. input \in Seq(STRING)
      BY <1>1
    <3> QED
      BY <2>1, <3>1, PrefixNewlines DEF Received
  <2>3. Cardinality(NewlinesAt(Received)) = NewlinesTo(input, r)
    BY <2>2 DEF NewlinesTo, Rank, Upto
  <2>4. m <= NewlinesTo(input, r) /\ NewlinesTo(input, r) \in Nat /\ m \in Nat
    <3>1. input \in Seq(STRING) /\ NewlinesTo(input, Taken) = m /\ m \in Nat
      BY <1>1 DEF CutAtNewlines
    <3>2. NewlinesTo(input, r) \in Nat
      BY <3>1, NewlinesFinite
    <3>3. Taken \in Nat /\ r \in Nat /\ Taken <= r
      BY <2>1, <3>1
    <3>4. NewlinesTo(input, Taken) <= NewlinesTo(input, r)
      BY <3>1, <3>3, RankMonotone, NewlinesFinite DEF NewlinesTo
    <3> QED
      BY <3>1, <3>2, <3>4
  <2>5. ASSUME NEW k \in 1 .. m PROVE messages[k] = Line(Received, k)
    <3>1. ASSUME NEW n \in 1 .. m PROVE EndsBy(input, n, r)
      <4>1. EndsBy(input, n, Taken)
        BY <1>1, <3>1 DEF CutAtNewlines
      <4>2. LineEnd(input, n) \in Nat
        BY <1>1, <4>1, NewlinesFinite DEF EndsBy
      <4> QED
        BY <2>1, <4>1, <4>2 DEF EndsBy
    <3>2. k \in Nat \ {0} /\ EndsBy(input, k, r) /\ (k # 1 => EndsBy(input, k - 1, r))
      BY <2>4, <2>5, <3>1
    <3>3. Line(Received, k) = Line(input, k)
      BY <1>1, <2>1, <3>2, PrefixLine DEF Received
    <3> QED
      BY <1>1, <2>5, <3>3 DEF CutAtNewlines
  <2>6. /\ DOMAIN lines = 1 .. NewlinesTo(input, r)
        /\ \A k \in 1 .. NewlinesTo(input, r) : lines[k] = Line(Received, k)
    BY <2>3 DEF LinesOf
  <2>7. Len(lines) = NewlinesTo(input, r)
    BY <2>4, <2>6
  <2> HIDE DEF lines
  <2>8. IsPrefix(messages, lines)
    <3>1. SubSeq(messages, 1, m) = [k \in 1 .. m |-> messages[k]]
      BY <1>1
    <3>2. SubSeq(lines, 1, m) = [k \in 1 .. m |-> lines[k]]
      BY <2>4
    <3>3. \A k \in 1 .. m : messages[k] = lines[k]
      BY <2>4, <2>5, <2>6
    <3> QED
      BY <2>4, <2>7, <3>1, <3>2, <3>3 DEF IsPrefix
  <2>9. ASSUME NewlinesAt(buffer) = {} PROVE messages = lines
    <3>1. ASSUME NEW x \in NewlinesAt(input), Taken < x, x <= r PROVE FALSE
      <4>1. x - Taken \in 1 .. Len(buffer) /\ Taken + (x - Taken) = x
        BY <2>1, <3>1, NewlinesFinite, <1>1
      <4>2. x - Taken \in NewlinesAt(buffer)
        BY <1>1, <3>1, <4>1, NewlineHere DEF BytesInOrder
      <4> QED
        BY <2>9, <4>2
    <3>2. {x \in NewlinesAt(input) : x <= r} = {x \in NewlinesAt(input) : x <= Taken}
      <4>1. \A x \in NewlinesAt(input) : x \in Nat
        BY <1>1, NewlinesFinite
      <4> QED
        BY <2>1, <3>1, <4>1
    <3>3. NewlinesTo(input, r) = m
      BY <1>1, <3>2 DEF NewlinesTo, Rank, Upto, CutAtNewlines
    <3>4. /\ messages = [k \in 1 .. m |-> messages[k]]
          /\ lines = [k \in 1 .. m |-> lines[k]]
      BY <1>1, <2>6, <3>3 DEF lines, LinesOf
    <3> QED
      BY <2>5, <2>6, <3>3, <3>4
  <2> QED
    BY <2>8, <2>9 DEF FramingExact, lines
<1> QED
  BY <1>1, FramingInvInit, FramingInvStep, PTL DEF FramingSpec

-----------------------------------------------------------------------------
(* The fields of a message lie between its commas. *)

CommaCount(chars) == Cardinality(Commas(chars))

LEMMA CommasFinite ==
  ASSUME NEW C, NEW chars \in Seq(C)
  PROVE  /\ Commas(chars) \subseteq 1 .. Len(chars)
         /\ IsPlaces(Commas(chars))
         /\ CommaCount(chars) \in Nat
<1>1. Commas(chars) \subseteq 1 .. Len(chars) /\ Len(chars) \in Nat
  BY LenProperties DEF Commas
<1>2. IsPlaces(Commas(chars))
  <2>1. IsFiniteSet(1 .. Len(chars))
    BY <1>1, FS_Interval
  <2>2. Commas(chars) \in SUBSET (1 .. Len(chars)) /\ Commas(chars) \in SUBSET Nat
    BY <1>1
  <2> QED
    BY <2>1, <2>2, FS_Subset DEF IsPlaces
<1> QED
  BY <1>1, <1>2, RankType DEF CommaCount

\* The k-th field ends at the first comma behind the end of the field before it,
\* the last one at the end.
LEMMA FieldEnds ==
  ASSUME NEW C, NEW chars \in Seq(C)
  PROVE  LET n == CommaCount(chars) IN
         /\ FieldEnd(chars, 0) = 0
         /\ FieldEnd(chars, n + 1) = Len(chars) + 1
         /\ \A k \in 1 .. n : FieldEnd(chars, k) \in Commas(chars)
         /\ \A k \in 1 .. n + 1 :
               /\ FieldEnd(chars, k - 1) < FieldEnd(chars, k)
               /\ \A x \in Commas(chars) :
                     x <= FieldEnd(chars, k - 1) \/ FieldEnd(chars, k) <= x
<1> DEFINE S == Commas(chars)
           n == CommaCount(chars)
           E(k) == FieldEnd(chars, k)
<1>1. /\ S \subseteq 1 .. Len(chars) /\ IsPlaces(S) /\ n \in Nat /\ Len(chars) \in Nat
      /\ n = Cardinality(S)
  <2>1. S \subseteq 1 .. Len(chars) /\ IsPlaces(S) /\ n \in Nat
    BY CommasFinite
  <2>2. Len(chars) \in Nat
    BY LenProperties
  <2>3. n = Cardinality(S)
    BY DEF CommaCount
  <2> QED
    BY <2>1, <2>2, <2>3
<1>2. E(0) = 0
  <2>1. Cardinality(Commas(chars)) \in Nat
    BY <1>1
  <2> QED
    BY <2>1 DEF FieldEnd
<1>3. E(n + 1) = Len(chars) + 1
  <2>1. n + 1 # 0 /\ n + 1 \notin 1 .. n
    BY <1>1
  <2> QED
    BY <1>1, <2>1 DEF FieldEnd
<1>4. ASSUME NEW k \in 1 .. n PROVE E(k) \in S /\ Rank(S, E(k)) = k
  <2>1. E(k) = Nth(S, k)
    BY <1>1, <1>4 DEF FieldEnd
  <2> QED
    BY <1>1, <2>1, NthExists
<1> HIDE DEF E, n, S
<1>5. ASSUME NEW x \in S PROVE x \in 1 .. Len(chars) /\ Rank(S, x) \in 1 .. n
  BY <1>1, <1>5, RankOfAll
<1>6. ASSUME NEW k \in 1 .. n + 1
      PROVE  /\ E(k - 1) < E(k)
             /\ \A x \in S : x <= E(k - 1) \/ E(k) <= x
  <2>1. CASE k = 1 /\ n = 0
    <3>1. E(k) = Len(chars) + 1 /\ E(k - 1) = 0
      BY <1>2, <1>3, <2>1
    <3>2. \A x \in S : FALSE
      BY <1>5, <2>1
    <3> QED
      BY <1>1, <3>1, <3>2
  <2>2. CASE k = 1 /\ n # 0
    <3>1. k \in 1 .. n /\ k - 1 = 0 /\ E(k - 1) = 0
      BY <1>1, <1>2, <2>2
    <3>2. E(k) \in S /\ Rank(S, E(k)) = 1
      BY <1>4, <2>2, <3>1
    <3>3. E(k) \in 1 .. Len(chars)
      BY <1>5, <3>2
    <3>4. ASSUME NEW x \in S PROVE E(k) <= x
      <4>1. x \in Nat /\ E(k) \in Nat /\ Rank(S, x) \in 1 .. n
        BY <1>5, <3>3
      <4>2. x < E(k) => Rank(S, x) < 1
        BY <1>1, <3>2, <4>1, RankStrict
      <4> QED
        BY <4>1, <4>2
    <3> QED
      BY <3>1, <3>3, <3>4
  <2>3. CASE k # 1
    <3>1. k - 1 \in 1 .. n
      BY <1>1, <2>3
    <3>2. E(k - 1) \in S /\ Rank(S, E(k - 1)) = k - 1 /\ E(k - 1) \in 1 .. Len(chars)
      BY <1>4, <1>5, <3>1
    <3>3. ASSUME NEW x \in S, E(k - 1) < x PROVE Rank(S, x) \in k .. n
      <4>1. Rank(S, E(k - 1)) < Rank(S, x)
        BY <1>1, <3>2, <3>3, RankStrict
      <4> QED
        BY <1>5, <3>2, <4>1
    <3>4. CASE k = n + 1
      <4>1. E(k) = Len(chars) + 1
        BY <1>3, <3>4
      <4>2. ASSUME NEW x \in S PROVE x <= E(k - 1)
        <5>1. x \in Nat /\ E(k - 1) \in Nat
          BY <1>5, <3>2
        <5>2. ~(E(k - 1) < x)
          BY <1>1, <3>3, <3>4
        <5> QED
          BY <5>1, <5>2
      <4> QED
        BY <1>1, <3>2, <4>1, <4>2
    <3>5. CASE k # n + 1
      <4>1. k \in 1 .. n
        BY <1>1, <3>5
      <4>2. E(k) \in S /\ Rank(S, E(k)) = k /\ E(k) \in 1 .. Len(chars)
        BY <1>4, <1>5, <4>1
      <4>3. E(k - 1) < E(k)
        <5>1. E(k) <= E(k - 1) => Rank(S, E(k)) <= Rank(S, E(k - 1))
          BY <1>1, <3>2, <4>2, RankMonotone
        <5> QED
          BY <3>2, <4>2, <5>1
      <4>4. ASSUME NEW x \in S PROVE x <= E(k - 1) \/ E(k) <= x
        <5>1. x \in Nat /\ E(k - 1) \in Nat /\ E(k) \in Nat /\ Rank(S, x) \in Nat
          BY <1>5, <3>2, <4>2
        <5>2. E(k - 1) < x => k <= Rank(S, x)
          BY <3>3, <4>1, <5>1
        <5>3. x < E(k) => Rank(S, x) < k
          BY <1>1, <4>2, <5>1, RankStrict
        <5> QED
          BY <4>1, <5>1, <5>2, <5>3
      <4> QED
        BY <4>3, <4>4
    <3> QED
      BY <3>4, <3>5
  <2> QED
    BY <2>1, <2>2, <2>3
<1> QED
  BY <1>2, <1>3, <1>4, <1>6 DEF E, n, S

\* What is left after j fields, and where the next one ends in it.
Rest(chars, j) == SubSeq(chars, FieldEnd(chars, j) + 1, Len(chars))

LEMMA RestIs ==
  ASSUME NEW C, NEW chars \in Seq(C), NEW j \in 0 .. CommaCount(chars)
  PROVE  LET rest == Rest(chars, j)
             n == CommaCount(chars)
         IN  /\ rest \in Seq(C)
             /\ FieldAt(chars, j + 1) \in Seq(C)
             /\ j < n => /\ Commas(rest) # {} /\ rest # <<>>
                         /\ SubSeq(rest, Min(Commas(rest)) + 1, Len(rest)) = Rest(chars, j + 1)
                         /\ SubSeq(rest, 1, Min(Commas(rest)) - 1) = FieldAt(chars, j + 1)
             /\ j = n => Commas(rest) = {} /\ rest = FieldAt(chars, j + 1)
<1> DEFINE n == CommaCount(chars)
           L == Len(chars)
           a == FieldEnd(chars, j)
           b == FieldEnd(chars, j + 1)
           rest == Rest(chars, j)
<1>1. L \in Nat /\ n \in Nat /\ Commas(chars) \subseteq 1 .. L /\ j \in Nat
  BY CommasFinite, LenProperties
<1>2. /\ a \in 0 .. L /\ b \in 1 .. L + 1 /\ a < b
      /\ j < n => b \in Commas(chars)
      /\ j = n => b = L + 1
      /\ \A x \in Commas(chars) : x <= a \/ b <= x
  <2>1. j + 1 \in 1 .. n + 1 /\ (j + 1) - 1 = j
    BY <1>1
  <2>2. a < b /\ \A x \in Commas(chars) : x <= a \/ b <= x
    <3> DEFINE k == j + 1
    <3>1. k \in 1 .. n + 1 /\ k - 1 = j
      BY <2>1
    <3> HIDE DEF k
    <3>2. /\ FieldEnd(chars, k - 1) < FieldEnd(chars, k)
          /\ \A x \in Commas(chars) :
                x <= FieldEnd(chars, k - 1) \/ FieldEnd(chars, k) <= x
      BY <3>1, FieldEnds
    <3> QED
      BY <3>1, <3>2 DEF k
  <2>3. a \in 0 .. L
    <3>1. CASE j = 0
      BY <1>1, <3>1, FieldEnds
    <3>2. CASE j # 0
      <4>1. j \in 1 .. n
        BY <1>1, <3>2
      <4> QED
        BY <1>1, <4>1, FieldEnds
    <3> QED
      BY <3>1, <3>2
  <2>4. (j < n => b \in Commas(chars)) /\ (j = n => b = L + 1)
    <3>1. j < n => j + 1 \in 1 .. n
      BY <1>1
    <3> QED
      BY <3>1, FieldEnds
  <2>5. b \in 1 .. L + 1
    <3>1. j < n \/ j = n
      BY <1>1
    <3> QED
      BY <1>1, <2>4, <3>1
  <2> QED
    BY <2>2, <2>3, <2>4, <2>5
<1>3. rest = SubSeq(chars, a + 1, L) /\ FieldAt(chars, j + 1) = SubSeq(chars, a + 1, b - 1)
  <2>1. (j + 1) - 1 = j
    BY <1>1
  <2> QED
    BY <2>1 DEF Rest, FieldAt
<1> HIDE DEF rest, a, b, n
<1>4. /\ rest \in Seq(C) /\ Len(rest) = L - a
      /\ \A i \in 1 .. L - a : rest[i] = chars[a + i]
  BY <1>1, <1>2, <1>3
<1>5. FieldAt(chars, j + 1) \in Seq(C)
  <2>1. SubSeq(chars, a + 1, b - 1) \in Seq(C)
    BY <1>1, <1>2
  <2> QED
    BY <1>3, <2>1
<1>6. \A i : i \in Commas(rest) <=> i \in 1 .. L - a /\ a + i \in Commas(chars)
  <2>1. DOMAIN rest = 1 .. L - a /\ DOMAIN chars = 1 .. L
    BY <1>4, LenProperties
  <2>2. \A i \in 1 .. L - a : a + i \in 1 .. L
    BY <1>1, <1>2
  <2> QED
    BY <1>4, <2>1, <2>2 DEF Commas
<1>7. ASSUME j < n
      PROVE  /\ Commas(rest) # {} /\ rest # <<>>
             /\ SubSeq(rest, Min(Commas(rest)) + 1, Len(rest)) = Rest(chars, j + 1)
             /\ SubSeq(rest, 1, Min(Commas(rest)) - 1) = FieldAt(chars, j + 1)
  <2> DEFINE m == b - a
  <2>1. m \in 1 .. L - a /\ a + m = b /\ b \in Commas(chars) /\ b \in 1 .. L
    BY <1>1, <1>2, <1>7
  <2>2. m \in Commas(rest)
    BY <1>6, <2>1
  <2>3. \A i \in Commas(rest) : m <= i
    <3>1. ASSUME NEW i \in Commas(rest) PROVE m <= i
      <4>1. i \in 1 .. L - a /\ a + i \in Commas(chars)
        BY <1>6
      <4>2. a + i <= a \/ b <= a + i
        BY <1>2, <4>1
      <4> QED
        BY <1>2, <4>1, <4>2
    <3> QED
      BY <3>1
  <2>4. Min(Commas(rest)) = m
    <3>1. Commas(rest) \in SUBSET Nat
      BY <1>6
    <3>2. Min(Commas(rest)) \in Commas(rest) /\ \A i \in Commas(rest) : Min(Commas(rest)) <= i
      BY <2>2, <3>1, MinIsLeast
    <3>3. Min(Commas(rest)) <= m /\ m <= Min(Commas(rest)) /\ Min(Commas(rest)) \in Nat
      BY <2>2, <2>3, <3>1, <3>2
    <3> QED
      BY <2>1, <3>3
  <2> HIDE DEF m
  <2>5. SubSeq(rest, m + 1, Len(rest)) = Rest(chars, j + 1)
    <3> DEFINE p == SubSeq(rest, m + 1, Len(rest))
               q == SubSeq(chars, b + 1, L)
    <3>1. /\ p \in Seq(C) /\ Len(p) = (L - a) - m
          /\ \A i \in 1 .. (L - a) - m : p[i] = rest[m + i]
      BY <1>1, <1>2, <1>4, <2>1
    <3>2. q \in Seq(C) /\ Len(q) = L - b /\ \A i \in 1 .. L - b : q[i] = chars[b + i]
      BY <1>1, <1>2, <2>1
    <3> HIDE DEF p, q
    <3>3. Len(p) = Len(q) /\ \A i \in 1 .. Len(p) : p[i] = q[i]
      <4>1. (L - a) - m = L - b
        BY <1>1, <1>2, <2>1
      <4>2. ASSUME NEW i \in 1 .. L - b PROVE rest[m + i] = chars[b + i]
        <5>1. m + i \in 1 .. L - a /\ a + (m + i) = b + i
          BY <1>1, <1>2, <2>1
        <5>2. rest[m + i] = chars[a + (m + i)]
          BY <1>4, <5>1
        <5> QED
          BY <5>1, <5>2
      <4> QED
        BY <3>1, <3>2, <4>1, <4>2
    <3>4. p = q
      BY <3>1, <3>2, <3>3, SeqEqual
    <3> QED
      BY <3>4 DEF p, q, Rest, b
  <2>6. SubSeq(rest, 1, m - 1) = FieldAt(chars, j + 1)
    <3> DEFINE p == SubSeq(rest, 1, m - 1)
               q == SubSeq(chars, a + 1, b - 1)
    <3>1. p \in Seq(C) /\ Len(p) = m - 1 /\ \A i \in 1 .. m - 1 : p[i] = rest[i]
      BY <1>1, <1>2, <1>4, <2>1
    <3>2. /\ q \in Seq(C) /\ Len(q) = (b - 1) - a
          /\ \A i \in 1 .. (b - 1) - a : q[i] = chars[a + i]
      BY <1>1, <1>2, <2>1
    <3> HIDE DEF p, q
    <3>3. Len(p) = Len(q) /\ \A i \in 1 .. Len(p) : p[i] = q[i]
      <4>1. (b - 1) - a = m - 1 /\ \A i \in 1 .. m - 1 : i \in 1 .. L - a
        BY <1>1, <1>2, <2>1
      <4> QED
        BY <1>4, <3>1, <3>2, <4>1
    <3>4. p = q
      BY <3>1, <3>2, <3>3, SeqEqual
    <3> QED
      BY <1>3, <3>4 DEF p, q
  <2>7. rest # <<>>
    BY <1>4, <2>1
  <2> QED
    BY <2>2, <2>4, <2>5, <2>6, <2>7
<1>8. ASSUME j = n PROVE Commas(rest) = {} /\ rest = FieldAt(chars, j + 1)
  <2>1. b = L + 1 /\ b - 1 = L
    BY <1>1, <1>2, <1>8
  <2>2. ASSUME NEW i \in Commas(rest) PROVE FALSE
    <3>1. i \in 1 .. L - a /\ a + i \in Commas(chars)
      BY <1>6
    <3>2. a + i <= a \/ b <= a + i
      BY <1>2, <3>1
    <3> QED
      BY <1>1, <1>2, <2>1, <3>1, <3>2
  <2> QED
    BY <1>3, <2>1, <2>2
<1> QED
  BY <1>4, <1>5, <1>7, <1>8 DEF rest, n

-----------------------------------------------------------------------------
(* What trimming leaves. *)

LEMMA MaxIsGreatest ==
  ASSUME NEW L \in Nat, NEW S \in SUBSET (1 .. L), S # {}
  PROVE  Max(S) \in S /\ \A y \in S : y <= Max(S)
<1> DEFINE R == {L - x : x \in S}
<1>1. R \in SUBSET Nat /\ R # {}
  <2>1. ASSUME NEW x \in S PROVE L - x \in Nat
    <3>1. x \in 1 .. L
      OBVIOUS
    <3> QED
      BY <3>1
  <2>2. R # {}
    OBVIOUS
  <2> QED
    BY <2>1, <2>2
<1>2. Min(R) \in R /\ \A y \in R : Min(R) <= y
  BY <1>1, MinIsLeast
<1>3. PICK m \in S : Min(R) = L - m
  BY <1>2
<1>4. \A y \in S : y <= m
  <2>1. ASSUME NEW y \in S PROVE y <= m
    <3>1. L - y \in R /\ y \in Nat /\ m \in Nat
      OBVIOUS
    <3>2. L - m <= L - y
      BY <1>2, <1>3, <3>1
    <3> QED
      BY <3>1, <3>2
  <2> QED
    BY <2>1
<1> QED
  BY <1>4 DEF Max

LEMMA NothingTrimmed == TrimChars(<<>>) = <<>>
BY DEF TrimChars

\* A comma is no blank.
LEMMA CommaStays ==
  ASSUME NEW C, NEW chars \in Seq(C), Commas(chars) # {}
  PROVE  TrimChars(chars) # <<>>
<1> DEFINE kept == {i \in DOMAIN chars : chars[i] \notin Blanks}
           L == Len(chars)
<1>1. kept \in SUBSET (1 .. L) /\ L \in Nat
  BY LenProperties
<1>2. kept # {}
  BY DEF Commas, Comma, Blanks, Space, Return
<1>3. Max(kept) \in 1 .. L
  <2>1. Max(kept) \in kept
    BY <1>1, <1>2, MaxIsGreatest
  <2> QED
    BY <1>1, <2>1
<1>4. TrimChars(chars) = SubSeq(chars, 1, Max(kept))
  BY <1>2 DEF TrimChars
<1> HIDE DEF kept
<1>5. Len(SubSeq(chars, 1, Max(kept))) = Max(kept)
  BY <1>1, <1>3
<1> QED
  BY <1>3, <1>4, <1>5

-----------------------------------------------------------------------------
(* The line of a message. *)

LEMMA WholeRest ==
  ASSUME NEW C, NEW chars \in Seq(C)
  PROVE  Rest(chars, 0) = chars
<1>1. FieldEnd(chars, 0) = 0
  BY FieldEnds
<1>2. SubSeq(chars, 1, Len(chars)) = chars
  OBVIOUS
<1> QED
  BY <1>1, <1>2 DEF Rest

LEMMA LineIs ==
  ASSUME NEW C, NEW chars \in Seq(C)
  PROVE  LET line == LineOf(chars)
             n == CommaCount(chars)
         IN  /\ Len(line) = n + 1
             /\ \A k \in 1 .. n + 1 :
                   /\ Trim(line[k]) = TrimChars(FieldAt(chars, k))
                   /\ line[k] = EmptyField <=> FieldAt(chars, k) = <<>>
             /\ line = EmptyLine <=> chars = <<>>
<1> DEFINE line == LineOf(chars)
           n == CommaCount(chars)
<1>1. n \in Nat
  BY CommasFinite
<1>2. /\ DOMAIN line = 1 .. n + 1
      /\ \A k \in 1 .. n + 1 :
            line[k] = Field(TrimChars(FieldAt(chars, k)),
                            TrimChars(FieldAt(chars, k)) # FieldAt(chars, k))
  BY DEF LineOf, CommaCount
<1> HIDE DEF line, n
<1>3. Len(line) = n + 1
  <2>1. line = [k \in 1 .. n + 1 |-> line[k]]
    BY DEF line, LineOf, CommaCount, n
  <2> QED
    BY <1>1, <1>2, <2>1
<1>4. ASSUME NEW k \in 1 .. n + 1
      PROVE  /\ Trim(line[k]) = TrimChars(FieldAt(chars, k))
             /\ line[k] = EmptyField <=> FieldAt(chars, k) = <<>>
  <2> DEFINE f == FieldAt(chars, k)
             t == TrimChars(f)
  <2>1. line[k] = [text |-> t, pad |-> t # f]
    BY <1>2 DEF Field
  <2> HIDE DEF t
  <2>2. EmptyField = [text |-> <<>>, pad |-> FALSE]
    BY StreamConstants DEF EmptyField, Field
  <2>3. f = <<>> => t = <<>>
    BY NothingTrimmed DEF t
  <2> HIDE DEF f
  <2>4. line[k] = EmptyField <=> t = <<>> /\ ((t # f) = FALSE)
    <3> DEFINE p == t # f
    <3> HIDE DEF p
    <3>1. \A a, b : [text |-> t, pad |-> p] = [text |-> a, pad |-> b] <=> t = a /\ p = b
      OBVIOUS
    <3>2. line[k] = EmptyField <=> t = <<>> /\ p = FALSE
      <4>1. line[k] = [text |-> t, pad |-> p]
        BY <2>1 DEF p
      <4> QED
        BY <2>2, <3>1, <4>1
    <3> QED
      BY <3>2 DEF p
  <2>5. line[k] = EmptyField <=> f = <<>>
    BY <2>3, <2>4
  <2> QED
    BY <2>1, <2>5 DEF Trim, t, f
<1>5. n = 0 => chars = FieldAt(chars, 1)
  <2>1. ASSUME n = 0 PROVE chars = FieldAt(chars, 1)
    <3>1. 0 \in 0 .. CommaCount(chars) /\ 0 = CommaCount(chars)
      BY <2>1 DEF n
    <3>2. Rest(chars, 0) = FieldAt(chars, 0 + 1)
      BY <3>1, RestIs
    <3> QED
      BY <3>2, WholeRest
  <2> QED
    BY <2>1
<1>6. line = EmptyLine <=> chars = <<>>
  <2>1. Len(EmptyLine) = 1 /\ EmptyLine[1] = EmptyField
    BY DEF EmptyLine
  <2>2. ASSUME line = EmptyLine PROVE chars = <<>>
    <3>1. n = 0
      <4>1. Len(line) = 1
        BY <2>1, <2>2
      <4> QED
        BY <1>1, <1>3, <4>1
    <3>2. line[1] = EmptyField /\ 1 \in 1 .. n + 1
      BY <2>1, <2>2, <3>1
    <3>3. FieldAt(chars, 1) = <<>>
      BY <1>4, <3>2
    <3> QED
      BY <1>5, <3>1, <3>3
  <2>3. ASSUME chars = <<>> PROVE line = EmptyLine
    <3>1. n = 0
      <4>1. Commas(chars) = {}
        BY <2>3 DEF Commas
      <4> QED
        BY <4>1, FS_EmptySet DEF n, CommaCount
    <3>2. FieldAt(chars, 1) = <<>> /\ 1 \in 1 .. n + 1
      BY <1>5, <2>3, <3>1
    <3>3. line[1] = EmptyField
      BY <1>4, <3>2
    <3>4. line = [k \in 1 .. n + 1 |-> line[k]]
      BY DEF line, LineOf, CommaCount, n
    <3>5. EmptyLine = [k \in 1 .. 1 |-> EmptyField]
      BY DEF EmptyLine
    <3> QED
      BY <3>1, <3>3, <3>4, <3>5
  <2> QED
    BY <2>2, <2>3
<1> QED
  BY <1>3, <1>4, <1>6 DEF line, n

-----------------------------------------------------------------------------
(* What getline reads. *)

StreamStates ==
    [rest : Seq(STRING), eof : BOOLEAN, fail : BOOLEAN, read : Seq(Seq(STRING))]

\* After j calls of getline with a comma, as long as there are that many commas.
FieldsRead(chars, st, j) ==
    /\ ~st.eof /\ ~st.fail
    /\ st.rest = Rest(chars, j)
    /\ Len(st.read) = j
    /\ \A i \in 1 .. j : st.read[i] = FieldAt(chars, i)

ReadSoFar(chars, st, j) ==
    /\ st \in StreamStates
    /\ j <= CommaCount(chars) => FieldsRead(chars, st, j)
    /\ j > CommaCount(chars) => st.eof \/ st.fail

LEMMA NothingRead ==
  ASSUME NEW chars \in Seq(STRING)
  PROVE  ReadSoFar(chars, Stream(chars), 0)
<1>1. CommaCount(chars) \in Nat /\ Rest(chars, 0) = chars
  BY CommasFinite, WholeRest
<1>2. Stream(chars) \in StreamStates
  BY DEF Stream, StreamStates
<1>3. FieldsRead(chars, Stream(chars), 0)
  BY <1>1 DEF Stream, FieldsRead
<1> QED
  BY <1>1, <1>2, <1>3 DEF ReadSoFar

LEMMA FieldRead ==
  ASSUME NEW chars \in Seq(STRING), NEW st, NEW j \in Nat, ReadSoFar(chars, st, j)
  PROVE  ReadSoFar(chars, GetField(st), j + 1)
<1> DEFINE n == CommaCount(chars)
<1>1. n \in Nat /\ st \in StreamStates
  BY CommasFinite DEF ReadSoFar
<1> HIDE DEF n
<1>2. CASE j < n
  <2>1. j \in 0 .. CommaCount(chars) /\ j < CommaCount(chars) /\ FieldsRead(chars, st, j)
    BY <1>1, <1>2 DEF n, ReadSoFar
  <2>2. st.rest = Rest(chars, j) /\ ~st.eof /\ ~st.fail
    BY <2>1 DEF FieldsRead
  <2>3. /\ Commas(st.rest) # {}
        /\ SubSeq(st.rest, Min(Commas(st.rest)) + 1, Len(st.rest)) = Rest(chars, j + 1)
        /\ SubSeq(st.rest, 1, Min(Commas(st.rest)) - 1) = FieldAt(chars, j + 1)
    BY <2>1, <2>2, RestIs
  <2>4. /\ Rest(chars, j + 1) \in Seq(STRING)
        /\ FieldAt(chars, j + 1) \in Seq(STRING)
    <3>1. j + 1 \in 0 .. CommaCount(chars)
      BY <1>1, <1>2 DEF n
    <3> QED
      BY <2>1, <3>1, RestIs
  <2> DEFINE rest == Rest(chars, j + 1)
             f == FieldAt(chars, j + 1)
             next == GetField(st)
  <2>5. next = [st EXCEPT !.rest = rest, !.read = Append(@, f)]
    BY <2>2, <2>3 DEF GetField
  <2> HIDE DEF rest, f, next
  <2>6. st.read \in Seq(Seq(STRING)) /\ Append(st.read, f) \in Seq(Seq(STRING))
    BY <1>1, <2>4 DEF StreamStates, f
  <2>7. /\ next \in StreamStates
        /\ next.rest = rest /\ next.read = Append(st.read, f)
        /\ next.eof = st.eof /\ next.fail = st.fail
    BY <1>1, <2>4, <2>5, <2>6 DEF StreamStates, rest
  <2>8. Len(next.read) = j + 1 /\ \A i \in 1 .. j + 1 : next.read[i] = FieldAt(chars, i)
    <3>1. Len(st.read) = j /\ \A i \in 1 .. j : st.read[i] = FieldAt(chars, i)
      BY <2>1 DEF FieldsRead
    <3>2. /\ Len(Append(st.read, f)) = j + 1
          /\ \A i \in 1 .. j : Append(st.read, f)[i] = st.read[i]
          /\ Append(st.read, f)[j + 1] = f
      BY <2>4, <2>6, <3>1, AppendProperties DEF f
    <3> QED
      BY <2>7, <3>1, <3>2 DEF f
  <2>9. FieldsRead(chars, next, j + 1)
    BY <2>2, <2>7, <2>8 DEF FieldsRead, rest
  <2> QED
    BY <1>1, <1>2, <2>7, <2>9 DEF ReadSoFar, n, next
<1>3. CASE j = n
  <2>1. FieldsRead(chars, st, j) /\ j \in 0 .. CommaCount(chars) /\ j = CommaCount(chars)
    BY <1>1, <1>3 DEF n, ReadSoFar
  <2>2. st.rest = Rest(chars, j) /\ ~st.eof /\ ~st.fail
    BY <2>1 DEF FieldsRead
  <2>3. Commas(st.rest) = {}
    BY <2>1, <2>2, RestIs
  <2>4. GetField(st) = [rest |-> <<>>, eof |-> TRUE, fail |-> st.rest = <<>>,
                        read |-> Append(st.read, st.rest)]
    <3>1. GetField(st) = GetRest(st)
      BY <2>3, Zenon DEF GetField
    <3> QED
      BY <2>2, <3>1, Zenon DEF GetRest
  <2>5. st.read \in Seq(Seq(STRING)) /\ st.rest \in Seq(STRING)
    BY <1>1 DEF StreamStates
  <2>6. Append(st.read, st.rest) \in Seq(Seq(STRING)) /\ <<>> \in Seq(STRING)
    BY <2>5
  <2>7. (st.rest = <<>>) \in BOOLEAN
    OBVIOUS
  <2> HIDE DEF n
  <2>8. GetField(st) \in StreamStates /\ GetField(st).eof
    BY <2>4, <2>6, <2>7 DEF StreamStates
  <2>9. ~(j + 1 <= n)
    BY <1>1, <1>3
  <2> QED
    BY <2>8, <2>9 DEF ReadSoFar, n
<1>4. CASE j > n
  <2>1. st.eof \/ st.fail
    BY <1>4 DEF n, ReadSoFar
  <2>2. GetField(st) = [st EXCEPT !.fail = TRUE]
    <3>1. GetField(st) = GetRest(st)
      BY <2>1, Zenon DEF GetField
    <3>2. GetRest(st) = [st EXCEPT !.fail = TRUE]
      BY <2>1, Zenon DEF GetRest
    <3> QED
      BY <3>1, <3>2
  <2>3. GetField(st) \in StreamStates /\ GetField(st).fail
    BY <1>1, <2>2 DEF StreamStates
  <2>4. ~(j + 1 <= n)
    BY <1>1, <1>4
  <2> QED
    BY <2>3, <2>4 DEF ReadSoFar, n
<1> QED
  BY <1>1, <1>2, <1>3, <1>4

\* The last call of getline takes the rest; it fails, or one before it did, exactly
\* on a line that does not split.
LEMMA RestRead ==
  ASSUME NEW chars \in Seq(STRING), NEW st, NEW j \in Nat, ReadSoFar(chars, st, j)
  PROVE  LET last == GetRest(st)
             line == LineOf(chars)
         IN  /\ last.fail <=> ~Splits(line, j + 1)
             /\ Splits(line, j + 1) =>
                   /\ j <= CommaCount(chars)
                   /\ \A i \in 1 .. j : last.read[i] = FieldAt(chars, i)
                   /\ last.read[j + 1] = Rest(chars, j)
<1> DEFINE n == CommaCount(chars)
           line == LineOf(chars)
           last == GetRest(st)
<1>1. n \in Nat /\ st \in StreamStates
  BY CommasFinite DEF ReadSoFar
<1>2. Len(line) = n + 1
  BY LineIs
<1>3. ASSUME j > n PROVE last.fail /\ ~Splits(line, j + 1)
  <2>1. st.eof \/ st.fail
    BY <1>3 DEF ReadSoFar
  <2>2. last = [st EXCEPT !.fail = TRUE]
    BY <2>1 DEF GetRest
  <2>3. last.fail
    BY <1>1, <2>2 DEF StreamStates
  <2> HIDE DEF line, n
  <2>4. ~(Len(line) > j + 1) /\ ~(Len(line) = j + 1)
    BY <1>1, <1>2, <1>3
  <2> QED
    BY <2>3, <2>4 DEF Splits
<1>4. ASSUME j <= n
      PROVE  /\ last.fail <=> ~Splits(line, j + 1)
             /\ \A i \in 1 .. j : last.read[i] = FieldAt(chars, i)
             /\ last.read[j + 1] = Rest(chars, j)
  <2>1. FieldsRead(chars, st, j) /\ j \in 0 .. CommaCount(chars)
    BY <1>1, <1>4 DEF ReadSoFar
  <2>2. st.rest = Rest(chars, j) /\ ~st.eof /\ ~st.fail
    BY <2>1 DEF FieldsRead
  <2>3. last = [rest |-> <<>>, eof |-> TRUE, fail |-> st.rest = <<>>,
                read |-> Append(st.read, st.rest)]
    BY <2>2 DEF GetRest
  <2>4. (last.fail <=> Rest(chars, j) = <<>>) /\ last.read = Append(st.read, Rest(chars, j))
    <3> DEFINE p == st.rest = <<>>
               q == Append(st.read, st.rest)
    <3> HIDE DEF p, q, last
    <3>1. last = [rest |-> <<>>, eof |-> TRUE, fail |-> p, read |-> q]
      BY <2>3, Zenon DEF p, q
    <3>2. last.fail = p /\ last.read = q
      BY <3>1
    <3> QED
      BY <2>2, <3>2, Zenon DEF p, q
  <2>5. /\ \A i \in 1 .. j : last.read[i] = FieldAt(chars, i)
        /\ last.read[j + 1] = Rest(chars, j)
    <3>1. Len(st.read) = j /\ \A i \in 1 .. j : st.read[i] = FieldAt(chars, i)
      BY <2>1 DEF FieldsRead
    <3>2. st.read \in Seq(Seq(STRING)) /\ Rest(chars, j) \in Seq(STRING)
      BY <1>1, <2>1, RestIs DEF StreamStates
    <3>3. /\ \A i \in 1 .. j : Append(st.read, Rest(chars, j))[i] = st.read[i]
          /\ Append(st.read, Rest(chars, j))[j + 1] = Rest(chars, j)
      BY <3>1, <3>2, AppendProperties
    <3> QED
      BY <2>4, <3>1, <3>3
  <2>6. Rest(chars, j) = <<>> <=> ~Splits(line, j + 1)
    <3>1. CASE j < n
      <4>1. Rest(chars, j) # <<>>
        BY <2>1, <3>1, RestIs
      <4>2. Len(line) > j + 1
        BY <1>1, <1>2, <3>1
      <4> QED
        BY <4>1, <4>2 DEF Splits
    <3>2. CASE j = n
      <4>1. Rest(chars, j) = FieldAt(chars, j + 1)
        BY <2>1, <3>2, RestIs
      <4>2. line[j + 1] = EmptyField <=> FieldAt(chars, j + 1) = <<>>
        <5>1. j + 1 \in 1 .. CommaCount(chars) + 1
          BY <1>1, <3>2
        <5> QED
          BY <5>1, LineIs
      <4>3. ~(Len(line) > j + 1) /\ Len(line) = j + 1
        BY <1>1, <1>2, <3>2
      <4> QED
        BY <4>1, <4>2, <4>3 DEF Splits
    <3> QED
      BY <1>1, <1>4, <3>1, <3>2
  <2> QED
    BY <2>4, <2>5, <2>6
<1> QED
  BY <1>1, <1>3, <1>4

-----------------------------------------------------------------------------
(* What the handlers make of a message. *)

\* The fields a handler has trimmed when all of its calls of getline succeeded.
LEMMA FieldsTrimmed ==
  ASSUME NEW chars \in Seq(STRING), NEW st, NEW j \in Nat, ReadSoFar(chars, st, j),
         Splits(LineOf(chars), j + 1), NEW i \in 1 .. j
  PROVE  TrimChars(GetRest(st).read[i]) = Trim(LineOf(chars)[i])
<1>1. j <= CommaCount(chars) /\ GetRest(st).read[i] = FieldAt(chars, i)
  BY RestRead
<1>2. i \in 1 .. CommaCount(chars) + 1
  BY <1>1, CommasFinite
<1> QED
  BY <1>1, <1>2, LineIs

LEMMA NoDataIs ==
  ASSUME NEW k \in Nat, k > 1
  PROVE  ~Splits(EmptyLine, k)
<1>1. Len(EmptyLine) = 1
  BY DEF EmptyLine
<1> QED
  BY <1>1 DEF Splits

LEMMA RegistrationFollows ==
  ASSUME NEW message \in Seq(STRING)
  PROVE  LET line == LineOf(message)
             st == ReadRegistration(message)
         IN  /\ RegistrationOutcome(line) = Branch(message, st, 4)
             /\ RegistrationOutcome(line) = "accepted" => Email(line) = TrimChars(st.read[1])
<1> DEFINE line == LineOf(message)
           before == GetField(GetField(GetField(GetField(Stream(message)))))
           st == ReadRegistration(message)
<1>1. ReadSoFar(message, before, 4)
  <2>1. ReadSoFar(message, GetField(Stream(message)), 0 + 1)
    BY NothingRead, FieldRead
  <2>2. ReadSoFar(message, GetField(GetField(Stream(message))), 1 + 1)
    BY <2>1, FieldRead
  <2>3. ReadSoFar(message, GetField(GetField(GetField(Stream(message)))), 2 + 1)
    BY <2>2, FieldRead
  <2>4. ReadSoFar(message, before, 3 + 1)
    BY <2>3, FieldRead
  <2> QED
    BY <2>4
<1>2. st = GetRest(before)
  BY DEF ReadRegistration
<1> HIDE DEF before, st
<1>3. st.fail <=> ~Splits(line, 5)
  BY <1>1, <1>2, RestRead
<1>4. line = EmptyLine <=> message = <<>>
  BY LineIs
<1>5. ASSUME Splits(line, 5), NEW i \in 1 .. 4
      PROVE  TrimChars(st.read[i]) = Trim(line[i])
  BY <1>1, <1>2, <1>5, FieldsTrimmed
<1>6. line = EmptyLine => ~Splits(line, 5)
  BY NoDataIs
<1> HIDE DEF line
<1>7. RegistrationOutcome(line) = Branch(message, st, 4)
  <2>1. CASE message = <<>>
    <3>1. RegistrationOutcome(line) = "no data"
      BY <1>4, <1>6, <2>1 DEF RegistrationOutcome
    <3> QED
      BY <2>1, <3>1 DEF Branch
  <2>2. CASE message # <<>> /\ ~Splits(line, 5)
    <3>1. RegistrationOutcome(line) = "invalid format"
      BY <1>4, <2>2 DEF RegistrationOutcome
    <3> QED
      BY <1>3, <2>2, <3>1 DEF Branch
  <2>3. CASE message # <<>> /\ Splits(line, 5)
    <3>1. (\E i \in 1 .. 4 : Trim(line[i]) = NoText)
             <=> (\E i \in 1 .. 4 : TrimChars(st.read[i]) = <<>>)
      BY <1>5, <2>3, StreamConstants
    <3> DEFINE missing == \E i \in 1 .. 4 : Trim(line[i]) = NoText
               present == \A i \in 1 .. 4 : Trim(line[i]) # NoText
    <3>2. present <=> ~missing
      OBVIOUS
    <3>3. RegistrationOutcome(line) = IF missing THEN "missing fields" ELSE "accepted"
      <4>1. line # EmptyLine
        BY <1>4, <2>3
      <4> HIDE DEF missing, present
      <4>2. RegistrationOutcome(line) =
              CASE line = EmptyLine   -> "no data"
                [] line # EmptyLine /\ ~Splits(line, 5) -> "invalid format"
                [] Splits(line, 5) /\ missing -> "missing fields"
                [] Splits(line, 5) /\ present -> "accepted"
        BY DEF RegistrationOutcome, missing, present
      <4> QED
        BY <2>3, <3>2, <4>1, <4>2
    <3>4. Branch(message, st, 4) =
             IF \E i \in 1 .. 4 : TrimChars(st.read[i]) = <<>>
             THEN "missing fields" ELSE "accepted"
      BY <1>3, <2>3 DEF Branch
    <3> DEFINE blank == \E i \in 1 .. 4 : TrimChars(st.read[i]) = <<>>
    <3>5. missing <=> blank
      BY <3>1
    <3>6. Branch(message, st, 4) = IF blank THEN "missing fields" ELSE "accepted"
      BY <3>4
    <3> HIDE DEF missing, blank
    <3>7. CASE missing
      <4>1. RegistrationOutcome(line) = "missing fields"
        BY <3>3, <3>7
      <4>2. Branch(message, st, 4) = "missing fields"
        BY <3>5, <3>6, <3>7
      <4> QED
        BY <4>1, <4>2
    <3>8. CASE ~missing
      <4>1. RegistrationOutcome(line) = "accepted"
        BY <3>3, <3>8
      <4>2. Branch(message, st, 4) = "accepted"
        BY <3>5, <3>6, <3>8
      <4> QED
        BY <4>1, <4>2
    <3> QED
      BY <3>7, <3>8
  <2> QED
    BY <2>1, <2>2, <2>3
<1>8. ASSUME RegistrationOutcome(line) = "accepted" PROVE Email(line) = TrimChars(st.read[1])
  <2>1. message # <<>> /\ Splits(line, 5)
    <3>1. Branch(message, st, 4) = "accepted"
      BY <1>7, <1>8
    <3> QED
      BY <1>3, <3>1 DEF Branch
  <2> QED
    BY <1>5, <2>1 DEF Email
<1> QED
  BY <1>7, <1>8 DEF line, st

LEMMA LoginFollows ==
  ASSUME NEW message \in Seq(STRING)
  PROVE  LET line == LineOf(message)
             st == ReadLogin(message)
         IN  /\ LoginOutcome(line) = Branch(message, st, 2)
             /\ LoginOutcome(line) = "accepted" => Email(line) = TrimChars(st.read[1])
<1> DEFINE line == LineOf(message)
           before == GetField(Stream(message))
           st == ReadLogin(message)
           n == CommaCount(message)
<1>1. ReadSoFar(message, before, 1)
  <2>1. ReadSoFar(message, before, 0 + 1)
    BY NothingRead, FieldRead
  <2> QED
    BY <2>1
<1>2. st = GetRest(before)
  BY DEF ReadLogin
<1> HIDE DEF before, st
<1>3. /\ st.fail <=> ~Splits(line, 2)
      /\ Splits(line, 2) => 1 <= n /\ st.read[2] = Rest(message, 1)
  BY <1>1, <1>2, RestRead
<1>4. /\ line = EmptyLine <=> message = <<>>
      /\ Len(line) = n + 1
      /\ n \in Nat
  BY LineIs, CommasFinite
<1>5. Splits(line, 2) => TrimChars(st.read[1]) = Trim(line[1])
  BY <1>1, <1>2, FieldsTrimmed
<1>6. line = EmptyLine => ~Splits(line, 2)
  BY NoDataIs
<1>7. ASSUME Splits(line, 2) PROVE LastBlank(line, 2) <=> TrimChars(st.read[2]) = <<>>
  <2>1. st.read[2] = Rest(message, 1) /\ 1 <= n /\ 1 \in 0 .. CommaCount(message)
    BY <1>3, <1>4, <1>7
  <2>2. CASE n = 1
    <3>1. Rest(message, 1) = FieldAt(message, 1 + 1)
      BY <2>1, <2>2, RestIs
    <3>2. Trim(line[2]) = TrimChars(FieldAt(message, 2))
      <4>1. 2 \in 1 .. CommaCount(message) + 1
        BY <2>2
      <4> QED
        BY <4>1, LineIs
    <3> QED
      BY <1>4, <2>1, <2>2, <3>1, <3>2, StreamConstants DEF LastBlank
  <2>3. CASE n # 1
    <3>1. 1 < n /\ Len(line) # 2
      BY <1>4, <2>1, <2>3
    <3>2. Rest(message, 1) \in Seq(STRING) /\ Commas(Rest(message, 1)) # {}
      BY <2>1, <3>1, RestIs
    <3>3. TrimChars(Rest(message, 1)) # <<>>
      BY <3>2, CommaStays
    <3> QED
      BY <2>1, <3>1, <3>3 DEF LastBlank
  <2> QED
    BY <2>2, <2>3
<1> HIDE DEF line, n
<1>8. LoginOutcome(line) = Branch(message, st, 2)
  <2>1. CASE message = <<>>
    <3>1. LoginOutcome(line) = "no data"
      BY <1>4, <1>6, <2>1 DEF LoginOutcome
    <3> QED
      BY <2>1, <3>1 DEF Branch
  <2>2. CASE message # <<>> /\ ~Splits(line, 2)
    <3>1. LoginOutcome(line) = "invalid format"
      BY <1>4, <2>2 DEF LoginOutcome
    <3> QED
      BY <1>3, <2>2, <3>1 DEF Branch
  <2>3. CASE message # <<>> /\ Splits(line, 2)
    <3> DEFINE missing == Trim(line[1]) = NoText \/ LastBlank(line, 2)
    <3>1. missing <=> (\E i \in 1 .. 2 : TrimChars(st.read[i]) = <<>>)
      <4>1. missing <=> TrimChars(st.read[1]) = <<>> \/ TrimChars(st.read[2]) = <<>>
        BY <1>5, <1>7, <2>3, StreamConstants
      <4>2. \A i : i \in 1 .. 2 <=> i = 1 \/ i = 2
        OBVIOUS
      <4> HIDE DEF missing
      <4> QED
        BY <4>1, <4>2
    <3>2. LoginOutcome(line) = IF missing THEN "missing fields" ELSE "accepted"
      <4>1. line # EmptyLine
        BY <1>4, <2>3
      <4> QED
        BY <2>3, <4>1 DEF LoginOutcome
    <3>3. Branch(message, st, 2) =
             IF \E i \in 1 .. 2 : TrimChars(st.read[i]) = <<>>
             THEN "missing fields" ELSE "accepted"
      BY <1>3, <2>3 DEF Branch
    <3> DEFINE blank == \E i \in 1 .. 2 : TrimChars(st.read[i]) = <<>>
    <3>4. missing <=> blank
      BY <3>1
    <3>5. Branch(message, st, 2) = IF blank THEN "missing fields" ELSE "accepted"
      BY <3>3
    <3> HIDE DEF missing, blank
    <3>6. CASE missing
      <4>1. LoginOutcome(line) = "missing fields"
        BY <3>2, <3>6
      <4>2. Branch(message, st, 2) = "missing fields"
        BY <3>4, <3>5, <3>6
      <4> QED
        BY <4>1, <4>2
    <3>7. CASE ~missing
      <4>1. LoginOutcome(line) = "accepted"
        BY <3>2, <3>7
      <4>2. Branch(message, st, 2) = "accepted"
        BY <3>4, <3>5, <3>7
      <4> QED
        BY <4>1, <4>2
    <3> QED
      BY <3>6, <3>7
  <2> QED
    BY <2>1, <2>2, <2>3
<1>9. ASSUME LoginOutcome(line) = "accepted" PROVE Email(line) = TrimChars(st.read[1])
  <2>1. Splits(line, 2)
    <3>1. Branch(message, st, 2) = "accepted"
      BY <1>8, <1>9
    <3> QED
      BY <1>3, <3>1 DEF Branch
  <2> QED
    BY <1>5, <2>1 DEF Email
<1> QED
  BY <1>8, <1>9 DEF line, st

\* The handler is called with texts.
LEMMA LastIsText ==
  ASSUME FramingInv, messages # <<>>
  PROVE  Last(messages) \in Seq(STRING)
<1>1. messages \in Seq(Seq(STRING))
  BY DEF FramingInv, FramingTyped
<1> QED
  BY <1>1 DEF Last

\* RegistrationAgrees: whatever a client sends and however it arrives, reading the
\* line after "register" with getline, eof and fail bits and all, takes the branch,
\* and the email, that the line's fields determine
\* (handle_registration_data_threaded).
THEOREM RegistrationIsRead == FramingSpec => []RegistrationAgrees
<1>1. FramingInv => RegistrationAgrees
  BY LastIsText, RegistrationFollows DEF RegistrationAgrees
<1> QED
  BY <1>1, FramingInvInit, FramingInvStep, PTL DEF FramingSpec

\* LoginAgrees: the same for the line after "login", whose password is the rest of
\* the line with the commas in it (handle_login_data_threaded).
THEOREM LoginIsRead == FramingSpec => []LoginAgrees
<1>1. FramingInv => LoginAgrees
  BY LastIsText, LoginFollows DEF LoginAgrees
<1> QED
  BY <1>1, FramingInvInit, FramingInvStep, PTL DEF FramingSpec

=============================================================================
