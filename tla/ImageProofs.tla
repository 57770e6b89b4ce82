------------------------------- MODULE ImageProofs -------------------------------
(***************************************************************************)
(* Images: the rows of a PNG are turned back, a file is loaded as the      *)
(* image it was made of, and the noise has no seams; for images of any     *)
(* size, any cells and any cuts.                                           *)
(***************************************************************************)
EXTENDS ImageFiles, Perlin, SequenceTheorems, TLAPS

-----------------------------------------------------------------------------
(* The rows of a PNG. *)

\* The predictor of the code is the one of the standard.
LEMMA PaethIsNearest ==
  ASSUME NEW a \in Byte, NEW b \in Byte, NEW c \in Byte
  PROVE  /\ paethPredictor(a, b, c) = Nearest(a, b, c)
         /\ Nearest(a, b, c) \in Byte
BY DEF paethPredictor, Nearest, Distance, Byte

LEMMA PredictionIsByte ==
  ASSUME NEW f \in Filters, NEW a \in Byte, NEW b \in Byte, NEW c \in Byte
  PROVE  /\ Added(f, a, b, c) = Prediction(f, a, b, c)
         /\ Prediction(f, a, b, c) \in Byte
<1>1. (a + b) \div 2 \in Byte
  BY DEF Byte
<1>2. Nearest(a, b, c) \in Byte /\ paethPredictor(a, b, c) = Nearest(a, b, c)
  BY PaethIsNearest
<1>3. 0 \in Byte
  BY DEF Byte
<1>4. CASE f = 0  BY <1>3, <1>4 DEF Added, Prediction
<1>5. CASE f = 1  BY <1>5 DEF Added, Prediction
<1>6. CASE f = 2  BY <1>6 DEF Added, Prediction
<1>7. CASE f = 3  BY <1>1, <1>7 DEF Added, Prediction
<1>8. CASE f = 4  BY <1>2, <1>8 DEF Added, Prediction
<1> QED
  BY <1>4, <1>5, <1>6, <1>7, <1>8 DEF Filters

\* Adding what was taken away, modulo 256.
LEMMA AddBack ==
  ASSUME NEW x \in Byte, NEW p \in Byte
  PROVE  (((x - p) % 256) + p) % 256 = x
BY DEF Byte

\* The rows as they are between two steps: what has been passed is original,
\* the rest still filtered.
Turned(y, i) == y < row \/ (y = row /\ i < at)

ScanInv ==
    /\ width \in Nat /\ height \in Nat
    /\ original \in RowsOf(height, width)
    /\ filter \in [0 .. height - 1 -> Filters]
    /\ row \in Nat /\ at \in Nat
    /\ DOMAIN bytes = 0 .. height - 1
    /\ \A y \in 0 .. height - 1 :
          /\ DOMAIN bytes[y] = 0 .. stride - 1
          /\ \A i \in 0 .. stride - 1 :
                bytes[y][i] = IF Turned(y, i) THEN original[y][i]
                              ELSE Filtered(original, filter)[y][i]

LEMMA StrideInNat == ASSUME width \in Nat PROVE stride \in Nat
BY ScanConstants DEF stride

LEMMA FilteredByte ==
  ASSUME ScanInv, NEW y \in 0 .. height - 1, NEW i \in 0 .. stride - 1
  PROVE  Filtered(original, filter)[y][i] =
            (original[y][i] - Prediction(filter[y], Left(original, y, i),
                AboveOf(original, y, i), UpperLeft(original, y, i))) % 256
BY DEF ScanInv, RowsOf, Filtered, stride

LEMMA NeighboursAreBytes ==
  ASSUME ScanInv, NEW y \in 0 .. height - 1, NEW i \in 0 .. stride - 1
  PROVE  /\ Left(original, y, i) \in Byte
         /\ AboveOf(original, y, i) \in Byte
         /\ UpperLeft(original, y, i) \in Byte
         /\ original[y][i] \in Byte
<1>1. stride \in Nat /\ bpp \in Nat \ {0}
  BY StrideInNat, ScanConstants DEF ScanInv
<1>2. \A z \in 0 .. height - 1, j \in 0 .. stride - 1 : original[z][j] \in Byte
  BY DEF ScanInv, RowsOf, stride
<1>3. 0 \in Byte
  BY DEF Byte
<1>4. height \in Nat
  BY DEF ScanInv
<1> QED
  BY <1>1, <1>2, <1>3, <1>4 DEF Left, AboveOf, UpperLeft

\* The neighbours a prediction is made from have been turned back.
LEMMA NeighboursTurned ==
  ASSUME ScanInv, row < height, at < stride
  PROVE  /\ Left(bytes, row, at) = Left(original, row, at)
         /\ AboveOf(bytes, row, at) = AboveOf(original, row, at)
         /\ UpperLeft(bytes, row, at) = UpperLeft(original, row, at)
<1>1. stride \in Nat /\ bpp \in Nat \ {0}
  BY StrideInNat, ScanConstants DEF ScanInv
<1>2. \A y \in 0 .. height - 1, i \in 0 .. stride - 1 :
         Turned(y, i) => bytes[y][i] = original[y][i]
  BY DEF ScanInv
<1>3. height \in Nat /\ row \in 0 .. height - 1 /\ at \in 0 .. stride - 1
  BY <1>1 DEF ScanInv
<1> QED
  BY <1>1, <1>2, <1>3 DEF Turned, Left, AboveOf, UpperLeft

LEMMA ScanInvInit == ScanInit => ScanInv
<1> SUFFICES ASSUME ScanInit PROVE ScanInv
  OBVIOUS
<1>1. stride \in Nat
  BY StrideInNat DEF ScanInit
<1>2. \A y \in 0 .. height - 1, i \in 0 .. stride - 1 : ~Turned(y, i)
  BY <1>1 DEF Turned, ScanInit
<1>3. DOMAIN bytes = 0 .. height - 1
  BY DEF ScanInit, Filtered, RowsOf
<1>4. \A y \in 0 .. height - 1 : DOMAIN bytes[y] = 0 .. stride - 1
  BY DEF ScanInit, Filtered, RowsOf, stride
<1> QED
  BY <1>2, <1>3, <1>4 DEF ScanInit, ScanInv

LEMMA ByteKeepsInv == ASSUME ScanInv, UnfilterByte PROVE ScanInv'
<1>1. stride \in Nat /\ stride' = stride
  BY StrideInNat DEF ScanInv, UnfilterByte, stride
<1>2. height \in Nat /\ row \in 0 .. height - 1 /\ at \in 0 .. stride - 1
  BY <1>1 DEF ScanInv, UnfilterByte
<1>3. UNCHANGED <<width, height, filter, row, original>> /\ at' = at + 1
  BY DEF UnfilterByte
<1> DEFINE a == Left(original, row, at)
           b == AboveOf(original, row, at)
           c == UpperLeft(original, row, at)
           p == Prediction(filter[row], a, b, c)
<1>4. a \in Byte /\ b \in Byte /\ c \in Byte /\ original[row][at] \in Byte
  BY <1>2, NeighboursAreBytes
<1>5. filter[row] \in Filters
  BY <1>2 DEF ScanInv
<1>6. p \in Byte /\ Added(filter[row], a, b, c) = p
  BY <1>4, <1>5, PredictionIsByte
<1>7. bytes[row][at] = (original[row][at] - p) % 256
  BY <1>2, FilteredByte DEF ScanInv, Turned
<1>8. bytes' = [bytes EXCEPT ![row][at] = (bytes[row][at] + p) % 256]
  BY <1>6, NeighboursTurned DEF UnfilterByte
<1> HIDE DEF p
<1>9. bytes' = [bytes EXCEPT ![row][at] = original[row][at]]
  <2>1. (bytes[row][at] + p) % 256 = original[row][at]
    BY <1>4, <1>6, <1>7, AddBack
  <2> QED  BY <1>8, <2>1
<1>10. DOMAIN bytes' = 0 .. height - 1
  BY <1>9 DEF ScanInv
<1>11. ASSUME NEW y \in 0 .. height - 1
       PROVE  /\ DOMAIN bytes'[y] = 0 .. stride - 1
              /\ \A i \in 0 .. stride - 1 :
                    bytes'[y][i] = IF Turned(y, i)' THEN original[y][i]
                                   ELSE Filtered(original, filter)[y][i]
  <2>1. CASE y # row
    <3>1. bytes'[y] = bytes[y]
      BY <1>9, <2>1 DEF ScanInv
    <3> QED
      BY <3>1, <2>1, <1>2, <1>3 DEF ScanInv, Turned
  <2>2. CASE y = row
    <3>1. bytes'[y] = [bytes[y] EXCEPT ![at] = original[y][at]]
      BY <1>2, <1>9, <2>2 DEF ScanInv
    <3> QED
      BY <3>1, <2>2, <1>1, <1>2, <1>3 DEF ScanInv, Turned
  <2> QED  BY <2>1, <2>2
<1> QED
  BY <1>1, <1>3, <1>10, <1>11 DEF ScanInv

LEMMA RowKeepsInv == ASSUME ScanInv, NextRow PROVE ScanInv'
<1>1. stride \in Nat /\ stride' = stride
  BY StrideInNat DEF ScanInv, NextRow, stride
<1>2. ASSUME NEW y \in 0 .. height - 1, NEW i \in 0 .. stride - 1
      PROVE  Turned(y, i)' = Turned(y, i)
  BY <1>1 DEF ScanInv, NextRow, Turned
<1>3. UNCHANGED <<width, height, filter, bytes, original>>
  BY DEF NextRow
<1>4. row' \in Nat /\ at' \in Nat
  BY DEF ScanInv, NextRow
<1>5. ASSUME NEW y \in 0 .. height - 1
      PROVE  /\ DOMAIN bytes[y] = 0 .. stride - 1
             /\ \A i \in 0 .. stride - 1 :
                   bytes[y][i] = IF Turned(y, i)' THEN original[y][i]
                                 ELSE Filtered(original, filter)[y][i]
  BY <1>2 DEF ScanInv
<1>6. /\ Filtered(original, filter)' = Filtered(original, filter)
      /\ RowsOf(height, width)' = RowsOf(height, width)
  BY <1>3
<1> QED
  BY <1>1, <1>3, <1>4, <1>5, <1>6 DEF ScanInv

\* Every byte unfilterScanlines has passed is that of the picture.
THEOREM UnfilterIsInverse == ScanSpec => []UnfilterInverts
<1>1. ScanInv => UnfilterInverts
  BY DEF ScanInv, UnfilterInverts, Turned
<1>2. ASSUME ScanInv, [Unfilter]_scanVars
      PROVE  ScanInv'
  <2>1. CASE UNCHANGED scanVars
    BY <1>2, <2>1 DEF scanVars, ScanInv, stride, Turned
  <2> QED
    BY <1>2, <2>1, ByteKeepsInv, RowKeepsInv DEF Unfilter
<1> QED
  BY <1>1, <1>2, ScanInvInit, PTL DEF ScanSpec

-----------------------------------------------------------------------------
(* Bytes of a BMP. *)

LEMMA TimesMonotone ==
  ASSUME NEW a \in Int, NEW b \in Int, NEW s \in Nat, a <= b
  PROVE  a * s <= b * s
<1> DEFINE d == b - a
<1>1. d \in Nat /\ b = a + d
  OBVIOUS
<1> HIDE DEF d
<1>2. b * s = (a * s) + (d * s)
  BY <1>1
<1>3. d * s \in Nat
  BY <1>1
<1>4. a * s \in Int
  OBVIOUS
<1> QED
  BY <1>2, <1>3, <1>4

\* The quotient and the remainder of a place say its row and its column.
LEMMA PlaceInRow ==
  ASSUME NEW q \in Nat, NEW s \in Nat \ {0}, NEW m \in 0 .. s - 1
  PROVE  (q * s + m) \div s = q /\ (q * s + m) % s = m
<1> DEFINE x == q * s + m
           d == x \div s
           e == x % s
<1>1. x \in Nat
  OBVIOUS
<1>2. d \in Nat /\ e \in 0 .. s - 1 /\ x = s * d + e
  BY <1>1
<1> HIDE DEF d, e
<1>3. d * s \in Int /\ q * s \in Int /\ s * d = d * s
  BY <1>2
<1>4. ASSUME d < q PROVE FALSE
  <2>1. (d + 1) * s <= q * s
    BY <1>2, <1>4, TimesMonotone
  <2>2. (d + 1) * s = d * s + s
    BY <1>2
  <2> QED
    BY <1>2, <1>3, <2>1, <2>2
<1>5. ASSUME q < d PROVE FALSE
  <2>1. (q + 1) * s <= d * s
    BY <1>2, <1>5, TimesMonotone
  <2>2. (q + 1) * s = q * s + s
    OBVIOUS
  <2> QED
    BY <1>2, <1>3, <2>1, <2>2
<1>6. d = q
  BY <1>2, <1>4, <1>5
<1>7. e = m
  BY <1>2, <1>3, <1>6
<1> QED
  BY <1>6, <1>7 DEF d, e

LEMMA RowFits ==
  ASSUME NEW w \in Nat
  PROVE  /\ RowStride(w) \in Nat /\ 3 * w <= RowStride(w)
         /\ w > 0 => RowStride(w) \in Nat \ {0}
BY DEF RowStride

\* The byte at place k of the rows of a file.
BmpByte(i, k) ==
    IF k % RowStride(i.width) >= 3 * i.width THEN 0
    ELSE i.pixels[i.height - 1 - (k \div RowStride(i.width))]
                 [(k % RowStride(i.width)) \div 3]
                 [3 - ((k % RowStride(i.width)) % 3)]

BmpBytes(i) == i.height * RowStride(i.width)
BmpCells(i) == {BmpHeader(i.height, i.width)}
                   \cup {BmpByte(i, k) : k \in 0 .. BmpBytes(i) - 1}

LEMMA BmpContent ==
  ASSUME NEW i, i.height \in Nat, i.width \in Nat
  PROVE  /\ BmpBytes(i) \in Nat
         /\ BmpSave(i) \in Seq(BmpCells(i)) /\ Len(BmpSave(i)) = 1 + BmpBytes(i)
         /\ BmpSave(i)[1] = BmpHeader(i.height, i.width)
         /\ \A k \in 0 .. BmpBytes(i) - 1 : BmpSave(i)[k + 2] = BmpByte(i, k)
<1> DEFINE n == BmpBytes(i)
           head == <<BmpHeader(i.height, i.width)>>
           rows == [k \in 1 .. n |-> BmpByte(i, k - 1)]
<1>1. n \in Nat
  BY RowFits DEF BmpBytes
<1>2. BmpSave(i) = head \o rows
  BY DEF BmpSave, BmpByte, BmpBytes
<1>3. \A k \in 1 .. n : BmpByte(i, k - 1) \in BmpCells(i)
  <2>1. \A k \in 1 .. n : k - 1 \in 0 .. n - 1
    BY <1>1
  <2> HIDE DEF n
  <2> QED
    BY <2>1 DEF BmpCells, n
<1>4. head \in Seq(BmpCells(i)) /\ Len(head) = 1 /\ head[1] = BmpHeader(i.height, i.width)
  BY DEF BmpCells
<1> HIDE DEF n, head
<1>5. rows \in Seq(BmpCells(i)) /\ Len(rows) = n /\ \A k \in 1 .. n : rows[k] = BmpByte(i, k - 1)
  BY <1>1, <1>3
<1> HIDE DEF rows
<1> DEFINE all == head \o rows
<1>6. /\ all \in Seq(BmpCells(i)) /\ Len(all) = 1 + n /\ all[1] = head[1]
      /\ \A k \in 0 .. n - 1 : all[k + 2] = rows[k + 1]
  <2>0. /\ all \in Seq(BmpCells(i)) /\ Len(all) = Len(head) + Len(rows)
        /\ \A j \in 1 .. Len(head) + Len(rows) :
              all[j] = IF j <= Len(head) THEN head[j] ELSE rows[j - Len(head)]
    BY <1>4, <1>5, ConcatProperties
  <2> HIDE DEF all
  <2>1. /\ all \in Seq(BmpCells(i)) /\ Len(all) = 1 + n
        /\ \A j \in 1 .. 1 + n : all[j] = IF j <= 1 THEN head[j] ELSE rows[j - 1]
    BY <1>4, <1>5, <2>0
  <2>2. \A k \in 0 .. n - 1 : k + 2 \in 1 .. 1 + n /\ ~(k + 2 <= 1) /\ (k + 2) - 1 = k + 1
    BY <1>1
  <2>3. 1 \in 1 .. 1 + n
    BY <1>1
  <2> QED
    BY <2>1, <2>2, <2>3
<1>7. \A k \in 0 .. n - 1 : k + 1 \in 1 .. n /\ (k + 1) - 1 = k
  BY <1>1
<1> QED
  BY <1>1, <1>2, <1>4, <1>5, <1>6, <1>7 DEF n

\* The bytes of a pixel, blue first.
LEMMA PixelBytes ==
  ASSUME NEW i, i.height \in Nat, i.width \in Nat,
         NEW r \in 0 .. i.height - 1, NEW c \in 0 .. i.width - 1, NEW b \in 0 .. 2
  PROVE  LET k == Offset(i.height, i.width, r, c) + b
         IN  k \in 0 .. BmpBytes(i) - 1 /\ BmpByte(i, k) = i.pixels[r][c][3 - b]
<1> DEFINE s == RowStride(i.width)
           q == i.height - 1 - r
           m == 3 * c + b
           k == Offset(i.height, i.width, r, c) + b
<1>1. s \in Nat \ {0} /\ 3 * i.width <= s
  BY RowFits
<1>2. q \in Nat /\ m \in 0 .. s - 1 /\ m < 3 * i.width
  BY <1>1
<1>3. k = q * s + m
  BY <1>1, <1>2 DEF Offset
<1>4. m \div 3 = c /\ m % 3 = b
  OBVIOUS
<1>5. i.height - 1 - q = r
  OBVIOUS
<1> HIDE DEF s, q, m, k
<1>6. k \div s = q /\ k % s = m
  BY <1>1, <1>2, <1>3, PlaceInRow
<1>7. k \in 0 .. BmpBytes(i) - 1
  <2>1. q + 1 <= i.height /\ q + 1 \in Int
    BY <1>2 DEF q
  <2>2. (q + 1) * s <= i.height * s
    BY <1>1, <2>1, TimesMonotone
  <2>3. (q + 1) * s = q * s + s /\ q * s \in Nat /\ i.height * s \in Nat
    BY <1>1, <1>2
  <2>4. k \in Nat /\ k < i.height * s
    BY <1>1, <1>2, <1>3, <2>2, <2>3
  <2> QED
    BY <2>3, <2>4 DEF BmpBytes, s
<1>8. BmpByte(i, k) = i.pixels[r][c][3 - b]
  <2>1. ~(m >= 3 * i.width)
    BY <1>2
  <2> QED
    BY <1>4, <1>5, <1>6, <2>1 DEF BmpByte, s
<1> QED
  BY <1>7, <1>8 DEF k

\* A file that was written up to some cell.
PartOf(file, content) ==
    Len(file) <= Len(content) /\ \A n \in 1 .. Len(file) : file[n] = content[n]

\* What BMPImage::load makes of the beginning of a file BMPImage::save wrote.
LEMMA BmpLoaded ==
  ASSUME NEW i, i.height \in 0 .. DimLimit - 1, i.width \in 0 .. DimLimit - 1,
         NEW S, NEW file \in Seq(S), file # <<>>, PartOf(file, BmpSave(i))
  PROVE  LET get(k) == IF k + 2 <= Len(file) THEN BmpByte(i, k) ELSE 255
             off(r, c) == Offset(i.height, i.width, r, c)
         IN  BmpLoad(file) = [height |-> i.height, width |-> i.width,
                pixels |-> [r \in 0 .. i.height - 1 |-> [c \in 0 .. i.width - 1 |->
                    <<get(off(r, c) + 2), get(off(r, c) + 1), get(off(r, c)), 255>>]]]
<1> DEFINE H == i.height
           W == i.width
           get(k) == IF k + 2 <= Len(file) THEN BmpByte(i, k) ELSE 255
           read(k) == IF k + 2 <= Len(file) THEN file[k + 2] ELSE 255
           off(r, c) == Offset(H, W, r, c)
<1>1. H \in Nat /\ W \in Nat /\ H % DimLimit = H /\ W % DimLimit = W
  BY BmpConstants
<1>2. /\ Len(file) \in Nat /\ Len(file) >= 1
      /\ file[1] = BmpHeader(H, W)
  BY <1>1, BmpContent DEF PartOf
<1>3. file[1][2] = H /\ file[1][3] = W
  BY <1>2 DEF BmpHeader
<1>4. ASSUME NEW k \in 0 .. BmpBytes(i) - 1 PROVE read(k) = get(k)
  <2>1. CASE k + 2 <= Len(file)
    <3>1. k + 2 \in 1 .. Len(file)
      BY <1>2, <2>1
    <3>2. file[k + 2] = BmpByte(i, k)
      BY <1>1, <1>4, <3>1, BmpContent DEF PartOf
    <3> QED
      BY <2>1, <3>2
  <2>2. CASE ~(k + 2 <= Len(file))
    BY <2>2
  <2> QED
    BY <2>1, <2>2
<1>5. ASSUME NEW r \in 0 .. H - 1, NEW c \in 0 .. W - 1
      PROVE  /\ read(off(r, c) + 2) = get(off(r, c) + 2)
             /\ read(off(r, c) + 1) = get(off(r, c) + 1)
             /\ read(off(r, c)) = get(off(r, c))
  <2> DEFINE a == off(r, c)
  <2>1. a + 0 \in 0 .. BmpBytes(i) - 1 /\ a + 1 \in 0 .. BmpBytes(i) - 1
        /\ a + 2 \in 0 .. BmpBytes(i) - 1
    BY <1>1, PixelBytes
  <2>2. a \in Int
    <3>1. RowStride(W) \in Int /\ H - 1 - r \in Int /\ c \in Int
      <4>1. r \in Int /\ c \in Int /\ H \in Int
        BY <1>1
      <4>2. RowStride(W) \in Nat
        BY <1>1, RowFits
      <4> QED
        BY <4>1, <4>2
    <3>2. (H - 1 - r) * RowStride(W) \in Int /\ 3 * c \in Int
      BY <3>1
    <3> QED
      BY <3>2 DEF Offset
  <2>3. a + 0 = a
    BY <2>2
  <2> HIDE DEF a
  <2>4. read(a + 2) = get(a + 2) /\ read(a + 1) = get(a + 1) /\ read(a) = get(a)
    BY <1>4, <2>1, <2>3
  <2> QED
    BY <2>4 DEF a
<1> DEFINE Rows(byte(_)) ==
               [r \in 0 .. H - 1 |-> [c \in 0 .. W - 1 |->
                   <<byte(off(r, c) + 2), byte(off(r, c) + 1), byte(off(r, c)), 255>>]]
<1>6. BmpLoad(file) = BMPImage([height |-> H, width |-> W, pixels |-> Rows(read)])
  BY <1>3 DEF BmpLoad, Image, Opaque
<1>7. Rows(read) = Rows(get)
  <2> HIDE DEF read, get, off
  <2> QED
    BY <1>5
<1> DEFINE P == Rows(get)
<1>8. P = [r \in 0 .. H - 1 |-> [c \in 0 .. W - 1 |-> P[r][c]]]
  <2> HIDE DEF get, off
  <2> QED
    OBVIOUS
<1> HIDE DEF P
<1>9. BMPImage([height |-> H, width |-> W, pixels |-> P])
        = [height |-> H, width |-> W, pixels |-> P]
  BY <1>1, <1>8 DEF BMPImage, Image
<1> QED
  BY <1>6, <1>7, <1>9 DEF P

LEMMA CornerIs ==
  ASSUME NEW p, IsPicture(p)
  PROVE  LET i == BMPImage(p)
         IN  /\ i.height = p.height % DimLimit /\ i.height \in 0 .. DimLimit - 1
             /\ i.width = p.width % DimLimit /\ i.width \in 0 .. DimLimit - 1
             /\ i.height <= p.height /\ i.width <= p.width
             /\ \A r \in 0 .. i.height - 1, c \in 0 .. i.width - 1 :
                   i.pixels[r][c] = p.pixels[r][c]
<1>1. p.height \in Nat /\ p.width \in Nat
  BY DEF IsPicture
<1>2. ASSUME NEW n \in Nat PROVE n % DimLimit \in 0 .. DimLimit - 1 /\ n % DimLimit <= n
  BY BmpConstants
<1> QED
  BY <1>1, <1>2 DEF BMPImage, Image

\* The three bytes of a pixel in a whole file.
LEMMA PixelRead ==
  ASSUME NEW p, IsPicture(p),
         NEW r \in 0 .. BMPImage(p).height - 1, NEW c \in 0 .. BMPImage(p).width - 1
  PROVE  LET i == BMPImage(p)
             k == Offset(i.height, i.width, r, c)
         IN  /\ k \in 0 .. BmpBytes(i) - 1 /\ k + 1 \in 0 .. BmpBytes(i) - 1
             /\ k + 2 \in 0 .. BmpBytes(i) - 1
             /\ BmpByte(i, k) = p.pixels[r][c][3]
             /\ BmpByte(i, k + 1) = p.pixels[r][c][2]
             /\ BmpByte(i, k + 2) = p.pixels[r][c][1]
<1> DEFINE i == BMPImage(p)
           k == Offset(i.height, i.width, r, c)
<1>1. /\ i.height \in Nat /\ i.width \in Nat
      /\ i.pixels[r][c] = p.pixels[r][c]
  BY CornerIs, BmpConstants
<1> HIDE DEF i
<1>2. \A b \in 0 .. 2 : k + b \in 0 .. BmpBytes(i) - 1 /\ BmpByte(i, k + b) = p.pixels[r][c][3 - b]
  BY <1>1, PixelBytes DEF i
<1>3. k \in Int
  <2>1. RowStride(i.width) \in Int
    BY <1>1, RowFits
  <2>2. r \in Int /\ c \in Int /\ i.height \in Int
    BY <1>1
  <2>3. (i.height - 1 - r) * RowStride(i.width) \in Int
    BY <2>1, <2>2
  <2> QED
    BY <2>2, <2>3 DEF Offset
<1> HIDE DEF k
<1>4. k + 0 = k /\ 3 - 0 = 3 /\ 3 - 1 = 2 /\ 3 - 2 = 1
  BY <1>3
<1> QED
  BY <1>2, <1>4 DEF i, k

LEMMA BmpCorner ==
  ASSUME NEW p, IsPicture(p), NEW S, NEW file \in Seq(S), file # <<>>,
         PartOf(file, BmpSave(BMPImage(p)))
  PROVE  LET j == BmpLoad(file)
         IN  /\ j.height = p.height % DimLimit /\ j.width = p.width % DimLimit
             /\ \A r \in DOMAIN j.pixels : \A c \in DOMAIN j.pixels[r] :
                   \A k \in 1 .. 4 : j.pixels[r][c][k] \in {p.pixels[r][c][k], 255}
<1> DEFINE i == BMPImage(p)
           j == BmpLoad(file)
           get(k) == IF k + 2 <= Len(file) THEN BmpByte(i, k) ELSE 255
           off(r, c) == Offset(i.height, i.width, r, c)
           pixel(r, c) == <<get(off(r, c) + 2), get(off(r, c) + 1), get(off(r, c)), 255>>
<1>1. j = [height |-> i.height, width |-> i.width,
           pixels |-> [r \in 0 .. i.height - 1 |-> [c \in 0 .. i.width - 1 |-> pixel(r, c)]]]
  BY CornerIs, BmpLoaded
<1>2. ASSUME NEW r \in 0 .. i.height - 1, NEW c \in 0 .. i.width - 1, NEW k \in 1 .. 4
      PROVE  pixel(r, c)[k] \in {p.pixels[r][c][k], 255}
  <2> DEFINE a == off(r, c)
  <2>1. /\ get(a + 2) \in {p.pixels[r][c][1], 255}
        /\ get(a + 1) \in {p.pixels[r][c][2], 255}
        /\ get(a) \in {p.pixels[r][c][3], 255}
    BY PixelRead
  <2> HIDE DEF get, off
  <2>2. k = 1 \/ k = 2 \/ k = 3 \/ k = 4
    OBVIOUS
  <2> QED
    BY <2>1, <2>2
<1> HIDE DEF pixel
<1>3. i.height = p.height % DimLimit /\ i.width = p.width % DimLimit
  BY CornerIs
<1> HIDE DEF i, j
<1>4. /\ j.height = i.height /\ j.width = i.width /\ DOMAIN j.pixels = 0 .. i.height - 1
      /\ \A r \in 0 .. i.height - 1 :
            /\ DOMAIN j.pixels[r] = 0 .. i.width - 1
            /\ \A c \in 0 .. i.width - 1 : j.pixels[r][c] = pixel(r, c)
  BY <1>1
<1>5. ASSUME NEW r \in DOMAIN j.pixels, NEW c \in DOMAIN j.pixels[r], NEW k \in 1 .. 4
      PROVE  j.pixels[r][c][k] \in {p.pixels[r][c][k], 255}
  <2>1. r \in 0 .. i.height - 1 /\ c \in 0 .. i.width - 1 /\ j.pixels[r][c] = pixel(r, c)
    BY <1>4
  <2> QED
    BY <1>2, <2>1
<1> QED
  BY <1>3, <1>4, <1>5 DEF j

\* A whole file of an opaque picture that fits gives the picture.
LEMMA BmpRoundTrip ==
  ASSUME NEW p, IsPicture(p), IsOpaque(p), FitsBmp(p)
  PROVE  BmpLoad(BmpSave(BMPImage(p))) = p
<1> DEFINE i == BMPImage(p)
           file == BmpSave(i)
           get(k) == IF k + 2 <= Len(file) THEN BmpByte(i, k) ELSE 255
           off(r, c) == Offset(i.height, i.width, r, c)
           pixel(r, c) == <<get(off(r, c) + 2), get(off(r, c) + 1), get(off(r, c)), 255>>
<1>1. p.height \in Nat /\ p.width \in Nat /\ p.height < DimLimit /\ p.width < DimLimit
  BY DEF IsPicture, FitsBmp
<1>2. i.height = p.height /\ i.width = p.width
  BY <1>1, CornerIs, BmpConstants
<1>3. /\ file \in Seq(BmpCells(i)) /\ Len(file) = 1 + BmpBytes(i) /\ BmpBytes(i) \in Nat
  BY <1>1, <1>2, BmpContent
<1>4. file # <<>> /\ PartOf(file, file)
  <2> HIDE DEF file
  <2> QED
    BY <1>3 DEF PartOf
<1>5. BmpLoad(file)
        = [height |-> i.height, width |-> i.width,
           pixels |-> [r \in 0 .. i.height - 1 |-> [c \in 0 .. i.width - 1 |-> pixel(r, c)]]]
  BY <1>3, <1>4, CornerIs, BmpLoaded
<1>6. ASSUME NEW r \in 0 .. i.height - 1, NEW c \in 0 .. i.width - 1
      PROVE  pixel(r, c) = p.pixels[r][c]
  <2> DEFINE a == off(r, c)
             q == p.pixels[r][c]
  <2>1. /\ a \in 0 .. BmpBytes(i) - 1 /\ a + 1 \in 0 .. BmpBytes(i) - 1
        /\ a + 2 \in 0 .. BmpBytes(i) - 1
        /\ BmpByte(i, a) = q[3] /\ BmpByte(i, a + 1) = q[2] /\ BmpByte(i, a + 2) = q[1]
    BY PixelRead
  <2>2. q \in [1 .. 4 -> Byte] /\ q[4] = 255
    <3>1. r \in 0 .. p.height - 1 /\ c \in 0 .. p.width - 1
      BY <1>2
    <3>2. q \in Colours /\ q[4] = 255
      <4>1. \A y \in 0 .. p.height - 1, x \in 0 .. p.width - 1 : p.pixels[y][x] \in Colours
        BY DEF IsPicture
      <4>2. \A y \in 0 .. p.height - 1, x \in 0 .. p.width - 1 : p.pixels[y][x][4] = 255
        BY DEF IsOpaque
      <4> HIDE DEF i
      <4> QED
        BY <3>1, <4>1, <4>2
    <3> QED
      BY <3>2, ImageConstants DEF Colours
  <2> HIDE DEF a, q, file
  <2>3. get(a) = q[3] /\ get(a + 1) = q[2] /\ get(a + 2) = q[1]
    BY <1>3, <2>1
  <2> HIDE DEF get
  <2>4. <<get(a + 2), get(a + 1), get(a), 255>> = q
    BY <2>2, <2>3
  <2> QED
    BY <2>4 DEF a, q
<1> HIDE DEF pixel
<1>7. [r \in 0 .. i.height - 1 |-> [c \in 0 .. i.width - 1 |-> pixel(r, c)]]
        = [r \in 0 .. p.height - 1 |-> [c \in 0 .. p.width - 1 |-> p.pixels[r][c]]]
  BY <1>2, <1>6
<1>8. p = [height |-> p.height, width |-> p.width,
           pixels |-> [r \in 0 .. p.height - 1 |->
                          [c \in 0 .. p.width - 1 |-> p.pixels[r][c]]]]
  BY DEF IsPicture, Image
<1> QED
  BY <1>2, <1>5, <1>7, <1>8

-----------------------------------------------------------------------------
(* Cells of a PNG. *)

LEMMA CellTypes ==
  /\ \A n \in Nat : Num(n) \in PngCells /\ Z(n) \in PngCells
  /\ \A t \in Types : Name(t) \in PngCells
  /\ Crc \in PngCells /\ Zero \in PngCells /\ Signature \in PngCells
BY DEF PngCells, Num, Z, Name, Crc, Zero, Signature

LEMMA DimsType ==
  ASSUME NEW i, i.height \in Nat, i.width \in Nat
  PROVE  Dims(i) \in PngCells
BY DEF PngCells, Dims

LEMMA CellKinds ==
  /\ \A n : /\ AsType(Num(n)) = "other" /\ AsLength(Num(n)) = {n}
            /\ AsType(Z(n)) = "other"
  /\ \A t : AsType(Name(t)) = t
  /\ AsType(Crc) = "other" /\ AsType(Zero) = "other"
  /\ \A i : Dims(i)[1] = "dims" /\ Dims(i)[2] = i.height /\ Dims(i)[3] = i.width
  /\ \A i : AsType(Dims(i)) = "other"
BY DEF AsType, AsLength, Num, Z, Name, Crc, Zero, Dims

LEMMA LengthType ==
  ASSUME NEW cell \in PngCells, NEW length \in AsLength(cell)
  PROVE  length \in Nat
<1>1. cell[1] = "num" => cell[2] \in Nat
  BY DEF PngCells, Signature, Crc, Zero
<1>2. Word \in Nat
  BY ImageConstants
<1> QED
  BY <1>1, <1>2 DEF AsLength

LEMMA ChunkIs ==
  ASSUME NEW t \in Types, NEW payload \in Seq(PngCells)
  PROVE  LET chunk == Chunk(t, payload)
         IN  /\ chunk \in Seq(PngCells) /\ Len(chunk) = Len(payload) + 3
             /\ chunk[1] = Num(Len(payload)) /\ chunk[2] = Name(t)
             /\ \A k \in 1 .. Len(payload) : chunk[k + 2] = payload[k]
             /\ chunk[Len(payload) + 3] = Crc
<1> DEFINE n == Len(payload)
           head == <<Num(n), Name(t)>>
           most == head \o payload
           chunk == most \o <<Crc>>
<1>1. /\ n \in Nat /\ head \in Seq(PngCells) /\ Len(head) = 2
      /\ head[1] = Num(n) /\ head[2] = Name(t)
  <2>1. n \in Nat
    OBVIOUS
  <2>2. Num(n) \in PngCells /\ Name(t) \in PngCells
    BY <2>1, CellTypes
  <2>3. \A a \in PngCells, b \in PngCells :
           /\ <<a, b>> \in Seq(PngCells) /\ Len(<<a, b>>) = 2
           /\ <<a, b>>[1] = a /\ <<a, b>>[2] = b
    OBVIOUS
  <2> HIDE DEF n
  <2> QED
    BY <2>1, <2>2, <2>3
<1>2. /\ <<Crc>> \in Seq(PngCells) /\ Len(<<Crc>>) = 1 /\ <<Crc>>[1] = Crc
  BY CellTypes
<1> HIDE DEF head
<1>3. /\ most \in Seq(PngCells) /\ Len(most) = 2 + n
      /\ \A j \in 1 .. 2 + n : most[j] = IF j <= 2 THEN head[j] ELSE payload[j - 2]
  <2>1. /\ most \in Seq(PngCells) /\ Len(most) = Len(head) + n
        /\ \A j \in 1 .. Len(head) + n :
              most[j] = IF j <= Len(head) THEN head[j] ELSE payload[j - Len(head)]
    BY <1>1, ConcatProperties
  <2> HIDE DEF most
  <2> QED
    BY <1>1, <2>1
<1> HIDE DEF most
<1>4. /\ chunk \in Seq(PngCells) /\ Len(chunk) = n + 3
      /\ \A j \in 1 .. n + 3 : chunk[j] = IF j <= n + 2 THEN most[j] ELSE Crc
  <2>1. /\ chunk \in Seq(PngCells) /\ Len(chunk) = Len(most) + Len(<<Crc>>)
        /\ \A j \in 1 .. Len(most) + Len(<<Crc>>) :
              chunk[j] = IF j <= Len(most) THEN most[j] ELSE <<Crc>>[j - Len(most)]
    BY <1>2, <1>3, ConcatProperties
  <2> HIDE DEF chunk
  <2>2. Len(most) = n + 2 /\ Len(chunk) = n + 3
    BY <1>1, <1>2, <1>3, <2>1
  <2>3. ASSUME NEW j \in 1 .. n + 3 PROVE chunk[j] = IF j <= n + 2 THEN most[j] ELSE Crc
    <3>1. chunk[j] = IF j <= n + 2 THEN most[j] ELSE <<Crc>>[j - (n + 2)]
      BY <1>1, <1>2, <2>1, <2>2
    <3>2. ~(j <= n + 2) => j - (n + 2) = 1
      BY <1>1
    <3> QED
      BY <1>2, <3>1, <3>2
  <2> QED
    BY <2>1, <2>2, <2>3
<1> HIDE DEF chunk
<1>5. chunk[1] = Num(n) /\ chunk[2] = Name(t) /\ chunk[n + 3] = Crc
  <2>1. /\ 1 \in 1 .. 2 + n /\ 1 \in 1 .. n + 3 /\ 1 <= n + 2
        /\ 2 \in 1 .. 2 + n /\ 2 \in 1 .. n + 3 /\ 2 <= n + 2
        /\ n + 3 \in 1 .. n + 3 /\ ~(n + 3 <= n + 2)
    BY <1>1
  <2>2. most[1] = head[1] /\ most[2] = head[2]
    BY <1>3, <2>1
  <2> QED
    BY <1>1, <1>4, <2>1, <2>2
<1>6. ASSUME NEW k \in 1 .. n PROVE chunk[k + 2] = payload[k]
  <2>1. k + 2 \in 1 .. n + 3 /\ k + 2 <= n + 2 /\ k + 2 \in 1 .. 2 + n /\ ~(k + 2 <= 2)
        /\ (k + 2) - 2 = k
    BY <1>1
  <2> QED
    BY <1>3, <1>4, <2>1
<1> HIDE DEF n
<1>7. /\ chunk \in Seq(PngCells) /\ Len(chunk) = n + 3 /\ chunk[1] = Num(n)
      /\ chunk[2] = Name(t) /\ chunk[n + 3] = Crc
      /\ \A k \in 1 .. n : chunk[k + 2] = payload[k]
  BY <1>4, <1>5, <1>6
<1> QED
  BY <1>7 DEF Chunk, chunk, most, head, n

LEMMA CompressedIs ==
  /\ ZLength \in Nat /\ ZLength > 0
  /\ Compressed \in Seq(PngCells) /\ Len(Compressed) = ZLength
  /\ \A k \in 1 .. ZLength : Compressed[k] = Z(k)
<1>1. ZLength \in Nat /\ ZLength > 0
  BY ImageConstants
<1>2. \A k \in 1 .. ZLength : Z(k) \in PngCells
  BY <1>1, CellTypes
<1> QED
  BY <1>1, <1>2 DEF Compressed

LEMMA PngSaveIs ==
  ASSUME NEW i, i.height \in Nat, i.width \in Nat
  PROVE  LET content == PngSave(i)
         IN  /\ content \in Seq(PngCells) /\ Len(content) = ZLength + 11
             /\ content[1] = Signature /\ content[2] = Num(1)
             /\ content[3] = Name("IHDR") /\ content[4] = Dims(i) /\ content[5] = Crc
             /\ content[6] = Num(ZLength) /\ content[7] = Name("IDAT")
             /\ \A k \in 1 .. ZLength : content[k + 7] = Z(k)
             /\ content[ZLength + 8] = Crc /\ content[ZLength + 9] = Num(0)
             /\ content[ZLength + 10] = Name("IEND") /\ content[ZLength + 11] = Crc
<1> DEFINE n == ZLength
           a == Chunk("IHDR", <<Dims(i)>>)
           b == Chunk("IDAT", Compressed)
           c == Chunk("IEND", <<>>)
           two == <<Signature>> \o a
           three == two \o b
           content == three \o c
<1>1. n \in Nat
  BY CompressedIs
<1>2. <<Signature>> \in Seq(PngCells) /\ Len(<<Signature>>) = 1 /\ <<Signature>>[1] = Signature
  BY CellTypes
<1>3. /\ a \in Seq(PngCells) /\ Len(a) = 4 /\ a[1] = Num(1) /\ a[2] = Name("IHDR")
      /\ a[3] = Dims(i) /\ a[4] = Crc
  <2> DEFINE payload == <<Dims(i)>>
  <2>1. payload \in Seq(PngCells) /\ Len(payload) = 1 /\ payload[1] = Dims(i)
    BY DimsType
  <2> HIDE DEF payload
  <2>2. /\ Chunk("IHDR", payload) \in Seq(PngCells) /\ Len(Chunk("IHDR", payload)) = 1 + 3
        /\ Chunk("IHDR", payload)[1] = Num(1) /\ Chunk("IHDR", payload)[2] = Name("IHDR")
        /\ Chunk("IHDR", payload)[1 + 2] = payload[1] /\ Chunk("IHDR", payload)[1 + 3] = Crc
    <3> DEFINE chunk == Chunk("IHDR", payload)
    <3>1. /\ chunk \in Seq(PngCells) /\ Len(chunk) = Len(payload) + 3
          /\ chunk[1] = Num(Len(payload)) /\ chunk[2] = Name("IHDR")
          /\ \A k \in 1 .. Len(payload) : chunk[k + 2] = payload[k]
          /\ chunk[Len(payload) + 3] = Crc
      BY <2>1, ChunkIs DEF Types
    <3> HIDE DEF chunk
    <3>2. 1 \in 1 .. Len(payload)
      BY <2>1
    <3> QED
      BY <2>1, <3>1, <3>2 DEF chunk
  <2> QED
    BY <2>1, <2>2 DEF payload
<1>4. /\ b \in Seq(PngCells) /\ Len(b) = n + 3 /\ b[1] = Num(n) /\ b[2] = Name("IDAT")
      /\ \A k \in 1 .. n : b[k + 2] = Z(k)
      /\ b[n + 3] = Crc
  BY CompressedIs, ChunkIs DEF Types
<1>5. /\ c \in Seq(PngCells) /\ Len(c) = 3 /\ c[1] = Num(0) /\ c[2] = Name("IEND") /\ c[3] = Crc
  <2>1. <<>> \in Seq(PngCells) /\ Len(<<>>) = 0
    OBVIOUS
  <2>2. /\ c \in Seq(PngCells) /\ Len(c) = 0 + 3 /\ c[1] = Num(0) /\ c[2] = Name("IEND")
        /\ c[0 + 3] = Crc
    BY <2>1, ChunkIs DEF Types
  <2> QED
    BY <2>2
<1> HIDE DEF n, a, b, c
<1>6. /\ two \in Seq(PngCells) /\ Len(two) = 5
      /\ \A j \in 1 .. 5 : two[j] = IF j <= 1 THEN <<Signature>>[j] ELSE a[j - 1]
  <2>1. /\ two \in Seq(PngCells) /\ Len(two) = Len(<<Signature>>) + Len(a)
        /\ \A j \in 1 .. Len(<<Signature>>) + Len(a) :
              two[j] = IF j <= Len(<<Signature>>) THEN <<Signature>>[j]
                       ELSE a[j - Len(<<Signature>>)]
    BY <1>2, <1>3, ConcatProperties
  <2> HIDE DEF two
  <2> QED
    BY <1>2, <1>3, <2>1
<1> HIDE DEF two
<1>7. /\ three \in Seq(PngCells) /\ Len(three) = n + 8
      /\ \A j \in 1 .. n + 8 : three[j] = IF j <= 5 THEN two[j] ELSE b[j - 5]
  <2>1. /\ three \in Seq(PngCells) /\ Len(three) = Len(two) + Len(b)
        /\ \A j \in 1 .. Len(two) + Len(b) :
              three[j] = IF j <= Len(two) THEN two[j] ELSE b[j - Len(two)]
    BY <1>4, <1>6, ConcatProperties
  <2>2. Len(two) + Len(b) = n + 8
    BY <1>1, <1>4, <1>6
  <2> HIDE DEF three
  <2> QED
    BY <1>6, <2>1, <2>2
<1> HIDE DEF three
<1>8. /\ content \in Seq(PngCells) /\ Len(content) = n + 11
      /\ \A j \in 1 .. n + 11 : content[j] = IF j <= n + 8 THEN three[j] ELSE c[j - (n + 8)]
  <2>1. /\ content \in Seq(PngCells) /\ Len(content) = Len(three) + Len(c)
        /\ \A j \in 1 .. Len(three) + Len(c) :
              content[j] = IF j <= Len(three) THEN three[j] ELSE c[j - Len(three)]
    BY <1>5, <1>7, ConcatProperties
  <2>2. Len(three) + Len(c) = n + 11
    BY <1>1, <1>5, <1>7
  <2> HIDE DEF content
  <2> QED
    BY <1>7, <2>1, <2>2
<1> HIDE DEF content
<1>9. ASSUME NEW j \in 1 .. 5 PROVE content[j] = IF j <= 1 THEN Signature ELSE a[j - 1]
  <2>1. j \in 1 .. n + 8 /\ j \in 1 .. n + 11 /\ j <= n + 8 /\ j <= 5
    BY <1>1
  <2>2. content[j] = two[j]
    BY <1>7, <1>8, <2>1
  <2>3. j <= 1 => j = 1
    OBVIOUS
  <2> QED
    BY <1>2, <1>6, <2>2, <2>3
<1>10. ASSUME NEW j \in 1 .. n + 3 PROVE content[j + 5] = b[j]
  <2>1. /\ j + 5 \in 1 .. n + 8 /\ j + 5 \in 1 .. n + 11 /\ j + 5 <= n + 8
        /\ ~(j + 5 <= 5) /\ (j + 5) - 5 = j
    BY <1>1
  <2> QED
    BY <1>7, <1>8, <2>1
<1>11. ASSUME NEW j \in 1 .. 3 PROVE content[j + (n + 8)] = c[j]
  <2>1. j + (n + 8) \in 1 .. n + 11 /\ ~(j + (n + 8) <= n + 8) /\ (j + (n + 8)) - (n + 8) = j
    BY <1>1
  <2> QED
    BY <1>8, <2>1
<1>12. /\ content[1] = Signature /\ content[2] = Num(1)
       /\ content[3] = Name("IHDR") /\ content[4] = Dims(i) /\ content[5] = Crc
  BY <1>3, <1>9
<1>13. /\ content[6] = Num(n) /\ content[7] = Name("IDAT") /\ content[n + 8] = Crc
       /\ \A k \in 1 .. n : content[k + 7] = Z(k)
  <2>1. /\ content[1 + 5] = b[1] /\ content[2 + 5] = b[2] /\ content[(n + 3) + 5] = b[n + 3]
        /\ \A k \in 1 .. n : content[(k + 2) + 5] = b[k + 2]
    <3>1. /\ 1 \in 1 .. n + 3 /\ 2 \in 1 .. n + 3 /\ n + 3 \in 1 .. n + 3
          /\ \A k \in 1 .. n : k + 2 \in 1 .. n + 3
      BY <1>1
    <3> QED
      BY <1>10, <3>1
  <2>2. /\ 1 + 5 = 6 /\ 2 + 5 = 7 /\ (n + 3) + 5 = n + 8
        /\ \A k \in 1 .. n : (k + 2) + 5 = k + 7
    BY <1>1
  <2> QED
    BY <1>4, <2>1, <2>2
<1>14. /\ content[n + 9] = Num(0) /\ content[n + 10] = Name("IEND") /\ content[n + 11] = Crc
  <2>1. 1 + (n + 8) = n + 9 /\ 2 + (n + 8) = n + 10 /\ 3 + (n + 8) = n + 11
    BY <1>1
  <2> QED
    BY <1>5, <1>11, <2>1
<1>15. PngSave(i) = content
  BY DEF PngSave, content, three, two, a, b, c
<1> QED
  BY <1>8, <1>12, <1>13, <1>14, <1>15 DEF n

LEMMA SavedHeaderFirst ==
  ASSUME NEW i, i.height \in Nat, i.width \in Nat
  PROVE  HeaderFirst(PngSave(i), i)
<1> DEFINE content == PngSave(i)
           n == ZLength
<1>1. n \in Nat
  BY CompressedIs
<1>2. DOMAIN content = 1 .. n + 11
  BY PngSaveIs, LenProperties
<1>3. ASSUME NEW j \in 1 .. n + 11, j > 4 PROVE AsType(content[j]) # "IHDR"
  <2>1. \/ j = 5 \/ j = 6 \/ j = 7 \/ j - 7 \in 1 .. n \/ j = n + 8 \/ j = n + 9
        \/ j = n + 10 \/ j = n + 11
    BY <1>1, <1>3
  <2>2. CASE j - 7 \in 1 .. n
    <3>1. content[(j - 7) + 7] = Z(j - 7) /\ (j - 7) + 7 = j
      BY <2>2, PngSaveIs
    <3> QED
      BY <3>1, CellKinds
  <2>3. CASE j = 5 \/ j = n + 8 \/ j = n + 11
    BY <2>3, PngSaveIs, CellKinds
  <2>4. CASE j = 6 \/ j = n + 9
    BY <2>4, PngSaveIs, CellKinds
  <2>5. CASE j = 7 \/ j = n + 10
    BY <2>5, PngSaveIs, CellKinds
  <2> QED
    BY <2>1, <2>2, <2>3, <2>4, <2>5
<1> HIDE DEF n
<1> QED
  BY <1>2, <1>3, PngSaveIs DEF HeaderFirst

\* What is left of a file that was to be written.
LEMMA WrittenPart ==
  ASSUME NEW S, NEW content \in Seq(S), WriteFile(content)
  PROVE  cells' \in Seq(S) /\ PartOf(cells', content)
<1>1. PICK n \in 0 .. Len(content) : cells' = SubSeq(content, 1, n)
  BY DEF WriteFile
<1>2. /\ cells' \in Seq(S) /\ Len(cells') = n
      /\ \A j \in 1 .. n : cells'[j] = content[j]
  BY <1>1
<1> QED
  BY <1>2 DEF PartOf

LEMMA WrittenPng ==
  ASSUME NEW i, i.height \in Nat, i.width \in Nat, WriteFile(PngSave(i))
  PROVE  cells' \in Seq(PngCells) /\ HeaderFirst(cells', i)
<1> DEFINE content == PngSave(i)
<1>1. content \in Seq(PngCells) /\ HeaderFirst(content, i)
  BY PngSaveIs, SavedHeaderFirst
<1> HIDE DEF content
<1>2. cells' \in Seq(PngCells) /\ PartOf(cells', content)
  BY <1>1, WrittenPart DEF content
<1>3. \A j \in DOMAIN cells' : j \in DOMAIN content /\ cells'[j] = content[j]
  BY <1>1, <1>2, LenProperties DEF PartOf
<1> QED
  BY <1>1, <1>2, <1>3 DEF HeaderFirst

-----------------------------------------------------------------------------
(* Images and files. *)

IsPng == layout \in {"png", "other", "split"}

\* What the file holds, and what it stands for.
FileInv ==
    /\ IsPicture(picture)
    /\ layout \in {"none", "bmp", "png", "other", "split"}
    /\ layout = "bmp" =>
          /\ IsOpaque(picture)
          /\ cells \in Seq(BmpCells(BMPImage(picture)))
          /\ PartOf(cells, BmpSave(BMPImage(picture)))
    /\ IsPng =>
          /\ cells \in Seq(PngCells) /\ HeaderFirst(cells, picture)
          /\ original = RawRows(picture)
          /\ filter \in [0 .. picture.height - 1 -> Filters]

\* A file that SavedIsLoaded speaks of.
Expected == RightName /\ Complete /\ (layout = "bmp" => FitsBmp(picture))

\* Where the loader is in such a file: before IHDR, before IDAT, or anywhere after
\* the data.
OnTrack ==
    \/ pos = 1 /\ good /\ type = "other" /\ collected = <<>>
    \/ pos = 5 /\ good /\ type = "IHDR" /\ collected = <<>>
    \/ pos >= 7 + ZLength /\ type # "IHDR" /\ IsPrefix(Compressed, collected)

\* And in any other: once there is data the size is that of the picture.
Walked ==
    /\ pos \in Nat /\ good \in BOOLEAN /\ collected \in Seq(PngCells)
    /\ \/ pos = 1 /\ good /\ type = "other" /\ collected = <<>>
       \/ ~good /\ collected = <<>>
       \/ /\ pos >= 4 /\ width = picture.width /\ height = picture.height
          /\ type = "IHDR" => collected = <<>>

Loaded ==
    \/ ext = ".bmp" /\ cells = <<>> /\ image = NoImage
    \/ layout = "bmp" /\ ext = ".bmp" /\ image = BmpLoad(cells)
    \/ IsPng /\ ext = ".png" /\ image = picture

NotWalking == pos = 0 /\ good = TRUE /\ type = "other" /\ collected = <<>>

PhaseInv ==
    /\ phase \in {"received", "not saved", "stored", "chunks", "inflate", "unfilter",
                 "loaded", "null", "crashed", "thrown"}
    /\ phase \in {"received", "not saved"} \/ layout # "none"
    /\ phase # "unfilter" => row = 0 /\ at = 0
    /\ phase = "received" =>
          layout = "none" /\ image = picture /\ IsOpaque(picture) /\ NotReading
    /\ phase = "stored" => NotReading
    /\ phase = "chunks" => IsPng /\ ext = ".png" /\ Walked /\ (Expected => OnTrack)
    /\ phase = "inflate" =>
          IsPng /\ ext = ".png" /\ Walked /\ (Expected => IsPrefix(Compressed, collected))
    /\ phase = "unfilter" =>
          /\ IsPng /\ ext = ".png" /\ NotWalking /\ ScanInv
          /\ width = picture.width /\ height = picture.height
    /\ phase = "loaded" => NotReading /\ Loaded
    /\ phase \in {"null", "crashed", "thrown"} => ~Expected

ImageInv == FileInv /\ PhaseInv

LEMMA FileKept ==
  ASSUME FileInv, UNCHANGED <<cells, picture, layout, original, filter>>
  PROVE  FileInv' /\ (IsPng <=> IsPng')
BY DEF FileInv, IsPng

LEMMA ExpectedKept ==
  ASSUME UNCHANGED <<cells, ext, picture, layout>>
  PROVE  Expected' <=> Expected
BY DEF Expected, RightName, Complete

LEMMA RawRowsType ==
  ASSUME NEW p, IsPicture(p)
  PROVE  RawRows(p) \in RowsOf(p.height, p.width)
<1>1. p.height \in Nat /\ p.width \in Nat /\ bpp = 4
  BY ImageConstants DEF IsPicture
<1>2. \A r \in 0 .. p.height - 1, c \in 0 .. p.width - 1 : p.pixels[r][c] \in Colours
  BY DEF IsPicture
<1>3. ASSUME NEW y \in 0 .. p.height - 1, NEW k \in 0 .. p.width * bpp - 1
      PROVE  p.pixels[y][k \div bpp][(k % bpp) + 1] \in Byte
  <2>1. k \div 4 \in 0 .. p.width - 1 /\ (k % 4) + 1 \in 1 .. 4
    BY <1>1
  <2> QED
    BY <1>1, <1>2, <2>1 DEF Colours
<1> QED
  BY <1>3 DEF RawRows, RowsOf

LEMMA PicturesRead ==
  /\ \A i \in Received : IsPicture(i) /\ IsOpaque(i)
  /\ \A s \in Stored :
        /\ s.layout \in {"other", "split"} /\ IsPicture(s.image)
        /\ s.filter \in [0 .. s.image.height - 1 -> Filters]
        /\ s.cells \in Seq(PngCells) /\ HeaderFirst(s.cells, s.image)
BY ImageConstants

LEMMA ImageInvInit == ASSUME Init PROVE ImageInv
<1>1. NotReading /\ row = 0 /\ at = 0
  BY DEF Init, NotReading
<1>2. CASE phase = "received"
  <2>1. /\ image \in Received /\ picture = image /\ layout = "none"
    BY <1>2 DEF Init
  <2>2. IsPicture(picture) /\ IsOpaque(picture)
    BY <2>1, PicturesRead
  <2>3. FileInv
    BY <2>1, <2>2 DEF FileInv, IsPng
  <2>4. PhaseInv
    BY <1>1, <1>2, <2>1, <2>2 DEF PhaseInv
  <2> QED
    BY <2>3, <2>4 DEF ImageInv
<1>3. CASE phase # "received"
  <2>1. PICK s \in Stored : /\ phase = "stored" /\ picture = s.image
                            /\ cells = s.cells /\ layout = s.layout
                            /\ original = RawRows(s.image) /\ filter = s.filter
    BY <1>3 DEF Init
  <2>2. layout \in {"other", "split"}
    BY <2>1, PicturesRead
  <2>3. /\ IsPicture(picture) /\ filter \in [0 .. picture.height - 1 -> Filters]
        /\ cells \in Seq(PngCells) /\ HeaderFirst(cells, picture)
    BY <2>1, PicturesRead
  <2>4. FileInv
    BY <2>1, <2>2, <2>3 DEF FileInv
  <2>5. PhaseInv
    BY <1>1, <2>1, <2>2 DEF PhaseInv
  <2> QED
    BY <2>4, <2>5 DEF ImageInv
<1> QED
  BY <1>2, <1>3

LEMMA ChooseKeeps ==
  ASSUME ImageInv, NEW format, Choose(format)
  PROVE  ImageInv'
<1>1. /\ phase = "received" /\ phase' = "stored" /\ layout' = format
      /\ image = picture /\ picture' = picture /\ IsOpaque(picture) /\ IsPicture(picture)
      /\ format \in {"bmp", "png"}
  BY DEF Choose, ImageInv, FileInv, PhaseInv, fileVars
<1>2. NotReading'
  BY <1>1 DEF Choose, ImageInv, PhaseInv, NotReading, walkVars
<1>3. PhaseInv'
  <2>1. row' = 0 /\ at' = 0
    BY <1>2 DEF NotReading
  <2> QED
    BY <1>1, <1>2, <2>1 DEF PhaseInv
<1>4. CASE format = "bmp"
  <2> DEFINE i == BMPImage(picture)
  <2>1. WriteFile(BmpSave(i))
    BY <1>1, <1>4 DEF Choose, WriteFile
  <2>2. i.height \in Nat /\ i.width \in Nat
    BY <1>1, CornerIs, BmpConstants
  <2>3. BmpSave(i) \in Seq(BmpCells(i))
    BY <2>2, BmpContent
  <2> HIDE DEF i
  <2>4. cells' \in Seq(BmpCells(i)) /\ PartOf(cells', BmpSave(i))
    BY <2>1, <2>3, WrittenPart
  <2> QED
    BY <1>1, <1>3, <1>4, <2>4 DEF ImageInv, FileInv, IsPng, i
<1>5. CASE format = "png"
  <2>1. /\ WriteFile(PngSave(picture))
        /\ original' = RawRows(picture) /\ filter' = Unfiltered(picture)
    BY <1>1, <1>5 DEF Choose
  <2>2. picture.height \in Nat /\ picture.width \in Nat
    BY <1>1 DEF IsPicture
  <2>3. cells' \in Seq(PngCells) /\ HeaderFirst(cells', picture)
    BY <2>1, <2>2, WrittenPng
  <2>4. Unfiltered(picture) \in [0 .. picture.height - 1 -> Filters]
    BY DEF Unfiltered, Filters
  <2>5. layout' = "png"
    BY <1>1, <1>5
  <2> QED
    BY <1>1, <1>3, <2>1, <2>3, <2>4, <2>5 DEF ImageInv, FileInv, IsPng
<1> QED
  BY <1>1, <1>4, <1>5

LEMMA EditKeeps == ASSUME ImageInv, Edit PROVE ImageInv'
<1>1. /\ phase = "loaded" /\ ext = ".png" /\ phase' = "stored" /\ layout' = "png"
      /\ image' = Edited(image) /\ picture' = Edited(picture)
      /\ WriteFile(PngSave(image')) /\ original' = RawRows(image')
      /\ filter' = Unfiltered(image')
  BY DEF Edit
<1>2. image = picture /\ IsPicture(picture) /\ NotReading
  BY <1>1 DEF ImageInv, FileInv, PhaseInv, Loaded
<1>3. image' = picture'
  BY <1>1, <1>2
<1>4. IsPicture(Edited(picture))
  <2> DEFINE p == picture
             pixel(r, c) == IF <<r, c>> \in EditAt THEN NewColour ELSE p.pixels[r][c]
             e == [height |-> p.height, width |-> p.width,
                   pixels |-> [r \in 0 .. p.height - 1 |->
                                  [c \in 0 .. p.width - 1 |-> pixel(r, c)]]]
  <2>1. /\ p.height \in Nat /\ p.width \in Nat
        /\ \A r \in 0 .. p.height - 1, c \in 0 .. p.width - 1 : p.pixels[r][c] \in Colours
    BY <1>2 DEF IsPicture
  <2>2. Edited(p) = e
    BY DEF Edited, Image
  <2>3. \A r \in 0 .. p.height - 1, c \in 0 .. p.width - 1 : pixel(r, c) \in Colours
    BY <2>1, ImageConstants
  <2> HIDE DEF p, pixel
  <2>4. /\ e.height = p.height /\ e.width = p.width
        /\ \A r \in 0 .. p.height - 1, c \in 0 .. p.width - 1 : e.pixels[r][c] = pixel(r, c)
    OBVIOUS
  <2>5. e = [height |-> e.height, width |-> e.width,
             pixels |-> [r \in 0 .. e.height - 1 |->
                            [c \in 0 .. e.width - 1 |-> e.pixels[r][c]]]]
    <3>1. [r \in 0 .. e.height - 1 |-> [c \in 0 .. e.width - 1 |-> e.pixels[r][c]]]
            = [r \in 0 .. p.height - 1 |-> [c \in 0 .. p.width - 1 |-> pixel(r, c)]]
      BY <2>4
    <3> QED
      BY <2>4, <3>1
  <2> HIDE DEF e
  <2>6. IsPicture(e)
    BY <2>1, <2>3, <2>4, <2>5 DEF IsPicture, Image
  <2> QED
    BY <2>2, <2>6 DEF p
<1>5. IsPicture(picture')
  BY <1>1, <1>4
<1>6. picture'.height \in Nat /\ picture'.width \in Nat
  BY <1>5 DEF IsPicture
<1>7. cells' \in Seq(PngCells) /\ HeaderFirst(cells', picture')
  <2>1. WriteFile(PngSave(picture'))
    BY <1>1, <1>3 DEF WriteFile
  <2> DEFINE q == picture'
  <2>2. cells' \in {SubSeq(PngSave(q), 1, n) : n \in 0 .. Len(PngSave(q))}
    BY <2>1 DEF WriteFile
  <2>3. q.height \in Nat /\ q.width \in Nat
    BY <1>6
  <2> HIDE DEF q
  <2>4. WriteFile(PngSave(q))
    BY <2>2 DEF WriteFile
  <2>5. cells' \in Seq(PngCells) /\ HeaderFirst(cells', q)
    BY <2>3, <2>4, WrittenPng
  <2> QED
    BY <2>5 DEF q
<1>8. Unfiltered(picture') \in [0 .. picture'.height - 1 -> Filters]
  BY DEF Unfiltered, Filters
<1>9. FileInv'
  BY <1>1, <1>3, <1>5, <1>7, <1>8 DEF FileInv, IsPng
<1>10. NotReading'
  BY <1>2 DEF Edit, NotReading, walkVars
<1>11. row' = 0 /\ at' = 0
  BY <1>10 DEF NotReading
<1>12. PhaseInv'
  BY <1>1, <1>10, <1>11 DEF PhaseInv
<1> QED
  BY <1>9, <1>12 DEF ImageInv

LEMMA FirstCell ==
  ASSUME FileInv, cells # <<>>
  PROVE  /\ layout = "bmp" => cells[1][1] = "bmp"
         /\ IsPng => cells[1][1] = "signature"
<1>1. CASE layout = "bmp"
  <2> DEFINE i == BMPImage(picture)
  <2>1. i.height \in Nat /\ i.width \in Nat
    BY CornerIs, BmpConstants DEF FileInv
  <2>2. cells \in Seq(BmpCells(i)) /\ PartOf(cells, BmpSave(i))
    BY <1>1 DEF FileInv
  <2> HIDE DEF i
  <2>3. cells[1] = BmpHeader(i.height, i.width)
    <3>1. 1 \in 1 .. Len(cells)
      BY <2>2
    <3> QED
      BY <2>1, <2>2, <3>1, BmpContent DEF PartOf
  <2> QED
    BY <1>1, <2>3 DEF BmpHeader, IsPng
<1>2. CASE IsPng
  <2>1. 1 \in DOMAIN cells /\ HeaderFirst(cells, picture)
    BY <1>2 DEF FileInv
  <2> QED
    BY <1>2, <2>1 DEF HeaderFirst, Signature, IsPng
<1> QED
  BY <1>1, <1>2

\* A file that was written to the end has cells.
LEMMA ExpectedHasCells ==
  ASSUME FileInv, Expected
  PROVE  cells # <<>> /\ (layout = "bmp" => ext = ".bmp") /\ (IsPng => ext = ".png")
<1>1. picture.height \in Nat /\ picture.width \in Nat
  BY DEF FileInv, IsPicture
<1>2. CASE layout = "bmp"
  <2> DEFINE i == BMPImage(picture)
  <2>1. i.height \in Nat /\ i.width \in Nat
    BY CornerIs, BmpConstants DEF FileInv
  <2>2. cells = BmpSave(i)
    BY <1>2 DEF Expected, Complete
  <2> HIDE DEF i
  <2>3. Len(cells) = 1 + BmpBytes(i) /\ BmpBytes(i) \in Nat
    BY <2>1, <2>2, BmpContent
  <2>4. Len(cells) # 0
    BY <2>3
  <2> QED
    BY <1>2, <2>4 DEF Expected, RightName, IsPng
<1>3. CASE layout # "bmp"
  <2>1. cells = PngSave(picture)
    BY <1>3 DEF Expected, Complete
  <2>2. Len(cells) = ZLength + 11 /\ ZLength \in Nat
    BY <1>1, <2>1, PngSaveIs, CompressedIs
  <2>3. Len(cells) # 0
    BY <2>2
  <2> QED
    BY <1>3, <2>3 DEF Expected, RightName
<1> QED
  BY <1>2, <1>3

LEMMA LoadKeeps == ASSUME ImageInv, Load PROVE ImageInv'
<1>1. phase = "stored" /\ NotReading /\ layout # "none" /\ FileInv
  BY DEF Load, ImageInv, PhaseInv
<1>2. UNCHANGED <<fileVars, scanVars, good, type, collected>>
  BY DEF Load, Goto
<1>3. FileInv' /\ (IsPng <=> IsPng') /\ (Expected' <=> Expected)
  BY <1>1, <1>2, FileKept, ExpectedKept DEF fileVars, scanVars
<1>4. row' = 0 /\ at' = 0 /\ layout' = layout /\ cells' = cells /\ picture' = picture /\ ext' = ext
  BY <1>1, <1>2 DEF fileVars, scanVars, NotReading
<1>5. layout = "bmp" \/ IsPng
  BY <1>1 DEF FileInv, IsPng
<1>6. CASE phase' = "loaded"
  <2>1. pos' = 0
    BY <1>6 DEF Load
  <2>2. NotReading'
    BY <1>1, <1>2, <2>1 DEF NotReading, scanVars
  <2>3. \/ ext = ".bmp" /\ cells # <<>> /\ cells[1][1] = "bmp" /\ image' = BmpLoad(cells)
        \/ ext = ".bmp" /\ cells = <<>> /\ image' = NoImage
    BY <1>6 DEF Load, BeginsWith, Goto
  <2>4. Loaded'
    BY <1>1, <1>4, <1>5, <2>3, FirstCell DEF Loaded
  <2> QED
    BY <1>1, <1>3, <1>4, <1>6, <2>2, <2>4 DEF ImageInv, PhaseInv
<1>7. CASE phase' = "null"
  <2>1. \/ ext = ".bmp" /\ ~(cells # <<>> /\ cells[1][1] = "bmp")
        \/ ext = ".png" /\ ~(cells # <<>> /\ cells[1][1] = "signature")
    BY <1>7 DEF Load, BeginsWith, Goto
  <2>2. ~Expected
    <3>1. SUFFICES ASSUME Expected PROVE FALSE
      OBVIOUS
    <3>2. cells # <<>> /\ (layout = "bmp" => ext = ".bmp") /\ (IsPng => ext = ".png")
      BY <1>1, <3>1, ExpectedHasCells
    <3> QED
      BY <1>1, <1>5, <2>1, <3>2, FirstCell
  <2> QED
    BY <1>1, <1>3, <1>4, <1>7, <2>2 DEF ImageInv, PhaseInv
<1>8. CASE phase' = "thrown"
  <2>1. ext \notin {".bmp", ".png"}
    BY <1>8 DEF Load, Goto
  <2>2. ~Expected
    BY <2>1 DEF Expected, RightName
  <2> QED
    BY <1>1, <1>3, <1>4, <1>8, <2>2 DEF ImageInv, PhaseInv
<1>9. CASE phase' = "chunks"
  <2>1. ext = ".png" /\ cells # <<>> /\ cells[1][1] = "signature" /\ pos' = 1
    BY <1>9 DEF Load, BeginsWith, Goto
  <2>2. IsPng
    <3>1. layout # "bmp"
      BY <1>1, <2>1, FirstCell
    <3> QED
      BY <1>5, <3>1
  <2>3. good' = TRUE /\ type' = "other" /\ collected' = <<>>
    BY <1>1, <1>2 DEF NotReading
  <2>4. Walked' /\ OnTrack'
    BY <2>1, <2>3 DEF Walked, OnTrack
  <2> QED
    BY <1>1, <1>3, <1>4, <1>9, <2>1, <2>2, <2>4 DEF ImageInv, PhaseInv
<1>10. phase' \in {"loaded", "null", "thrown", "chunks"}
  BY DEF Load, Goto
<1> QED
  BY <1>6, <1>7, <1>8, <1>9, <1>10

LEMMA NotSavedKeeps == ASSUME ImageInv, NEW format, NotSaved(format) PROVE ImageInv'
<1>1. /\ phase = "received" /\ phase' = "not saved"
      /\ UNCHANGED <<image, fileVars, walkVars, scanVars>>
  BY DEF NotSaved
<1>2. FileInv'
  BY <1>1, FileKept DEF ImageInv, fileVars, scanVars
<1>3. row' = 0 /\ at' = 0
  BY <1>1 DEF ImageInv, PhaseInv, scanVars
<1> QED
  BY <1>1, <1>2, <1>3 DEF ImageInv, PhaseInv

LEMMA EditNullKeeps == ASSUME ImageInv, EditNull PROVE ImageInv'
<1>1. /\ phase = "null" /\ phase' = "crashed"
      /\ UNCHANGED <<image, fileVars, walkVars, scanVars>>
  BY DEF EditNull
<1>2. FileInv' /\ (Expected' <=> Expected)
  BY <1>1, FileKept, ExpectedKept DEF ImageInv, fileVars, scanVars
<1>3. row' = 0 /\ at' = 0 /\ ~Expected /\ layout' # "none"
  BY <1>1 DEF ImageInv, PhaseInv, fileVars, scanVars
<1> QED
  BY <1>1, <1>2, <1>3 DEF ImageInv, PhaseInv

-----------------------------------------------------------------------------
(* The walk through the chunks. *)

LEMMA PrefixIs ==
  ASSUME NEW S, NEW s \in Seq(S), NEW t \in Seq(S)
  PROVE  IsPrefix(s, t) <=> /\ Len(s) <= Len(t)
                            /\ \A j \in 1 .. Len(s) : s[j] = t[j]
<1>1. Len(s) \in Nat /\ Len(t) \in Nat
  OBVIOUS
<1>2. CASE Len(s) <= Len(t)
  <2> DEFINE a == SubSeq(s, 1, Len(s))
             b == SubSeq(t, 1, Len(s))
  <2>1. /\ a \in Seq(S) /\ Len(a) = Len(s) /\ \A j \in 1 .. Len(s) : a[j] = s[j]
        /\ b \in Seq(S) /\ Len(b) = Len(s) /\ \A j \in 1 .. Len(s) : b[j] = t[j]
    BY <1>1, <1>2
  <2> HIDE DEF a, b
  <2>2. a = b <=> \A j \in 1 .. Len(s) : s[j] = t[j]
    <3>1. a = b => \A j \in 1 .. Len(s) : s[j] = t[j]
      BY <2>1
    <3>2. (\A j \in 1 .. Len(s) : s[j] = t[j]) => \A j \in 1 .. Len(a) : a[j] = b[j]
      BY <2>1
    <3> QED
      BY <2>1, <3>1, <3>2, SeqEqual
  <2> QED
    BY <1>2, <2>2 DEF IsPrefix, a, b
<1>3. CASE ~(Len(s) <= Len(t))
  BY <1>3 DEF IsPrefix
<1> QED
  BY <1>2, <1>3

LEMMA PrefixGrows ==
  ASSUME NEW S, NEW s \in Seq(S), NEW t \in Seq(S), NEW u \in Seq(S), IsPrefix(s, t)
  PROVE  IsPrefix(s, t \o u)
<1> DEFINE v == t \o u
<1>1. /\ v \in Seq(S) /\ Len(v) = Len(t) + Len(u)
      /\ \A j \in 1 .. Len(t) : v[j] = t[j]
  OBVIOUS
<1> HIDE DEF v
<1>2. Len(s) <= Len(t) /\ \A j \in 1 .. Len(s) : s[j] = t[j]
  BY PrefixIs
<1>3. Len(s) \in Nat /\ Len(t) \in Nat /\ Len(u) \in Nat
  OBVIOUS
<1>4. Len(s) <= Len(v) /\ \A j \in 1 .. Len(s) : s[j] = v[j]
  BY <1>1, <1>2, <1>3
<1> QED
  BY <1>1, <1>4, PrefixIs DEF v

LEMMA BytesAre ==
  ASSUME cells \in Seq(PngCells), NEW p \in Nat, NEW n \in Nat
  PROVE  /\ Bytes(p, n) \in Seq(PngCells) /\ Len(Bytes(p, n)) = n
         /\ \A k \in 1 .. n : p + k <= Len(cells) => Bytes(p, n)[k] = cells[p + k]
<1> DEFINE byte(k) == IF p + k <= Len(cells) THEN cells[p + k] ELSE Zero
<1>1. ASSUME NEW k \in 1 .. n PROVE byte(k) \in PngCells
  <2>1. CASE p + k <= Len(cells)
    <3>1. p + k \in 1 .. Len(cells)
      BY <2>1
    <3> QED
      BY <2>1, <3>1, ElementOfSeq
  <2>2. CASE ~(p + k <= Len(cells))
    BY <2>2, CellTypes
  <2> QED
    BY <2>1, <2>2
<1>2. Bytes(p, n) = [k \in 1 .. n |-> byte(k)]
  BY DEF Bytes
<1>3. \A k \in 1 .. n : p + k <= Len(cells) => byte(k) = cells[p + k]
  OBVIOUS
<1> HIDE DEF byte
<1> QED
  BY <1>1, <1>2, <1>3

\* What holds of every turn of the loop.
Turn(length) == ReadHeader(length) \/ ReadData(length) \/ SkipChunk(length)

LEMMA TurnFacts ==
  ASSUME ImageInv, phase = "chunks", good, pos < Len(cells),
         NEW length \in AsLength(cells[pos + 1]), Turn(length)
  PROVE  /\ Len(cells) \in Nat /\ pos \in Nat /\ length \in Nat
         /\ DataAt = IF pos + 2 <= Len(cells) THEN pos + 2 ELSE Len(cells)
         /\ UNCHANGED <<image, fileVars, bytes, row, at, original, filter>>
         /\ type' = NextType /\ (good' => pos + 2 <= Len(cells)) /\ good' \in BOOLEAN
         /\ \E m \in Nat : pos' = Least(DataAt + m, Len(cells))
         /\ collected' \in Seq(PngCells)
         /\ NextType # "IHDR" => /\ UNCHANGED <<width, height>>
                                 /\ phase' \in {"chunks", "inflate"}
                                 /\ IsPrefix(Compressed, collected)
                                       => IsPrefix(Compressed, collected')
         /\ NextType = "IHDR" => collected' = collected /\ phase' \in {"chunks", "null"}
<1>1. /\ cells \in Seq(PngCells) /\ pos \in Nat /\ collected \in Seq(PngCells)
  BY DEF ImageInv, FileInv, PhaseInv, Walked
<1>2. Len(cells) \in Nat /\ pos + 1 \in 1 .. Len(cells)
  BY <1>1
<1>3. length \in Nat
  BY <1>1, <1>2, LengthType, ElementOfSeq
<1>4. DataAt = IF pos + 2 <= Len(cells) THEN pos + 2 ELSE Len(cells)
  BY <1>1, <1>2 DEF DataAt, Least
<1>5. DataAt \in Nat
  BY <1>1, <1>2, <1>4
<1>6. (length + 1) % Word \in Nat
  <2>1. Word \in Nat \ {0}
    BY ImageConstants
  <2> QED
    BY <1>3, <2>1
<1>7. CASE ReadHeader(length)
  <2>1. NextType = "IHDR" /\ WalkOn(DataAt + length + 1, DataAt + length <= Len(cells))
        /\ phase' \in {"chunks", "null"} /\ collected' = collected
    BY <1>7 DEF ReadHeader
  <2>2. DataAt + length + 1 = DataAt + (length + 1) /\ length + 1 \in Nat
    BY <1>3, <1>5
  <2>3. \E m \in Nat : pos' = Least(DataAt + m, Len(cells))
    BY <2>1, <2>2 DEF WalkOn
  <2>4. /\ UNCHANGED <<image, fileVars, bytes, row, at, original, filter>>
        /\ type' = NextType /\ (good' => pos + 2 <= Len(cells)) /\ good' \in BOOLEAN
    BY <2>1 DEF WalkOn
  <2> QED
    BY <1>1, <1>2, <1>3, <1>4, <2>1, <2>3, <2>4
<1>8. CASE ReadData(length)
  <2>1. NextType = "IDAT" /\ WalkOn(DataAt + length, DataAt + length <= Len(cells))
        /\ UNCHANGED <<phase, width, height>>
        /\ collected' = collected \o Bytes(DataAt, length)
    BY <1>8 DEF ReadData
  <2>2. \E m \in Nat : pos' = Least(DataAt + m, Len(cells))
    BY <1>3, <2>1 DEF WalkOn
  <2>3. /\ UNCHANGED <<image, fileVars, bytes, row, at, original, filter>>
        /\ type' = NextType /\ (good' => pos + 2 <= Len(cells)) /\ good' \in BOOLEAN
    BY <2>1 DEF WalkOn
  <2>4. Bytes(DataAt, length) \in Seq(PngCells)
    BY <1>1, <1>3, <1>5, BytesAre
  <2>5. /\ collected' \in Seq(PngCells)
        /\ IsPrefix(Compressed, collected) => IsPrefix(Compressed, collected')
    BY <1>1, <2>1, <2>4, PrefixGrows, CompressedIs
  <2> QED
    BY <1>1, <1>2, <1>3, <1>4, <2>1, <2>2, <2>3, <2>5
<1>9. CASE SkipChunk(length)
  <2>1. NextType \notin {"IHDR", "IDAT"} /\ WalkOn(DataAt + ((length + 1) % Word), TRUE)
        /\ UNCHANGED <<collected, width, height>> /\ phase' \in {"chunks", "inflate"}
    BY <1>9 DEF SkipChunk
  <2>2. \E m \in Nat : pos' = Least(DataAt + m, Len(cells))
    BY <1>6, <2>1 DEF WalkOn
  <2>3. /\ UNCHANGED <<image, fileVars, bytes, row, at, original, filter>>
        /\ type' = NextType /\ (good' => pos + 2 <= Len(cells)) /\ good' \in BOOLEAN
    BY <2>1 DEF WalkOn
  <2> QED
    BY <1>1, <1>2, <1>3, <1>4, <2>1, <2>2, <2>3
<1> QED
  BY <1>7, <1>8, <1>9 DEF Turn

LEMMA HeaderCells ==
  ASSUME FileInv, IsPng
  PROVE  /\ Len(cells) \in Nat /\ DOMAIN cells = 1 .. Len(cells)
         /\ picture.height \in Nat /\ picture.width \in Nat
         /\ 2 <= Len(cells) => cells[2] = Num(1)
         /\ 3 <= Len(cells) => cells[3] = Name("IHDR")
         /\ 4 <= Len(cells) => cells[4] = Dims(picture)
         /\ \A j \in 5 .. Len(cells) : AsType(cells[j]) # "IHDR"
<1>1. cells \in Seq(PngCells) /\ HeaderFirst(cells, picture) /\ IsPicture(picture)
  BY DEF FileInv
<1>2. Len(cells) \in Nat /\ DOMAIN cells = 1 .. Len(cells)
  BY <1>1, LenProperties
<1>3. picture.height \in Nat /\ picture.width \in Nat
  BY <1>1 DEF IsPicture
<1>4. ASSUME 2 <= Len(cells) PROVE cells[2] = Num(1)
  <2>1. 2 \in DOMAIN cells
    BY <1>2, <1>4
  <2> QED
    BY <1>1, <2>1 DEF HeaderFirst
<1>5. ASSUME 3 <= Len(cells) PROVE cells[3] = Name("IHDR")
  <2>1. 3 \in DOMAIN cells
    BY <1>2, <1>5
  <2> QED
    BY <1>1, <2>1 DEF HeaderFirst
<1>6. ASSUME 4 <= Len(cells) PROVE cells[4] = Dims(picture)
  <2>1. 4 \in DOMAIN cells
    BY <1>2, <1>6
  <2> QED
    BY <1>1, <2>1 DEF HeaderFirst
<1>7. ASSUME NEW j \in 5 .. Len(cells) PROVE AsType(cells[j]) # "IHDR"
  <2>1. j \in DOMAIN cells /\ j > 4
    BY <1>2
  <2> QED
    BY <1>1, <2>1 DEF HeaderFirst
<1> QED
  BY <1>2, <1>3, <1>4, <1>5, <1>6, <1>7

LEMMA ExpectedPng ==
  ASSUME FileInv, IsPng, Expected
  PROVE  cells = PngSave(picture) /\ Len(cells) = ZLength + 11 /\ ZLength \in Nat
<1>1. layout # "bmp"
  BY DEF IsPng
<1>2. cells = PngSave(picture)
  BY <1>1 DEF Expected, Complete
<1> QED
  BY <1>2, HeaderCells, PngSaveIs, CompressedIs

\* Where a turn leaves the loader.
Landed ==
    /\ phase' \in {"chunks", "inflate", "null"}
    /\ phase' # "null" => Walked'
    /\ Expected => /\ phase' # "null" /\ (phase' = "chunks" => OnTrack')
                   /\ phase' = "inflate" => IsPrefix(Compressed, collected')

\* The turn that finds IHDR, or the end of the file.
LEMMA FirstTurn ==
  ASSUME ImageInv, phase = "chunks", good, pos < Len(cells),
         NEW length \in AsLength(cells[pos + 1]), Turn(length),
         pos = 1, type = "other", collected = <<>>
  PROVE  Landed
<1> DEFINE n == Len(cells)
<1>1. /\ n \in Nat /\ n > 1 /\ length \in Nat
      /\ UNCHANGED <<image, fileVars, bytes, row, at, original, filter>>
      /\ type' = NextType /\ (good' => 3 <= n) /\ good' \in BOOLEAN
      /\ \E m \in Nat : pos' = Least(DataAt + m, n)
      /\ DataAt = IF 3 <= n THEN 3 ELSE n
  BY TurnFacts
<1>2. FileInv /\ IsPng /\ cells \in Seq(PngCells)
  BY DEF ImageInv, FileInv, PhaseInv
<1>3. length = 1
  <2>1. cells[pos + 1] = Num(1)
    <3>1. pos + 1 = 2 /\ 2 <= Len(cells)
      BY <1>1
    <3> QED
      BY <1>2, <3>1, HeaderCells
  <2>2. length \in AsLength(Num(1))
    BY <2>1
  <2> QED
    BY <2>2, CellKinds
<1>4. /\ 3 <= n => cells[3] = Name("IHDR")
      /\ 4 <= n => cells[4] = Dims(picture)
  BY <1>2, HeaderCells
<1>5. NextType = IF 3 <= n THEN "IHDR" ELSE "other"
  <2>1. 3 <= n => AsType(cells[3]) = "IHDR"
    BY <1>4, CellKinds
  <2> QED
    BY <1>1, <2>1 DEF NextType
<1>6. pos' \in Nat /\ good' \in BOOLEAN
  BY <1>1 DEF Least
<1>7. collected' = <<>> /\ collected' \in Seq(PngCells)
  <2>1. ~ReadData(length)
    BY <1>5 DEF ReadData
  <2> QED
    BY <2>1, TurnFacts DEF Turn, ReadHeader, SkipChunk
<1>8. CASE n < 4
  <2>1. phase' = "chunks" /\ ~good'
    <3>1. CASE 3 <= n
      <4>1. ReadHeader(length)
        BY <1>5, <3>1 DEF Turn, ReadData, SkipChunk
      <4>2. DataAt = 3 /\ ~(3 + 1 <= n)
        BY <1>1, <1>8, <3>1
      <4>3. WalkOn(3 + 1 + 1, 3 + 1 <= n) /\ phase' = phase
        BY <1>3, <4>1, <4>2 DEF ReadHeader
      <4> QED
        BY <4>2, <4>3 DEF WalkOn
    <3>2. CASE ~(3 <= n)
      <4>1. SkipChunk(length)
        BY <1>5, <3>2 DEF Turn, ReadHeader, ReadData
      <4>2. ~good'
        BY <1>1, <3>2
      <4> QED
        BY <1>5, <3>2, <4>1, <4>2 DEF SkipChunk
    <3> QED
      BY <3>1, <3>2
  <2>2. ~Expected
    <3>1. SUFFICES ASSUME Expected PROVE FALSE
      OBVIOUS
    <3>2. cells = PngSave(picture)
      BY <1>2, <3>1, ExpectedPng
    <3>3. n = ZLength + 11 /\ ZLength \in Nat
      BY <1>2, <3>1, ExpectedPng
    <3> QED
      BY <1>8, <3>3
  <2> QED
    <3>1. Walked'
      BY <1>6, <1>7, <2>1 DEF Walked
    <3> QED
      BY <2>1, <2>2, <3>1 DEF Landed
<1>9. CASE ~(n < 4)
  <2>1. ReadHeader(length)
    <3>1. NextType = "IHDR"
      BY <1>1, <1>5, <1>9
    <3> QED
      BY <3>1 DEF Turn, ReadData, SkipChunk
  <2>2. DataAt = 3 /\ 3 <= n /\ 4 <= n
    BY <1>1, <1>9
  <2>3. Bytes(3, 1)[1] = Dims(picture)
    BY <1>2, <1>4, <2>2, BytesAre
  <2>4. height' = picture.height /\ width' = picture.width
    BY <2>1, <2>2, <2>3, CellKinds DEF ReadHeader
  <2>5. phase' = "chunks" /\ type' = "IHDR"
    BY <1>1, <1>3, <1>5, <2>1, <2>2 DEF ReadHeader
  <2>6. pos' = Least(5, n) /\ good'
    <3>1. WalkOn(3 + 1 + 1, 3 + 1 <= n)
      BY <1>3, <2>1, <2>2 DEF ReadHeader
    <3>2. pos' = Least(3 + 1 + 1, n) /\ good' = (3 + 1 <= n /\ 1 + 2 <= n)
      BY <3>1 DEF WalkOn
    <3>3. 3 + 1 + 1 = 5 /\ 3 + 1 <= n /\ 1 + 2 <= n
      BY <1>1, <2>2
    <3> QED
      BY <3>2, <3>3
  <2>7. pos' >= 4
    BY <1>1, <2>2, <2>6 DEF Least
  <2>8. picture' = picture
    BY <1>1 DEF fileVars
  <2>9. Walked'
    BY <1>6, <1>7, <2>4, <2>5, <2>6, <2>7, <2>8 DEF Walked
  <2>10. Expected => OnTrack'
    <3>1. SUFFICES ASSUME Expected PROVE OnTrack'
      OBVIOUS
    <3>2. cells = PngSave(picture)
      BY <1>2, <3>1, ExpectedPng
    <3>3. n = ZLength + 11 /\ ZLength \in Nat
      BY <1>2, <3>1, ExpectedPng
    <3>4. pos' = 5
      BY <2>6, <3>3 DEF Least
    <3> QED
      BY <1>7, <2>5, <2>6, <3>4 DEF OnTrack
  <2> QED
    BY <2>5, <2>9, <2>10 DEF Landed
<1> QED
  BY <1>8, <1>9

\* A turn after the one that found IHDR: no other IHDR is found, and that the
\* loader takes anything for a length changes no more than what it skips.
LEMMA LaterTurn ==
  ASSUME ImageInv, phase = "chunks", good, pos < Len(cells),
         NEW length \in AsLength(cells[pos + 1]), Turn(length),
         pos >= 4, width = picture.width, height = picture.height,
         type = "IHDR" => collected = <<>>
  PROVE  Landed
<1> DEFINE n == Len(cells)
<1>1. /\ n \in Nat /\ pos \in Nat /\ length \in Nat
      /\ UNCHANGED <<image, fileVars, bytes, row, at, original, filter>>
      /\ type' = NextType /\ (good' => pos + 2 <= n) /\ good' \in BOOLEAN
      /\ \E m \in Nat : pos' = Least(DataAt + m, n)
      /\ DataAt = (IF pos + 2 <= n THEN pos + 2 ELSE n)
      /\ collected' \in Seq(PngCells)
  BY TurnFacts
<1>2. FileInv /\ IsPng /\ cells \in Seq(PngCells)
  BY DEF ImageInv, FileInv, PhaseInv
<1>3. pos' \in Nat /\ pos' >= pos /\ pos' >= 4
  BY <1>1 DEF Least
<1>4. picture' = picture
  BY <1>1 DEF fileVars
<1>5. ASSUME Expected
      PROVE  /\ cells = PngSave(picture) /\ n = ZLength + 11 /\ ZLength \in Nat
             /\ OnTrack /\ pos # 1
             /\ NextType # "IHDR"
  <2>1. /\ cells = PngSave(picture) /\ n = ZLength + 11 /\ ZLength \in Nat
    BY <1>2, <1>5, ExpectedPng
  <2>2. OnTrack /\ pos # 1
    BY <1>5 DEF ImageInv, PhaseInv
  <2>3. CASE pos + 2 <= n
    <3>1. pos + 2 \in 5 .. Len(cells)
      BY <1>1, <2>3
    <3>2. NextType # "IHDR"
      BY <1>2, <2>3, <3>1, HeaderCells DEF NextType
    <3> QED
      BY <2>1, <2>2, <3>2
  <2>4. CASE ~(pos + 2 <= n)
    <3>1. pos # 5
      BY <2>1, <2>4
    <3>2. type # "IHDR"
      BY <2>2, <3>1 DEF OnTrack
    <3>3. NextType # "IHDR"
      BY <2>4, <3>2 DEF NextType
    <3> QED
      BY <2>1, <2>2, <3>3
  <2> QED
    BY <2>3, <2>4
<1>6. ASSUME Expected, pos = 5
      PROVE  phase' = "chunks" /\ OnTrack'
  <2>1. /\ n = ZLength + 11 /\ ZLength \in Nat /\ cells = PngSave(picture)
        /\ good /\ collected = <<>>
    <3>1. OnTrack /\ n = ZLength + 11 /\ ZLength \in Nat /\ cells = PngSave(picture)
      BY <1>5, <1>6
    <3>2. ~(pos >= 7 + ZLength)
      BY <1>6, <3>1
    <3> QED
      BY <1>6, <3>1, <3>2 DEF OnTrack
  <2>2. /\ cells[6] = Num(ZLength) /\ cells[7] = Name("IDAT")
        /\ \A k \in 1 .. ZLength : cells[k + 7] = Z(k)
    BY <1>2, <2>1, HeaderCells, PngSaveIs
  <2>3. length = ZLength
    <3>1. pos + 1 = 6
      BY <1>6
    <3>2. length \in AsLength(Num(ZLength))
      BY <2>2, <3>1
    <3> QED
      BY <3>2, CellKinds
  <2>4. pos + 2 = 7 /\ 7 <= n /\ 7 + ZLength <= n
    BY <1>6, <2>1
  <2>5. NextType = "IDAT"
    BY <2>2, <2>4, CellKinds DEF NextType
  <2>6. ReadData(length)
    BY <2>5 DEF Turn, ReadHeader, SkipChunk
  <2>7. DataAt = 7
    BY <1>1, <2>4
  <2> DEFINE data == Bytes(7, ZLength)
  <2>8. collected' = <<>> \o data /\ phase' = "chunks"
    BY <2>1, <2>3, <2>6, <2>7 DEF ReadData
  <2>9. /\ data \in Seq(PngCells) /\ Len(data) = ZLength
        /\ \A k \in 1 .. ZLength : 7 + k <= n => data[k] = cells[7 + k]
    BY <1>2, <2>1, BytesAre
  <2> HIDE DEF data
  <2>10. collected' = data
    BY <2>8, <2>9
  <2>11. \A k \in 1 .. ZLength : data[k] = Z(k)
    <3>1. ASSUME NEW k \in 1 .. ZLength PROVE data[k] = Z(k)
      <4>1. 7 + k <= n /\ 7 + k = k + 7
        BY <2>1
      <4>2. data[k] = cells[7 + k]
        BY <2>9, <4>1
      <4> QED
        BY <2>2, <4>1, <4>2
    <3> QED
      BY <3>1
  <2>12. IsPrefix(Compressed, collected')
    <3>1. Len(Compressed) <= Len(data) /\ \A k \in 1 .. Len(Compressed) : Compressed[k] = data[k]
      BY <2>9, <2>11, CompressedIs
    <3> QED
      BY <2>9, <2>10, <3>1, CompressedIs, PrefixIs
  <2>13. pos' = 7 + ZLength
    <3>1. WalkOn(7 + ZLength, 7 + ZLength <= n)
      BY <2>3, <2>6, <2>7 DEF ReadData
    <3>2. pos' = Least(7 + ZLength, n)
      BY <3>1 DEF WalkOn
    <3> QED
      BY <2>1, <3>2 DEF Least
  <2>14. type' = "IDAT"
    BY <1>1, <2>5
  <2>15. pos' >= 7 + ZLength
    BY <2>1, <2>13
  <2>16. ZLength' = ZLength /\ Compressed' = Compressed
    BY DEF Compressed, Z
  <2> QED
    BY <2>8, <2>12, <2>14, <2>15, <2>16 DEF OnTrack
<1>7. CASE NextType # "IHDR"
  <2>1. /\ UNCHANGED <<width, height>> /\ phase' \in {"chunks", "inflate"}
        /\ IsPrefix(Compressed, collected) => IsPrefix(Compressed, collected')
    BY <1>7, TurnFacts
  <2>2. type' # "IHDR"
    BY <1>1, <1>7
  <2>3. Walked'
    BY <1>1, <1>3, <1>4, <2>1, <2>2 DEF Walked
  <2>4. ASSUME Expected, pos # 5
        PROVE  OnTrack' /\ IsPrefix(Compressed, collected')
    <3>1. OnTrack /\ pos # 1 /\ ZLength \in Nat
      BY <1>5, <2>4
    <3>2. pos >= 7 + ZLength /\ IsPrefix(Compressed, collected)
      BY <2>4, <3>1 DEF OnTrack
    <3>3. IsPrefix(Compressed, collected')
      BY <2>1, <3>2
    <3>4. pos' >= 7 + ZLength
      BY <1>1, <1>3, <3>1, <3>2
    <3> QED
      BY <2>2, <3>3, <3>4 DEF OnTrack, Compressed, Z
  <2> QED
    BY <1>6, <2>1, <2>3, <2>4 DEF Landed
<1>8. CASE NextType = "IHDR"
  <2>1. ~Expected
    BY <1>5, <1>8
  <2>2. ~(pos + 2 <= n)
    <3>1. SUFFICES ASSUME pos + 2 <= n PROVE FALSE
      OBVIOUS
    <3>2. pos + 2 \in 5 .. Len(cells)
      BY <1>1, <3>1
    <3> QED
      BY <1>2, <1>8, <3>1, <3>2, HeaderCells DEF NextType
  <2>3. collected' = collected /\ phase' \in {"chunks", "null"}
    BY <1>8, TurnFacts
  <2>4. collected = <<>>
    BY <1>8, <2>2 DEF NextType
  <2>5. ~good'
    BY <1>1, <2>2
  <2>6. Walked'
    BY <1>1, <1>3, <2>3, <2>4, <2>5 DEF Walked
  <2> QED
    BY <2>1, <2>3, <2>6 DEF Landed
<1> QED
  BY <1>7, <1>8

LEMMA ReadChunkKeeps == ASSUME ImageInv, ReadChunk PROVE ImageInv'
<1>1. PICK length \in AsLength(cells[pos + 1]) : Turn(length)
  BY DEF ReadChunk, Turn
<1>2. phase = "chunks" /\ good /\ pos < Len(cells)
  BY DEF ReadChunk
<1>3. IsPng /\ ext = ".png" /\ Walked /\ FileInv
  BY <1>2 DEF ImageInv, PhaseInv
<1>4. Landed
  <2>1. CASE pos = 1 /\ type = "other" /\ collected = <<>>
    BY <1>1, <1>2, <2>1, FirstTurn
  <2>2. CASE /\ pos >= 4 /\ width = picture.width /\ height = picture.height
             /\ type = "IHDR" => collected = <<>>
    BY <1>1, <1>2, <2>2, LaterTurn
  <2> QED
    BY <1>2, <1>3, <2>1, <2>2 DEF Walked
<1>5. UNCHANGED <<image, fileVars, bytes, row, at, original, filter>>
  BY <1>1, <1>2, TurnFacts
<1>6. FileInv' /\ (IsPng <=> IsPng') /\ (Expected' <=> Expected)
  BY <1>3, <1>5, FileKept, ExpectedKept DEF fileVars
<1>7. row' = 0 /\ at' = 0 /\ ext' = ".png" /\ layout' # "none"
  BY <1>2, <1>3, <1>5 DEF ImageInv, PhaseInv, fileVars
<1>8. Compressed' = Compressed
  BY DEF Compressed, Z
<1> QED
  BY <1>3, <1>4, <1>6, <1>7, <1>8 DEF Landed, ImageInv, PhaseInv

LEMMA EndOfFileKeeps == ASSUME ImageInv, EndOfFile PROVE ImageInv'
<1>1. /\ phase = "chunks" /\ (~good \/ pos >= Len(cells)) /\ phase' = "inflate"
      /\ UNCHANGED <<image, fileVars, walkVars, scanVars>>
  BY DEF EndOfFile, Goto
<1>2. IsPng /\ ext = ".png" /\ Walked /\ FileInv
  BY <1>1 DEF ImageInv, PhaseInv
<1>3. FileInv' /\ (IsPng <=> IsPng') /\ (Expected' <=> Expected)
  BY <1>1, <1>2, FileKept, ExpectedKept DEF fileVars, scanVars
<1>4. row' = 0 /\ at' = 0 /\ ext' = ".png" /\ layout' # "none"
  BY <1>1, <1>2 DEF ImageInv, PhaseInv, fileVars, scanVars
<1>5. Walked'
  BY <1>1, <1>2 DEF Walked, fileVars, walkVars, scanVars
<1>6. ASSUME Expected PROVE IsPrefix(Compressed, collected)
  <2>1. OnTrack /\ pos \in Nat
    BY <1>1, <1>2, <1>6 DEF ImageInv, PhaseInv, Walked
  <2>2. Len(cells) = ZLength + 11 /\ ZLength \in Nat
    BY <1>2, <1>6, ExpectedPng
  <2>3. ~(good /\ (pos = 1 \/ pos = 5))
    BY <1>1, <2>2
  <2> QED
    BY <2>1, <2>3 DEF OnTrack
<1>7. Expected => IsPrefix(Compressed, collected)'
  BY <1>1, <1>6 DEF Compressed, Z, walkVars
<1> QED
  BY <1>1, <1>2, <1>3, <1>4, <1>5, <1>7 DEF ImageInv, PhaseInv

LEMMA InflateKeeps == ASSUME ImageInv, Inflate PROVE ImageInv'
<1>1. /\ phase = "inflate"
      /\ UNCHANGED <<image, fileVars, width, height, filter, row, at, original>>
      /\ pos' = 0 /\ good' = TRUE /\ type' = "other" /\ collected' = <<>>
  BY DEF Inflate
<1>2. IsPng /\ ext = ".png" /\ Walked /\ FileInv
  BY <1>1 DEF ImageInv, PhaseInv
<1>3. FileInv' /\ (IsPng <=> IsPng') /\ (Expected' <=> Expected)
  BY <1>1, <1>2, FileKept, ExpectedKept DEF fileVars
<1>4. row = 0 /\ at = 0 /\ row' = 0 /\ at' = 0 /\ ext' = ".png" /\ layout' # "none"
  BY <1>1, <1>2 DEF ImageInv, PhaseInv, fileVars
<1>5. CASE IsPrefix(Compressed, collected)
  <2>1. phase' = "unfilter" /\ bytes' = Filtered(original, filter)
    BY <1>5 DEF Inflate
  <2>2. collected # <<>> /\ collected \in Seq(PngCells)
    <3>1. collected \in Seq(PngCells)
      BY <1>2 DEF Walked
    <3>2. ZLength <= Len(collected) /\ ZLength > 0 /\ ZLength \in Nat
      BY <1>5, <3>1, CompressedIs, PrefixIs
    <3>3. Len(collected) # 0
      BY <3>2
    <3> QED
      BY <3>1, <3>3
  <2>3. width = picture.width /\ height = picture.height
    BY <1>2, <2>2 DEF Walked
  <2>4. /\ original = RawRows(picture) /\ IsPicture(picture)
        /\ filter \in [0 .. picture.height - 1 -> Filters]
    BY <1>2 DEF FileInv
  <2>5. picture.height \in Nat /\ picture.width \in Nat
    BY <2>4 DEF IsPicture
  <2>6. original \in RowsOf(height, width)
    BY <2>3, <2>4, RawRowsType
  <2>7. ScanInit'
    <3>1. /\ width' = width /\ height' = height /\ original' = original
          /\ filter' = filter /\ row' = 0 /\ at' = 0
      BY <1>1, <1>4
    <3>2. RowsOf(height', width') = RowsOf(height, width)
      BY <3>1
    <3>3. original' \in RowsOf(height', width')
      BY <2>6, <3>1, <3>2
    <3>4. bytes' = Filtered(original', filter')
      BY <2>1, <3>1
    <3> QED
      BY <2>3, <2>4, <2>5, <3>1, <3>3, <3>4 DEF ScanInit
  <2>8. ScanInv'
    BY <2>7, ScanInvInit, PTL
  <2>9. picture' = picture /\ width' = picture.width /\ height' = picture.height
    BY <1>1, <2>3 DEF fileVars
  <2>10. NotWalking'
    BY <1>1 DEF NotWalking
  <2> QED
    BY <1>2, <1>3, <1>4, <2>1, <2>8, <2>9, <2>10 DEF ImageInv, PhaseInv
<1>6. CASE ~IsPrefix(Compressed, collected)
  <2>1. phase' \in {"null", "thrown"}
    BY <1>6 DEF Inflate
  <2>2. ~Expected
    BY <1>1, <1>6 DEF ImageInv, PhaseInv
  <2> QED
    BY <1>3, <1>4, <2>1, <2>2 DEF ImageInv, PhaseInv
<1> QED
  BY <1>5, <1>6

LEMMA UnfilterRowsKeeps == ASSUME ImageInv, UnfilterRows PROVE ImageInv'
<1>1. /\ phase = "unfilter" /\ phase' = "unfilter" /\ Unfilter
      /\ UNCHANGED <<image, fileVars, walkVars>>
  BY DEF UnfilterRows
<1>2. /\ IsPng /\ ext = ".png" /\ NotWalking /\ ScanInv /\ FileInv
      /\ width = picture.width /\ height = picture.height
  BY <1>1 DEF ImageInv, PhaseInv
<1>3. UNCHANGED <<width, height, filter, original>>
  BY <1>1 DEF Unfilter, UnfilterByte, NextRow
<1>4. FileInv' /\ (IsPng <=> IsPng')
  BY <1>1, <1>2, <1>3, FileKept DEF fileVars
<1>5. ScanInv'
  BY <1>1, <1>2, ByteKeepsInv, RowKeepsInv DEF Unfilter
<1>6. /\ NotWalking' /\ ext' = ".png" /\ layout' # "none"
      /\ width' = picture'.width /\ height' = picture'.height
  BY <1>1, <1>2, <1>3 DEF NotWalking, fileVars, walkVars, IsPng
<1> QED
  BY <1>1, <1>2, <1>4, <1>5, <1>6 DEF ImageInv, PhaseInv

\* The image made of the rows of a picture.
LEMMA RowsMakeImage ==
  ASSUME NEW p, IsPicture(p), height = p.height, width = p.width,
         NEW b, \A r \in 0 .. height - 1, j \in 0 .. width * bpp - 1 :
                   b[r][j] = RawRows(p)[r][j]
  PROVE  ImageOf(b) = p
<1>1. height \in Nat /\ width \in Nat /\ bpp = 4
  BY ImageConstants DEF IsPicture
<1> DEFINE colour(r, c) == [k \in 1 .. bpp |-> b[r][c * bpp + k - 1]]
<1>2. ASSUME NEW r \in 0 .. height - 1, NEW c \in 0 .. width - 1
      PROVE  colour(r, c) = p.pixels[r][c]
  <2>1. p.pixels[r][c] \in [1 .. 4 -> Byte]
    BY <1>1 DEF IsPicture, Colours
  <2>2. ASSUME NEW k \in 1 .. 4 PROVE b[r][c * 4 + k - 1] = p.pixels[r][c][k]
    <3>1. /\ (c * 4 + k - 1) \in 0 .. width * 4 - 1
          /\ (c * 4 + k - 1) \div 4 = c /\ ((c * 4 + k - 1) % 4) + 1 = k
      BY <1>1
    <3>2. RawRows(p)[r][c * 4 + k - 1] = p.pixels[r][c][k]
      BY <1>1, <3>1 DEF RawRows
    <3> QED
      BY <1>1, <3>1, <3>2
  <2>3. colour(r, c) = [k \in 1 .. 4 |-> b[r][c * 4 + k - 1]]
    BY <1>1
  <2> QED
    BY <2>1, <2>2, <2>3
<1>3. ImageOf(b) = [height |-> height, width |-> width,
                    pixels |-> [r \in 0 .. height - 1 |->
                                  [c \in 0 .. width - 1 |-> colour(r, c)]]]
  BY DEF ImageOf, Image
<1>4. p = [height |-> height, width |-> width,
           pixels |-> [r \in 0 .. height - 1 |->
                         [c \in 0 .. width - 1 |-> p.pixels[r][c]]]]
  BY DEF IsPicture, Image
<1> HIDE DEF colour
<1>5. [r \in 0 .. height - 1 |-> [c \in 0 .. width - 1 |-> colour(r, c)]]
        = [r \in 0 .. height - 1 |-> [c \in 0 .. width - 1 |-> p.pixels[r][c]]]
  BY <1>2
<1> QED
  BY <1>3, <1>4, <1>5

LEMMA BuildImageKeeps == ASSUME ImageInv, BuildImage PROVE ImageInv'
<1>1. /\ phase = "unfilter" /\ row = height /\ phase' = "loaded" /\ image' = ImageOf(bytes)
      /\ width' = 0 /\ height' = 0 /\ bytes' = <<>> /\ row' = 0 /\ at' = 0
      /\ UNCHANGED <<fileVars, walkVars, filter, original>>
  BY DEF BuildImage
<1>2. /\ IsPng /\ ext = ".png" /\ NotWalking /\ ScanInv /\ FileInv
      /\ width = picture.width /\ height = picture.height
  BY <1>1 DEF ImageInv, PhaseInv
<1>3. FileInv' /\ (IsPng <=> IsPng')
  BY <1>1, <1>2, FileKept DEF fileVars
<1>4. NotReading'
  BY <1>1, <1>2 DEF NotReading, NotWalking, walkVars
<1>5. image' = picture
  <2>1. original = RawRows(picture) /\ IsPicture(picture)
    BY <1>2 DEF FileInv
  <2>2. \A r \in 0 .. height - 1, j \in 0 .. width * bpp - 1 : bytes[r][j] = original[r][j]
    BY <1>1, <1>2 DEF ScanInv, Turned, stride
  <2> QED
    BY <1>1, <1>2, <2>1, <2>2, RowsMakeImage
<1>6. picture' = picture /\ ext' = ".png" /\ layout' # "none"
  BY <1>1, <1>2 DEF fileVars, IsPng
<1>7. Loaded'
  BY <1>2, <1>3, <1>5, <1>6 DEF Loaded
<1> QED
  BY <1>1, <1>2, <1>3, <1>4, <1>6, <1>7 DEF ImageInv, PhaseInv

LEMMA ImageInvStep == ASSUME ImageInv, [Next]_imageVars PROVE ImageInv'
<1>1. CASE Next
  <2>1. CASE \E format \in {"bmp", "png", "jpeg", "other"} : Choose(format) \/ NotSaved(format)
    BY <2>1, ChooseKeeps, NotSavedKeeps
  <2>2. CASE Load
    BY <2>2, LoadKeeps
  <2>3. CASE ReadChunk
    BY <2>3, ReadChunkKeeps
  <2>4. CASE EndOfFile
    BY <2>4, EndOfFileKeeps
  <2>5. CASE Inflate
    BY <2>5, InflateKeeps
  <2>6. CASE UnfilterRows
    BY <2>6, UnfilterRowsKeeps
  <2>7. CASE BuildImage
    BY <2>7, BuildImageKeeps
  <2>8. CASE Edit
    BY <2>8, EditKeeps
  <2>9. CASE EditNull
    BY <2>9, EditNullKeeps
  <2> QED
    BY <1>1, <2>1, <2>2, <2>3, <2>4, <2>5, <2>6, <2>7, <2>8, <2>9 DEF Next
<1>2. CASE UNCHANGED imageVars
  <2>1. UNCHANGED <<phase, image, fileVars, walkVars, scanVars>>
    BY <1>2 DEF imageVars
  <2>2. FileInv' /\ (IsPng <=> IsPng') /\ (Expected' <=> Expected)
    BY <2>1, FileKept, ExpectedKept DEF ImageInv, fileVars, scanVars
  <2>3. /\ Walked' = Walked /\ OnTrack' = OnTrack /\ Loaded' = Loaded
        /\ IsPrefix(Compressed, collected)' = IsPrefix(Compressed, collected)
        /\ NotWalking' = NotWalking /\ NotReading' = NotReading
    BY <2>1 DEF Walked, OnTrack, Loaded, Compressed, Z, NotWalking, NotReading, IsPng,
                fileVars, walkVars, scanVars
  <2>4. ScanInv' = ScanInv
    BY <2>1 DEF ScanInv, stride, Turned, scanVars
  <2>5. PhaseInv'
    BY <2>1, <2>2, <2>3, <2>4 DEF ImageInv, PhaseInv, fileVars, scanVars
  <2> QED
    BY <2>2, <2>5 DEF ImageInv
<1> QED
  BY <1>1, <1>2

\* Whatever the programs do with an image, the invariant of its file and its
\* loader holds.
THEOREM ImagesHold == Spec => []ImageInv
BY ImageInvInit, ImageInvStep, PTL DEF Spec

\* An image of the server, or an edited one, that was saved under a name of its
\* format and written to the end is loaded as it was: for images of every size and
\* every length of the compressed data.
THEOREM SavedImagesReturn == Spec => []SavedIsLoaded
<1>1. ASSUME ImageInv PROVE SavedIsLoaded
  <2>1. SUFFICES ASSUME Expected
                 PROVE  /\ phase \notin {"null", "crashed", "thrown"}
                        /\ phase = "loaded" => image = picture
    BY DEF SavedIsLoaded, Expected
  <2>2. FileInv /\ phase \notin {"null", "crashed", "thrown"}
    BY <1>1, <2>1 DEF ImageInv, PhaseInv
  <2>3. ASSUME phase = "loaded" PROVE image = picture
    <3>1. Loaded
      BY <1>1, <2>3 DEF ImageInv, PhaseInv
    <3>2. cells # <<>>
      BY <2>1, <2>2, ExpectedHasCells
    <3>3. CASE layout = "bmp" /\ image = BmpLoad(cells)
      <4>1. /\ IsPicture(picture) /\ IsOpaque(picture) /\ FitsBmp(picture)
            /\ cells = BmpSave(BMPImage(picture))
        BY <2>1, <2>2, <3>3 DEF FileInv, Expected, Complete
      <4> QED
        BY <3>3, <4>1, BmpRoundTrip
    <3> QED
      BY <3>1, <3>2, <3>3 DEF Loaded
  <2> QED
    BY <2>2, <2>3
<1> QED
  BY <1>1, ImagesHold, PTL

\* A BMP is loaded as the corner of the image that its size leaves, wherever the
\* disk stopped it: no pixel is in the wrong place.
THEOREM BmpStaysInPlace == Spec => []BmpInPlace
<1>1. ASSUME ImageInv PROVE BmpInPlace
  <2>1. SUFFICES ASSUME layout = "bmp", phase = "loaded", cells # <<>>
                 PROVE  /\ image.height = picture.height % DimLimit
                        /\ image.width = picture.width % DimLimit
                        /\ \A r \in DOMAIN image.pixels : \A c \in DOMAIN image.pixels[r] :
                              \A k \in 1 .. 4 :
                                 image.pixels[r][c][k] \in {picture.pixels[r][c][k], 255}
    BY DEF BmpInPlace
  <2>2. FileInv /\ Loaded
    BY <1>1, <2>1 DEF ImageInv, PhaseInv
  <2>3. image = BmpLoad(cells)
    BY <2>1, <2>2 DEF Loaded, IsPng
  <2>4. /\ IsPicture(picture) /\ IsOpaque(picture)
        /\ cells \in Seq(BmpCells(BMPImage(picture)))
        /\ PartOf(cells, BmpSave(BMPImage(picture)))
    BY <2>1, <2>2 DEF FileInv
  <2> QED
    BY <2>1, <2>3, <2>4, BmpCorner
<1> QED
  BY <1>1, ImagesHold, PTL

\* A PNG file of eight-bit RGBA is loaded as the image it stands for or not at
\* all: every such file that begins as the standard asks, cut off anywhere, with
\* any filters and any cells after IHDR.  That Stored has no files of another
\* depth or colour type is an assumption (ImageConstants), which the loader does
\* not check (PNGimage.cpp 96-115).
THEOREM RgbaPngIsFaithful == Spec => []RgbaPngFaithful
<1>1. ASSUME ImageInv PROVE RgbaPngFaithful
  <2>1. ASSUME phase = "loaded", ext = ".png" PROVE image = picture
    BY <1>1, <2>1 DEF ImageInv, PhaseInv, Loaded
  <2> QED
    BY <2>1 DEF RgbaPngFaithful
<1> QED
  BY <1>1, ImagesHold, PTL

SizeInv == width \in Nat /\ height \in Nat

LEMMA SizeInvStep ==
  ASSUME ImageInv, SizeInv, [Next]_imageVars
  PROVE  SizeInv'
<1>1. CASE ReadChunk
  <2>1. PICK length \in AsLength(cells[pos + 1]) : Turn(length)
    BY <1>1 DEF ReadChunk, Turn
  <2>2. CASE ReadHeader(length)
    <3> DEFINE data == Bytes(DataAt, 1)[1]
    <3>1. /\ height' = IF data[1] = "dims" THEN data[2] ELSE 0
          /\ width'  = IF data[1] = "dims" THEN data[3] ELSE 0
      BY <2>2 DEF ReadHeader
    <3>2. data \in PngCells
      <4>1. cells \in Seq(PngCells) /\ DataAt \in Nat
        <5>1. phase = "chunks" /\ good /\ pos < Len(cells)
          BY <1>1 DEF ReadChunk
        <5>2. cells \in Seq(PngCells)
          BY <5>1 DEF ImageInv, FileInv, PhaseInv
        <5> QED
          BY <2>1, <5>1, <5>2, TurnFacts
      <4>2. Bytes(DataAt, 1) \in Seq(PngCells) /\ Len(Bytes(DataAt, 1)) = 1
        BY <4>1, BytesAre
      <4> QED
        BY <4>2
    <3> HIDE DEF data
    <3>3. data[1] = "dims" => data[2] \in Nat /\ data[3] \in Nat
      BY <3>2 DEF PngCells, Signature, Crc, Zero
    <3> QED
      BY <3>1, <3>3 DEF SizeInv
  <2>3. CASE ReadData(length) \/ SkipChunk(length)
    BY <2>3 DEF ReadData, SkipChunk, SizeInv
  <2> QED
    BY <2>1, <2>2, <2>3 DEF Turn
<1>2. CASE UnfilterRows \/ BuildImage
  BY <1>2 DEF UnfilterRows, Unfilter, UnfilterByte, NextRow, BuildImage, SizeInv
<1>3. CASE EndOfFile \/ Inflate \/ Load \/ Edit \/ EditNull
  BY <1>3 DEF EndOfFile, Inflate, Load, Goto, Edit, EditNull, scanVars, SizeInv
<1>4. CASE \E format \in {"bmp", "png", "jpeg", "other"} : Choose(format) \/ NotSaved(format)
  BY <1>4 DEF Choose, NotSaved, scanVars, SizeInv
<1>5. CASE UNCHANGED imageVars
  BY <1>5 DEF imageVars, scanVars, SizeInv
<1> QED
  BY <1>1, <1>2, <1>3, <1>4, <1>5 DEF Next

\* The rows the loader has turned back are those of the picture, whatever it took
\* for a chunk on its way to them.
THEOREM LoadedRowsAreExact == Spec => []UnfilterInverts
<1>1. ASSUME ImageInv, SizeInv PROVE UnfilterInverts
  <2>1. CASE phase = "unfilter"
    BY <1>1, <2>1 DEF ImageInv, PhaseInv, ScanInv, UnfilterInverts, Turned
  <2>2. CASE phase # "unfilter"
    <3>1. row = 0 /\ at = 0
      BY <1>1, <2>2 DEF ImageInv, PhaseInv
    <3>2. height \in Nat /\ stride \in Nat
      BY <1>1, StrideInNat DEF SizeInv
    <3> QED
      BY <3>1, <3>2 DEF UnfilterInverts
  <2> QED
    BY <2>1, <2>2
<1>2. Init => SizeInv
  <2>1. Init => width = 0 /\ height = 0
    BY DEF Init, NotReading
  <2>2. width = 0 /\ height = 0 => SizeInv
    BY DEF SizeInv
  <2> QED
    BY <2>1, <2>2
<1> QED
  BY <1>1, <1>2, SizeInvStep, ImagesHold, PTL DEF Spec

-----------------------------------------------------------------------------
(* Data in several chunks. *)

\* Some byte of what was collected is not the one the stream has there.
Astray == \E k \in 1 .. Len(collected) : k <= ZLength /\ collected[k] # Z(k)

\* The loader has collected the chunk the stream begins with and is past it, but
\* not where it would find the next one.
FirstOnly ==
    \E n \in DOMAIN cells, length \in 1 .. ZLength - 1 :
        /\ DataChunk(cells, n, 1, length) /\ Continued(cells, n, 1, length)
        /\ collected = [k \in 1 .. length |-> Z(k)]
        /\ pos >= n + length /\ pos # n + length + 1

SplitInv ==
    layout = "split" =>
        /\ ext = ".png" /\ SplitFile(cells)
        /\ phase \in {"stored", "chunks", "inflate", "null", "crashed", "thrown"}
        /\ phase \in {"chunks", "inflate"} => collected = <<>> \/ Astray \/ FirstOnly

LEMMA SplitFirst ==
  ASSUME NEW s \in Stored, s.layout = "split"
  PROVE  SplitFile(s.cells)
BY ImageConstants

LEMMA SplitNames ==
  ASSUME NEW content, SplitFile(content),
         NEW m \in DOMAIN content, content[m] = Name("IDAT")
  PROVE  /\ \E first \in 1 .. ZLength, length \in 1 .. ZLength - 1 :
               /\ DataChunk(content, m, first, length)
               /\ first + length <= ZLength => Continued(content, m, first, length)
         /\ \A n \in DOMAIN content :
               content[n] = Name("IDAT") /\ content[m + 1] = content[n + 1] => m = n
BY DEF SplitFile

\* Only the name of a chunk is taken for its type.
LEMMA TypeIsName ==
  ASSUME NEW cell \in PngCells, AsType(cell) = "IDAT"
  PROVE  cell = Name("IDAT")
<1>1. cell[1] = "name" /\ cell[2] = "IDAT"
  BY DEF AsType
<1>2. cell \in {"name"} \X Types
  BY <1>1 DEF PngCells, Signature, Crc, Zero
<1> QED
  BY <1>1, <1>2 DEF Name

LEMMA DifferentCells ==
  /\ \A a, b : Z(a) = Z(b) => a = b
  /\ \A a : Zero # Z(a)
  /\ \A a, b : Num(a) = Num(b) => a = b
<1>1. \A a, b : Z(a) = Z(b) => a = b
  BY DEF Z
<1>2. \A a : Zero # Z(a)
  <2>1. \A a : Zero[1] = "zero" /\ Z(a)[1] = "z"
    BY DEF Z, Zero
  <2> QED
    BY <2>1
<1>3. \A a, b : Num(a) = Num(b) => a = b
  BY DEF Num
<1> QED
  BY <1>1, <1>2, <1>3

\* A turn that collects nothing leaves the loader where it cannot find the next
\* chunk: it takes the CRC for a length, and the length for a type.
LEMMA NothingCollected ==
  ASSUME ImageInv, phase = "chunks", good, pos < Len(cells),
         NEW length \in AsLength(cells[pos + 1]), Turn(length),
         collected' = collected, FirstOnly
  PROVE  FirstOnly'
<1>1. /\ cells \in Seq(PngCells) /\ Len(cells) \in Nat /\ pos \in Nat
      /\ DataAt = IF pos + 2 <= Len(cells) THEN pos + 2 ELSE Len(cells)
      /\ \E m \in Nat : pos' = Least(DataAt + m, Len(cells))
      /\ cells' = cells
  BY TurnFacts DEF ImageInv, FileInv, PhaseInv, fileVars
<1>2. PICK n \in DOMAIN cells, l \in 1 .. ZLength - 1 :
        /\ DataChunk(cells, n, 1, l) /\ Continued(cells, n, 1, l)
        /\ collected = [k \in 1 .. l |-> Z(k)]
        /\ pos >= n + l /\ pos # n + l + 1
  BY DEF FirstOnly
<1>3. n \in Nat /\ l \in Nat /\ n + l + 4 <= Len(cells)
  <2>1. DOMAIN cells = 1 .. Len(cells)
    BY <1>1
  <2>2. n \in Nat /\ l \in Nat
    <3>1. n \in 1 .. Len(cells) /\ l \in 1 .. ZLength - 1 /\ ZLength \in Nat
      BY <2>1, CompressedIs
    <3> QED
      BY <3>1
  <2>3. n + l + 4 \in 1 .. Len(cells)
    BY <1>2, <2>1 DEF Continued
  <2>4. n + l + 4 <= Len(cells)
    BY <2>3
  <2> QED
    BY <2>2, <2>4
<1>4. pos' >= n + l + 2
  <2>1. DataAt \in Nat /\ DataAt >= n + l + 2
    BY <1>1, <1>2, <1>3
  <2>2. PICK m \in Nat : pos' = Least(DataAt + m, Len(cells))
    BY <1>1
  <2> QED
    BY <1>1, <1>3, <2>1, <2>2 DEF Least
<1>5. pos' >= n + l /\ pos' # n + l + 1
  <2>1. pos' \in Nat
    BY <1>1 DEF Least, DataAt
  <2> QED
    BY <1>3, <1>4, <2>1
<1> QED
  BY <1>1, <1>2, <1>5 DEF FirstOnly

\* A turn that collects data begins with the chunk that holds the first byte, or
\* collects what does not come next.
LEMMA DataCollected ==
  ASSUME ImageInv, SplitInv, layout = "split",
         phase = "chunks", good, pos < Len(cells),
         NEW length \in AsLength(cells[pos + 1]), ReadData(length), length > 0
  PROVE  Astray' \/ FirstOnly'
<1> DEFINE new == Bytes(DataAt, length)
<1>1. /\ cells \in Seq(PngCells) /\ Len(cells) \in Nat /\ pos \in Nat /\ length \in Nat
      /\ DataAt = IF pos + 2 <= Len(cells) THEN pos + 2 ELSE Len(cells)
      /\ cells' = cells
  BY TurnFacts DEF ImageInv, FileInv, PhaseInv, fileVars, Turn
<1>2. DataAt \in Nat /\ ZLength \in Nat /\ ZLength > 0
  BY <1>1, CompressedIs
<1>3. /\ collected \in Seq(PngCells) /\ new \in Seq(PngCells) /\ Len(new) = length
      /\ \A k \in 1 .. length : DataAt + k <= Len(cells) => new[k] = cells[DataAt + k]
  BY <1>1, <1>2, BytesAre DEF ImageInv, PhaseInv, Walked
<1>4. new[1] = IF DataAt + 1 <= Len(cells) THEN cells[DataAt + 1] ELSE Zero
  BY <1>1 DEF Bytes
<1>5. /\ collected' = collected \o new /\ NextType = "IDAT"
      /\ pos' = Least(DataAt + length, Len(cells))
  BY DEF ReadData, WalkOn
<1> HIDE DEF new
<1>6. /\ Len(collected) \in Nat /\ Len(collected') = Len(collected) + length
      /\ \A k \in 1 .. Len(collected) : collected'[k] = collected[k]
      /\ \A k \in 1 .. length : collected'[Len(collected) + k] = new[k]
  <2>1. collected' = collected \o new
    BY <1>5
  <2>2. collected \in Seq(PngCells) /\ new \in Seq(PngCells)
    BY <1>3
  <2>3. /\ Len(collected) \in Nat /\ Len(collected') = Len(collected) + Len(new)
        /\ \A k \in 1 .. Len(collected) : collected'[k] = collected[k]
        /\ \A k \in 1 .. Len(new) : collected'[Len(collected) + k] = new[k]
    BY <2>1, <2>2
  <2>4. Len(new) = length
    BY <1>3
  <2> QED
    BY <2>3, <2>4
<1>7. ASSUME Astray PROVE Astray'
  <2>1. PICK k \in 1 .. Len(collected) : k <= ZLength /\ collected[k] # Z(k)
    BY <1>7 DEF Astray
  <2>2. k \in 1 .. Len(collected') /\ collected'[k] # Z(k)
    BY <1>1, <1>6, <2>1
  <2> QED
    BY <2>1, <2>2 DEF Astray
\* The first byte of the new ones is not the next of the stream.
<1>8. ASSUME Len(collected) < ZLength, new[1] # Z(Len(collected) + 1) PROVE Astray'
  <2> DEFINE k == Len(collected) + 1
  <2>1. collected'[k] = new[1] /\ k <= ZLength /\ k \in 1 .. Len(collected')
    BY <1>1, <1>2, <1>6, <1>8
  <2>2. collected'[k] # Z(k)
    BY <1>8, <2>1
  <2> HIDE DEF k
  <2> QED
    BY <2>1, <2>2 DEF Astray
<1>9. ASSUME FirstOnly
      PROVE  /\ Len(collected) < ZLength
             /\ \E n \in DOMAIN cells :
                  /\ n \in Nat /\ n + Len(collected) + 3 \in DOMAIN cells
                  /\ cells[n + Len(collected) + 3] = Name("IDAT")
                  /\ cells[n + Len(collected) + 4] = Z(Len(collected) + 1)
                  /\ pos + 2 # n + Len(collected) + 3
  <2>1. PICK n \in DOMAIN cells, l \in 1 .. ZLength - 1 :
          /\ Continued(cells, n, 1, l) /\ collected = [k \in 1 .. l |-> Z(k)]
          /\ pos # n + l + 1
    BY <1>9 DEF FirstOnly
  <2>2. l \in Nat /\ n \in Nat /\ DOMAIN cells = 1 .. Len(cells) /\ l < ZLength
    BY <1>1, <1>2, <2>1
  <2>3. Len(collected) = l
    BY <2>1, <2>2
  <2>4. /\ n + l + 4 \in DOMAIN cells /\ cells[n + l + 3] = Name("IDAT")
        /\ cells[n + l + 4] = Z(1 + l)
    BY <2>1 DEF Continued
  <2>5. n + l + 3 \in DOMAIN cells /\ 1 + l = l + 1 /\ pos + 2 # n + l + 3
    <3>1. pos # n + l + 1 /\ n + l + 4 \in 1 .. Len(cells)
      BY <2>1, <2>2, <2>4
    <3>2. n \in Nat /\ l \in Nat /\ pos \in Nat /\ Len(cells) \in Nat
      BY <1>1, <2>2
    <3>3. n + l + 3 \in 1 .. Len(cells) /\ 1 + l = l + 1 /\ pos + 2 # n + l + 3
      BY <3>1, <3>2
    <3> QED
      BY <2>2, <3>3
  <2> QED
    BY <2>2, <2>3, <2>4, <2>5
<1>10. CASE pos + 2 > Len(cells)
  <2>1. new[1] = Zero
    BY <1>1, <1>4, <1>10
  <2>2. new[1] # Z(Len(collected) + 1)
    BY <2>1, DifferentCells
  <2>3. collected = <<>> => Len(collected) < ZLength
    BY <1>2
  <2> QED
    BY <1>7, <1>8, <1>9, <2>2, <2>3 DEF SplitInv
<1>11. CASE pos + 2 <= Len(cells)
  <2> DEFINE m == pos + 2
  <2>1. m \in DOMAIN cells /\ DOMAIN cells = 1 .. Len(cells) /\ DataAt = m /\ m \in Nat
    BY <1>1, <1>11
  <2>2. cells[m] = Name("IDAT")
    <3>1. AsType(cells[m]) = "IDAT"
      BY <1>5, <1>11 DEF NextType
    <3>2. cells[m] \in PngCells
      BY <1>1, <2>1
    <3> QED
      BY <3>1, <3>2, TypeIsName
  <2>3. SplitFile(cells)
    BY DEF SplitInv
  <2>4. PICK first \in 1 .. ZLength, l \in 1 .. ZLength - 1 :
          /\ DataChunk(cells, m, first, l)
          /\ first + l <= ZLength => Continued(cells, m, first, l)
    <3> HIDE DEF m
    <3> QED
      BY <2>1, <2>2, <2>3, SplitNames
  <2>5. length = l
    <3>1. cells[pos + 1] = Num(l)
      <4>1. m - 1 = pos + 1
        BY <1>1
      <4> QED
        BY <2>4, <4>1 DEF DataChunk
    <3> QED
      BY <3>1, CellKinds
  <2>6. /\ first \in Nat /\ l \in Nat /\ l >= 1 /\ first >= 1
        /\ m + l <= Len(cells)
    BY <1>1, <1>2, <2>1, <2>4 DEF DataChunk
  <2>7. \A k \in 1 .. l : new[k] = Z(first + k - 1)
    <3>1. ASSUME NEW k \in 1 .. l PROVE new[k] = Z(first + k - 1)
      <4>1. DataAt + k <= Len(cells)
        BY <2>1, <2>6
      <4>2. new[k] = cells[m + k]
        BY <1>3, <2>1, <2>5, <4>1
      <4> QED
        BY <2>4, <4>2 DEF DataChunk
    <3> QED
      BY <3>1
  <2>8. new[1] = Z(first) /\ cells[m + 1] = Z(first)
    <3>1. 1 \in 1 .. l /\ first + 1 - 1 = first
      BY <2>6
    <3>2. new[1] = Z(first + 1 - 1) /\ cells[m + 1] = Z(first + 1 - 1)
      BY <2>4, <2>7, <3>1 DEF DataChunk
    <3> QED
      BY <3>1, <3>2
  <2>9. CASE collected = <<>>
    <3>1. Len(collected) = 0 /\ Len(collected) < ZLength
      BY <1>2, <2>9
    <3>2. CASE first # 1
      <4>1. new[1] # Z(Len(collected) + 1)
        BY <2>8, <3>1, <3>2, DifferentCells
      <4> QED
        BY <1>8, <3>1, <4>1
    <3>3. CASE first = 1
      <4>1. DataChunk(cells, m, 1, l) /\ Continued(cells, m, 1, l)
        BY <1>2, <2>4, <2>6, <3>3
      <4>2. collected' = [k \in 1 .. l |-> Z(k)]
        <5>1. collected' = new
          BY <1>3, <1>5, <2>9
        <5>2. \A k \in 1 .. l : new[k] = Z(k)
          <6>1. \A k \in 1 .. l : first + k - 1 = k
            BY <3>3
          <6> QED
            BY <2>7, <6>1
        <5>3. new = [k \in 1 .. l |-> new[k]]
          <6>1. new = [k \in 1 .. Len(new) |-> new[k]]
            BY <1>3
          <6> QED
            BY <1>3, <2>5, <6>1
        <5>4. [k \in 1 .. l |-> new[k]] = [k \in 1 .. l |-> Z(k)]
          BY <5>2
        <5> QED
          BY <5>1, <5>3, <5>4
      <4>3. pos' = m + l
        <5>1. pos' = Least(m + l, Len(cells))
          BY <1>5, <2>1, <2>5
        <5>2. m + l \in Nat /\ Len(cells) \in Nat /\ m + l <= Len(cells)
          BY <1>1, <2>1, <2>6
        <5> QED
          BY <5>1, <5>2 DEF Least
      <4>4. pos' >= m + l /\ pos' # m + l + 1
        BY <2>1, <2>6, <4>3
      <4> HIDE DEF m
      <4> QED
        BY <1>1, <2>1, <4>1, <4>2, <4>4 DEF FirstOnly
    <3> QED
      BY <3>2, <3>3
  <2>10. ASSUME FirstOnly PROVE Astray'
    <3> DEFINE c == Len(collected)
    <3>1. PICK n \in DOMAIN cells :
            /\ n \in Nat /\ n + c + 3 \in DOMAIN cells
            /\ cells[n + c + 3] = Name("IDAT")
            /\ cells[n + c + 4] = Z(c + 1)
            /\ m # n + c + 3
      BY <1>9, <2>10
    <3>2. (n + c + 3) + 1 = n + c + 4
      BY <1>6, <3>1
    <3>3. cells[m + 1] # cells[n + c + 4]
      <4> DEFINE q == n + c + 3
      <4>1. q \in DOMAIN cells /\ cells[q] = Name("IDAT") /\ m # q
        BY <3>1
      <4> HIDE DEF q, m
      <4>2. cells[m + 1] # cells[q + 1]
        BY <2>1, <2>2, <2>3, <4>1, SplitNames
      <4> QED
        BY <3>2, <4>2 DEF q
    <3>4. new[1] # Z(c + 1)
      BY <2>8, <3>1, <3>3
    <3> QED
      BY <1>8, <1>9, <2>10, <3>4
  <2> QED
    BY <1>7, <2>9, <2>10 DEF SplitInv
<1> QED
  BY <1>1, <1>10, <1>11

LEMMA SplitTurn ==
  ASSUME ImageInv, SplitInv, layout = "split",
         phase = "chunks", good, pos < Len(cells),
         NEW length \in AsLength(cells[pos + 1]), Turn(length)
  PROVE  (collected = <<>>)' \/ Astray' \/ FirstOnly'
<1>1. CASE ReadData(length) /\ length > 0
  BY <1>1, DataCollected
<1>2. CASE ~(ReadData(length) /\ length > 0)
  <2>1. collected' = collected
    <3>1. CASE ReadData(length)
      <4>1. length = 0 /\ DataAt \in Nat
        BY <1>2, <3>1, TurnFacts
      <4>2. cells \in Seq(PngCells) /\ collected \in Seq(PngCells)
        BY DEF ImageInv, FileInv, PhaseInv, Walked
      <4>3. Bytes(DataAt, length) \in Seq(PngCells) /\ Len(Bytes(DataAt, length)) = 0
        BY <4>1, <4>2, BytesAre
      <4>4. Bytes(DataAt, length) = <<>>
        BY <4>3
      <4> QED
        BY <3>1, <4>2, <4>4 DEF ReadData
    <3>2. CASE ReadHeader(length) \/ SkipChunk(length)
      BY <3>2 DEF ReadHeader, SkipChunk
    <3> QED
      BY <3>1, <3>2 DEF Turn
  <2>2. Astray => Astray'
    BY <2>1 DEF Astray
  <2>3. FirstOnly => FirstOnly'
    BY <2>1, NothingCollected
  <2> QED
    BY <2>1, <2>2, <2>3 DEF SplitInv
<1> QED
  BY <1>1, <1>2

\* No such data is a whole stream.
LEMMA SplitNotWhole ==
  ASSUME collected \in Seq(PngCells), collected = <<>> \/ Astray \/ FirstOnly
  PROVE  ~IsPrefix(Compressed, collected)
<1> SUFFICES ASSUME IsPrefix(Compressed, collected) PROVE FALSE
  OBVIOUS
<1>1. /\ ZLength \in Nat /\ ZLength > 0 /\ ZLength <= Len(collected)
      /\ \A j \in 1 .. ZLength : collected[j] = Z(j)
  BY CompressedIs, PrefixIs
<1>2. CASE collected = <<>>
  <2>1. Len(collected) = 0
    BY <1>2
  <2> QED
    BY <1>1, <2>1
<1>3. CASE Astray
  <2>1. PICK k \in 1 .. Len(collected) : k <= ZLength /\ collected[k] # Z(k)
    BY <1>3 DEF Astray
  <2> QED
    BY <1>1, <2>1
<1>4. CASE FirstOnly
  <2>1. PICK l \in 1 .. ZLength - 1 : collected = [k \in 1 .. l |-> Z(k)]
    BY <1>4 DEF FirstOnly
  <2>2. Len(collected) = l /\ l < ZLength /\ l \in Nat
    BY <1>1, <2>1
  <2> QED
    BY <1>1, <2>2
<1> QED
  BY <1>2, <1>3, <1>4

LEMMA SplitInvStep ==
  ASSUME ImageInv, SplitInv, [Next]_imageVars
  PROVE  SplitInv'
<1> SUFFICES ASSUME layout' = "split"
             PROVE  /\ ext' = ".png" /\ SplitFile(cells')
                    /\ phase' \in {"stored", "chunks", "inflate", "null", "crashed", "thrown"}
                    /\ phase' \in {"chunks", "inflate"} =>
                          (collected = <<>>)' \/ Astray' \/ FirstOnly'
  BY DEF SplitInv
<1>1. CASE ReadChunk
  <2>1. phase = "chunks" /\ good /\ pos < Len(cells)
    BY <1>1 DEF ReadChunk
  <2>2. PICK length \in AsLength(cells[pos + 1]) : Turn(length)
    BY <1>1 DEF ReadChunk, Turn
  <2>3. UNCHANGED fileVars /\ phase' \in {"chunks", "inflate", "null"}
    BY <2>1, <2>2, TurnFacts
  <2> QED
    BY <2>1, <2>2, <2>3, SplitTurn DEF SplitInv, fileVars
<1>2. CASE EndOfFile
  <2>1. /\ phase = "chunks" /\ phase' = "inflate" /\ UNCHANGED <<fileVars, walkVars>>
    BY <1>2 DEF EndOfFile, Goto
  <2>2. (Astray => Astray') /\ (FirstOnly => FirstOnly')
    BY <2>1 DEF Astray, FirstOnly, fileVars, walkVars
  <2> QED
    BY <2>1, <2>2 DEF SplitInv, fileVars, walkVars
<1>3. CASE Inflate
  <2>1. phase = "inflate" /\ UNCHANGED fileVars
    BY <1>3 DEF Inflate
  <2>2. ~IsPrefix(Compressed, collected)
    <3>1. collected \in Seq(PngCells)
      BY <2>1 DEF ImageInv, PhaseInv, Walked
    <3>2. collected = <<>> \/ Astray \/ FirstOnly
      BY <2>1 DEF SplitInv, fileVars
    <3> QED
      BY <3>1, <3>2, SplitNotWhole
  <2>3. phase' \in {"null", "thrown"}
    BY <1>3, <2>2 DEF Inflate
  <2> QED
    BY <2>1, <2>3 DEF SplitInv, fileVars
<1>4. CASE Load
  <2>1. phase = "stored" /\ UNCHANGED <<fileVars, collected>>
    BY <1>4 DEF Load, Goto
  <2>2. collected' = <<>>
    BY <2>1 DEF ImageInv, PhaseInv, NotReading
  <2>3. ext = ".png"
    BY <2>1 DEF SplitInv, fileVars
  <2>4. phase' \in {"null", "chunks"}
    BY <1>4, <2>3 DEF Load, Goto
  <2> QED
    BY <2>1, <2>2, <2>4 DEF SplitInv, fileVars
<1>5. CASE UnfilterRows \/ BuildImage
  BY <1>5 DEF UnfilterRows, BuildImage, SplitInv, fileVars
<1>6. CASE Edit
  BY <1>6 DEF Edit
<1>7. CASE EditNull
  BY <1>7 DEF EditNull, SplitInv, fileVars
<1>8. CASE \E format \in {"bmp", "png", "jpeg", "other"} : Choose(format) \/ NotSaved(format)
  <2>1. phase = "received"
    BY <1>8 DEF Choose, NotSaved
  <2>2. layout # "split"
    BY <2>1 DEF ImageInv, PhaseInv
  <2> QED
    BY <1>8, <2>2 DEF Choose, NotSaved, fileVars
<1>9. CASE UNCHANGED imageVars
  <2>1. UNCHANGED <<phase, fileVars, walkVars>>
    BY <1>9 DEF imageVars
  <2>2. (Astray => Astray') /\ (FirstOnly => FirstOnly')
    BY <2>1 DEF Astray, FirstOnly, fileVars, walkVars
  <2> QED
    BY <2>1, <2>2 DEF SplitInv, fileVars, walkVars
<1> QED
  BY <1>1, <1>2, <1>3, <1>4, <1>5, <1>6, <1>7, <1>8, <1>9 DEF Next

\* How far the loader is from what SplitIsLoaded asks: no PNG file whose data is
\* in several chunks is ever loaded, however it is cut and wherever the CRC that
\* is not skipped, taken for a length, leads (PNGimage.cpp 117-121).
THEOREM SplitFilesAreRefused == Spec => [](layout = "split" => phase # "loaded")
<1>1. ASSUME Init PROVE SplitInv
  <2>1. SUFFICES ASSUME layout = "split"
                 PROVE  ext = ".png" /\ SplitFile(cells) /\ phase = "stored"
    BY DEF SplitInv
  <2>2. PICK s \in Stored : /\ phase = "stored" /\ cells = s.cells /\ ext = ".png"
                            /\ layout = s.layout
    BY <1>1, <2>1 DEF Init
  <2> QED
    BY <2>1, <2>2, SplitFirst
<1>2. SplitInv => (layout = "split" => phase # "loaded")
  BY DEF SplitInv
<1> QED
  BY <1>1, <1>2, SplitInvStep, ImagesHold, PTL DEF Spec

-----------------------------------------------------------------------------
(* The noise every pixel comes from: module Perlin. *)

LEMMA PermutationAt ==
  ASSUME NEW p \in Shuffled, NEW i \in 0 .. 255
  PROVE  /\ Permutation(p)[i] = p[i] /\ Permutation(p)[i + 256] = p[i]
         /\ p[i] \in 0 .. 255
<1>1. i \in 0 .. 511 /\ i + 256 \in 0 .. 511 /\ i < 256 /\ ~(i + 256 < 256)
      /\ (i + 256) - 256 = i
  OBVIOUS
<1> QED
  BY <1>1 DEF Shuffled, Permutation

\* An entry looked up one beyond a remainder is the one at the next number's
\* remainder, wherever the lookup starts.
LEMMA PermutationWraps ==
  ASSUME NEW p \in Shuffled, NEW i \in Int, NEW h \in 0 .. 255
  PROVE  Permutation(p)[h + ((i % 256) + 1)] = Permutation(p)[h + ((i + 1) % 256)]
<1>1. i % 256 \in 0 .. 255
  OBVIOUS
<1>2. CASE i % 256 = 255
  <2>1. (i + 1) % 256 = 0
    BY <1>2
  <2>2. h + ((i % 256) + 1) = h + 256 /\ h + ((i + 1) % 256) = h
    BY <1>2, <2>1
  <2>3. Permutation(p)[h] = p[h]
    BY PermutationAt
  <2>4. Permutation(p)[h + 256] = p[h]
    BY PermutationAt
  <2> QED
    BY <2>2, <2>3, <2>4
<1>3. CASE i % 256 # 255
  <2>1. (i + 1) % 256 = (i % 256) + 1
    BY <1>3
  <2> QED
    BY <2>1
<1> QED
  BY <1>2, <1>3

LEMMA FirstLookUp ==
  ASSUME NEW p \in Shuffled, NEW i \in Int, NEW d \in {0, 1}
  PROVE  Permutation(p)[(i % 256) + d] \in 0 .. 255
<1>1. i % 256 \in 0 .. 255 /\ (i + 1) % 256 \in 0 .. 255
  OBVIOUS
<1>2. CASE d = 0
  <2>1. (i % 256) + d = i % 256
    BY <1>1, <1>2
  <2>2. Permutation(p)[i % 256] \in 0 .. 255
    BY <1>1, PermutationAt
  <2> QED
    BY <2>1, <2>2
<1>3. CASE d = 1
  <2>1. (i % 256) + d = 0 + ((i % 256) + 1) /\ 0 + ((i + 1) % 256) = (i + 1) % 256
    BY <1>1, <1>3
  <2>2. 0 \in 0 .. 255
    OBVIOUS
  <2>3. Permutation(p)[0 + ((i % 256) + 1)] = Permutation(p)[0 + ((i + 1) % 256)]
    BY <2>2, PermutationWraps
  <2>4. Permutation(p)[(i + 1) % 256] \in 0 .. 255
    BY <1>1, PermutationAt
  <2> QED
    BY <2>1, <2>3, <2>4
<1> QED
  BY <1>2, <1>3

\* The corner that two neighbouring cells share has one gradient, also where
\* the table begins anew (lines 39-53 and 87-97).
THEOREM CornersAgree ==
  ASSUME NEW p \in Shuffled, NEW X \in Int, NEW Y \in Int, NEW d \in {0, 1}
  PROVE  /\ Corner(p, X, Y, 1, d) = Corner(p, X + 1, Y, 0, d)
         /\ Corner(p, X, Y, d, 1) = Corner(p, X, Y + 1, d, 0)
<1> DEFINE P == Permutation(p)
<1>1. /\ X % 256 \in 0 .. 255 /\ (X + 1) % 256 \in 0 .. 255
      /\ Y % 256 \in 0 .. 255 /\ (Y + 1) % 256 \in 0 .. 255
  OBVIOUS
<1>2. P[(X % 256) + 1] = P[((X + 1) % 256) + 0]
  <2>1. 0 \in 0 .. 255
    OBVIOUS
  <2>2. /\ 0 + ((X % 256) + 1) = (X % 256) + 1
        /\ 0 + ((X + 1) % 256) = ((X + 1) % 256) + 0
    BY <1>1
  <2> QED
    BY <2>1, <2>2, PermutationWraps
<1>3. ASSUME NEW h \in 0 .. 255
      PROVE  P[h + (Y % 256) + 1] = P[h + ((Y + 1) % 256) + 0]
  <2>1. /\ h + (Y % 256) + 1 = h + ((Y % 256) + 1)
        /\ h + ((Y + 1) % 256) + 0 = h + ((Y + 1) % 256)
    BY <1>1
  <2> QED
    BY <2>1, PermutationWraps
<1>4. P[(X % 256) + d] \in 0 .. 255
  BY FirstLookUp
<1> QED
  BY <1>2, <1>3, <1>4 DEF Corner

-----------------------------------------------------------------------------
(* No seams. *)

LEMMA FadeEnds == fade(0) = 0 /\ fade(1) = 1
BY DEF fade

LEMMA LerpEnds ==
  ASSUME NEW a \in Int, NEW b \in Int
  PROVE  lerp(0, a, b) = a /\ lerp(1, a, b) = b
BY DEF lerp

LEMMA GradientType ==
  ASSUME NEW value
  PROVE  /\ getConstantVector(value).x \in {1, -1}
         /\ getConstantVector(value).y \in {1, -1}
BY DEF getConstantVector, Vector2

LEMMA InfluenceType ==
  ASSUME NEW p, NEW X, NEW Y, NEW xf \in Int, NEW yf \in Int,
         NEW dx \in {0, 1}, NEW dy \in {0, 1}
  PROVE  Influence(p, X, Y, xf, yf, dx, dy) \in Int
<1>1. Corner(p, X, Y, dx, dy).x \in Int /\ Corner(p, X, Y, dx, dy).y \in Int
  BY GradientType DEF Corner
<1> QED
  BY <1>1 DEF Influence, dot, Vector2

\* A corner two cells share has the same influence on a point of their border.
LEMMA InfluencesAgree ==
  ASSUME NEW p \in Shuffled, NEW X \in Int, NEW Y \in Int, NEW d \in {0, 1},
         NEW f \in Int
  PROVE  /\ Influence(p, X, Y, 1, f, 1, d) = Influence(p, X + 1, Y, 0, f, 0, d)
         /\ Influence(p, X, Y, f, 1, d, 1) = Influence(p, X, Y + 1, f, 0, d, 0)
<1>1. Vector2(1 - 1, f - d) = Vector2(0 - 0, f - d)
  BY DEF Vector2
<1>2. Vector2(f - d, 1 - 1) = Vector2(f - d, 0 - 0)
  BY DEF Vector2
<1> QED
  BY <1>1, <1>2, CornersAgree DEF Influence

\* The noise has no seam between a cell and the next one to the right: the
\* value at their border is the same from both sides (lines 37-67).
THEOREM NoSeamAcross ==
  ASSUME NEW p \in Shuffled, NEW X \in Int, NEW Y \in Int, NEW yf \in Int
  PROVE  noise2D(p, X, Y, 1, yf) = noise2D(p, X + 1, Y, 0, yf)
<1> DEFINE l(dx, dy) == Influence(p, X, Y, 1, yf, dx, dy)
           r(dx, dy) == Influence(p, X + 1, Y, 0, yf, dx, dy)
<1>1. \A dx, dy \in {0, 1} : l(dx, dy) \in Int /\ r(dx, dy) \in Int
  BY InfluenceType
<1>2. l(1, 0) = r(0, 0) /\ l(1, 1) = r(0, 1)
  BY InfluencesAgree
<1>3. \A dy \in {0, 1} : lerp(fade(1), l(0, dy), l(1, dy)) = l(1, dy)
  BY <1>1, FadeEnds, LerpEnds
<1>4. \A dy \in {0, 1} : lerp(fade(0), r(0, dy), r(1, dy)) = r(0, dy)
  BY <1>1, FadeEnds, LerpEnds
<1> QED
  BY <1>2, <1>3, <1>4 DEF noise2D

\* Nor between a cell and the next one up.
THEOREM NoSeamUp ==
  ASSUME NEW p \in Shuffled, NEW X \in Int, NEW Y \in Int, NEW xf \in Int
  PROVE  noise2D(p, X, Y, xf, 1) = noise2D(p, X, Y + 1, xf, 0)
<1> DEFINE l(dx, dy) == Influence(p, X, Y, xf, 1, dx, dy)
           r(dx, dy) == Influence(p, X, Y + 1, xf, 0, dx, dy)
           mix(a, b) == lerp(fade(xf), a, b)
<1>1. \A dx, dy \in {0, 1} : l(dx, dy) \in Int /\ r(dx, dy) \in Int
  BY InfluenceType
<1>2. l(0, 1) = r(0, 0) /\ l(1, 1) = r(1, 0)
  BY InfluencesAgree
<1>3. \A a, b \in Int : mix(a, b) \in Int
  BY DEF lerp, fade
<1>4. ASSUME NEW a \in Int, NEW b \in Int
      PROVE  lerp(fade(1), a, b) = b /\ lerp(fade(0), a, b) = a
  BY FadeEnds, LerpEnds
<1>5. /\ mix(l(0, 0), l(1, 0)) \in Int /\ mix(l(0, 1), l(1, 1)) \in Int
      /\ mix(r(0, 0), r(1, 0)) \in Int /\ mix(r(0, 1), r(1, 1)) \in Int
  BY <1>1, <1>3
<1>6. lerp(fade(1), mix(l(0, 0), l(1, 0)), mix(l(0, 1), l(1, 1)))
        = mix(l(0, 1), l(1, 1))
  <2> HIDE DEF l, r, mix
  <2> QED
    BY <1>4, <1>5
<1>7. lerp(fade(0), mix(r(0, 0), r(1, 0)), mix(r(0, 1), r(1, 1)))
        = mix(r(0, 0), r(1, 0))
  <2> HIDE DEF l, r, mix
  <2> QED
    BY <1>4, <1>5
<1> QED
  BY <1>2, <1>6, <1>7 DEF noise2D

=============================================================================
