------------------------------- MODULE Scanlines -------------------------------
(***************************************************************************)
(* unfilterScanlines of image_ops/src/source/PNGimage.cpp: the rows of a   *)
(* picture come out of zlib as differences from a prediction, each row     *)
(* with the filter its first byte names, and are turned back in place,     *)
(* byte by byte, with the predictions made from bytes already turned back. *)
(***************************************************************************)
EXTENDS Integers

CONSTANT bpp    \* bytes per pixel, 4

ASSUME ScanConstants == bpp \in Nat \ {0}

VARIABLES
    width, height,  \* locals of PNGImage::load
    filter,         \* the first byte of each row
    bytes,          \* the other bytes of each row
    row, at,        \* the loop variables y and i
    original        \* history: the rows of the picture

scanVars == <<width, height, filter, bytes, row, at, original>>

stride == width * bpp
Byte   == 0 .. 255
Filters == 0 .. 4
RowsOf(h, w) == [0 .. h - 1 -> [0 .. w * bpp - 1 -> Byte]]

\* The neighbours of a byte, 0 outside the picture.
Left(b, y, i)      == IF i >= bpp THEN b[y][i - bpp] ELSE 0
AboveOf(b, y, i)   == IF y > 0 THEN b[y - 1][i] ELSE 0
UpperLeft(b, y, i) == IF y > 0 /\ i >= bpp THEN b[y - 1][i - bpp] ELSE 0

Distance(m, n) == IF m > n THEN m - n ELSE n - m

-----------------------------------------------------------------------------
(* The encoder, as the PNG standard defines its filters. *)

\* The neighbour nearest to left + above - upper left; ties go to the first.
Nearest(a, b, c) ==
    LET near(x) == \A z \in {a, b, c} :
                      Distance(a + b - c, x) <= Distance(a + b - c, z)
    IN  IF near(a) THEN a ELSE IF near(b) THEN b ELSE c

Prediction(f, a, b, c) ==
    CASE f = 0 -> 0
      [] f = 1 -> a
      [] f = 2 -> b
      [] f = 3 -> (a + b) \div 2
      [] f = 4 -> Nearest(a, b, c)

Filtered(b, f) ==
    [y \in DOMAIN b |-> [i \in DOMAIN b[y] |->
        (b[y][i] - Prediction(f[y], Left(b, y, i), AboveOf(b, y, i),
                              UpperLeft(b, y, i))) % 256]]

-----------------------------------------------------------------------------

\* Mutation of paethPredictor: ties go to the last.
paethStrict(a, b, c) ==
    LET p == a + b - c IN
    IF Distance(p, a) < Distance(p, b) /\ Distance(p, a) < Distance(p, c) THEN a
    ELSE IF Distance(p, b) < Distance(p, c) THEN b ELSE c

paethPredictor(a, b, c) ==
    LET p == a + b - c IN
    IF Distance(p, a) <= Distance(p, b) /\ Distance(p, a) <= Distance(p, c) THEN a
    ELSE IF Distance(p, b) <= Distance(p, c) THEN b ELSE c

\* Mutation of Added: the average is rounded up.
AddedRoundedUp(f, a, b, c) ==
    CASE f = 0 -> 0
      [] f = 1 -> a
      [] f = 2 -> b
      [] f = 3 -> (a + b + 1) \div 2
      [] f = 4 -> paethPredictor(a, b, c)

\* What the loop of a row's filter adds to the byte; where the loop starts
\* later, or not at all, it would add 0.
Added(f, a, b, c) ==
    CASE f = 0 -> 0
      [] f = 1 -> a
      [] f = 2 -> b
      [] f = 3 -> (a + b) \div 2
      [] f = 4 -> paethPredictor(a, b, c)

UnfilterByte ==
    /\ row < height /\ at < stride
    /\ bytes' = [bytes EXCEPT ![row][at] =
           (@ + Added(filter[row], Left(bytes, row, at), AboveOf(bytes, row, at),
                      UpperLeft(bytes, row, at))) % 256]
    /\ at' = at + 1
    /\ UNCHANGED <<width, height, filter, row, original>>

NextRow ==
    /\ row < height /\ at >= stride
    /\ row' = row + 1 /\ at' = 0
    /\ UNCHANGED <<width, height, filter, bytes, original>>

Unfilter == UnfilterByte \/ NextRow

\* A picture of any size, filtered in any way.
ScanInit ==
    /\ width \in Nat /\ height \in Nat
    /\ original \in RowsOf(height, width)
    /\ filter \in [0 .. height - 1 -> Filters]
    /\ bytes = Filtered(original, filter)
    /\ row = 0 /\ at = 0

ScanSpec == ScanInit /\ [][Unfilter]_scanVars

-----------------------------------------------------------------------------
(* Properties. *)

\* The bytes turned back so far are those of the picture, whatever the filters
\* of the rows (lines 11-67).
UnfilterInverts ==
    \A y \in 0 .. height - 1 : \A i \in 0 .. stride - 1 :
        (y < row \/ (y = row /\ i < at)) => bytes[y][i] = original[y][i]

=============================================================================
