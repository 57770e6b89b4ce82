----------------------------------- MODULE Bmp -----------------------------------
(***************************************************************************)
(* class BMPImage of image_ops/src/source/BMPimage.cpp: the file it writes *)
(* and the image it reads from one.                                        *)
(*                                                                         *)
(* A colour is <<red, green, blue, alpha>>.  The headers are one cell, the *)
(* other cells are bytes.                                                  *)
(***************************************************************************)
EXTENDS Integers, Sequences

CONSTANT DimLimit   \* 256: the constructor's arguments are uint8_t

ASSUME BmpConstants == DimLimit \in Nat \ {0}

Opaque(r, g, b) == <<r, g, b, 255>>
White == Opaque(255, 255, 255)

\* An image from the colour of each position.
Image(height, width, colour(_, _)) ==
    [height |-> height, width |-> width,
     pixels |-> [r \in 0 .. height - 1 |->
                    [c \in 0 .. width - 1 |-> colour(r, c)]]]

\* BMPImage(height, width) filled from an image with setPixelColor, which ignores
\* positions out of bounds.
BMPImage(i) ==
    Image(i.height % DimLimit, i.width % DimLimit, LAMBDA r, c : i.pixels[r][c])

\* (width * 3 + 3) & ~3
RowStride(width) == 4 * ((width * 3 + 3) \div 4)

\* Where the three bytes of a pixel begin after the headers: the last row comes
\* first.
Offset(height, width, r, c) == (height - 1 - r) * RowStride(width) + 3 * c

BmpHeader(height, width) == <<"bmp", height, width>>

\* Blue, green and red, and zeros at the end of a row.
BmpSave(image) ==
    LET stride == RowStride(image.width)
        byte(k) == LET r == image.height - 1 - (k \div stride)
                       i == k % stride
                   IN  IF i >= 3 * image.width THEN 0
                       ELSE image.pixels[r][i \div 3][3 - (i % 3)]
    IN  <<BmpHeader(image.height, image.width)>>
        \o [k \in 1 .. image.height * stride |-> byte(k - 1)]

\* Mutation of BmpLoad: the zeros at the end of a row are not skipped.
BmpLoadUnpadded(cells) ==
    LET height == cells[1][2]
        width  == cells[1][3]
        get(k) == IF k + 2 <= Len(cells) THEN cells[k + 2] ELSE 255
        at(r, c) == (height - 1 - r) * 3 * width + 3 * c
    IN  BMPImage(Image(height, width, LAMBDA r, c :
            Opaque(get(at(r, c) + 2), get(at(r, c) + 1), get(at(r, c)))))

\* Beyond the end of the file in.get() returns EOF, which is 255 as a byte.
BmpLoad(cells) ==
    LET height == cells[1][2]
        width  == cells[1][3]
        get(k) == IF k + 2 <= Len(cells) THEN cells[k + 2] ELSE 255
        at(r, c) == Offset(height, width, r, c)
    IN  BMPImage(Image(height, width, LAMBDA r, c :
            Opaque(get(at(r, c) + 2), get(at(r, c) + 1), get(at(r, c)))))

=============================================================================
