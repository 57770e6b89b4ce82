------------------------------- MODULE ImageFiles -------------------------------
(***************************************************************************)
(* An image on its way through files: Client::get_image saves what the     *)
(* server sent in the format the user chooses, ImageLoader::load reads it  *)
(* or a file of another program back, and the program of                   *)
(* myNoiseGeneratorImageHandler.cpp changes some pixels and saves again.   *)
(*                                                                         *)
(* A file is a sequence of cells: BMP's are those of module Bmp; in a PNG  *)
(* file the signature, a length, a chunk's type, its CRC and the IHDR data *)
(* are one cell each, and so is every byte of compressed data.             *)
(***************************************************************************)
EXTENDS Bmp, Scanlines, SequencesExt

CONSTANTS
    Received,   \* images the server sends
    Stored,     \* PNG files of other programs: image, filters and layout
    OtherTypes, \* chunk types of other programs
    EditAt, NewColour,  \* the pixels the handler changes, and to what
    ZLength,    \* bytes compress() makes of an image
    Word        \* 2^32, the number of values of a length field

VARIABLES
    phase,      \* where the programs are
    image,      \* the image in memory
    cells, ext, \* the file and the extension of its name
    pos,        \* PNGImage::load: how far the file was read
    good,       \* the stream has not failed
    type,       \* chunk.type
    collected,  \* compressed_data
    edited,     \* the handler has run
    picture,    \* history: the image the file stands for
    layout      \* history: what kind of file it is

fileVars == <<cells, ext, edited, picture, layout>>
walkVars == <<pos, good, type, collected>>
imageVars == <<phase, image, fileVars, walkVars, scanVars>>

NoImage == [height |-> 0, width |-> 0, pixels |-> <<>>]

Colours == [1 .. bpp -> Byte]

IsPicture(i) ==
    /\ i.height \in Nat /\ i.width \in Nat
    /\ i = Image(i.height, i.width, LAMBDA r, c : i.pixels[r][c])
    /\ \A r \in 0 .. i.height - 1, c \in 0 .. i.width - 1 : i.pixels[r][c] \in Colours

IsOpaque(i) ==
    \A r \in 0 .. i.height - 1, c \in 0 .. i.width - 1 : i.pixels[r][c][4] = 255

-----------------------------------------------------------------------------
(* PNG files. *)

Num(n)  == <<"num", n>>
Name(t) == <<"name", t>>
Z(n)    == <<"z", n>>
Crc     == <<"crc">>
Zero    == <<"zero">>
Signature == <<"signature">>
Dims(i) == <<"dims", i.height, i.width>>

Chunk(t, payload) == <<Num(Len(payload)), Name(t)>> \o payload \o <<Crc>>

Compressed == [n \in 1 .. ZLength |-> Z(n)]

\* save() makes one chunk of the compressed data, and filters no row.
PngSave(i) ==
    <<Signature>> \o Chunk("IHDR", <<Dims(i)>>) \o Chunk("IDAT", Compressed)
        \o Chunk("IEND", <<>>)
Unfiltered(i) == [y \in 0 .. i.height - 1 |-> 0]

\* The bytes of the rows of an image, and the image made of them.
RawRows(i) ==
    [y \in 0 .. i.height - 1 |->
        [k \in 0 .. i.width * bpp - 1 |-> i.pixels[y][k \div bpp][(k % bpp) + 1]]]

ImageOf(b) ==
    Image(height, width, LAMBDA r, c : [k \in 1 .. bpp |-> b[r][c * bpp + k - 1]])

\* What four bytes may be taken for when they are read as a length.
AsLength(cell) == IF cell[1] = "num" THEN {cell[2]} ELSE 0 .. Word - 1
AsType(cell)   == IF cell[1] = "name" THEN cell[2] ELSE "other"

Types == {"IHDR", "IDAT", "IEND"} \cup OtherTypes

PngCells ==
    {Signature, Crc, Zero} \cup ({"num"} \X Nat) \cup ({"name"} \X Types)
        \cup ({"z"} \X Nat) \cup ({"dims"} \X Nat \X Nat)

\* What the PNG standard asks of the beginning of a file: IHDR comes first, and
\* only once.
HeaderFirst(content, i) ==
    \A n \in DOMAIN content :
        /\ n = 1 => content[n] = Signature
        /\ n = 2 => content[n] = Num(1)
        /\ n = 3 => content[n] = Name("IHDR")
        /\ n = 4 => content[n] = Dims(i)
        /\ n > 4 => AsType(content[n]) # "IHDR"

\* The chunk named at n holds the compressed bytes first, first + 1, ...
DataChunk(content, n, first, length) ==
    /\ n > 1 /\ n + length \in DOMAIN content
    /\ content[n - 1] = Num(length) /\ content[n] = Name("IDAT")
    /\ \A k \in 1 .. length : content[n + k] = Z(first + k - 1)

\* After a chunk's CRC the chunk with the next byte follows.
Continued(content, n, first, length) ==
    /\ n + length + 4 \in DOMAIN content
    /\ content[n + length + 2][1] = "num" /\ content[n + length + 3] = Name("IDAT")
    /\ content[n + length + 4] = Z(first + length)

\* What it asks of a file whose data is in several chunks, none of them empty.
SplitFile(content) ==
    LET names == {n \in DOMAIN content : content[n] = Name("IDAT")} IN
    /\ \A n \in names : \E first \in 1 .. ZLength, length \in 1 .. ZLength - 1 :
          /\ DataChunk(content, n, first, length)
          /\ first + length <= ZLength => Continued(content, n, first, length)
    /\ \A m, n \in names : content[m + 1] = content[n + 1] => m = n

\* The server paints with alpha 255.  Files of other programs are PNG files of
\* eight-bit RGBA, not interlaced: the loader never looks at these fields of IHDR.
ASSUME ImageConstants ==
    /\ bpp = 4
    /\ ZLength \in Nat \ {0} /\ Word \in Nat \ {0, 1}
    /\ NewColour \in Colours
    /\ \A i \in Received : IsPicture(i) /\ IsOpaque(i)
    /\ \A s \in Stored :
          /\ s.layout \in {"other", "split"}
          /\ IsPicture(s.image) /\ s.filter \in [0 .. s.image.height - 1 -> Filters]
          /\ s.cells \in Seq(PngCells) /\ HeaderFirst(s.cells, s.image)
          /\ s.layout = "split" => SplitFile(s.cells)

-----------------------------------------------------------------------------

NotReading ==
    /\ pos = 0 /\ good = TRUE /\ type = "other" /\ collected = <<>>
    /\ width = 0 /\ height = 0 /\ bytes = <<>> /\ row = 0 /\ at = 0

\* The file is written as far as the disk takes it: nobody looks at the stream.
WriteFile(content) == cells' \in {SubSeq(content, 1, n) : n \in 0 .. Len(content)}

Init ==
    /\ NotReading /\ edited = FALSE
    /\ \/ /\ phase = "received" /\ image \in Received
          /\ picture = image /\ cells = <<>> /\ ext = "" /\ layout = "none"
          /\ original = <<>> /\ filter = <<>>
       \/ \E s \in Stored :
          /\ phase = "stored" /\ image = NoImage /\ picture = s.image
          /\ cells = s.cells /\ ext = ".png" /\ layout = s.layout
          /\ original = RawRows(s.image) /\ filter = s.filter

\* The end of get_image: the user chooses a format, and a path with any
\* extension.  JPEGImage::save throws; another format is refused.
Choose(format) ==
    /\ phase = "received"
    /\ \/ /\ format = "bmp"
          /\ image' = BMPImage(image)
          /\ WriteFile(BmpSave(image'))
       \/ /\ format = "png"
          /\ image' = image /\ WriteFile(PngSave(image))
    /\ ext' \in {".bmp", ".png", ".jpg", ""}
    /\ phase' = "stored" /\ layout' = format
    /\ IF format = "png"
       THEN original' = RawRows(image) /\ filter' = Unfiltered(image)
       ELSE UNCHANGED <<original, filter>>
    /\ UNCHANGED <<edited, picture, walkVars, width, height, bytes, row, at>>

NotSaved(format) ==
    /\ phase = "received" /\ format \in {"jpeg", "other"}
    /\ phase' = "not saved"
    /\ UNCHANGED <<image, fileVars, walkVars, scanVars>>

Goto(to) == phase' = to /\ UNCHANGED <<fileVars, scanVars>>

BeginsWith(kind) == cells # <<>> /\ cells[1][1] = kind

\* ImageLoader::load: a file that is not of the format its name promises is
\* refused, and so is one that cannot be opened, for which cells = <<>> stands as
\* well.  JPEGImage::load throws, and so does any other extension.  The headers
\* of an empty BMP file are those the structures begin with.
Load ==
    /\ phase = "stored"
    /\ \/ /\ ext = ".bmp" /\ BeginsWith("bmp")
          /\ image' = BmpLoad(cells) /\ Goto("loaded")
       \/ /\ ext = ".bmp" /\ cells = <<>>
          /\ image' = NoImage /\ Goto("loaded")
       \/ /\ ext = ".bmp" /\ ~BeginsWith("bmp")
          /\ Goto("null") /\ UNCHANGED image
       \/ /\ ext = ".png" /\ BeginsWith("signature")
          /\ Goto("chunks") /\ UNCHANGED image
       \/ /\ ext = ".png" /\ ~BeginsWith("signature")
          /\ Goto("null") /\ UNCHANGED image
       \/ ext \notin {".bmp", ".png"} /\ Goto("thrown") /\ UNCHANGED image
    /\ pos' = IF phase' = "chunks" THEN 1 ELSE 0
    /\ UNCHANGED <<good, type, collected>>

-----------------------------------------------------------------------------
(* The chunks: one turn of the loop of PNGImage::load. *)

Least(m, n) == IF m < n THEN m ELSE n

\* in.read of n bytes after the first p; what is missing stays zero.
Bytes(p, n) == [k \in 1 .. n |-> IF p + k <= Len(cells) THEN cells[p + k] ELSE Zero]

\* The length is read, and the type if there is one: else it stays as it was.
NextType == IF pos + 2 <= Len(cells) THEN AsType(cells[pos + 2]) ELSE type

\* Where the data of the chunk begins, or the file ends.
DataAt == Least(pos + 2, Len(cells))

WalkOn(p, ok) ==
    /\ phase = "chunks" /\ good /\ pos < Len(cells)
    /\ pos' = Least(p, Len(cells))
    /\ good' = (ok /\ pos + 2 <= Len(cells))
    /\ type' = NextType
    /\ UNCHANGED <<image, fileVars, bytes, row, at, original, filter>>

\* Mutation of ReadHeader: width and height are taken for each other.
ReadHeaderSwapped(length) ==
    /\ NextType = "IHDR"
    /\ LET data == Bytes(DataAt, 1)[1] IN
       /\ height' = IF data[1] = "dims" THEN data[3] ELSE 0
       /\ width'  = IF data[1] = "dims" THEN data[2] ELSE 0
    /\ WalkOn(DataAt + length + 1, DataAt + length <= Len(cells))
    /\ phase' = IF length = 0 THEN "null" ELSE phase
    /\ UNCHANGED collected

ReadHeader(length) ==
    /\ NextType = "IHDR"
    /\ LET data == Bytes(DataAt, 1)[1] IN
       /\ height' = IF data[1] = "dims" THEN data[2] ELSE 0
       /\ width'  = IF data[1] = "dims" THEN data[3] ELSE 0
    /\ WalkOn(DataAt + length + 1, DataAt + length <= Len(cells))
    /\ phase' = IF length = 0 THEN "null" ELSE phase
    /\ UNCHANGED collected

\* The CRC after the data is not read: the next turn takes it for a length.
ReadData(length) ==
    /\ NextType = "IDAT"
    /\ collected' = collected \o Bytes(DataAt, length)
    /\ WalkOn(DataAt + length, DataAt + length <= Len(cells))
    /\ UNCHANGED <<phase, width, height>>

\* chunk.length + 4 is computed in 32 bits.
SkipChunk(length) ==
    /\ NextType \notin {"IHDR", "IDAT"}
    /\ WalkOn(DataAt + ((length + 1) % Word), TRUE)
    /\ phase' = IF NextType = "IEND" THEN "inflate" ELSE phase
    /\ UNCHANGED <<collected, width, height>>

ReadChunk ==
    /\ phase = "chunks" /\ good /\ pos < Len(cells)
    /\ \E length \in AsLength(cells[pos + 1]) :
          ReadHeader(length) \/ ReadData(length) \/ SkipChunk(length)

EndOfFile ==
    /\ phase = "chunks" /\ (~good \/ pos >= Len(cells))
    /\ Goto("inflate") /\ UNCHANGED <<image, walkVars>>

\* uncompress() wants the whole stream and ignores what follows it.  When the
\* file ended before IHDR, width and height are not set, and the vector for the
\* rows may be too large.
Inflate ==
    /\ phase = "inflate"
    /\ \/ /\ IsPrefix(Compressed, collected)
          /\ phase' = "unfilter" /\ bytes' = Filtered(original, filter)
       \/ /\ ~IsPrefix(Compressed, collected)
          /\ phase' \in {"null"} \cup (IF Len(cells) < 3 THEN {"thrown"} ELSE {})
          /\ UNCHANGED bytes
    /\ pos' = 0 /\ good' = TRUE /\ type' = "other" /\ collected' = <<>>
    /\ UNCHANGED <<image, fileVars, width, height, filter, row, at, original>>

UnfilterRows ==
    /\ phase = "unfilter" /\ Unfilter
    /\ UNCHANGED <<phase, image, fileVars, walkVars>>

BuildImage ==
    /\ phase = "unfilter" /\ row = height
    /\ phase' = "loaded" /\ image' = ImageOf(bytes)
    /\ width' = 0 /\ height' = 0 /\ bytes' = <<>> /\ row' = 0 /\ at' = 0
    /\ UNCHANGED <<fileVars, walkVars, filter, original>>

-----------------------------------------------------------------------------

\* The handler's main: positions out of bounds are ignored.
Edited(i) == Image(i.height, i.width, LAMBDA r, c :
                 IF <<r, c>> \in EditAt THEN NewColour ELSE i.pixels[r][c])

Edit ==
    /\ phase = "loaded" /\ ext = ".png" /\ ~edited
    /\ edited' = TRUE
    /\ image' = Edited(image) /\ picture' = Edited(picture)
    /\ WriteFile(PngSave(image')) /\ layout' = "png"
    /\ original' = RawRows(image') /\ filter' = Unfiltered(image')
    /\ phase' = "stored"
    /\ UNCHANGED <<ext, walkVars, width, height, bytes, row, at>>

\* It does not ask whether there is an image.
EditNull ==
    /\ phase = "null" /\ ext = ".png" /\ ~edited
    /\ phase' = "crashed"
    /\ UNCHANGED <<image, fileVars, walkVars, scanVars>>

Next ==
    \/ \E format \in {"bmp", "png", "jpeg", "other"} : Choose(format) \/ NotSaved(format)
    \/ Load \/ ReadChunk \/ EndOfFile \/ Inflate \/ UnfilterRows \/ BuildImage
    \/ Edit \/ EditNull

Spec == Init /\ [][Next]_imageVars

-----------------------------------------------------------------------------
(* Properties. *)

\* The file is as long as the one that was to be written.
Complete ==
    cells = IF layout = "bmp" THEN BmpSave(BMPImage(picture)) ELSE PngSave(picture)

RightName == <<layout, ext>> \in {<<"bmp", ".bmp">>, <<"png", ".png">>}

FitsBmp(i) == i.height < DimLimit /\ i.width < DimLimit

\* An image of the server, or an edited one, that was saved under a name of its
\* format and written to the end is loaded as it was, unless it is too large for
\* a BMP; with PNG although the loader loses its place after the compressed data
\* (PNGimage.cpp 69-161 and 181-259, BMPimage.cpp).
SavedIsLoaded ==
    (/\ RightName /\ Complete
     /\ layout = "bmp" => FitsBmp(picture))
        => /\ phase \notin {"null", "crashed", "thrown"}
           /\ phase = "loaded" => image = picture

\* A BMP is loaded as the corner of the image that its size leaves, and white
\* where the file ends too soon: never with pixels in the wrong place.
BmpInPlace ==
    (layout = "bmp" /\ phase = "loaded" /\ cells # <<>>) =>
        /\ image.height = picture.height % DimLimit
        /\ image.width = picture.width % DimLimit
        /\ \A r \in DOMAIN image.pixels : \A c \in DOMAIN image.pixels[r] :
              \A k \in 1 .. 4 : image.pixels[r][c][k] \in {picture.pixels[r][c][k], 255}

\* A PNG file of eight-bit RGBA is loaded as the image it stands for or not at
\* all, whatever its filters and chunks, and wherever the loader took data for a
\* length.  Of files of another depth or colour type, which the loader takes for
\* such ones, nothing is said (PNGimage.cpp 96-115).
RgbaPngFaithful == (phase = "loaded" /\ ext = ".png") => image = picture

\* What line 120 is for, which puts the data of one chunk after that of another,
\* and line 138, which speaks of "combined IDAT data": a file whose data is in
\* several chunks is not refused.
SplitIsLoaded == layout = "split" => phase \notin {"null", "crashed", "thrown"}

=============================================================================
