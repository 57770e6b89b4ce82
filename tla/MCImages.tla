-------------------------------- MODULE MCImages --------------------------------
(* Small instances of ImageFiles for TLC. *)
EXTENDS ImageFiles

\* The colours the server paints with, and two of other programs: their green
\* makes the neighbours of a pixel tie.
Red   == Opaque(255, 0, 0)
Green == Opaque(0, 255, 0)
Blue  == Opaque(0, 0, 255)
Dark  == <<1, 6, 200, 7>>
Clear == <<140, 2, 90, 0>>

Pictures(h, w, colours) ==
    {Image(h, w, LAMBDA r, c : p[2 * r + c]) : p \in [0 .. 3 -> colours]}

\* An image of any size up to five, with rows and columns that differ.
Pattern(h, w) ==
    Image(h, w, LAMBDA r, c : <<Red, Green, Blue>>[((r + 2 * c) % 3) + 1])

FromServer ==
    Pictures(2, 2, {Red, Blue}) \cup {Pattern(h, w) : h, w \in 0 .. 5}

\* A file whose compressed data is cut into chunks after the places in cuts,
\* with chunks the loader does not know before and after it.
PngFile(i, cuts, before, after) ==
    LET ends == Append(cuts, ZLength)
        idat(k) == Chunk("IDAT", SubSeq(Compressed,
                       IF k = 1 THEN 1 ELSE ends[k - 1] + 1, ends[k]))
    IN  <<Signature>> \o Chunk("IHDR", <<Dims(i)>>) \o before
        \o FlattenSeq([k \in DOMAIN ends |-> idat(k)])
        \o after \o Chunk("IEND", <<>>)

Text == Chunk("tEXt", <<Z(9)>>)

PngOf(picture_, filters, layout_, content) ==
    [image |-> picture_, filter |-> filters, layout |-> layout_, cells |-> content]

\* All filters on images of two by two, and all layouts of one file.
FromOthers ==
    {PngOf(p, f, "other", PngSave(p)) :
        p \in Pictures(2, 2, {Red, Dark, Clear}), f \in [0 .. 1 -> Filters]}
    \cup {PngOf(Pattern(1, 1), Unfiltered(Pattern(1, 1)),
                IF cuts = <<>> THEN "other" ELSE "split",
                PngFile(Pattern(1, 1), cuts, before, after)) :
            cuts \in {<<>>, <<1>>, <<2>>, <<1, 2>>},
            before \in {<<>>, Text}, after \in {<<>>, Text}}

FirstPixels == {<<0, 0>>, <<1, 3>>}

=============================================================================
