\* Images of up to five by five, a size of BMP that wraps at four, files of
\* other programs with every filter and with their data in up to three chunks.
SPECIFICATION Spec
CONSTANTS
    bpp = 4
    DimLimit = 4
    Received <- FromServer
    Stored <- FromOthers
    OtherTypes = {"tEXt"}
    EditAt <- FirstPixels
    NewColour <- Dark
    ZLength = 3
    Word = 32
CHECK_DEADLOCK FALSE
INVARIANTS
    SavedIsLoaded
    BmpInPlace
    RgbaPngFaithful
    UnfilterInverts
