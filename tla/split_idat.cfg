\* As images.cfg: the files of other programs include three that are split.
SPECIFICATION Spec
CONSTANTS
    bpp = 4
    DimLimit = 4
    Received <- FromServer
    Stored <- FromOthers
    OtherTypes = {"tEXt"}
    EditAt <- FirstPixels
    NewColour <- Dark
    ZLength = 3
    Word = 32
CHECK_DEADLOCK FALSE
INVARIANTS
    SplitIsLoaded
