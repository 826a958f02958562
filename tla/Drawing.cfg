SPECIFICATION MCSpec
CONSTANTS
    Main = main
    Input = input
    Items = {i1, i2}
    Texts = {k1, k2}
    Colours = {red, blue}
    Paths = {p1}
    MaxContexts = 1
    Built <- MCBuilt
    DoubleBuffered = TRUE
    Parts = {"lists", "buffers"}
CHECK_DEADLOCK FALSE
INVARIANTS
    FramebufferTypeOK
    CopyOffScreen
    FreezeHolds
PROPERTIES
    ShowsTheList
    ForceReturns
