SPECIFICATION MCSpec
CONSTANTS
    Main = main
    Input = input
    Items = {i1, i2}
    Texts = {k1, k2}
    Colours = {red, blue}
    Paths = {p1}
    MaxContexts = 0
    Built <- MCBuilt
    DoubleBuffered = TRUE
    Parts = {"pictures"}
SYMMETRY Symmetric
CHECK_DEADLOCK FALSE
INVARIANTS
    PixelsAlive
