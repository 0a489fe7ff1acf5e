SPECIFICATION Spec
CONSTANTS
    N = 4
    B = 6
    InlineMax = 2
    FileMax = 16
    Lengths = {1, 5}
    Offsets = {0, 4, 8}
    Sizes = {1, 7}
    MaxBad = 1
    Careful = FALSE
    MaxCalls = 5
PROPERTY
    FileSpec
CHECK_DEADLOCK FALSE
