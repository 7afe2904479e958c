SPECIFICATION Spec
CONSTANTS
    HeaderLen = 2
    BodyLen = 1
    PairLen = 2
    BuffLen = 4
    Scripts <- UnknownWithContent
    ReadSizes = {1, 3}
INVARIANT NothingForeign
CHECK_DEADLOCK FALSE
