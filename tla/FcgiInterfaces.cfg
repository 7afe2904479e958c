SPECIFICATION Spec
CONSTANTS
    NULL = NULL
    EOF = EOF
    Garbage = Garbage
    Files = {f1, f2}
    Statuses = {0, 1, 2}
    MaxRequests = 2
    BufferSize = 3
    Length = 5
    MaxWrites = 8
    MaxStreams = 2
    Formats <- MCFormats
    PRINTF_BUFFLEN = 100
    InfinityExps = {0, 1024}
    Characters = {"A", "B", "=", "x", "n"}
    Contents <- MCContents
    Newline = "n"
    Sizes = {0, 1, 2, 3, 4}
    Unlimited = Unlimited
    Names <- MCNames
    Values <- MCValues
    Equals = "="
    FirstLengths = {1, 3}
    MaxParams = 4
INVARIANTS StdioInv StreambufInv PrintfInv LinesInv ParamsInv
CHECK_DEADLOCK FALSE
