SPECIFICATION WireSpec
CONSTANTS
    Align = 2
    HeaderLen = 2
    EndLen = 4
    MaxLength = 5
    BuffLen <- MCBuffLen
    Status = {0, 1}
    MaxStored = 5
    PutSizes = {2, 3}
    Cuts = {3}
INVARIANTS TypeOK WellFormed NothingLost ClosersCounted
PROPERTIES SilentAfterEnd Responds CallReturns
