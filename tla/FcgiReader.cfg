SPECIFICATION Spec
CONSTANTS
    HeaderLen = 2
    BodyLen = 1
    PairLen = 2
    BuffLen = 4
    Scripts <- MCScripts
    ReadSizes = {1, 3}
INVARIANTS DeliveryInv RepliesInOrder
PROPERTIES UngetGuaranteed LibraryReturns
CHECK_DEADLOCK FALSE
