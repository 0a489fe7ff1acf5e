SPECIFICATION Spec
CONSTANTS
    TxSize = 3
    RxSize = 3
    Configs = {6, 36}
    MaxTx = 5
    MaxRx = 3
    PromptTask = TRUE
    MaxBegins = 2
INVARIANTS
    WireInOrder
    RingHoldsUnsent
    NoStall
    ReceivedInOrder
    EveryByteAccounted
PROPERTIES
    EndLosesNothing
    StreamSpec
    CallsReturn
CHECK_DEADLOCK FALSE
