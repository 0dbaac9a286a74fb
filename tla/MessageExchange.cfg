CONSTANTS
    Messages <- SomeMessages
    TokenRange = 4
    None = None
    NotEight = NotEight
    Raised = Raised
    Garbage = {0, 2}
    MaxExchanges = 2
SPECIFICATION FairSpec
INVARIANTS
    Delivered
PROPERTIES
    SendReturns
CHECK_DEADLOCK FALSE
