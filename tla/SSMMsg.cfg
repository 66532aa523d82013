SPECIFICATION FairSpec
CONSTANTS
    Clients = {c1, c2}
    servers_amount = 2
    MESSAGES_IN_QUEUE = 1
    Bodies = {b1}
    NoMessage = NoMessage
    PromptStart = TRUE
INVARIANTS
    CallsServed
PROPERTIES
    ImplementsService
    CallReturns
    StopReturns
CHECK_DEADLOCK FALSE
