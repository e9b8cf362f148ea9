SPECIFICATION FairSpec
CONSTANTS
    ChunkSize = 2
    Window = 2
    MaxBytes = 5
    MaxWrites = 3
    StatusCodes = {429}
    Returns <- MCReturns
    NoOutcome = NoOutcome
    NoResult = NoResult
INVARIANTS
    TypeOK
    OrderedDelivery
    CompleteOnSuccess
    TerminalBytesCarryOutcome
    PartialDeliveryIsTerminal
    BoundedMessages
PROPERTIES
    NoSendAfterFailure
    CallEnds
    ImplementsContract
