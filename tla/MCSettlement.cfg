SPECIFICATION Spec
CONSTANTS
    HandlerErrors <- MCHandlerErrors
    MaxDelivers <- MCMaxDelivers
    DeliveryBound = 3
INVARIANTS
    NoSilentLoss
    EndedWithTrace
    SettledStaysSettled
    CopiesBounded
    SignalsOnce
    SignalsAgree
    FinalPublishInsists
PROPERTIES
    ConfirmedIsLast
CHECK_DEADLOCK FALSE
