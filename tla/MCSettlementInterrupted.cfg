SPECIFICATION Spec
CONSTANTS
    HandlerErrors <- MCHandlerErrors
    MaxDelivers <- MCMaxDelivers
    DeliveryBound = 3
INVARIANTS
    FinalFailureNotHandedBack
CHECK_DEADLOCK FALSE
