SPECIFICATION Spec
CONSTANTS
    Futures = {"f","g","h"}
CHECK_DEADLOCK FALSE
INVARIANT OutcomeIsOwn
