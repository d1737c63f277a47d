SPECIFICATION Spec
CONSTANTS
    Cards = 2
    InLater <- MCLast
    Blocked <- MCLast
    PageSize = 1
    MaxDecisions = 2
    MaxOther = 1
INVARIANTS AskedOnce HandIsOfThePile NoneSkipped
PROPERTIES SwipeIsSent
CHECK_DEADLOCK FALSE
