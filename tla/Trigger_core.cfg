\* One bucket event and one press of the button; the secret changes twice.
SPECIFICATION FairSpec
CONSTANTS
    Object = {o1, o2}
    EventCall = {e1}
    ButtonCall = {b1}
    TokenAttempts = 3
    MaxEpoch = 2
INVARIANTS
    OneRunPerCall
    ExpiryIsHidden
PROPERTIES
    CallsEnd
    ReportedIsSeen
CHECK_DEADLOCK FALSE
