SPECIFICATION Spec
CONSTANTS
    File <- MCDocumented
    Default <- MCDefault
    NotifySize = 2
    EventSize = 1
    MaxChanges = 3
CHECK_DEADLOCK FALSE
PROPERTIES
    CreatedIsKnown
