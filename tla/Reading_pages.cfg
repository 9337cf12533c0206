SPECIFICATION Spec
CONSTANTS
    Page = 2
    MaxLen = 4
    MaxBlock = 3
    MaxChanges = 1
    Nodes = {"hive", "other"}
    Cases <- MCCases
INVARIANTS
    
    NothingTwice
    NothingElse
PROPERTY
    Ends
CHECK_DEADLOCK FALSE
