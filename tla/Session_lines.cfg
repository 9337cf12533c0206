SPECIFICATION Spec
CONSTANTS
    Scripts <- MCScripts
    Calls <- MCCalls
    Modes <- MCModes
    Wallets <- MCWallets
    MaxCalls = 2
INVARIANTS
    OnlyOwnOperations
    DryRunSendsNothing
    
    NewKeysKept
PROPERTIES
    SentIsAuthorised
CHECK_DEADLOCK FALSE
