SPECIFICATION Spec
CONSTANTS
    Accounts = {alice}
    Asked = {"posting"}
    Kept = {"posting"}
    MaxSent = 2
    MaxOps = 2
    MaxLoads = 1
    MaxNow = 2
    Calls = {"default", "bundle", "unsigned", "appendOps", "appendSigner", "appendMissing", "clearWifs", "json", "sign", "resign", "broadcast", "clear", "load"}
    NoTx = NoTx
INVARIANT SignaturesFit
INVARIANT OpSentOnce
PROPERTY FinalizeSigns
PROPERTY SuccessIsSent
