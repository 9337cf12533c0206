SPECIFICATION Spec
CONSTANTS
    Accounts = {alice}
    Asked = {"active"}
    Kept = {"active"}
    MaxSent = 2
    MaxOps = 2
    MaxLoads = 1
    MaxNow = 2
    Calls = {"appendOps", "appendSigner", "broadcast"}
    NoTx = NoTx
INVARIANT SentIsSigned
