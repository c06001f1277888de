\* Two tenants, three requests that share keys, one tenant deleted.
SPECIFICATION FairSpec
CONSTANTS
    a1 = a1
    a2 = a2
    s1 = s1
    k1 = k1
    k2 = k2
    NoKey = NoKey
    Users <- MCUsers
    Accounts <- MCAccounts
    OwnerOf <- MCOwnerOf
    Operations <- MCOperations
    Opening <- MCOpening
    Requests = {r1, r2, r3}
    CriticalLevel = 30
INVARIANTS TypeOK LedgerSound DepletionAnnounced
PROPERTIES NoWriteAfterClose RefinesAtomicLedger EveryRequestFinishes
CHECK_DEADLOCK FALSE
