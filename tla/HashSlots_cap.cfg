CONSTANTS
    r1 = r1
    r2 = r2
    r3 = r3
    r4 = r4
    r5 = r5
    Request = {r1, r2, r3, r4, r5}
    MAX_CONCURRENT_HASHES = 2
    OutcomeSets = {{"hash"}, {"hash", "return", "throw"}, {"return"}}
SPECIFICATION Spec
INVARIANT TypeOK
INVARIANT CapHoldsForRealHashes
INVARIANT SlotsCounted
INVARIANT NoIdleSlot
PROPERTY Answered
CHECK_DEADLOCK FALSE
