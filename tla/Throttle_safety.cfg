CONSTANTS
    Nobody = Nobody
    r1 = r1
    r2 = r2
    r3 = r3
    s1 = s1
    s2 = s2
    User = {u1}
    Attempt = {r1, r2, r3}
    Source = {s1, s2}
    From <- MCFrom
    LockAt = 2
    Cap = 3
    SourceLimit = 2
    Window = 2
    KeepFor = 3
    MaxTime = 4
    MaxAttempts = 4
    FaultSets = {{}, {"crash"}, {"overlap", "crash"}}
SPECIFICATION Spec
SYMMETRY Interchangeable
INVARIANTS TypeOK CapDisables SourceBounded LockedAtThreshold
PROPERTY LockHolds
CHECK_DEADLOCK FALSE
