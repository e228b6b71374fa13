CONSTANTS
    r1 = r1
    r2 = r2
    r3 = r3
    r4 = r4
    alice = alice
    bob = bob
    Request = {r1, r2, r3, r4}
    User = {alice, bob}
    Submitter <- SubmitterOf
    TTL = 1
    MaxTime = 0
    MaxRowId = 4
    MaxCrashes = 1
    FaultSets = {{"tool", "db"}, {"crash", "db", "disk", "skew", "stale", "resubmit"}, {"disk", "skew", "stale"}, {"disk"}, {"disk", "unlink"}, {"db", "disk", "unlink"}}
SPECIFICATION SafeSpec
SYMMETRY SameUser
INVARIANT TypeOK
INVARIANT PhotoFromItsSubmitter
INVARIANT LivePendingOnDisk
INVARIANT AttachedStaysInService
INVARIANT NoSurveyWithoutItsPhoto
INVARIANT NothingLeftBehind
PROPERTY LiveRowRemovedOnlyByItsCarrier
CHECK_DEADLOCK FALSE
