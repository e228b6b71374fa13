CONSTANTS
    r1 = r1
    r2 = r2
    r3 = r3
    r4 = r4
    alice = alice
    bob = bob
    Request = {r1, r2, r3, r4}
    User = {alice, bob}
    Submitter <- SubmitterOf
    TTL = 1
    MaxTime = 0
    MaxRowId = 4
    MaxCrashes = 1
    FaultSets = {{"resubmit"}, {"crash"}}
SPECIFICATION SafeSpec
SYMMETRY SameUser
INVARIANT AttachedOnDisk
CHECK_DEADLOCK FALSE
