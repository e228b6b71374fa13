CONSTANTS
    r1 = r1
    r2 = r2
    r3 = r3
    r4 = r4
    alice = alice
    bob = bob
    Request = {r1, r2, r3}
    User = {alice, bob}
    Submitter <- SubmitterOf
    TTL = 2
    MaxTime = 0
    MaxRowId = 3
    MaxCrashes = 1
    FaultSets = {{"disk"}}
SPECIFICATION Spec
PROPERTY KeepsCustody
CHECK_DEADLOCK FALSE
