CONSTANTS
    r1 = r1
    r2 = r2
    r3 = r3
    r4 = r4
    alice = alice
    bob = bob
    Request = {r1, r2, r3}
    Nobody = Nobody
    User = {alice, bob}
    MaxSessions = 3
    FaultSets = {{}}
SPECIFICATION Spec
SYMMETRY Interchangeable
INVARIANT NoSessionFromReplacedPassword
CHECK_DEADLOCK FALSE
