CONSTANTS
    r1 = r1
    r2 = r2
    r3 = r3
    r4 = r4
    alice = alice
    bob = bob
    Request = {r1, r2, r3, r4}
    Nobody = Nobody
    User = {alice, bob}
    MaxSessions = 4
    FaultSets = {{"cap", "oldHash"}, {"script", "crash"}}
SPECIFICATION Spec
SYMMETRY Interchangeable
INVARIANT TypeOK
INVARIANT AdministratorRemains
INVARIANT NoSessionFromOldRole
INVARIANT SeveredSessionsAreGone
PROPERTY HandoverOpensNothing
CHECK_DEADLOCK FALSE
