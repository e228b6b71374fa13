\* Updates, commands, crashes, backups and restores.
SPECIFICATION Spec
CONSTANTS
    p1 = p1
    p2 = p2
    Photos = {p1, p2}
    Plans <- ThePlans
    NewestRelease = 3
    Burst = 5
    KEEP = 1
INVARIANTS ServesItsSchema PhotosSurvive
PROPERTIES ServiceComesBack
CHECK_DEADLOCK FALSE
