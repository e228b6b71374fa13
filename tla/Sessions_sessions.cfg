\* The sessions and the sign-in tokens of one browser.
SPECIFICATION Spec
CONSTANTS
    t1 = t1
    t2 = t2
    Tabs = {t1, t2}
    Users = {"ana", "ben"}
    Plans <- ThePlans
    Idle = 6
    Refresh = 3
    Absolute = 13
    Ttl = 9
INVARIANTS TypeOK ActsForItsPage NoSessionLeftBehind
PROPERTIES SessionsLastAsLong LoginFormsKeepWorking
