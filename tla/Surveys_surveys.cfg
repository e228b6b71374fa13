CONSTANTS
    ann = ann
    ben = ben
    NameMax = 4
    NotesMax = 5
    TextMax = 10
    States <- MCStates
    PageSize = 2
    StatesShown = 2
    NewestFirst = FALSE
    Users <- MCUsers
    Plans <- MCPlans
    Usual <- MCUsual
    Calendar <- MCCalendar
    LocalDates <- MCCalendar
SPECIFICATION Spec
INVARIANT RefusedForWhatIsWrong
INVARIANT OneRoundOfCorrections
INVARIANT StoredAsMeant
INVARIANT NumbersAgree
INVARIANT EverySurveyIsListed
