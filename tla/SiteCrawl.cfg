SPECIFICATION Spec
CONSTANTS
    None = None
    Href <- MCHref
    Seed <- MCSeed
    Home <- MCHome
    Text <- MCText
    Bare <- MCBare
    Landings <- MCLandings
    Assets <- MCAssets
    PageLists <- MCPageLists
    MaxPages = 3
INVARIANTS
    TypeOK
    EachOnce
    OneSpelling
    CountsAddUp
    RequestsBounded
    FirstGoodAnswerKept
    WholeSite
    LastPing
PROPERTIES
    ProgressForward
    StepsRunOut
    Terminates
