SPECIFICATION SafeSpec
CONSTANTS
    None = None
    Href <- MCHref
    Seed <- MCSeed
    Home <- MCMoved
    Text <- MCText
    Bare <- MCBare
    Landings = {}
    Assets <- MCAssets
    PageLists <- MCPageLists
    MaxPages = 3
INVARIANTS
    WholeSite
