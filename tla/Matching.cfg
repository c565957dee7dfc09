SPECIFICATION FairSpec
CONSTANTS
    None = None
    owner = owner
    manager = manager
    plumbing = plumbing
    painting = painting
    a1 = a1
    a2 = a2
    a3 = a3
    w1 = w1
    w2 = w2
    n1 = n1
    c1 = c1
    c2 = c2
    Profiles <- ThreeProfiles
    Professionals <- OneProfessional
    NumericId <- IdsByTable
    Users <- TwoUsers
    ActsFor <- OwnerHasTwo
    Categories <- TwoCategories
    Catalogue <- BusinessesPlumb
    Names <- OneName
    Areas <- ThreeAreas
    WordsOf <- NoWordsInThird
    Lists <- TwoLists
    Requests <- OneRequest
    CANDIDATE_SCAN_LIMIT = 2
    MaxMatches = 1
    Calls <- TwoCalls
    MaxHandlers = 2
    MaxOfferings = 1
INVARIANTS WhoMatchesIsTold
PROPERTIES AreasAreWhole EverySaveEnds
CHECK_DEADLOCK FALSE
