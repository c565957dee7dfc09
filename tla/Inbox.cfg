SPECIFICATION FairSpec
CONSTANTS
    None = None
    u1 = u1
    u2 = u2
    u3 = u3
    e1 = e1
    Users <- ThreeUsers
    Readers <- TwoReaders
    RolesOf <- Roles
    Events <- OneEvent
    TypeOf <- OpenRequest
    HasJob <- OneEvent
    Recipients <- ListedTwice
    MaxFaults = 1
    MaxCalls = 2
    MaxMarks = 1
INVARIANTS EmailStatusIsTrue ScreenIsTrue
PROPERTIES EveryRecipientIsTold BadgeConverges
CHECK_DEADLOCK FALSE
