CONSTANTS
    Jobs = {j1}
    Customer = customer
    None = none
    pro = pro
    eve = eve
    fox = fox
    ann = ann
    bob = bob
    rival = rival
    tech = tech
    near = near
    far = far
    Requests = {r1}
    Users <- TheUsers
    Providers <- TheProviders
    Profiles <- TheProfiles
    Locations = {near, far}
    Serves <- TheServes
    Offering <- TheOffering
    Covers <- TheCovers
    MaxQuotesPerOpenJob = 2
    MaxFaults = 0
    Callers <- TheCallers
    Roles <- TheRoles
    Rival = rival
    Theirs = theirs
    Internal = internal
    Nowhere = nowhere
    Garbled = garbled
    MaxRequestImages = 1
SPECIFICATION ApiSpec
CHECK_DEADLOCK FALSE
INVARIANTS
    StoresAgree
    AnswersAgree
    ForeignIdsAreUnknown
    NoPeekingBeforeQuoting
    OffersMeetAnswers
