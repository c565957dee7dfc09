CONSTANTS
    Jobs = {j1, j2}
    Customer = customer
    None = none
    pro = pro
    eve = eve
    fox = fox
    ann = ann
    bob = bob
    rival = rival
    tech = tech
    near = near
    far = far
    Requests = {r1}
    Users <- TheUsers
    Providers <- TheProviders
    Profiles <- TheProfiles
    Locations = {near, far}
    Serves <- TheServes
    Offering <- TheOffering
    Covers <- TheCovers
    MaxQuotesPerOpenJob = 2
    MaxFaults = 0
    Callers <- TheCallers
    Roles <- TheRoles
    Rival = rival
    Theirs = theirs
    Internal = internal
    Nowhere = nowhere
    Garbled = garbled
    MaxRequestImages = 2
SPECIFICATION ApiSpec
CHECK_DEADLOCK FALSE
INVARIANTS QuoteFormIsOffered
