CONSTANTS
    Jobs = {j1}
    Customer = customer
    None = none
    pro = pro
    eve = eve
    biz = biz
    ann = ann
    bob = bob
    cat = cat
    near = near
    far = far
    Requests = {r1, r2}
    Users <- TrioUsers
    Providers <- TrioProviders
    Profiles <- TrioProfiles
    Locations = {near, far}
    Serves <- TrioServes
    MaxQuotesPerOpenJob = 2
    MaxFaults = 1
SPECIFICATION Spec
SYMMETRY Symmetry
CHECK_DEADLOCK FALSE
INVARIANTS
    AgreementIsUnique
    QuoteCapHolds
    HistoryTellsStatus
    CompletedOnce
    PartiesAreTold
PROPERTIES
    WithdrawnIsClosedToQuotes
    AgreementIsFinal
    ImplementsAgreement
