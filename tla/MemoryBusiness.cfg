CONSTANTS
    None = None
    m1 = m1
    t1 = t1
    t2 = t2
    r1 = r1
    out = out
    x = x
    c = c
    slot = slot
    Managers = {m1}
    Technicians = {t1, t2}
    Details = {slot}
    Planned = {slot}
    Requests = {r1}
    Callers <- MCCallers
    Roles <- MCRoles
    Manages <- MCManages
    Owners = {m1, t2}
    WorksFor <- MCWorksFor
    Inactive = {out}
    MaxAssignments = 2
    MaxParts = 2
    MaxApprovals = 2
    MaxFaults = 0
SPECIFICATION ApiSpec
CHECK_DEADLOCK FALSE
INVARIANTS ReadsAgree AnswersAgree ForeignIdsAreUnknown OffersMeetAnswers
PROPERTY EchoIsReload
