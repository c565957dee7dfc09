SPECIFICATION Spec
CONSTANTS
    None = None
    boss = boss
    tech = tech
    ph1 = ph1
    j1 = j1
    j2 = j2
    c1 = c1
    c2 = c2
    c3 = c3
    Emails <- TwoEmails
    Phones <- OnePhone
    Businesses <- TwoBusinesses
    Owner <- OneOwner
    JobsOf <- OneJobEach
    Calls <- ThreeCalls
    MaxFaults = 1
SYMMETRY CallSymmetry
INVARIANTS RowsInStep InvitedOnce RevokedSeesNothing
CHECK_DEADLOCK FALSE
