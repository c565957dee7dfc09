SPECIFICATION Spec
CONSTANTS
    None = None
    m1 = m1
    t1 = t1
    t2 = t2
    r1 = r1
    r2 = r2
    Managers <- OneManager
    Technicians <- TwoTechnicians
    Details <- OneDetail
    Requests <- TwoRequests
    MaxAssignments = 2
    MaxParts = 2
    MaxApprovals = 3
    MaxFaults = 0
PROPERTIES ResumeOnlyWhenPartsAreIn
