SPECIFICATION Spec
CONSTANTS
    None = None
    m1 = m1
    t1 = t1
    t2 = t2
    r1 = r1
    r2 = r2
    Managers <- OneManager
    Technicians <- TwoTechnicians
    Details <- OneDetail
    Requests <- TwoRequests
    MaxAssignments = 3
    MaxParts = 2
    MaxApprovals = 3
    MaxFaults = 1
INVARIANTS HistoryTellsStatus AwaitingMeansOutstanding ApprovalsTellStatus RequesterIsTold
SYMMETRY Symmetry
