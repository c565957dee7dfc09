SPECIFICATION Spec
CONSTANTS
    None = None
    u1 = u1
    u2 = u2
    Uploads <- TwoUploads
    MaxRequestImages = 1
    MaxFaults = 1
INVARIANTS RowsNameFiles OrphansHaveACause
PROPERTIES RecordIsClosed
CHECK_DEADLOCK FALSE
