CONSTANTS
    laptop = laptop
    t1 = t1
    t2 = t2
    Browsers = {laptop}
    Tabs <- TwoTabs
    BrowserOf <- TwoTabsOf
    Calls = {c1, c2, c3}
    None = none
    MaxTokens = 3
    MaxFaults = 1
SPECIFICATION Spec
SYMMETRY TabSymmetry
CHECK_DEADLOCK FALSE
INVARIANTS
    OneSuccessor
    StoredTokenWorks
PROPERTIES
    OverIsOver
