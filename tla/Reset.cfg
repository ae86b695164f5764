\* Two tabs on one account: reset by mail, by approval and by printed code.
SPECIFICATION Spec

CONSTANTS
    o1 = o1
    t1 = t1
    t2 = t2
    Operators = {o1}
    Tabs = {t1, t2}
    MaxRequests = 2
    MaxSheets = 2
    SheetSize = 1
    MaxSwaps = 1
    MaxAttempts = 6

SYMMETRY SameTabs
CONSTRAINT FirstFollowed

INVARIANTS
    OneUse
    OldSessionsEnd
    DeadCodesStayDead

PROPERTY ClosedStaysClosed
