SPECIFICATION Spec
CONSTANTS
    o1 = o1
    o2 = o2
    None = None
    Outbound = {o1, o2}
    Inbound = {}
    Reordered = {o2}
INVARIANTS
    TypeOK
    ConnectedWhenFound
    StatusSettles
PROPERTY
    ReportStays
CHECK_DEADLOCK FALSE
