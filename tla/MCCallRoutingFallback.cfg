SPECIFICATION Spec
CONSTANTS
    o1 = o1
    o2 = o2
    None = None
    Outbound = {o1, o2}
    Inbound = {}
    Reordered = {}
INVARIANTS
    ConnectedToOwnCall
CHECK_DEADLOCK FALSE
