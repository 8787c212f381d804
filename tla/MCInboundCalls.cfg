SPECIFICATION InboundSpec
CONSTANTS
    i1 = i1
    i2 = i2
    g1 = g1
    g2 = g2
    e1 = e1
    e2 = e2
    None = None
    Outbound = {}
    Inbound = {i1, i2}
    Reordered = {}
    Configs = {g1, g2}
    Edits = {e1, e2}
INVARIANTS
    TaskFitsConfig
    ConnectedWhenFound
CHECK_DEADLOCK FALSE
