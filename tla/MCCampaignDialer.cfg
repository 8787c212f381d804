SPECIFICATION Spec
CONSTANTS
    c1 = c1
    c2 = c2
    s1 = s1
    s2 = s2
    p1 = p1
    Contacts = {c1, c2}
    Starts = {s1, s2}
    Pauses = {p1}
    NoCall = NoCall
    Widths <- SomeWidths
    Faults = TRUE
    Crashes = TRUE
INVARIANTS
    RunningHasDialer
    CompletedIsDialed
    CallsAreRecorded
PROPERTIES
    DialedCampaignCompletes
    DialsAsRouted
CHECK_DEADLOCK FALSE
