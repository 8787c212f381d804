SPECIFICATION Spec
CONSTANTS
    Phones <- SomePhones
    MaxLines = 3
    MaxContacts = 2
    ErrorCap = 1
    MaxPhone = 20
    Strict = TRUE
INVARIANTS
    AllOrNothing
    
    ErrorsFindTheirLine
CHECK_DEADLOCK FALSE
