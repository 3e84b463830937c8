SPECIFICATION Spec
CONSTANTS
    e1 = e1
    e2 = e2
    name = name
    Entries = {e1, e2}
    Names = {name}
    NameOf <- SameName
    PageSize = 2
    MaxId = 4
    MaxFailures = 1
INVARIANTS
    TypeOK
    
PROPERTIES
    NewChangesAreAhead
    
CHECK_DEADLOCK FALSE
