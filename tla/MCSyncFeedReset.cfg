SPECIFICATION Spec
CONSTANTS
    e1 = e1
    e2 = e2
    name = name
    Entries = {e1}
    Names = {name}
    NameOf <- SameName
    PageSize = 2
    MaxId = 4
    MaxFailures = 0
INVARIANTS
    NoDeleteMissed
CHECK_DEADLOCK FALSE
