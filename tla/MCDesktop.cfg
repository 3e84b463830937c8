SPECIFICATION Spec
CONSTANTS
    Names = {a, b}
    MaxContent = 2
    MaxEntries = 2
    MaxIncidents = 1
INVARIANTS
    TypeOK
    ContentsGenuine
 
CHECK_DEADLOCK FALSE
