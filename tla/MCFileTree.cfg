SPECIFICATION Spec
CONSTANTS
    f = f
    g = g
    x = x
    y = y
    t1 = t1
    t2 = t2
    Entries = {f, g, x}
    Folders = {f, g}
    Root = Root
    Nowhere = Nowhere
    NameOf <- OwnName
    Tasks = {t1, t2}
SYMMETRY Alike
INVARIANTS
    TypeOK
    LiveReachable
    
    
    FeedTellsTree
PROPERTIES
    PurgeOnlyTrash
CHECK_DEADLOCK FALSE
