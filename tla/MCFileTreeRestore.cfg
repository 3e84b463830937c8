SPECIFICATION Spec
CONSTANTS
    f = f
    g = g
    x = x
    y = y
    t1 = t1
    t2 = t2
    Entries = {f, x, y}
    Folders = {f}
    Root = Root
    Nowhere = Nowhere
    NameOf <- SameName
    Tasks = {t1}
INVARIANTS
    RestorePossible
CHECK_DEADLOCK FALSE
