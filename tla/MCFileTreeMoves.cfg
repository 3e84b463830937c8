SPECIFICATION Spec
CONSTANTS
    f = f
    g = g
    x = x
    y = y
    t1 = t1
    t2 = t2
    Entries = {f, g}
    Folders = {f, g}
    Root = Root
    Nowhere = Nowhere
    NameOf <- OwnName
    Tasks = {t1, t2}
INVARIANTS
    NeverIntoItself
CHECK_DEADLOCK FALSE
