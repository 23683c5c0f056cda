SPECIFICATION Spec
CONSTANTS
    n1 = n1
    n2 = n2
    mts = mts
    tele = tele
    big = big
    virtual = virtual
    N = 2
    Sim <- TwoSims
    NoSim = NoSim
    None = None
    Generic <- McGeneric
    Mvno <- McMvno
    NoFile = NoFile
    Proc = {p1}
    MaxBoots = 2
    MaxMoves = 2
INVARIANTS
    TypeOK
    SavedIsInventory
    IdentifiedIsThere
    SettledIsReal
