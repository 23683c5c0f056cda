SPECIFICATION FairSpec
CONSTANTS
    a = a
    b = b
    others = others
    volte = volte
    nr = nr
    on = on
    off = off
    Carrier = {a, b}
    OTHERS = others
    Key = {volte, nr}
    Value = {on, off}
    VolteKey = volte
    On = on
    Base <- McBase
    BadConfig = BadConfig
    STOCK = stock
    LIVE = live
    Archive = {g1, g2, g3}
    Proc = {p1, p2}
    Image <- Moved
    Configs <- McConfigs
    Presents <- BothSims
    Upgrades = FALSE
    Backends = {"bind", "redirect"}
    MaxBoots = 1
    MaxRuns = 2
INVARIANTS
    NoPatchInStock
    ReadsGoogle
    OutputKnown
PROPERTIES
    RegistrationsKept
    BootGoesOn
    LockIsLetGo
