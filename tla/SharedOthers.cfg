SPECIFICATION Spec
CONSTANTS
    a = a
    b = b
    others = others
    volte = volte
    nr = nr
    on = on
    off = off
    Carrier = {a, b}
    OTHERS = others
    Key = {volte, nr}
    Value = {on, off}
    VolteKey = volte
    On = on
    Base <- McBase
    BadConfig = BadConfig
    STOCK = stock
    LIVE = live
    Archive = {g1, g2, g3}
    Proc = {p1}
    Image <- Shared
    Configs <- McConfigs
    Presents <- BothSims
    Upgrades = FALSE
    Backends = {"bind"}
    MaxBoots = 2
    MaxRuns = 1
INVARIANTS
    OwnSource
