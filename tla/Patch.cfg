SPECIFICATION Spec
CONSTANTS
    a = a
    b = b
    third = third
    others = others
    volte = volte
    nr = nr
    on = on
    off = off
    list = list
    Carrier = {a, b, third}
    OTHERS = others
    Key = {volte, nr}
    Value = {on, off, list}
    Flag = {on, off}
    VolteKey = volte
    On = on
    Base <- McBase
    BadConfig = BadConfig
    Dirs <- McDirs
    Configs <- McConfigs
    Found <- McFound
CHECK_DEADLOCK FALSE
INVARIANTS
    AsSpecified
    RecordTells
    
