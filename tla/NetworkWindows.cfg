SPECIFICATION Spec
CONSTANTS
    Sub = {s1}
    Slot = {k1}
    NoSub = NoSub
    Plmn = {x, y}
    Damaged = Damaged
    Proc = {p1, p2}
    UserMasks <- OneMask
    UserUsages = {"default", "data"}
    Windows = {"swap", "late"}
INVARIANTS
    TypeOK
    UnsavedUsageIsUsers
PROPERTIES
    RecoveryKept
