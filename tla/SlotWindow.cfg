SPECIFICATION Spec
CONSTANTS
    Sub = {s1, s2}
    Slot = {k1}
    NoSub = NoSub
    Plmn = {x}
    Damaged = Damaged
    Proc = {p1}
    UserMasks <- OneMask
    UserUsages = {"default"}
    Windows = {"swap"}
INVARIANTS
    UntrackedIsUsers
