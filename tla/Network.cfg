SPECIFICATION Spec
CONSTANTS
    Sub = {s1, s2}
    Slot = {k1, k2}
    NoSub = NoSub
    Plmn = {x}
    Damaged = Damaged
    Proc = {p1, p2}
    UserMasks <- OneMask
    UserUsages = {"default"}
    Windows = {}
INVARIANTS
    UntrackedIsUsers
