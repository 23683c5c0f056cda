CONSTANTS
    Config = {a, b}
    Bad = Bad
    Refused = Refused
    NoJson = NoJson
    None = None
SPECIFICATION Spec
INVARIANT TypeOK DraftKept ReadyIsFile ClaimIsTrue
PROPERTY Settles
