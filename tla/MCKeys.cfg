CONSTANTS
    a = a
    b = b
    updata = updata
    Name <- MCName
    UpName = {updata}
    Empty = Empty
    Dot = Dot
    Up = Up
    ErrInvalidKey = ErrInvalidKey
    MaxLen = 6
    Routes <- MCRoutes
SPECIFICATION Spec
INVARIANTS
    RejectsExactlyEscapes
    NamesWalkedPlace
    CutsAndJoinsCommute
    ReadsWhatItUnpacks
    ListsEachChild
    PackedUnpacks
    RoutesKeepApart
CHECK_DEADLOCK FALSE
