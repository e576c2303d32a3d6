SPECIFICATION Spec
CONSTANTS
    a = a
    b = b
    l = l
    z = z
    None = None
    Games <- MCGames
    Big <- MCBig
    LongNamed <- MCLongNamed
    MaxPlays = 2
INVARIANTS
    NewestKept
    FilesPure
    StartsOnOwnSave
    SweptIntoFiles
CONSTRAINT
    Bounded
