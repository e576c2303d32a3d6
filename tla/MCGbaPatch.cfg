SPECIFICATION PatchSpec
CONSTANTS
    r0 = r0
    r1 = r1
    EMax = 3
    EPageSize = 262144
    EGuardSize = 256
    Cells <- MCCells
    Values <- MCValues
    Erased <- MCErased
    Mixed <- MCMixed
    Roms <- MCRoms
    Literals <- MCLiterals
    Gaps <- MCGaps
    MaxInstrs = 3
    Registers <- MCRegisters
INVARIANTS
    PatchesArrive
    JumpsLand
    AppendedBehindData
SYMMETRY MCSymmetry
CHECK_DEADLOCK FALSE
