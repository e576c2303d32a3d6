CONSTANTS
    MaxSectors <- MCMaxSectors
    Piece = 64
    BigVolume = 1120

SPECIFICATION FairSpec
INVARIANT SectorsFit
INVARIANT FatSound
INVARIANT WholeOrNothing
PROPERTY Ends
CHECK_DEADLOCK FALSE
