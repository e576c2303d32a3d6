---------------------------- MODULE DsiWareSave ----------------------------
(***************************************************************************)
(* createDsiWareSave (arm9/source/launcher/NdsBootstrapLauncher.cpp): the  *)
(* image of a DSiWare save, a FAT12 volume of a given size whose geometry  *)
(* (sectors per track, heads, sectors) is found by a search, written with  *)
(* a boot sector and grown piece by piece; a file that cannot be finished  *)
(* is removed.  Sizes are in sectors of 0x200 bytes.                       *)
(***************************************************************************)
EXTENDS Integers

CONSTANTS MaxSectors,   \* values of size / 0x200 a title may ask for
          Piece,        \* 0x8000 / 0x200, written at a time
          BigVolume     \* 0x8C000 / 0x200: from here on 0x200 root entries

ASSUME SaveAssumption == /\ MaxSectors \subseteq Nat
                         /\ Piece \in Nat \ {0} /\ BigVolume \in Nat

VARIABLES max,          \* maxSectors
          perTrack, heads, sectors, trial,   \* the search; trial: nextSectorCount
          stage,        \* where the function is
          sector0,      \* a boot sector has been written
          length        \* of the file, or NoFile

saveVars == <<max, perTrack, heads, sectors, trial, stage, sector0, length>>
search == <<perTrack, heads, sectors, trial>>

NoFile == -1
Limit == 65535          \* totalSectors is a u16

SaveTypeOK ==
    /\ max \in MaxSectors
    /\ perTrack \in Nat \ {0} /\ heads \in Nat \ {0} /\ sectors \in Nat \ {0}
    /\ trial \in Nat
    /\ stage \in {"enter", "search", "last", "format", "grow", "failed", "made", "refused"}
    /\ sector0 \in {"blank", "boot"}
    /\ length \in Nat \cup {NoFile} /\ length <= Limit

SaveInit ==
    /\ max \in MaxSectors
    /\ perTrack = 1 /\ heads = 1 /\ sectors = 1 /\ trial = 0
    /\ stage = "enter" /\ sector0 = "blank" /\ length = NoFile

Enter ==
    /\ stage = "enter"
    /\ stage' = IF max = 0 \/ max > Limit THEN "refused" ELSE "search"
    /\ UNCHANGED <<max, search, sector0, length>>

Volume(s, h) == s * h * h

\* mutant: the trial of one more head is not compared again
SearchUnchecked ==
    /\ stage = "search" /\ trial <= max
    /\ trial' = Volume(perTrack, heads + 1)
    /\ IF trial' <= max
       THEN /\ heads' = heads + 1 /\ perTrack' = perTrack + 1
            /\ sectors' = Volume(perTrack + 1, heads + 1)
       ELSE UNCHANGED <<heads, perTrack, sectors>>
    /\ UNCHANGED <<max, stage, sector0, length>>

\* mutant: a head that does not fit leaves the count of the last trial
SearchOldTrial ==
    /\ stage = "search" /\ trial <= max
    /\ LET wider == Volume(perTrack, heads + 1)
           longer == Volume(perTrack + 1, heads + 1)
       IN  IF wider <= max
           THEN /\ heads' = heads + 1 /\ perTrack' = perTrack + 1
                /\ trial' = longer
                /\ sectors' = IF longer <= max THEN longer ELSE wider
           ELSE UNCHANGED search
    /\ UNCHANGED <<max, stage, sector0, length>>

\* One round of the while loop: one more head (and cylinder), then one more
\* sector per track, each kept if the volume still fits.
Search ==
    /\ stage = "search" /\ trial <= max
    /\ LET wider == Volume(perTrack, heads + 1)
           longer == Volume(perTrack + 1, heads + 1)
       IN  IF wider <= max
           THEN /\ heads' = heads + 1 /\ perTrack' = perTrack + 1
                /\ trial' = longer
                /\ sectors' = IF longer <= max THEN longer ELSE wider
           ELSE trial' = wider /\ UNCHANGED <<heads, perTrack, sectors>>
    /\ UNCHANGED <<max, stage, sector0, length>>

SearchEnds ==
    /\ stage = "search" /\ trial > max
    /\ stage' = "last"
    /\ UNCHANGED <<max, search, sector0, length>>

\* one more sector per track may still fit
LastTrial ==
    /\ stage = "last"
    /\ trial' = Volume(perTrack + 1, heads)
    /\ IF trial' <= max THEN perTrack' = perTrack + 1 /\ sectors' = trial'
       ELSE UNCHANGED <<perTrack, sectors>>
    /\ stage' = "format"
    /\ UNCHANGED <<max, heads, sector0, length>>

RoundUp(n, m) == ((n + m - 1) \div m) * m

PerCluster == IF sectors > 8192 THEN 8 ELSE IF sectors > 1024 THEN 4 ELSE 1
RootEntries == IF max < BigVolume THEN 32 ELSE 512
TotalClusters == RoundUp(sectors, PerCluster) \div PerCluster
FatTooShort == ((TotalClusters * 3) \div 2) \div 512        \* mutant: rounded down
FatSize == RoundUp((RoundUp(TotalClusters, 2) \div 2) * 3, 512) \div 512

\* fopen("wb") and the boot sector
Format ==
    /\ stage = "format"
    /\ \/ stage' = "refused" /\ UNCHANGED <<sector0, length>>
       \/ stage' = "grow" /\ sector0' = "boot" /\ length' = 1
       \/ stage' = "failed" /\ sector0' = "blank" /\ length' \in {0, 1}
    /\ UNCHANGED <<max, search>>

\* The last byte of the next piece is written, which grows the file to there.
\* written starts at 0 although the boot sector is there already.
Grow ==
    /\ stage = "grow"
    /\ LET written == IF length < Piece THEN 0 ELSE length
           next == IF written + Piece > max THEN max ELSE written + Piece
       IN  \/ /\ length' = IF next > length THEN next ELSE length
              /\ stage' = IF next < max THEN "grow" ELSE "made"
           \/ stage' = "failed" /\ UNCHANGED length
    /\ UNCHANGED <<max, search, sector0>>

FailLeavingFile ==                                   \* mutant: no remove()
    /\ stage = "failed" /\ stage' = "refused"
    /\ UNCHANGED <<max, search, sector0, length>>

\* remove() of what was begun; it is assumed to work where fopen() did
Fail ==
    /\ stage = "failed"
    /\ stage' = "refused"
    /\ length' = NoFile /\ sector0' = "blank"
    /\ UNCHANGED <<max, search>>

SaveNext == Enter \/ Search \/ SearchEnds \/ LastTrial \/ Format \/ Grow \/ Fail

SaveSpec == SaveInit /\ [][SaveNext]_saveVars
FairSpec == SaveSpec /\ WF_saveVars(SaveNext)
------------------------------------------------------------------------------

Formatted == stage \in {"format", "grow", "failed", "made"}

\* The sector count put into the boot sector never exceeds the room asked for
\* (nor, with it, the u16 totalSectors), in any round of the search.
SectorsFit == stage # "enter" /\ stage # "refused" => sectors <= max /\ sectors <= Limit

RootSectors == RootEntries \div 16
DataClusters == (sectors - 1 - 2 * FatSize - RootSectors) \div PerCluster

\* The FAT of an image has an entry of 12 bits for each data cluster and the
\* two reserved ones, although its size is reckoned from the clusters of the
\* whole volume; and below 16 MB (more than a DSiWare save has) the clusters
\* are few enough for the FAT12 the boot sector claims.
FatCovers == sectors > 5 => (DataClusters + 2) * 12 <= FatSize * 512 * 8
Fat12Limit == max <= 32672 => DataClusters <= 4084
FatSound == Formatted => FatCovers /\ Fat12Limit

\* A save reported as made has its boot sector and exactly the asked-for size;
\* one that could not be made leaves no file behind that a later
\* ensureDsiWareSave would take for a save.
MadeWhole == stage = "made" => sector0 = "boot" /\ length = max
RefusedLeavesNone == stage = "refused" => length = NoFile
WholeOrNothing == MadeWhole /\ RefusedLeavesNone

\* The search and the growing end, whatever the size.
Ends == <>(stage \in {"made", "refused"})
==============================================================================
