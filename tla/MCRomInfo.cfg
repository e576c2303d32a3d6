SPECIFICATION MenuSpec
CONSTANTS
    Followed <- MCFollowed
    Installed <- MCInstalled
    FreshFile <- MCFresh
    ThemeDirs <- MCThemeDirs
    LanguageDirs <- MCLanguageDirs
    NameOrder <- MCNameOrder
    DefaultTheme = "blueskies"
    Fold <- MCFold
    Shown = 2
    MaxStarts = 2
    MaxChanges = 1
    MaxCuts = 1
    Games <- MCGames
    RomList <- MCRomList
    CheatIndex <- MCIndex
    CheatEnd = 90
    CheatRecords <- MCRecords
    RomFiles <- MCRomFiles
    PrefillGame <- MCPrefill
    UsedList <- MCUsedList
    FirstBytes <- MCBytes
    RowsOfCheats = 2
    MaxGames = 2
INVARIANTS
    GamesKept
    RowsFresh
    CheatsKept
    SettingsKept
    RowShown
CHECK_DEADLOCK FALSE
