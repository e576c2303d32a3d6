CONSTANTS
    Fat = "fat"
    Sd = "sd"
    FavRow = "fav"
    RecentRow = "recent"
    Slot1 = "slot1"
    Slot2 = "slot2"
    Folders = {"empty", "games", "inner", "dsi"}
    Files = {"a.nds", "a.sav", "b.nds", "d.nds", "deep.nds", "other.nds"}
    SavFiles = {"a.sav"}
    ParentOf <- MCParentOf
    Rank <- MCRank
    Recents <- MCRecents
    Layouts <- MCLayouts
    Modes <- MCModes
    MaxFavorites = 2
    Top = "top"
    NoDir = "none"

SPECIFICATION Spec
INVARIANT SelectedShown
INVARIANT ListingOfDir
PROPERTY SlotAsked
PROPERTY BackSelectsFolder
CHECK_DEADLOCK FALSE
