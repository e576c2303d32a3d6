----------------------------- MODULE MCRomInfo -----------------------------
(* A flashcart and a DSi, each with a new package or with a file of the    *)
(* user's own: safe mode on, the list view it covers, a theme that is gone *)
(* and a value out of range.  The settings followed are one of each kind:  *)
(* names, a spelled one, a switch, a range and an offset, and the rows of  *)
(* the loader tab whose place depends on the console.  Only those turned   *)
(* cost states; every row of every tab is there to be moved over.          *)
EXTENDS RomInfo

MCFollowed == {"uiName", "langDirectory", "safemode", "viewMode", "saveSlotOverride",
               "pico", "hbstrap"}
MCFresh ==
    <<Header("system"), Item("uiName", Word("Starlight")), Item("langDirectory", Word("English")),
      Item("safemode", Number(0)), Item("viewMode", Word("icon")),
      Item("saveSlotOverride", Number(-1)), Item("hbstrap", Number(0)), Item("pico", Number(0))>>
(* The user's file has a comment, text outside of the lines, two sections  *)
(* more, and what was said above; safe is 1 with safe mode on.             *)
UserFile(safe) ==
    <<Comment, Text, Header("other"), Item("viewMode", Word("list")), Header("system"),
      Item("safemode", Number(safe)), Item("viewMode", Word("list")),
      Item("uiName", Word("gone")), Item("hbstrap", Number(7)),
      Header("more"), Item("icon", Number(0))>>
FlashCart == [flashcart |-> TRUE, dsi |-> FALSE]
Dsi == [flashcart |-> FALSE, dsi |-> TRUE]
MCInstalled ==
    {[console |-> FlashCart, card |-> UsedCard(UserFile(0))],
     [console |-> Dsi, card |-> UsedCard(UserFile(1))],
     [console |-> Dsi, card |-> NewPackage]}

MCThemeDirs ==
    [blueskies |-> [sections |-> {"global settings"}, assets |-> {"fits"}],
     covers |-> [sections |-> {"global settings", "cover"}, assets |-> {"fits"}],
     broken |-> [sections |-> {"global settings"}, assets |-> {"fits", "missing"}],
     Starlight |-> [sections |-> {"global settings"}, assets |-> {"fits"}],
     notes |-> [sections |-> {}, assets |-> {}]]
MCLanguageDirs == {"Deutsch", "English"}
MCNameOrder == <<"Deutsch", "English", "Starlight", "blueskies", "broken", "covers", "notes">>
MCFold == [n \in {MCNameOrder[i] : i \in 1 .. Len(MCNameOrder)} \cup {"", "gone"} |-> n]

MCGames == {"adv", "dsi"}
MCRomList == [adv |-> "4M", dsi |-> "AUTO"]
Retail == [read |-> TRUE, form |-> "nds", crc |-> TRUE, unit |-> 0, start |-> "sdk",
           arm7 |-> "low", named |-> "other", oldSizes |-> FALSE]
MCRomFiles ==
    [one |-> [game |-> "adv", onFat |-> TRUE, header |-> Retail],
     two |-> [game |-> "adv", onFat |-> TRUE, header |-> Retail],
     ware |-> [game |-> "dsi", onFat |-> FALSE, header |-> [Retail EXCEPT !.unit = 3]]]
MCPrefill == [adv |-> "8M", dsi |-> "UNKNOWN"]
MCUsedList ==
    OldListFile(<<[Defaults("adv") EXCEPT !.type = "512K", !.own = {"cheat", "dma"},
                                          !.global = {}, !.slot = 2]>>)
MCIndex == <<[game |-> "adv", offset |-> 40], [game |-> "dsi", offset |-> 80]>>
MCRecords == [o \in {40, 80} |-> IF o = 40 THEN <<OneFolder(2), Code, Code, NoCode, Code>>
                                ELSE <<NoCode>>]
MCBytes == [adv |-> <<0, 1, 1, 0, 0>>, dsi |-> <<0>>]
=============================================================================
