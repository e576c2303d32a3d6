\* Two games, a homebrew and a document on a DS; a game on each DSi with donors.
CONSTANTS
  g1 = g1  g2 = g2  h1 = h1  d1 = d1
  Games = {g1, g2}
  Homebrews = {h1}
  Documents = {d1}
  SaveDirs = {TRUE}
  DonorKeys <- MCMoreKeys
  Sdk50Key = "TWL0"
  Sdk5Key = "TWL"
  HandPaths = {"sd", "nand"}
  Consoles <- MCRunConsoles
  MaxRecent = 2
  NoRom = NoRom  NoSave = NoSave  NoIni = NoIni  NoPath = NoPath  NoCheats = NoCheats
SPECIFICATION Spec
CONSTRAINT MCScenario
INVARIANTS NoStaleBoot SaveReady MenuBack
PROPERTIES PlayedSaveKept StartupPreserves
