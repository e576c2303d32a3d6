\* The comment on manual NAND donors, against a launch.
CONSTANTS
  g1 = g1  g2 = g2  h1 = h1  d1 = d1
  Games = {g1}
  Homebrews = {}
  Documents = {}
  SaveDirs = {FALSE}
  DonorKeys <- MCMoreKeys
  Sdk50Key = "TWL0"
  Sdk5Key = "TWL"
  HandPaths = {"sd", "nand"}
  Consoles <- MCConsoles
  MaxRecent = 1
  NoRom = NoRom  NoSave = NoSave  NoIni = NoIni  NoPath = NoPath  NoCheats = NoCheats
SPECIFICATION Spec
PROPERTIES NandDonorPreserved
