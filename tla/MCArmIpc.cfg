SPECIFICATION FairSpec
CONSTANTS
  Consoles <- MCConsoles
  SavedLevels = {1, 6}
  FirstLights = {0}
INVARIANTS AnswersPaired SharedInOrder HandedOver
PROPERTIES MenuComes
CHECK_DEADLOCK FALSE
