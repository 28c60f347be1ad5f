CONSTANTS
  Pages = {1, 2, 3, 4, 5, 6, 7, 8, 9, 10, 11, 12, 13, 14}
  Image = {1}
  Indices <- MCIndices
  VPages <- MCVPages
  BootMaps <- MCBootMaps
  FlagSets <- MCFlagSets
  HIGHER_HALF = 33554176
  MaxClones = 2
  MaxHeld = 1
  MaxCalls = 6
SPECIFICATION Spec
INVARIANTS TypeOK OnePurpose TranslationExact Conserved Pruned CloneExact
