CONSTANTS
  Families <- AllFamilies
  Fuel = 30
SPECIFICATION Spec
PROPERTIES ResolvedCells StableHasOneValue NoEarlyRead FreeAgrees LspAgrees NoGetterEscapes FinallyRuns
CHECK_DEADLOCK FALSE
