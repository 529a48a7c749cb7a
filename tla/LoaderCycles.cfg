SPECIFICATION Spec
INVARIANTS CyclesAreReal
SYMMETRY Symmetry
CONSTANTS
  Mods = {m1, m2, m3}
  NoFile = NoFile
  Foreign = Foreign
  NoSource = NoSource
  MaxImports = 2
  MaxReexports = 1
  MaxClauses = 2
  MaxEntries = 2
CHECK_DEADLOCK FALSE
