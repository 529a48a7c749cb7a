SPECIFICATION FairSpec
PROPERTIES Terminates
CONSTANTS
  Mods = {m1, m2}
  NoFile = NoFile
  Foreign = Foreign
  NoSource = NoSource
  MaxImports = 2
  MaxReexports = 1
  MaxClauses = 3
  MaxEntries = 2
CHECK_DEADLOCK FALSE
