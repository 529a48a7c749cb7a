SPECIFICATION FairSpec
INVARIANTS DiagnosticsSettle AnswersWhatWasAsked RenameKeepsLinks
PROPERTIES CatchesUp
CONSTANTS
  lib = lib
  app = app
  Uris <- MCUris
  TextsOf <- MCTextsOf
  Names = {"x", "y", "z", "n"}
  NewNames = {"n"}
  BadName = BadName
  Closed = Closed
  Null = Null
  MaxBatch = 2
  MaxSends = 6
CHECK_DEADLOCK FALSE
