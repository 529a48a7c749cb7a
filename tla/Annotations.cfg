CONSTANTS
  PropOrder <- MCPropOrder
  DepthLimit = 24
  MaxForms = 3
SPECIFICATION Spec
PROPERTIES ReadAsWritten DeclarationsReadBack
CHECK_DEADLOCK FALSE
