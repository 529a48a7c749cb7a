CONSTANTS
    MaxVars = 4
    Heads = {row, closed, arr, err}
    RowHeads = {row, closed}
    ArrayLikeRow = row
    ClosedRow = closed
    ArrayOf = arr
    ErrorHead = err
    PVar = {}
    Preds = {}
    MaxTrail = 4
    MaxPending = 0
    MaxDepth = 0
SPECIFICATION Spec
INVARIANTS
    NoCycles
    DriftOnlyFromRebind
CHECK_DEADLOCK FALSE
