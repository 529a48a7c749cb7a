CONSTANTS
    MaxVars = 1
    Heads = {row, closed, arr, err}
    RowHeads = {row, closed}
    ArrayLikeRow = row
    ClosedRow = closed
    ArrayOf = arr
    ErrorHead = err
    PVar = {p1, p2}
    Preds = {c1, c2}
    MaxTrail = 3
    MaxPending = 2
    MaxDepth = 2
SPECIFICATION Spec
INVARIANTS TypeOK
PROPERTIES ImplementsCopies
CHECK_DEADLOCK FALSE
