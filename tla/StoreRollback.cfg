CONSTANTS
    MaxVars = 3
    Heads = {row, closed, arr, err}
    RowHeads = {row, closed}
    ArrayLikeRow = row
    ClosedRow = closed
    ArrayOf = arr
    ErrorHead = err
    PVar = {}
    Preds = {}
    MaxTrail = 3
    MaxPending = 0
    MaxDepth = 2
SPECIFICATION Spec
INVARIANTS UndoIsPopping
PROPERTIES ImplementsCopies ImplementsClasses
CHECK_DEADLOCK FALSE
