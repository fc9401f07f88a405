\* Up to five operands of numbers below 4, or of two letters.
CONSTANTS
    Limit = 4
    Letters = {a, b}
    Nothing = Nothing
    MaxOperands = 5
SPECIFICATION Spec
INVARIANTS
    CompactionsDoNotShow
