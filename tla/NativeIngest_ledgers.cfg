SPECIFICATION Spec
CONSTANTS
    f1 = f1  f2 = f2  f3 = f3
    File = {f1, f2, f3}
    Rows <- MCRows
    None = None  Partial = Partial
    BatchSize = 2
INVARIANT ReadyLedgerIsWhole
INVARIANT LedgerOfOneEdition
