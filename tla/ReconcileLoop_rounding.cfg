CONSTANT Cases <- MCCases
SPECIFICATION LoopSpec
INVARIANT Conserves
INVARIANT WithinACent
INVARIANT RowOrderFree
INVARIANT EnginesAgree
