SPECIFICATION Spec
CONSTANTS
    full = full  small = small
    Edition = {full, small}
    Full = {full}
    None = None  Partial = Partial
    MaxParts <- PartsOfTypes
    MaxRuns = 3
    MaxRevisions = 1
    MaxLosses = 1
CHECK_DEADLOCK FALSE
INVARIANTS
    MirrorAgrees
    FinishedMeansReady
PROPERTIES
    IdempotentWhenReady
