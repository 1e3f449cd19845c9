SPECIFICATION FairSpec
CONSTANTS
    a1 = a1  a2 = a2  q6 = q6  q12 = q12  B = B  C = C
    Type = {B, C}
    Archive = {a1, a2}
    Request = {q6, q12}
    Reader = {r1}
    None = None  Partial = Partial
    MaxParts = 2
    NParts <- MCNParts
    FullYear = {q12}
    WholeYear = {a1}
    Given <- MCGiven
    Miscounted <- MCMiscounted
    MaxRuns = 3
    MaxLosses = 1
INVARIANTS
    ReadyReleaseComplete
    NoScanErrorWithVolume
    AnswersAreWhole
PROPERTIES
    MaterializationEnds
    PublishesWholeArchives
