SPECIFICATION Spec
CONSTANTS
    a1 = a1  a2 = a2  q6 = q6  q12 = q12  B = B  C = C
    Type = {B}
    Archive = {a1, a2}
    Request = {q6, q12}
    Reader = {r1}
    None = None  Partial = Partial
    MaxParts = 1
    NParts <- MCOneMember
    FullYear = {q12}
    WholeYear = {a1}
    Given <- MCGiven
    Miscounted <- MCNoneMiscounted
    MaxRuns = 2
    MaxLosses = 0
INVARIANT NoPartialStandIn
