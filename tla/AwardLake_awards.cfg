SPECIFICATION Spec
CONSTANTS
    a1 = a1  a2 = a2  a3 = a3  a4 = a4  a5 = a5  dod = dod
    All = All  None = None  Partial = Partial
    Archive = {a1, a2, a3, a4, a5}
    Name = {n1, n2}
    Reader = {r1}
    Request <- MCRequest
    GeneratedFor <- MCGeneratedFor
    Given <- MCGiven
    Members <- MCMembers
    MaxParts = 2
    MaxRuns = 2
    MaxLosses = 1
INVARIANT AwardReleaseComplete
INVARIANT ProvenanceHolds
INVARIANT DetailIsFullYear
PROPERTY PublishesWholeAwardArchives
