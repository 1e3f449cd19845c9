CONSTANTS
    Dataset = {"2022"}
    Edition = {"e1", "e2", "e3"}
    Gov = {1, 2, 3, 4}
    State = {3}
    NRecords <- MCNRecords
    Key <- MCKey
    BatchSize = 2
    Units <- MCUnits
    UnitBatch = 2
    Reader = {r1}
    None = None
SPECIFICATION FairSpec
INVARIANT ReadyIsComplete
INVARIANT AnswersOfOneEdition
INVARIANT GovernmentRecordsAgree
PROPERTY IngestionEnds
PROPERTY ImplementsReleaseStore
