SPECIFICATION FairSpec
CONSTANTS
    NAgencies = 3
    PageSize = 1
    Known <- MCKnown
    Abbreviation <- MCAbbreviation
    Strays <- MCStrays
INVARIANT FleetCoversReporting
INVARIANT PublishedFromWholeArchives
INVARIANT SuccessIsExactlyABC
PROPERTY ActivationEnds
