SPECIFICATION FairSpec
CONSTANTS
    NAgencies = 2
    Fallback = {2}
    Variants = 2
    MaxAttempts = 2
    MaxPolls = 1
CHECK_DEADLOCK FALSE
INVARIANTS
    CoversEveryAgency
    ResponsesAreFinished
PROPERTY FleetEnds
