CONSTANTS
    NPools = 5
    Revenues = {"income", "oasdi", "medicare", "surtax"}
    Mappings <- MCMappings
    ShareUnit = 6
    NoRule = NoRule
    Unclassified = ""
    NoAccount = "none"
    Taxes <- MCTaxes
    Workbooks <- MCWorkbooks
    FileBs <- MCFileBs
    FileCs <- MCFileCs
    Rules <- MCRules
    MaxIngests = 2
SPECIFICATION Spec
INVARIANT PoolsConserve
INVARIANT PurposeConserves
INVARIANT RefusedOnlyUnmapped
INVARIANT AwardsWithinAccount
