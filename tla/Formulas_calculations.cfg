CONSTANTS
    NoLimit = NoLimit  Unbounded = Unbounded  NoAnswer = NoAnswer
    FederalRules <- MCRules
    Profile <- MCProfile
    Households <- MCHouseholds
    Spending <- MCSpending
    Ledgers <- MCLedgers
    Years = {2022, 2023}
SPECIFICATION FormulasSpec
CHECK_DEADLOCK FALSE
INVARIANT EachDollarAtItsRate
INVARIANT MoreWagesMoreTax
INVARIANT AllocatedIsTheLiability
INVARIANT ReceiptsAddUp
INVARIANT PartitionConserves
INVARIANT TaxonomyTablesAgree
