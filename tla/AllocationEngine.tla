-------------------------- MODULE AllocationEngine --------------------------
(***************************************************************************)
(* The calculations of allocation/engine.py: a tax result is mapped to     *)
(* funding pools, and a pool's contribution is spread over the spending    *)
(* facts its rule admits.  Money is in cents; exact shares are exact       *)
(* fractions, where the code has Decimals of 28 digits.                    *)
(***************************************************************************)
EXTENDS LargestRemainder, FiniteSetsExt

CONSTANTS
    NPools,         \* funding pools, by id: 1..NPools
    Revenues,       \* the revenue types of a tax result
    Mappings,       \* the active revenue-to-pool rows, [revenue, pool, share]
    ShareUnit,      \* a share is share / ShareUnit
    Rules,          \* pool -> its active spend rule [include, exclude], or NoRule
    NoRule,
    Unclassified    \* the code of a fact without subfunction or function

Pools == 1..NPools

ASSUME EngineAssumption ==
    /\ NPools \in Nat /\ ShareUnit \in Nat \ {0}
    /\ IsFiniteSet(Revenues)
    /\ Mappings \in Seq([revenue : Revenues, pool : Pools, share : Nat])
    /\ DOMAIN Rules = Pools

\* The rows of s at the positions in I, in their order.
Selected(s, I) ==
    LET before(i) == Cardinality({j \in I : j < i})
    IN  [k \in 1 .. Cardinality(I) |-> s[CHOOSE i \in I : before(i) = k - 1]]

---------------------------------------------------------------------------
\* Tax to pools.

TotalTax(tax) == SumFunction(tax)
MappingsOf(r) == Selected(Mappings, {i \in DOMAIN Mappings : Mappings[i].revenue = r})
Mapped(r) == MappingsOf(r) # <<>>

\* A faulty variant: every share rounded down on its own.
MappedAmountsFloored(tax, r) ==
    [k \in DOMAIN MappingsOf(r) |-> (tax[r] * MappingsOf(r)[k].share) \div ShareUnit]

\* What the mappings of revenue r give their pools, row by row.
MappedAmounts(tax, r) ==
    ReconcileParts(tax[r], [k \in DOMAIN MappingsOf(r) |-> tax[r] * MappingsOf(r)[k].share], ShareUnit)

Contribution(tax, p) ==
    SumFunction([r \in {r \in Revenues : Mapped(r)} |->
        SumFunction([k \in DOMAIN MappingsOf(r) |->
            IF MappingsOf(r)[k].pool = p THEN MappedAmounts(tax, r)[k] ELSE 0])])

ContributingPools == {m.pool : m \in Range(Mappings)}

---------------------------------------------------------------------------
\* Pools to spending facts.

\* No include codes means every code; an unclassified fact has none.
Eligible(fact, rule) ==
    LET codes == {fact.sub, fact.fun} \ {Unclassified}
    IN  /\ rule.include # {} => codes \cap rule.include # {}
        /\ codes \cap rule.exclude = {}

EligibleRows(facts, p) ==
    Selected(facts, {i \in DOMAIN facts : Rules[p] # NoRule /\ Eligible(facts[i], Rules[p])})

Outlay(rows) == SumFunction([i \in DOMAIN rows |-> rows[i].amount])

\* A contribution over the eligible facts, by their outlays; nothing when
\* there are none, or when their net outlay or the contribution is zero.
Spread(p, contribution, eligible) ==
    LET parts == ReconcileParts(contribution,
                     [i \in DOMAIN eligible |-> contribution * eligible[i].amount], Outlay(eligible))
    IN  IF eligible # <<>> /\ Outlay(eligible) # 0 /\ contribution # 0
        THEN [i \in DOMAIN eligible |-> [pool |-> p, fact |-> eligible[i], amount |-> parts[i]]]
        ELSE <<>>

\* A faulty variant: the rule filters what is spread, not what is divided by.
PoolComputationOfAll(tax, facts, p) ==
    LET eligible == EligibleRows(facts, p)
    IN  [pool |-> p, contribution |-> Contribution(tax, p), matched |-> eligible # <<>>,
         denominator |-> Outlay(facts), allocations |-> Spread(p, Contribution(tax, p), eligible)]

\* One pool of compute_pool_allocations.  "matched" is the code's test that
\* the eligible rows are not empty; a pool without a rule has none.
PoolComputation(tax, facts, p) ==
    LET eligible == EligibleRows(facts, p)
    IN  [pool |-> p, contribution |-> Contribution(tax, p), matched |-> eligible # <<>>,
         denominator |-> Outlay(eligible), allocations |-> Spread(p, Contribution(tax, p), eligible)]

---------------------------------------------------------------------------
\* The views of a sequence of pool computations.

Allocations(done) == UNION {Range(done[i].allocations) : i \in DOMAIN done}
Amount(allocations) == SumFunction([a \in allocations |-> a.amount])

\* Each fact counted once, whatever pools it gets dollars from.
GovernmentBase(allocations) ==
    SumFunction([f \in {a.fact : a \in allocations} |-> f.amount])

\* _group_allocations by budget function.
Grouped(allocations) ==
    {LET mine == {a \in allocations : a.fact.fun = f}
     IN  [fun |-> f, amount |-> Amount(mine), base |-> GovernmentBase(mine),
          pools |-> {a.pool : a \in mine}] : f \in {a.fact.fun : a \in allocations}}

\* A faulty variant: only pools without any matching fact are kept as residuals.
ResidualPoolsUnmatched(done) == {done[i] : i \in {i \in DOMAIN done : ~done[i].matched}}

\* Pools with nothing allocated: their contribution is an explicit residual node.
ResidualPools(done) == {done[i] : i \in {i \in DOMAIN done : done[i].allocations = <<>>}}
ResidualAmount(done) == SumFunction([c \in ResidualPools(done) |-> c.contribution])
=============================================================================
