---------------------------- MODULE LocalReceipt ----------------------------
(***************************************************************************)
(* jurisdictional/sales_tax.py and jurisdictional/engine.py: the modelled  *)
(* sales taxes of a Florida household and the receipts they are split      *)
(* into.  Amounts are cents; shares are hundredths (taxability) and        *)
(* ten-thousandths (interlocal distribution), tax rates thousandths.       *)
(***************************************************************************)
EXTENDS LargestRemainder, SequencesExt

CONSTANTS Profile,    \* the rules of the estimator: quintiles, categories, rates, cap
          Unbounded   \* upper bound of the highest quintile

ASSUME ProfileAssumption ==
    /\ Profile.quintiles \in Seq([lower : Nat, upper : Nat \cup {Unbounded}, total : Nat])
    /\ Profile.quintiles # <<>>
    /\ Profile.categories \in Seq([baseline : Nat, taxability : Nat, capped : BOOLEAN])
    /\ Profile.all_units \in Nat \ {0}
    /\ {Profile.state_rate, Profile.local_rate, Profile.cap} \subseteq Nat

HalfUp(n, d) == (2 * n + d) \div (2 * d)

---------------------------------------------------------------------------

\* The first quintile whose half-open interval holds the income.
Quintile(income) ==
    LET fits(k) == /\ income >= Profile.quintiles[k].lower
                   /\ \/ Profile.quintiles[k].upper = Unbounded
                      \/ income < Profile.quintiles[k].upper
        first == SelectInSeq([k \in DOMAIN Profile.quintiles |-> k], fits)
    IN  Profile.quintiles[IF first = 0 THEN Len(Profile.quintiles) ELSE first]

\* Taxable spending of each category, in cents over Profile.all_units: the
\* national baseline scaled by the quintile's total, times its taxability.
StateTaxable(spent) ==
    [i \in DOMAIN Profile.categories |->
        Profile.categories[i].baseline * spent * Profile.categories[i].taxability]

LocalTaxable(spent) ==
    [i \in DOMAIN Profile.categories |->
        LET cap == Profile.cap * 100 * Profile.all_units
        IN  IF Profile.categories[i].capped /\ StateTaxable(spent)[i] > cap
            THEN cap ELSE StateTaxable(spent)[i]]

\* The bases are rounded to the cent before the rates apply.
SalesTaxes(income) ==
    LET spent == Quintile(income).total
        base(taxable) == HalfUp(SumFunction(taxable), Profile.all_units)
    IN  [state |-> HalfUp(base(StateTaxable(spent)) * Profile.state_rate, 1000),
         local |-> HalfUp(base(LocalTaxable(spent)) * Profile.local_rate, 1000)]

---------------------------------------------------------------------------
\* The state tax over the audited expenses of its functions, in key order.
StateReceipt(tax, spending) ==
    ReconcileKeyed(tax, [i \in DOMAIN spending |-> tax * spending[i]], SumFunction(spending))

\* The surtax is three half-cents of law: infrastructure, school, wspp.
LocalPools(tax) == ReconcileKeyed(tax, <<tax, tax, tax>>, 3)

\* Faulty variant of Distributed: each share is rounded on its own.
DistributedRounded(amount) ==
    [i \in 1..3 |-> HalfUp(amount * <<5698, 3545, 757>>[i], 10000)]

\* County, Gainesville, other municipalities.
Distributed(amount) ==
    ReconcileKeyed(amount, [i \in 1..3 |-> amount * <<5698, 3545, 757>>[i]], 10000)

\* Infrastructure and wspp have children, the school surtax has none.
LocalReceipt(tax) ==
    LET pools == LocalPools(tax)
    IN  [infrastructure |-> [amount |-> pools[1], children |-> Distributed(pools[1])],
         school         |-> [amount |-> pools[2], children |-> <<>>],
         wspp           |-> [amount |-> pools[3], children |-> Distributed(pools[3])]]

\* calculate: the federal taxes that were allocated and the modelled sales taxes.
SupportedTax(federal, income) ==
    federal + SalesTaxes(income).state + SalesTaxes(income).local
=============================================================================
