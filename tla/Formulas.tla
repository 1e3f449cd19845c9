------------------------------ MODULE Formulas ------------------------------
(***************************************************************************)
(* The calculations that a request makes without reading what another      *)
(* process writes: federal taxes, modelled sales taxes with their local    *)
(* receipts, and the Census partition of one government's rows.  A         *)
(* behaviour asks one question and answers it; each property relates the   *)
(* answer to the question, or to the answer of a neighbouring question.    *)
(***************************************************************************)
EXTENDS TaxEngine, LocalReceipt, CensusTaxonomy

CONSTANTS Households,  \* FederalTaxInput: [status, wage, spouse, children, others]
          Spending,    \* audited expenses of the state's functions, in key order
          Ledgers,     \* rows of one government: sequences of [spelled, amount]
          Years,       \* fiscal years asked for
          NoAnswer

ASSUME QuestionsAssumption ==
    /\ Households \subseteq [status : Statuses, wage : Nat, spouse : Nat, children : Nat, others : Nat]
    /\ Spending \in Seq(Int) /\ SumFunction(Spending) # 0
    /\ Ledgers \subseteq Seq([spelled : (STRING \X STRING) \X STRING, amount : Int])

Household(h) == [about |-> "household", household |-> h]
Ledger(l, y) == [about |-> "ledger", rows |-> l, year |-> y]

VARIABLES question, answer

formulaVars == <<question, answer>>

FormulasInit ==
    /\ question \in {Household(h) : h \in Households}
                    \cup {Ledger(l, y) : l \in Ledgers, y \in Years}
    /\ answer = NoAnswer

---------------------------------------------------------------------------
\* FloridaGainesvilleEngine.calculate: federal taxes, then sales taxes from the
\* wages, then the receipts of the state and of the county.
CalculateReceipt ==
    /\ question.about = "household"
    /\ LET h == question.household
           sales == SalesTaxes(h.wage + h.spouse)
       IN  answer' = [federal |-> FederalTaxes(h),
                      state   |-> StateReceipt(sales.state, Spending),
                      local   |-> LocalReceipt(sales.local),
                      total   |-> SupportedTax(AllocableTaxes(h) \div Cent, h.wage + h.spouse)]
    /\ UNCHANGED question

BuildPartition ==
    /\ question.about = "ledger"
    /\ answer' = Partition(question.rows, question.year)
    /\ UNCHANGED question

FormulasNext == answer = NoAnswer /\ (CalculateReceipt \/ BuildPartition)

FormulasSpec == FormulasInit /\ [][FormulasNext]_formulaVars

---------------------------------------------------------------------------
Answered(about) == question.about = about /\ answer # NoAnswer

Raised(h) == [h EXCEPT !.wage = @ + 1]

\* The bracket a dollar of taxable income lies in, from the schedule alone.
RateAt(taxable, status) ==
    LET above == {k \in DOMAIN FederalRules.brackets[status] :
                     LET upper == FederalRules.brackets[status][k].upper
                     IN upper = NoLimit \/ (upper # NoLimit /\ taxable < upper)}
    IN  FederalRules.brackets[status][CHOOSE k \in above : \A j \in above : k <= j].rate

\* One more dollar of wages is taxed at the rate of the one bracket it lies in,
\* and at none below the standard deduction: the bands join without gap or
\* overlap (tests/golden/test_2026_bracket_boundaries.py).
EachDollarAtItsRate ==
    Answered("household") =>
        LET h == question.household
            taxable == h.wage + h.spouse - FederalRules.standard_deduction[h.status]
        IN  FederalTaxes(Raised(h)).before_credits - answer.federal.before_credits
                = IF taxable < 0 THEN 0 ELSE RateAt(taxable, h.status)

\* A raise never lowers the tax, for any household: neither where the wage base
\* ends, nor where the credit phases out, nor where the surtax begins.
MoreWagesMoreTax ==
    Answered("household") =>
        FederalTaxes(Raised(question.household)).total >= answer.federal.total

\* The four taxes that the receipt allocates, each rounded on its own, add up to
\* the total personal liability within a cent, which is rounded once.
AllocatedIsTheLiability ==
    Answered("household") =>
        Abs(AllocableTaxes(question.household) - answer.federal.total) <= Cent

Whole(receipt) == receipt.school.amount + receipt.wspp.amount + receipt.infrastructure.amount

\* The supported total is, to the cent, the four federal taxes and every node of the
\* two receipts: the three pools make up the surtax, the shares of the county and of
\* the municipalities make up their pool.  No node of the local receipt is negative,
\* and a function of the state is only if its audited expense has the sign opposite
\* to that of all expenses together.
ReceiptsAddUp ==
    Answered("household") =>
        /\ answer.total = AllocableTaxes(question.household) \div Cent
                            + SumFunction(answer.state) + Whole(answer.local)
        /\ \A pool \in {answer.local.wspp, answer.local.infrastructure} :
              /\ SumFunction(pool.children) = pool.amount
              /\ \A i \in DOMAIN pool.children : pool.children[i] >= 0
        /\ \A pool \in {answer.local.wspp, answer.local.infrastructure, answer.local.school} :
              pool.amount >= 0
        /\ \A i \in DOMAIN Spending :
              Sign(SumFunction(Spending)) * Spending[i] >= 0 => answer.state[i] >= 0

---------------------------------------------------------------------------
InFormula(rows) == {i \in DOMAIN rows : ItemCode(rows[i]) \in DirectGeneralCodes}

\* Every dollar of the rows that the formula includes is in the parent and in
\* exactly one category, whatever the rows repeat or cancel; nothing else is, and
\* a code that is not shown lies in a category that nets to zero.
PartitionConserves ==
    (Answered("ledger") /\ ~answer.refused) =>
        LET rows  == question.rows
            shown == [n \in answer.nodes |-> n.amount]
            codes == {ItemCode(rows[i]) : i \in DOMAIN rows}
        IN  /\ answer.parent = Total([i \in DOMAIN rows |-> rows[i].amount], InFormula(rows))
            /\ answer.parent = SumFunction(shown) + answer.residual
            /\ answer.residualCodes = {} /\ answer.residual = 0
            /\ \A n, o \in answer.nodes : n.codes \cap o.codes # {} => n = o
            /\ \A c \in (codes \ answer.excluded) \ UNION {n.codes : n \in answer.nodes} :
                  Total([d \in codes |-> AmountOf(rows, d)],
                        {d \in codes : CategoryOf(d) = CategoryOf(c)}) = 0

\* The three tables agree: every item the formula adds up is an expenditure to
\* classify_item_code, never one paid to another government, and has exactly one
\* category, so that the order of the categories decides nothing (taxonomy_audit,
\* which keeps the first match of each code, could not notice a second one).
TaxonomyTablesAgree ==
    (Answered("ledger") /\ ~answer.refused) =>
        \A c \in UNION {n.codes : n \in answer.nodes} :
            /\ FlowType(c) = "EXPENDITURE" /\ c[1] \notin IntergovPrefixes
            /\ Cardinality({k \in DOMAIN Categories :
                  \/ c \in Categories[k].special
                  \/ c[1] \in {"E", "F"} /\ c[2] \in Categories[k].functions}) = 1
=============================================================================
