--------------------------- MODULE FederalReceipt ---------------------------
(***************************************************************************)
(* A federal award-view request beside re-ingestion of the OMB outlays:    *)
(* the base receipt of allocation/engine.py, the File B account bridge of  *)
(* warehouse_v2/federal_receipt.py, the File C projection of               *)
(* warehouse_v2/federal_awards.py and _replace_outlays of                  *)
(* finance/sources/omb.py.                                                 *)
(*                                                                         *)
(* A request runs in one database session, but every pool is a statement   *)
(* of its own (READ COMMITTED), and the bridge computes every pool a       *)
(* second time.  A re-ingestion commits between any two of them.  A fact's *)
(* id is never used again (a PostgreSQL sequence).                         *)
(***************************************************************************)
EXTENDS AllocationEngine, AwardProjection

CONSTANTS
    Taxes,          \* tax results a request may come with
    Workbooks,      \* OMB actual outlay rows, [sub, fun, account, amount]
    NoAccount,      \* no federal account, or one without a code
    FileBs,         \* what a File B query may find: account -> outlays; none
                    \* when no full-year release is READY and local
    FileCs,         \* likewise for File C
    MaxIngests      \* bound: workbooks ingested

ASSUME ReceiptAssumption ==
    /\ MaxIngests \in Nat
    /\ \A t \in Taxes : t \in [Revenues -> Nat]
    /\ \A w \in Workbooks :
          w \in Seq([sub : STRING, fun : STRING, account : STRING, amount : Int])
    /\ \A book \in FileBs \cup FileCs, w \in Workbooks :
          \A i \in DOMAIN w : w[i].account # NoAccount => book[w[i].account] \in Seq(Int)

VARIABLES
    facts,          \* the fact rows of the fiscal year, in id order
    lastId,
    ingests,
    phase,          \* of the request
    tax,            \* its tax result
    base,           \* pool computations of the base receipt
    detail,         \* pool computations of the bridge
    accounts        \* account nodes, with their File B and award divisions

dbVars == <<facts, lastId, ingests>>
vars == <<facts, lastId, ingests, phase, tax, base, detail, accounts>>

---------------------------------------------------------------------------
\* _replace_outlays: delete the year's facts and insert the workbook's, in
\* one commit.
Numbered(workbook, after) ==
    [i \in DOMAIN workbook |-> [id |-> after + i, sub |-> workbook[i].sub, fun |-> workbook[i].fun,
                                account |-> workbook[i].account, amount |-> workbook[i].amount]]

ReplaceOutlays ==
    /\ ingests < MaxIngests
    /\ \E w \in Workbooks :
          /\ facts' = Numbered(w, lastId)
          /\ lastId' = lastId + Len(w)
    /\ ingests' = ingests + 1
    /\ UNCHANGED <<phase, tax, base, detail, accounts>>

\* _map_revenue_to_pools reads only the mappings; the pools follow.
Request ==
    /\ phase \in {"idle", "published", "refused"}
    /\ tax' \in Taxes
    /\ phase' = "base"
    /\ base' = <<>> /\ detail' = <<>> /\ accounts' = {}
    /\ UNCHANGED dbVars

\* for pool_id in sorted(pool_contributions)
Remaining(done) == ContributingPools \ {done[i].pool : i \in DOMAIN done}

ComputeBasePool ==
    /\ phase = "base" /\ Remaining(base) # {}
    /\ base' = Append(base, PoolComputation(tax, facts, Min(Remaining(base))))
    /\ UNCHANGED <<dbVars, phase, tax, detail, accounts>>

Contributed(done) == SumFunction([i \in DOMAIN done |-> done[i].contribution])

\* calculate_from_tax_result: conserve the liability or refuse.
FinishBase ==
    /\ phase = "base" /\ Remaining(base) = {}
    /\ phase' = IF Contributed(base) = TotalTax(tax) THEN "detail" ELSE "refused"
    /\ UNCHANGED <<dbVars, tax, base, detail, accounts>>

\* _computations: the same pools once more, against the facts of now.
ComputeDetailPool ==
    /\ phase = "detail" /\ Remaining(detail) # {}
    /\ detail' = Append(detail, PoolComputation(tax, facts, Min(Remaining(detail))))
    /\ UNCHANGED <<dbVars, phase, tax, base, accounts>>

OfAccount(account) == {a \in Allocations(detail) : a.fact.account = account}

\* The allocations without an account join the residual pools.
BridgeResidual == ResidualAmount(detail) + Amount(OfAccount(NoAccount))

AccountNode(account, fileB) ==
    [account |-> account, amount |-> Amount(OfAccount(account)), fileB |-> fileB[account],
     children |-> Children(Amount(OfAccount(account)), fileB[account]),
     awards |-> [parts |-> <<>>, residual |-> Amount(OfAccount(account))]]

NodesTotal(nodes) == SumFunction([n \in nodes |-> n.amount])

\* FederalReceiptV2Engine.calculate after _computations: File B is loaded,
\* the account nodes are made, and the bridge conserves or is refused.
Bridge ==
    /\ phase = "detail" /\ Remaining(detail) = {}
    /\ \E fileB \in FileBs :
          LET nodes == {AccountNode(a, fileB) :
                            a \in {x.fact.account : x \in Allocations(detail)} \ {NoAccount}}
          IN  /\ accounts' = nodes
              /\ phase' = IF /\ NodesTotal(nodes) + BridgeResidual = TotalTax(tax)
                             /\ \A n \in nodes : DivisionTotal(n.children) = n.amount
                          THEN "awards" ELSE "refused"
    /\ UNCHANGED <<dbVars, tax, base, detail>>

\* FederalAwardProjectionEngine.calculate: File C is loaded for the accounts
\* of the receipt, and each is projected.
ProjectAwards ==
    /\ phase = "awards"
    /\ \E fileC \in FileCs :
          LET nodes == {[n EXCEPT !.awards = Projection(n.amount, n.fileB, fileC[n.account])] :
                            n \in accounts}
          IN  /\ accounts' = nodes
              /\ phase' = IF \A n \in nodes : DivisionTotal(n.awards) = n.amount
                          THEN "published" ELSE "refused"
    /\ UNCHANGED <<dbVars, tax, base, detail>>

Init ==
    /\ \E w \in Workbooks : facts = Numbered(w, 0) /\ lastId = Len(w)
    /\ ingests = 0
    /\ phase = "idle"
    /\ tax = [r \in Revenues |-> 0]
    /\ base = <<>> /\ detail = <<>> /\ accounts = {}

Next == \/ ReplaceOutlays \/ Request
        \/ ComputeBasePool \/ FinishBase
        \/ ComputeDetailPool \/ Bridge \/ ProjectAwards

Spec == Init /\ [][Next]_vars
---------------------------------------------------------------------------

BaseReady == phase \in {"detail", "awards", "published"}

\* docs/ALLOCATION_ENGINE.md: the receipt children of a pool sum to the
\* contribution, and their government spending to the pool's eligible
\* spending, whatever is re-ingested while the request runs.
PoolsConserve ==
    BaseReady =>
        \A i \in DOMAIN base :
            LET nodes == Grouped(Range(base[i].allocations))
            IN  base[i].allocations # <<>> =>
                    /\ NodesTotal(nodes) = base[i].contribution
                    /\ SumFunction([n \in nodes |-> n.base]) = base[i].denominator

\* docs/ALLOCATION_ENGINE.md: the purpose nodes, with the explicit residuals,
\* sum to the total allocable taxes.
PurposeConserves ==
    BaseReady =>
        NodesTotal(Grouped(Allocations(base))) + ResidualAmount(base) = TotalTax(tax)

\* A request is only refused for a tax no mapping takes: never for rounding,
\* signed or zero outlays, unbounded File C rows, or facts that are replaced
\* between the base receipt and the bridge.
RefusedOnlyUnmapped ==
    phase = "refused" => \E r \in Revenues : tax[r] # 0 /\ ~Mapped(r)

\* federal_awards.py: the awards of an account together never get more than
\* the account has, nor of the other sign, whatever the signs of its File B
\* and File C rows.
AwardsWithinAccount ==
    phase = "published" =>
        \A n \in accounts :
            LET awarded == SumFunction(n.awards.parts)
            IN  \/ 0 <= awarded /\ awarded <= n.amount
                \/ n.amount <= awarded /\ awarded <= 0

=============================================================================
