-------------------------- MODULE AwardProjection --------------------------
(***************************************************************************)
(* How an account's attributed amount is divided further: over File B rows *)
(* by warehouse_v2/federal_receipt.py _children, and over File C award     *)
(* rows by warehouse_v2/federal_awards.py _project_account.  Rows are      *)
(* given by their outlays, in query order.  A division is a sequence of    *)
(* parts and a residual part.                                              *)
(***************************************************************************)
EXTENDS LargestRemainder, FiniteSetsExt

Split(amount, outlays) ==
    ReconcileParts(amount, [i \in DOMAIN outlays |-> amount * outlays[i]], SumFunction(outlays))

\* A faulty variant: the zero denominator leaves nothing.
ChildrenWithoutResidual(amount, outlays) ==
    IF outlays = <<>> \/ SumFunction(outlays) = 0
    THEN [parts |-> <<>>, residual |-> 0]
    ELSE [parts |-> Split(amount, outlays), residual |-> 0]

\* The File B children of an account.
Children(amount, outlays) ==
    IF outlays = <<>> \/ SumFunction(outlays) = 0
    THEN [parts |-> <<>>, residual |-> amount]
    ELSE [parts |-> Split(amount, outlays), residual |-> 0]

\* A faulty variant: any two totals will do for a ratio.
ProjectableUnbounded(fileB, fileC) ==
    fileC # <<>> /\ fileB # <<>> /\ SumFunction(fileB) # 0

\* The File C rows can be taken as a share of the File B total: both exist,
\* and 0 <= File C <= File B with a positive File B total.
Projectable(fileB, fileC) ==
    /\ fileC # <<>> /\ fileB # <<>>
    /\ SumFunction(fileB) > 0
    /\ SumFunction(fileC) \in 0..SumFunction(fileB)

\* _award_children
AwardParts(awardPool, fileC) ==
    IF SumFunction(fileC) = 0 THEN <<>> ELSE Split(awardPool, fileC)

\* The award pool and what stays of the account.
AwardPool(amount, fileB, fileC) ==
    LET c == SumFunction(fileC)
        b == SumFunction(fileB)
    IN  ReconcileParts(amount, <<amount * c, amount * (b - c)>>, b)

\* _project_account
Projection(amount, fileB, fileC) ==
    IF Projectable(fileB, fileC)
    THEN LET pool == AwardPool(amount, fileB, fileC)
         IN  [parts |-> AwardParts(pool[1], fileC), residual |-> pool[2]]
    ELSE [parts |-> <<>>, residual |-> amount]

DivisionTotal(d) == SumFunction(d.parts) + d.residual
=============================================================================
