--------------------------- MODULE ReconcileLoop ---------------------------
(***************************************************************************)
(* The rounding loop of allocation/engine.py _reconcile_parts, cent by     *)
(* cent: the floors first, then one cent a step in the rounding order.     *)
(***************************************************************************)
EXTENDS LargestRemainder

CONSTANT Cases      \* the calls explored: records [total, nums, den]

ASSUME CasesAssumption ==
    \A c \in Cases : /\ c.total \in Int /\ c.den \in Int \ {0}
                     /\ c.nums \in Seq(Int) \ {<<>>}

VARIABLES
    call,   \* the arguments
    parts,  \* base: the parts so far
    moved   \* n: cents moved so far

loopVars == <<call, parts, moved>>

Target == Difference(call.total, call.nums, call.den)
Order == RoundingOrder(call.total, call.nums, call.den)
Done == moved = Abs(Target)

---------------------------------------------------------------------------
LoopInit ==
    /\ call \in Cases
    /\ parts = Floors(call.nums, call.den)
    /\ moved = 0

\* Faulty variant of MoveCent: a negative residual is given, not taken.
MoveCentOnlyUp ==
    /\ ~Done
    /\ parts' = [parts EXCEPT ![Turn(Order, moved)] = @ + 1]
    /\ moved' = moved + 1
    /\ UNCHANGED call

\* base[order[n % len(order)]] += 1, or -= 1
MoveCent ==
    /\ ~Done
    /\ parts' = [parts EXCEPT ![Turn(Order, moved)] = @ + Sign(Target)]
    /\ moved' = moved + 1
    /\ UNCHANGED call

Return == Done /\ UNCHANGED loopVars

LoopNext == MoveCent \/ Return

LoopSpec == LoopInit /\ [][LoopNext]_loopVars

---------------------------------------------------------------------------
\* The parts and the cents still to move always make up the total, so the
\* returned parts conserve it, for negative shares and for shares that do
\* not add up to the total too (the docstring's "exact conservation").
Conserves == SumFunction(parts) + Sign(Target) * (Abs(Target) - moved) = call.total

\* Shares that add up to the total are rounded to one of the two cents they
\* lie between: the residual is spread, never dumped on one category.  A
\* larger share is never rounded to a smaller part, whatever the total.
WithinACent ==
    Done =>
        /\ Exact(call.total, call.nums, call.den) =>
              \A i \in DOMAIN parts : Abs(parts[i] * call.den - call.nums[i]) < Abs(call.den)
        /\ \A i, j \in DOMAIN parts :
              Sign(call.den) * (call.nums[i] - call.nums[j]) > 0 => parts[i] >= parts[j]

\* "Rounding must not depend on source row order": with distinct remainders,
\* permuting the rows permutes the parts.
RowOrderFree ==
    LET distinct == \A i, j \in DOMAIN parts :
                        i # j => Remainder(call.nums, call.den, i) # Remainder(call.nums, call.den, j)
    IN  (Done /\ distinct) =>
            \A p \in Bijection(DOMAIN parts, DOMAIN parts) :
                ReconcileParts(call.total, [i \in DOMAIN parts |-> call.nums[p[i]]], call.den)
                    = [i \in DOMAIN parts |-> parts[p[i]]]

\* The loop returns what the closed form of LargestRemainder says, which is
\* what the receipt modules use; on shares that add up to the total, the
\* jurisdictional engine's rounding is the same (keys in row order).
EnginesAgree ==
    Done =>
        /\ parts = ReconcileParts(call.total, call.nums, call.den)
        /\ Exact(call.total, call.nums, call.den) =>
              parts = ReconcileKeyed(call.total, call.nums, call.den)

---------------------------------------------------------------------------
(* The inductive invariant behind these, proved in ReconcileLoopProofs.    *)

LoopTypeOK == call \in Cases /\ parts \in [DOMAIN call.nums -> Int] /\ moved \in 0 .. Abs(Target)

\* How many of the first m cents are row i's: one for each whole round, and
\* one of the round begun if its place has come.
Turns(m, i) ==
    LET count == Len(call.nums)
    IN  m \div count
        + (IF Place(call.nums, call.den, Target > 0, i) < m % count THEN 1 ELSE 0)

EachInTurn ==
    \A i \in DOMAIN parts :
        /\ parts[i] = Floor(call.nums, call.den, i) + Sign(Target) * Turns(moved, i)
        /\ Turns(moved, i) = Cardinality({m \in 0 .. (moved - 1) : Turn(Order, m) = i})

LoopInv == LoopTypeOK /\ EachInTurn /\ Conserves
=============================================================================
