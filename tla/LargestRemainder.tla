------------------------- MODULE LargestRemainder -------------------------
(***************************************************************************)
(* Largest-remainder rounding of exact shares to whole cents, as the       *)
(* receipt engines do it: allocation/engine.py _reconcile_parts, and its   *)
(* counterpart jurisdictional/engine.py reconcile_parts.                   *)
(*                                                                         *)
(* Money is a whole number of cents.  The exact shares raw[i] of the code  *)
(* are the fractions nums[i] / den over one common denominator, which may  *)
(* be negative (a pool whose net outlays are) but not zero.                *)
(***************************************************************************)
EXTENDS Integers, Sequences, Functions, FiniteSets

Abs(x) == IF x < 0 THEN -x ELSE x
Sign(x) == IF x < 0 THEN -1 ELSE 1

\* The whole cents below share i, and what the floor leaves of it (in units
\* of 1 / Abs(den)).
Floor(nums, den, i) == (Sign(den) * nums[i]) \div Abs(den)
Remainder(nums, den, i) == (Sign(den) * nums[i]) % Abs(den)
Floors(nums, den) == [i \in DOMAIN nums |-> Floor(nums, den, i)]

\* What the floors leave of the total: the cents still to give or to take.
Difference(total, nums, den) == total - SumFunction(Floors(nums, den))

\* Largest remainder first when cents are given, smallest first when they
\* are taken; the index only breaks ties.
Before(nums, den, giving, i, j) ==
    LET r(k) == IF giving THEN -Remainder(nums, den, k) ELSE Remainder(nums, den, k)
    IN  r(i) < r(j) \/ (r(i) = r(j) /\ i < j)

\* How many rows come before row i, and the rows in that order.
Place(nums, den, giving, i) ==
    Cardinality({j \in DOMAIN nums : Before(nums, den, giving, j, i)})
Sorted(nums, den, giving) ==
    [p \in DOMAIN nums |-> CHOOSE i \in DOMAIN nums : Place(nums, den, giving, i) = p - 1]

GivingOrder(nums, den) == Sorted(nums, den, TRUE)
TakingOrder(nums, den) == Sorted(nums, den, FALSE)

\* Faulty variants, for the mutation check: the residual goes to the last
\* category, or round the rows as they come.
ResidualToLast(total, nums, den) == <<Len(nums)>>
ResidualInRowOrder(total, nums, den) == [i \in DOMAIN nums |-> i]

RoundingOrder(total, nums, den) ==
    IF Difference(total, nums, den) > 0 THEN GivingOrder(nums, den) ELSE TakingOrder(nums, den)

\* Whose turn cent number n is: the order is gone round again and again.
Turn(order, n) == order[(n % Len(order)) + 1]

\* _reconcile_parts: the whole loop at once.  Part i gets (or gives) one
\* cent for every n below the difference whose turn it is.
ReconcileParts(total, nums, den) ==
    LET difference == Difference(total, nums, den)
        order      == RoundingOrder(total, nums, den)
        cents(i)   == Cardinality({n \in 0..(Abs(difference) - 1) : Turn(order, n) = i})
    IN  [i \in DOMAIN nums |-> Floor(nums, den, i) + Sign(difference) * cents(i)]

\* A faulty variant: the keys alone decide.
ReconcileKeyedByKey(total, nums, den) ==
    LET pennies == Difference(total, nums, den)
    IN  [i \in DOMAIN nums |-> Floor(nums, den, i) + (IF i <= pennies THEN 1 ELSE 0)]

\* reconcile_parts of the jurisdictional engine: one pass over the order,
\* no cent taken back; its keys break ties, here keys in index order.
ReconcileKeyed(total, nums, den) ==
    LET pennies == Difference(total, nums, den)
        order   == GivingOrder(nums, den)
        first   == {order[n] : n \in {n \in DOMAIN order : n <= pennies}}
    IN  [i \in DOMAIN nums |-> Floor(nums, den, i) + (IF i \in first THEN 1 ELSE 0)]

\* The shares add up to the total: true of the callers that split an amount
\* over weights by the weights' own sum.
Exact(total, nums, den) == SumFunction(nums) = total * den
=============================================================================
