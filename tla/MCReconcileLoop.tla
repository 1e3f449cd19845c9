-------------------------- MODULE MCReconcileLoop --------------------------
EXTENDS ReconcileLoop

Rows == UNION {[1..k -> -2..3] : k \in 1..3}

\* Amounts split over signed outlays by their own sum, as a pool, an account
\* or an award pool is, and tax amounts split by shares that do not add to one.
MCCases ==
    {[total |-> t, nums |-> [i \in DOMAIN s |-> t * s[i]], den |-> SumFunction(s)] :
        t \in {-5, 0, 1, 7}, s \in {s \in Rows : SumFunction(s) # 0}}
    \cup
    {[total |-> t, nums |-> s, den |-> d] : t \in {-3, 4}, s \in [1..3 -> {-2, 1, 3}], d \in {2, 3}}
    \cup   \* tests/unit/test_allocation_rounding.py, negative parts
    {[total |-> 1000, nums |-> <<10006, 4, -10>>, den |-> 10]}
=============================================================================
