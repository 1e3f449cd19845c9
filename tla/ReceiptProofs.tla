--------------------------- MODULE ReceiptProofs ---------------------------
(***************************************************************************)
(* What the receipts promise, for every value of the constants.  First the *)
(* rounding loop: its parts conserve the total, lie within a cent of their *)
(* shares, and do not depend on the order of the rows.  Then the federal   *)
(* receipt built on it: pools, purposes and accounts conserve the tax.     *)
(* Last the formulas that a request computes: the federal taxes, the state *)
(* and local receipts and the Census partition.                            *)
(***************************************************************************)
EXTENDS ReconcileLoop, FederalReceipt, Formulas, FiniteSetTheorems, WellFoundedInduction, TLAPS

---------------------------------------------------------------------------
(* Induction and recursion on the naturals and on finite sets.             *)

\* The natural numbers are well founded: every non-empty set of them has a least one.
LEMMA LeastNatural ==
    ASSUME NEW S \in SUBSET Nat, S # {}
    PROVE  \E m \in S : \A k \in S : m <= k
<1> DEFINE Less == {ss \in Nat \X Nat : ss[1] < ss[2]}
<1>1. IsWellFoundedOn(Less, Nat)
    BY NatLessThanWellFounded, Zenon DEF OpToRel
<1>2. PICK m \in S : \A y \in S : <<y, m>> \notin Less
    BY <1>1, WFMin
<1>3. ASSUME NEW k \in S PROVE m <= k
  <2>1. ~(k < m)
      BY <1>2
  <2> QED BY <2>1
<1> QED BY <1>3

\* Induction over 0 .. last, for a set in place of a predicate.
LEMMA Induction ==
    ASSUME NEW last \in Nat, NEW S, 0 \in S,
           \A i \in 1 .. last : i - 1 \in S => i \in S
    PROVE  0 .. last \subseteq S
<1> DEFINE D == (0 .. last) \ S
<1> SUFFICES ASSUME D # {} PROVE FALSE
    OBVIOUS
<1>0. D \in SUBSET Nat
    OBVIOUS
<1>1. PICK m \in D : \A k \in D : m <= k
  <2> HIDE DEF D
  <2> QED BY <1>0, LeastNatural
<1>2. m \in 1 .. last /\ m - 1 \in 0 .. last
    OBVIOUS
<1>3. m - 1 \in S
    BY <1>1, <1>2
<1> QED BY <1>2, <1>3

\* The functions on 0 .. last that start at first and go on by step.
StepFunction(last, T) == [(1 .. last) \X T -> T]
Recursive(last, T, first, step) ==
    {g \in [0 .. last -> T] :
        \A i \in 0 .. last : g[i] = IF i = 0 THEN first ELSE step[<<i, g[i - 1]>>]}

\* A function may be defined by recursion over 0 .. last.
LEMMA Recursion ==
    ASSUME NEW last \in Nat, NEW T, NEW first \in T, NEW step \in StepFunction(last, T)
    PROVE  Recursive(last, T, first, step) # {}
<1> USE DEF StepFunction
<1> DEFINE Defines(g, m) ==
              \A i \in 0 .. m : g[i] = IF i = 0 THEN first ELSE step[<<i, g[i - 1]>>]
           S == {m \in 0 .. last : \E g \in [0 .. m -> T] : Defines(g, m)}
<1>1. 0 \in S
  <2> DEFINE h == [i \in 0 .. 0 |-> first]
  <2>1. h \in [0 .. 0 -> T] /\ \A i \in 0 .. 0 : i = 0 /\ h[i] = first
      OBVIOUS
  <2> HIDE DEF h
  <2> QED BY <2>1
<1>2. ASSUME NEW m \in 1 .. last, m - 1 \in S
      PROVE  m \in S
  <2>1. PICK g \in [0 .. (m - 1) -> T] : Defines(g, m - 1)
      BY <1>2
  <2>2. step[<<m, g[m - 1]>>] \in T
      BY <2>1
  <2> DEFINE h == [i \in 0 .. m |-> IF i = m THEN step[<<m, g[m - 1]>>] ELSE g[i]]
  <2>3. h \in [0 .. m -> T]
      BY <2>1, <2>2
  <2>4. ASSUME NEW i \in 0 .. m
        PROVE  h[i] = IF i = 0 THEN first ELSE step[<<i, h[i - 1]>>]
    <3>1. CASE i = m
      <4>1. h[i - 1] = g[m - 1] /\ i # 0
          BY <3>1
      <4> QED BY <3>1, <4>1
    <3>2. CASE i # m
      <4>1. i \in 0 .. (m - 1) /\ h[i] = g[i] /\ (i # 0 => h[i - 1] = g[i - 1])
          BY <3>2
      <4> QED BY <2>1, <4>1
    <3> QED BY <3>1, <3>2
  <2> HIDE DEF h
  <2> QED BY <2>3, <2>4
<1> HIDE DEF S
<1>3. last \in S
    BY <1>1, <1>2, Induction
<1> QED BY <1>3 DEF S, Recursive


\* Induction over the subsets of a finite set, for a set in place of a predicate.
LEMMA SubsetInduction ==
    ASSUME NEW D, IsFiniteSet(D), NEW G, {} \in G,
           \A s \in SUBSET D : s # {} /\ (\A x \in s : s \ {x} \in G) => s \in G
    PROVE  SUBSET D \subseteq G
<1> DEFINE Bad == (SUBSET D) \ G
           Sizes == {Cardinality(s) : s \in Bad}
<1> SUFFICES ASSUME Bad # {} PROVE FALSE
    OBVIOUS
<1>1. \A s \in SUBSET D : IsFiniteSet(s) /\ Cardinality(s) \in Nat
    BY FS_Subset, FS_CardinalityType
<1>2. Sizes \in SUBSET Nat /\ Sizes # {}
    BY <1>1
<1>3. PICK m \in Sizes : \A k \in Sizes : m <= k
  <2> HIDE DEF Sizes
  <2> QED BY <1>2, LeastNatural
<1>4. PICK s \in Bad : Cardinality(s) = m
    OBVIOUS
<1>5. ASSUME NEW x \in s PROVE s \ {x} \in G
  <2>1. Cardinality(s \ {x}) = m - 1 /\ s \ {x} \in SUBSET D
      BY <1>1, <1>4, FS_RemoveElement
  <2>2. Cardinality(s \ {x}) \notin Sizes
      BY <2>1, <1>2, <1>3
  <2> QED BY <2>1, <2>2
<1> QED BY <1>4, <1>5

---------------------------------------------------------------------------
(* Sums.  SumFunction takes the elements one by one, each time the one     *)
(* that CHOOSE gives.                                                      *)

Chosen(s) == CHOOSE x \in s : TRUE

Sums(D, f, g) ==
    \A s \in SUBSET D : g[s] = IF s = {} THEN 0 ELSE f[Chosen(s)] + g[s \ {Chosen(s)}]

LEMMA PartialSumsExist ==
    ASSUME NEW D, IsFiniteSet(D), NEW f \in [D -> Int]
    PROVE  \E g \in [SUBSET D -> Int] : Sums(D, f, g)
<1> DEFINE size == Cardinality(D)
           T == [SUBSET D -> Int]
           Grown(h) == [s \in SUBSET D |->
                           IF s = {} THEN 0 ELSE f[Chosen(s)] + h[s \ {Chosen(s)}]]
           step == [x \in (1 .. size) \X T |-> Grown(x[2])]
           zero == [s \in SUBSET D |-> 0]
<1>1. size \in Nat
    BY FS_CardinalityType
<1>2. \A s \in SUBSET D : s # {} => Chosen(s) \in s
    BY DEF Chosen
<1>3. ASSUME NEW h \in T PROVE Grown(h) \in T
  <2>1. \A s \in SUBSET D : (IF s = {} THEN 0 ELSE f[Chosen(s)] + h[s \ {Chosen(s)}]) \in Int
      BY <1>2
  <2> QED BY <2>1
<1>4. zero \in T
    OBVIOUS
<1>5. step \in StepFunction(size, T) /\ \A i \in 1 .. size, h \in T : step[<<i, h>>] = Grown(h)
  <2> HIDE DEF T, Grown, size
  <2> QED BY <1>3 DEF StepFunction
<1>6. PICK H : H \in Recursive(size, T, zero, step)
  <2> HIDE DEF T, step, zero, size
  <2> QED BY <1>1, <1>4, <1>5, Recursion
<1>7. /\ H[0] = zero
      /\ \A i \in 0 .. size : H[i] \in T /\ (i # 0 => H[i] = Grown(H[i - 1]))
  <2> HIDE DEF T, Grown, step, zero, size
  <2>1. H \in [0 .. size -> T]
      BY <1>6 DEF Recursive
  <2>2. \A i \in 0 .. size : i # 0 => i \in 1 .. size /\ i - 1 \in 0 .. size
      BY <1>1
  <2>3. 0 \in 0 .. size
      BY <1>1
  <2>4. H[0] = zero
      BY <2>3, <1>6 DEF Recursive
  <2>5. ASSUME NEW i \in 0 .. size, i # 0
        PROVE  H[i] = Grown(H[i - 1])
    <3>1. H[i] = step[<<i, H[i - 1]>>]
        BY <2>5, <1>6 DEF Recursive
    <3> QED BY <2>1, <2>2, <2>5, <3>1, <1>5
  <2> QED BY <2>1, <2>4, <2>5
<1>8. ASSUME NEW s \in SUBSET D
      PROVE  /\ Cardinality(s) \in 0 .. size
             /\ s # {} => Cardinality(s) # 0 /\ Cardinality(s \ {Chosen(s)}) = Cardinality(s) - 1
  <2>1. IsFiniteSet(s) /\ Cardinality(s) <= size /\ Cardinality(s) \in Nat
      BY FS_Subset, FS_CardinalityType
  <2>2. s # {} => Cardinality(s) # 0
      BY <2>1, FS_EmptySet
  <2>3. s # {} => Cardinality(s \ {Chosen(s)}) = Cardinality(s) - 1
      BY <2>1, <1>2, FS_RemoveElement
  <2> HIDE DEF size
  <2> QED BY <2>1, <2>2, <2>3, <1>1
<1> DEFINE g == [s \in SUBSET D |-> H[Cardinality(s)][s]]
<1>9. g \in [SUBSET D -> Int]
    BY <1>7, <1>8
<1>10. ASSUME NEW s \in SUBSET D
       PROVE  g[s] = IF s = {} THEN 0 ELSE f[Chosen(s)] + g[s \ {Chosen(s)}]
  <2>1. CASE s = {}
    <3>1. H[0][{}] = 0
        BY <1>7
    <3>2. g[s] = H[0][{}]
        BY <2>1, FS_EmptySet
    <3> QED BY <2>1, <3>1, <3>2
  <2>2. CASE s # {}
    <3>1. H[Cardinality(s)] = Grown(H[Cardinality(s) - 1])
        BY <2>2, <1>7, <1>8
    <3>2. H[Cardinality(s)][s] = f[Chosen(s)] + H[Cardinality(s) - 1][s \ {Chosen(s)}]
        BY <2>2, <3>1
    <3> QED BY <2>2, <3>2, <1>8
  <2> QED BY <2>1, <2>2
<1> HIDE DEF g
<1> QED BY <1>9, <1>10 DEF Sums

\* Only one function sums that way.
LEMMA PartialSumsAgree ==
    ASSUME NEW D, IsFiniteSet(D), NEW f, NEW g, NEW h, Sums(D, f, g), Sums(D, f, h)
    PROVE  \A s \in SUBSET D : g[s] = h[s]
<1> DEFINE G == {s \in SUBSET D : g[s] = h[s]}
<1>1. {} \in G
    BY DEF Sums
<1>2. \A s \in SUBSET D : s # {} /\ (\A x \in s : s \ {x} \in G) => s \in G
  <2> SUFFICES ASSUME NEW s \in SUBSET D, s # {}, \A x \in s : s \ {x} \in G
               PROVE  s \in G
      OBVIOUS
  <2>1. Chosen(s) \in s
      BY DEF Chosen
  <2> QED BY <2>1 DEF Sums
<1>3. SUBSET D \subseteq G
  <2> HIDE DEF G
  <2> QED BY <1>1, <1>2, SubsetInduction
<1> QED BY <1>3

LEMMA SumIsPartialSum ==
    ASSUME NEW D, IsFiniteSet(D), NEW f \in [D -> Int]
    PROVE  \E g \in [SUBSET D -> Int] : Sums(D, f, g) /\ SumFunction(f) = g[D]
<1> DEFINE Iterates(iter) ==
               iter = [s \in SUBSET D |->
                   IF s = {} THEN 0
                   ELSE f[CHOOSE x \in s : TRUE] + iter[s \ {CHOOSE x \in s : TRUE}]]
           Fold == CHOOSE iter : Iterates(iter)
<1>1. SumFunction(f) = Fold[D]
    BY DEF SumFunction, SumFunctionOnSet, FoldFunctionOnSet, MapThenFoldSet
<1>2. PICK g \in [SUBSET D -> Int] : Sums(D, f, g)
    BY PartialSumsExist
<1>3. Iterates(g)
    BY <1>2 DEF Sums, Chosen
<1>4. Iterates(Fold)
  <2> HIDE DEF Iterates
  <2> QED BY <1>3
<1>5. Sums(D, f, Fold)
  <2> HIDE DEF Fold
  <2> QED BY <1>4 DEF Sums, Chosen
<1>6. Fold[D] = g[D]
  <2> HIDE DEF Fold
  <2> QED BY <1>2, <1>5, PartialSumsAgree
<1> QED BY <1>1, <1>2, <1>6

\* Any element may be taken first: addition commutes.
SumTable(D, f, g) ==
    /\ g[{}] = 0
    /\ \A s \in SUBSET D : \A x \in s : g[s] = f[x] + g[s \ {x}]

LEMMA TakeAny ==
    ASSUME NEW D, IsFiniteSet(D), NEW f \in [D -> Int], NEW g \in [SUBSET D -> Int], Sums(D, f, g)
    PROVE  SumTable(D, f, g)
<1>1. g[{}] = 0
    BY DEF Sums
<1> DEFINE G == {s \in SUBSET D : \A x \in s : g[s] = f[x] + g[s \ {x}]}
<1>2. {} \in G
    OBVIOUS
<1>3. \A s \in SUBSET D : s # {} /\ (\A x \in s : s \ {x} \in G) => s \in G
  <2> SUFFICES ASSUME NEW s \in SUBSET D, s # {}, \A x \in s : s \ {x} \in G, NEW x \in s
               PROVE  g[s] = f[x] + g[s \ {x}]
      OBVIOUS
  <2> DEFINE y == Chosen(s)
  <2>1. y \in s
      BY DEF Chosen
  <2>2. g[s] = f[y] + g[s \ {y}]
      BY DEF Sums
  <2> HIDE DEF y
  <2>3. CASE x = y
      BY <2>2, <2>3
  <2>4. CASE x # y
    <3> DEFINE u == (s \ {x}) \ {y}
    <3>1. u = (s \ {y}) \ {x} /\ u \in SUBSET D
        OBVIOUS
    <3>2. g[s \ {y}] = f[x] + g[u]
        BY <2>1, <2>4, <3>1
    <3>3. g[s \ {x}] = f[y] + g[u]
        BY <2>1, <2>4
    <3> HIDE DEF u, G
    <3>4. f[x] \in Int /\ f[y] \in Int
        BY <2>1
    <3>5. g[u] \in Int
        BY <3>1
    <3> QED BY <2>2, <3>2, <3>3, <3>4, <3>5
  <2> QED BY <2>3, <2>4
<1>4. SUBSET D \subseteq G
  <2> HIDE DEF G
  <2> QED BY <1>2, <1>3, SubsetInduction
<1> QED BY <1>1, <1>4 DEF SumTable

\* How the lemmas below use a sum: through the sums over all subsets.
LEMMA SumOverSubsets ==
    ASSUME NEW D, IsFiniteSet(D), NEW f \in [D -> Int]
    PROVE  \E g \in [SUBSET D -> Int] : SumTable(D, f, g) /\ SumFunction(f) = g[D]
BY SumIsPartialSum, TakeAny

LEMMA SumType ==
    ASSUME NEW D, IsFiniteSet(D), NEW f \in [D -> Int]
    PROVE  SumFunction(f) \in Int
<1>1. PICK g \in [SUBSET D -> Int] : SumFunction(f) = g[D]
    BY SumOverSubsets
<1>2. D \in SUBSET D
    OBVIOUS
<1> QED BY <1>1, <1>2

\* Changing one part by d changes the sum by d.
LEMMA SumOfChanged ==
    ASSUME NEW D, IsFiniteSet(D), NEW f \in [D -> Int], NEW i \in D, NEW d \in Int,
           NEW f2 \in [D -> Int], \A j \in D : f2[j] = f[j] + (IF i = j THEN d ELSE 0)
    PROVE  SumFunction(f2) = SumFunction(f) + d
<1>1. PICK g \in [SUBSET D -> Int] : SumTable(D, f, g) /\ SumFunction(f) = g[D]
    BY SumOverSubsets
<1>2. PICK h \in [SUBSET D -> Int] : SumTable(D, f2, h) /\ SumFunction(f2) = h[D]
    BY SumOverSubsets
<1> DEFINE G == {s \in SUBSET D : h[s] = g[s] + (IF i \in s THEN d ELSE 0)}
<1>3. {} \in G
    BY <1>1, <1>2 DEF SumTable
<1>4. \A s \in SUBSET D : s # {} /\ (\A x \in s : s \ {x} \in G) => s \in G
  <2> SUFFICES ASSUME NEW s \in SUBSET D, s # {}, \A x \in s : s \ {x} \in G
               PROVE  h[s] = g[s] + (IF i \in s THEN d ELSE 0)
      OBVIOUS
  <2>1. PICK x \in s : TRUE
      OBVIOUS
  <2>2. h[s] = f2[x] + h[s \ {x}] /\ g[s] = f[x] + g[s \ {x}]
      BY <1>1, <1>2 DEF SumTable
  <2>3. h[s \ {x}] = g[s \ {x}] + (IF i \in s \ {x} THEN d ELSE 0)
      OBVIOUS
  <2>4. f2[x] = f[x] + (IF i = x THEN d ELSE 0)
      OBVIOUS
  <2>5. f[x] \in Int /\ g[s \ {x}] \in Int
      OBVIOUS
  <2> HIDE DEF G
  <2> QED BY <2>2, <2>3, <2>4, <2>5
<1>5. SUBSET D \subseteq G
  <2> HIDE DEF G
  <2> QED BY <1>3, <1>4, SubsetInduction
<1> QED BY <1>1, <1>2, <1>5

\* A sum is linear.
Combines(D, f, a, q, r) == \A i \in D : f[i] = a * q[i] + r[i]

LEMMA SumIsLinear ==
    ASSUME NEW D, IsFiniteSet(D), NEW f \in [D -> Int]
    PROVE  \A q \in [D -> Int], r \in [D -> Int], a \in Int :
              Combines(D, f, a, q, r) => SumFunction(f) = a * SumFunction(q) + SumFunction(r)
<1> SUFFICES ASSUME NEW q \in [D -> Int], NEW r \in [D -> Int], NEW a \in Int,
                    Combines(D, f, a, q, r)
             PROVE  SumFunction(f) = a * SumFunction(q) + SumFunction(r)
    OBVIOUS
<1>1. PICK g \in [SUBSET D -> Int] : SumTable(D, f, g) /\ SumFunction(f) = g[D]
    BY SumOverSubsets
<1>2. PICK h \in [SUBSET D -> Int] : SumTable(D, q, h) /\ SumFunction(q) = h[D]
    BY SumOverSubsets
<1>3. PICK k \in [SUBSET D -> Int] : SumTable(D, r, k) /\ SumFunction(r) = k[D]
    BY SumOverSubsets
<1> DEFINE G == {s \in SUBSET D : g[s] = a * h[s] + k[s]}
<1>4. {} \in G
    BY <1>1, <1>2, <1>3 DEF SumTable
<1>5. \A s \in SUBSET D : s # {} /\ (\A x \in s : s \ {x} \in G) => s \in G
  <2> SUFFICES ASSUME NEW s \in SUBSET D, s # {}, \A x \in s : s \ {x} \in G
               PROVE  g[s] = a * h[s] + k[s]
      OBVIOUS
  <2>1. PICK x \in s : TRUE
      OBVIOUS
  <2>2. /\ g[s] = f[x] + g[s \ {x}] /\ h[s] = q[x] + h[s \ {x}] /\ k[s] = r[x] + k[s \ {x}]
        /\ f[x] = a * q[x] + r[x]
      BY <1>1, <1>2, <1>3 DEF SumTable, Combines
  <2>3. g[s \ {x}] = a * h[s \ {x}] + k[s \ {x}]
      OBVIOUS
  <2>4. q[x] \in Int /\ r[x] \in Int /\ h[s \ {x}] \in Int /\ k[s \ {x}] \in Int
      OBVIOUS
  <2>5. a * (q[x] + h[s \ {x}]) = a * q[x] + a * h[s \ {x}]
      BY <2>4
  <2> HIDE DEF G
  <2> QED BY <2>2, <2>3, <2>4, <2>5
<1>6. SUBSET D \subseteq G
  <2> HIDE DEF G
  <2> QED BY <1>4, <1>5, SubsetInduction
<1> QED BY <1>1, <1>2, <1>3, <1>6

\* Parts from 0 to c add up to at most c for each positive one.
LEMMA SumIsBounded ==
    ASSUME NEW D, IsFiniteSet(D), NEW f \in [D -> Int], NEW c \in Nat,
           \A i \in D : 0 <= f[i] /\ f[i] <= c
    PROVE  /\ 0 <= SumFunction(f)
           /\ SumFunction(f) <= c * Cardinality({i \in D : f[i] > 0})
<1>1. PICK g \in [SUBSET D -> Int] : SumTable(D, f, g) /\ SumFunction(f) = g[D]
    BY SumOverSubsets
<1> DEFINE Positive(s) == {i \in s : f[i] > 0}
           G == {s \in SUBSET D : 0 <= g[s] /\ g[s] <= c * Cardinality(Positive(s))}
<1>2. {} \in G
  <2>1. Positive({}) = {}
      OBVIOUS
  <2> QED BY <1>1, <2>1, FS_EmptySet DEF SumTable
<1>3. \A s \in SUBSET D : s # {} /\ (\A x \in s : s \ {x} \in G) => s \in G
  <2> SUFFICES ASSUME NEW s \in SUBSET D, s # {}, \A x \in s : s \ {x} \in G
               PROVE  0 <= g[s] /\ g[s] <= c * Cardinality(Positive(s))
      OBVIOUS
  <2>1. PICK x \in s : TRUE
      OBVIOUS
  <2>2. /\ g[s] = f[x] + g[s \ {x}] /\ f[x] \in Int /\ g[s \ {x}] \in Int
        /\ 0 <= f[x] /\ f[x] <= c
      BY <1>1 DEF SumTable
  <2>3. 0 <= g[s \ {x}] /\ g[s \ {x}] <= c * Cardinality(Positive(s \ {x}))
      OBVIOUS
  <2>4. Positive(s) \in SUBSET D /\ Positive(s \ {x}) = Positive(s) \ {x}
      OBVIOUS
  <2>5. IsFiniteSet(Positive(s)) /\ Cardinality(Positive(s)) \in Nat
      BY <2>4, FS_Subset, FS_CardinalityType
  <2>6. x \in Positive(s) <=> f[x] > 0
      OBVIOUS
  <2> HIDE DEF Positive, G
  <2>7. Cardinality(Positive(s \ {x})) =
           IF f[x] > 0 THEN Cardinality(Positive(s)) - 1 ELSE Cardinality(Positive(s))
    <3>1. Cardinality(Positive(s) \ {x}) =
             IF x \in Positive(s) THEN Cardinality(Positive(s)) - 1 ELSE Cardinality(Positive(s))
        BY <2>5, FS_RemoveElement
    <3> QED BY <2>4, <2>6, <3>1
  <2>8. c * (Cardinality(Positive(s)) - 1) = c * Cardinality(Positive(s)) - c
      BY <2>5
  <2> QED BY <2>2, <2>3, <2>5, <2>7, <2>8
<1>4. SUBSET D \subseteq G
  <2> HIDE DEF G
  <2> QED BY <1>2, <1>3, SubsetInduction
<1> QED BY <1>1, <1>4

\* The sums over all subsets are the sums of the restrictions to them.
SumsOver(D, f, g) == \A s \in SUBSET D : SumFunction(Restrict(f, s)) = g[s]

LEMMA SumsOfRestrictions ==
    ASSUME NEW D, IsFiniteSet(D), NEW f \in [D -> Int]
    PROVE  \E g \in [SUBSET D -> Int] : SumTable(D, f, g) /\ SumsOver(D, f, g)
<1>1. PICK g \in [SUBSET D -> Int] : SumTable(D, f, g)
    BY SumOverSubsets
<1>2. ASSUME NEW E \in SUBSET D
      PROVE  SumFunction(Restrict(f, E)) = g[E]
  <2> DEFINE r == Restrict(f, E)
  <2>1. IsFiniteSet(E) /\ r \in [E -> Int] /\ \A x \in E : r[x] = f[x]
      BY FS_Subset DEF Restrict
  <2> HIDE DEF r
  <2>2. PICK h \in [SUBSET E -> Int] : SumTable(E, r, h) /\ SumFunction(r) = h[E]
      BY <2>1, SumOverSubsets
  <2> DEFINE G == {s \in SUBSET E : h[s] = g[s]}
  <2>3. {} \in G
      BY <1>1, <2>2 DEF SumTable
  <2>4. \A s \in SUBSET E : s # {} /\ (\A x \in s : s \ {x} \in G) => s \in G
    <3> SUFFICES ASSUME NEW s \in SUBSET E, s # {}, \A x \in s : s \ {x} \in G
                 PROVE  h[s] = g[s]
        OBVIOUS
    <3>1. PICK x \in s : TRUE
        OBVIOUS
    <3>2. h[s] = r[x] + h[s \ {x}] /\ g[s] = f[x] + g[s \ {x}]
        BY <1>1, <2>2 DEF SumTable
    <3>3. h[s \ {x}] = g[s \ {x}] /\ r[x] = f[x]
        BY <2>1
    <3> QED BY <3>2, <3>3
  <2>5. SUBSET E \subseteq G
    <3> HIDE DEF G
    <3> QED BY <2>1, <2>3, <2>4, SubsetInduction
  <2> QED BY <2>2, <2>5 DEF r
<1> QED BY <1>1, <1>2 DEF SumsOver

LEMMA RestrictionFacts ==
    ASSUME NEW D, IsFiniteSet(D), NEW f \in [D -> Int], NEW E \in SUBSET D
    PROVE  /\ IsFiniteSet(E) /\ Restrict(f, E) \in [E -> Int]
           /\ \A x \in E : Restrict(f, E)[x] = f[x]
           /\ SumFunction(Restrict(f, E)) \in Int
           /\ Restrict(f, D) = f /\ SumFunction(f) \in Int
<1>1. IsFiniteSet(E) /\ Restrict(f, E) \in [E -> Int] /\ \A x \in E : Restrict(f, E)[x] = f[x]
    BY FS_Subset DEF Restrict
<1>2. Restrict(f, D) = f
    BY DEF Restrict
<1> QED BY <1>1, <1>2, SumType

LEMMA SumOfNone ==
    ASSUME NEW f \in [{} -> Int]
    PROVE  SumFunction(f) = 0
<1>1. PICK g \in [SUBSET {} -> Int] : SumTable({}, f, g) /\ SumFunction(f) = g[{}]
    BY SumOverSubsets, FS_EmptySet
<1> QED BY <1>1 DEF SumTable

\* One element taken out of a sum.
LEMMA SumTakeOut ==
    ASSUME NEW D, IsFiniteSet(D), NEW f \in [D -> Int], NEW x \in D
    PROVE  SumFunction(f) = f[x] + SumFunction(Restrict(f, D \ {x}))
<1>1. PICK g \in [SUBSET D -> Int] : SumTable(D, f, g) /\ SumsOver(D, f, g)
    BY SumsOfRestrictions
<1>2. g[D] = f[x] + g[D \ {x}]
    BY <1>1 DEF SumTable
<1>3. SumFunction(Restrict(f, D)) = g[D] /\ SumFunction(Restrict(f, D \ {x})) = g[D \ {x}]
    BY <1>1 DEF SumsOver
<1> QED BY <1>2, <1>3, RestrictionFacts

\* A sum over two parts of the domain.
LEMMA SumSplit ==
    ASSUME NEW D, IsFiniteSet(D), NEW f \in [D -> Int], NEW E \in SUBSET D
    PROVE  SumFunction(f) = SumFunction(Restrict(f, E)) + SumFunction(Restrict(f, D \ E))
<1>1. PICK g \in [SUBSET D -> Int] : SumTable(D, f, g) /\ SumsOver(D, f, g)
    BY SumsOfRestrictions
<1> DEFINE G == {s \in SUBSET D : g[s] = g[s \cap E] + g[s \ E]}
<1>2. {} \in G
  <2>1. {} \cap E = {} /\ {} \ E = {} /\ g[{}] = 0
      BY <1>1 DEF SumTable
  <2> QED BY <2>1
<1>3. \A s \in SUBSET D : s # {} /\ (\A x \in s : s \ {x} \in G) => s \in G
  <2> SUFFICES ASSUME NEW s \in SUBSET D, s # {}, \A x \in s : s \ {x} \in G
               PROVE  g[s] = g[s \cap E] + g[s \ E]
      OBVIOUS
  <2>1. PICK x \in s : TRUE
      OBVIOUS
  <2> DEFINE u == s \ {x}
             sE == s \cap E
             sN == s \ E
  <2>2. g[s] = f[x] + g[u] /\ f[x] \in Int /\ u \in SUBSET D
      BY <1>1 DEF SumTable
  <2> DEFINE uE == u \cap E
             uN == u \ E
  <2>3. g[u] = g[uE] + g[uN] /\ g[uE] \in Int /\ g[uN] \in Int
      OBVIOUS
  <2>4. CASE x \in E
    <3>1. uE = sE \ {x} /\ uN = sN /\ x \in sE /\ sE \in SUBSET D
        BY <2>4
    <3> HIDE DEF u, uE, uN, sE, sN, G
    <3>2. g[sE] = f[x] + g[sE \ {x}]
        BY <1>1, <3>1 DEF SumTable
    <3>3. g[s] = g[sE] + g[sN]
        BY <2>2, <2>3, <3>1, <3>2
    <3> QED BY <3>3 DEF sE, sN
  <2>5. CASE x \notin E
    <3>1. uN = sN \ {x} /\ uE = sE /\ x \in sN /\ sN \in SUBSET D
        BY <2>5
    <3> HIDE DEF u, uE, uN, sE, sN, G
    <3>2. g[sN] = f[x] + g[sN \ {x}]
        BY <1>1, <3>1 DEF SumTable
    <3>3. g[s] = g[sE] + g[sN]
        BY <2>2, <2>3, <3>1, <3>2
    <3> QED BY <3>3 DEF sE, sN
  <2> QED BY <2>4, <2>5
<1>4. SUBSET D \subseteq G
  <2> HIDE DEF G
  <2> QED BY <1>2, <1>3, SubsetInduction
<1>5. g[D] = g[E] + g[D \ E]
  <2>1. D \in G /\ D \cap E = E
      BY <1>4
  <2> QED BY <2>1
<1>6. /\ SumFunction(Restrict(f, D)) = g[D] /\ SumFunction(Restrict(f, E)) = g[E]
      /\ SumFunction(Restrict(f, D \ E)) = g[D \ E]
    BY <1>1 DEF SumsOver
<1> QED BY <1>5, <1>6, RestrictionFacts

LEMMA SumOfZeros ==
    ASSUME NEW D, IsFiniteSet(D), NEW f \in [D -> Int], \A i \in D : f[i] = 0
    PROVE  SumFunction(f) = 0
<1>1. /\ 0 <= SumFunction(f)
      /\ SumFunction(f) <= 0 * Cardinality({i \in D : f[i] > 0})
    BY SumIsBounded
<1>2. {i \in D : f[i] > 0} = {} 
    OBVIOUS
<1>3. Cardinality({i \in D : f[i] > 0}) = 0
    BY <1>2, FS_EmptySet
<1>4. SumFunction(f) \in Int
    BY SumType
<1> QED BY <1>1, <1>3, <1>4

\* Zeros may be left out.
LEMMA SumOfSupport ==
    ASSUME NEW D, IsFiniteSet(D), NEW f \in [D -> Int], NEW E \in SUBSET D,
           \A i \in D \ E : f[i] = 0
    PROVE  SumFunction(f) = SumFunction(Restrict(f, E))
<1>1. /\ IsFiniteSet(D \ E) /\ Restrict(f, D \ E) \in [D \ E -> Int]
      /\ \A x \in D \ E : Restrict(f, D \ E)[x] = 0
    BY RestrictionFacts
<1>2. SumFunction(Restrict(f, D \ E)) = 0
    BY <1>1, SumOfZeros
<1>3. SumFunction(Restrict(f, E)) \in Int
    BY RestrictionFacts
<1> QED BY <1>2, <1>3, SumSplit

LEMMA SumOfPoint ==
    ASSUME NEW D, IsFiniteSet(D), NEW i \in D, NEW v \in Int,
           NEW f \in [D -> Int], \A x \in D : f[x] = IF x = i THEN v ELSE 0
    PROVE  SumFunction(f) = v
<1>1. /\ IsFiniteSet(D \ {i}) /\ Restrict(f, D \ {i}) \in [D \ {i} -> Int]
      /\ \A x \in D \ {i} : Restrict(f, D \ {i})[x] = 0
    BY RestrictionFacts
<1>2. SumFunction(Restrict(f, D \ {i})) = 0
    BY <1>1, SumOfZeros
<1> QED BY <1>2, SumTakeOut

\* Nor does a sum depend on what its parts are called, or on their order.
Reorders(D, f2, f, p) == \A i \in D : f2[i] = f[p[i]]

LEMMA SumReindexed ==
    ASSUME NEW D, IsFiniteSet(D), NEW E, IsFiniteSet(E), NEW f \in [E -> Int],
           NEW p \in Bijection(D, E), NEW f2 \in [D -> Int], Reorders(D, f2, f, p)
    PROVE  SumFunction(f2) = SumFunction(f)
<1>0. /\ \A i \in D : p[i] \in E
      /\ \A i, j \in D : p[i] = p[j] => i = j
      /\ \A j \in E : \E i \in D : p[i] = j
    BY DEF Bijection, Injection, Surjection, IsInjective
<1>1. PICK g \in [SUBSET E -> Int] : SumTable(E, f, g) /\ SumFunction(f) = g[E]
    BY SumOverSubsets
<1>2. PICK h \in [SUBSET D -> Int] : SumTable(D, f2, h) /\ SumFunction(f2) = h[D]
    BY SumOverSubsets
<1> DEFINE Image(s) == {p[i] : i \in s}
           G == {s \in SUBSET D : h[s] = g[Image(s)]}
<1>3. {} \in G
  <2>1. Image({}) = {}
      OBVIOUS
  <2> QED BY <2>1, <1>1, <1>2 DEF SumTable
<1>4. \A s \in SUBSET D : s # {} /\ (\A x \in s : s \ {x} \in G) => s \in G
  <2> SUFFICES ASSUME NEW s \in SUBSET D, s # {}, \A x \in s : s \ {x} \in G
               PROVE  h[s] = g[Image(s)]
      OBVIOUS
  <2>1. PICK x \in s : TRUE
      OBVIOUS
  <2>2. Image(s) \in SUBSET E /\ p[x] \in Image(s) /\ Image(s \ {x}) = Image(s) \ {p[x]}
      BY <1>0
  <2>3. h[s \ {x}] = g[Image(s \ {x})]
      OBVIOUS
  <2> HIDE DEF Image, G
  <2>4. h[s] = f2[x] + h[s \ {x}] /\ g[Image(s)] = f[p[x]] + g[Image(s) \ {p[x]}]
      BY <1>1, <1>2, <2>2 DEF SumTable
  <2>5. f2[x] = f[p[x]]
      BY DEF Reorders
  <2> QED BY <2>2, <2>3, <2>4, <2>5
<1>5. SUBSET D \subseteq G
  <2> HIDE DEF G
  <2> QED BY <1>3, <1>4, SubsetInduction
<1>6. Image(D) = E
    BY <1>0
<1> QED BY <1>1, <1>2, <1>5, <1>6

\* A table may be summed by rows or by columns.
RowSum(h, p, R) == SumFunction([r \in R |-> h[<<p, r>>]])
ColumnSum(h, r, P) == SumFunction([p \in P |-> h[<<p, r>>]])
RowSums(h, P, R) == [p \in P |-> RowSum(h, p, R)]
ColumnSums(h, P, R) == [r \in R |-> ColumnSum(h, r, P)]

LEMMA TableTypes ==
    ASSUME NEW P, NEW R, IsFiniteSet(P), IsFiniteSet(R), NEW h \in [P \X R -> Int]
    PROVE  /\ \A s \in SUBSET P : IsFiniteSet(s) /\ ColumnSums(h, s, R) \in [R -> Int]
           /\ RowSums(h, P, R) \in [P -> Int]
<1>1. ASSUME NEW s \in SUBSET P, NEW r \in R
      PROVE  IsFiniteSet(s) /\ ColumnSum(h, r, s) \in Int
  <2> DEFINE f == [p \in s |-> h[<<p, r>>]]
  <2>1. IsFiniteSet(s) /\ f \in [s -> Int]
      BY FS_Subset
  <2> HIDE DEF f
  <2>2. SumFunction(f) \in Int
      BY <2>1, SumType
  <2> QED BY <2>1, <2>2 DEF f, ColumnSum
<1>2. ASSUME NEW p \in P
      PROVE  RowSum(h, p, R) \in Int
  <2> DEFINE f == [r \in R |-> h[<<p, r>>]]
  <2>1. f \in [R -> Int]
      OBVIOUS
  <2> HIDE DEF f
  <2>2. SumFunction(f) \in Int
      BY <2>1, SumType
  <2> QED BY <2>2 DEF f, RowSum
<1>3. \A s \in SUBSET P : IsFiniteSet(s)
    BY FS_Subset
<1> QED BY <1>1, <1>2, <1>3 DEF ColumnSums, RowSums

LEMMA ColumnStep ==
    ASSUME NEW P, NEW R, IsFiniteSet(P), IsFiniteSet(R), NEW h \in [P \X R -> Int],
           NEW s \in SUBSET P, NEW x \in s
    PROVE  \A r \in R : ColumnSum(h, r, s) = h[<<x, r>>] + ColumnSum(h, r, s \ {x})
<1> SUFFICES ASSUME NEW r \in R
             PROVE  ColumnSum(h, r, s) = h[<<x, r>>] + ColumnSum(h, r, s \ {x})
    OBVIOUS
<1> DEFINE f == [p \in s |-> h[<<p, r>>]]
<1>1. IsFiniteSet(s) /\ f \in [s -> Int] /\ f[x] = h[<<x, r>>]
    BY FS_Subset
<1>2. Restrict(f, s \ {x}) = [p \in s \ {x} |-> h[<<p, r>>]]
    BY DEF Restrict
<1> HIDE DEF f
<1>3. SumFunction(f) = f[x] + SumFunction(Restrict(f, s \ {x}))
    BY <1>1, SumTakeOut
<1> QED BY <1>1, <1>2, <1>3 DEF ColumnSum, f

LEMMA SumExchanged ==
    ASSUME NEW P, NEW R, IsFiniteSet(P), IsFiniteSet(R), NEW h \in [P \X R -> Int]
    PROVE  SumFunction(RowSums(h, P, R)) = SumFunction(ColumnSums(h, P, R))
<1>1. PICK g \in [SUBSET P -> Int] :
          SumTable(P, RowSums(h, P, R), g) /\ SumFunction(RowSums(h, P, R)) = g[P]
    BY TableTypes, SumOverSubsets
<1> DEFINE Columns(s) == SumFunction(ColumnSums(h, s, R))
           G == {s \in SUBSET P : g[s] = Columns(s)}
<1>2. \A s \in SUBSET P : ColumnSums(h, s, R) \in [R -> Int]
    BY TableTypes
<1>3. {} \in G
  <2>1. \A r \in R : ColumnSums(h, {}, R)[r] = 0
    <3> SUFFICES ASSUME NEW r \in R PROVE ColumnSum(h, r, {}) = 0
        BY DEF ColumnSums
    <3>1. [p \in {} |-> h[<<p, r>>]] \in [{} -> Int]
        OBVIOUS
    <3> QED BY <3>1, SumOfNone DEF ColumnSum
  <2>2. {} \in SUBSET P
      OBVIOUS
  <2>3. ColumnSums(h, {}, R) \in [R -> Int]
      BY <1>2, <2>2
  <2>4. Columns({}) = 0
      BY <2>1, <2>3, SumOfZeros
  <2> QED BY <2>4, <1>1 DEF SumTable
<1>4. \A s \in SUBSET P : s # {} /\ (\A x \in s : s \ {x} \in G) => s \in G
  <2> SUFFICES ASSUME NEW s \in SUBSET P, s # {}, \A x \in s : s \ {x} \in G
               PROVE  g[s] = Columns(s)
      OBVIOUS
  <2>1. PICK x \in s : TRUE
      OBVIOUS
  <2> DEFINE u == s \ {x}
             q == [r \in R |-> h[<<x, r>>]]
             f == ColumnSums(h, s, R)
             f2 == ColumnSums(h, u, R)
  <2>2. g[s] = RowSum(h, x, R) + g[u]
      BY <1>1 DEF SumTable, RowSums
  <2>3. g[u] = Columns(u) /\ u \in SUBSET P
      OBVIOUS
  <2>4. f \in [R -> Int] /\ f2 \in [R -> Int] /\ q \in [R -> Int] /\ 1 \in Int
      BY <1>2
  <2>5. \A r \in R : ColumnSum(h, r, s) = h[<<x, r>>] + ColumnSum(h, r, u)
      BY ColumnStep
  <2>6. SumFunction(q) = RowSum(h, x, R)
      BY DEF RowSum
  <2>7. Combines(R, f, 1, q, f2)
    <3> HIDE DEF u
    <3>1. \A r \in R : f[r] = ColumnSum(h, r, s) /\ f2[r] = ColumnSum(h, r, u) /\ q[r] = h[<<x, r>>]
        BY DEF ColumnSums
    <3> HIDE DEF f, f2, q
    <3>2. \A r \in R : q[r] \in Int
        BY <2>4
    <3>3. \A r \in R : f[r] = q[r] + f2[r]
        BY <3>1, <2>5, Zenon
    <3>4. \A r \in R : 1 * q[r] = q[r]
        BY <3>2
    <3> QED BY <3>3, <3>4 DEF Combines
  <2> HIDE DEF f, f2, q, G, u
  <2>8. SumFunction(f) = 1 * SumFunction(q) + SumFunction(f2)
      BY <2>4, <2>7, SumIsLinear
  <2>9. SumFunction(q) \in Int /\ SumFunction(f2) \in Int
      BY <2>4, SumType
  <2>10. Columns(s) = SumFunction(f) /\ Columns(u) = SumFunction(f2)
      BY DEF f, f2
  <2> HIDE DEF Columns
  <2> QED BY <2>2, <2>3, <2>6, <2>8, <2>9, <2>10
<1>5. SUBSET P \subseteq G
  <2> HIDE DEF G
  <2> QED BY <1>3, <1>4, SubsetInduction
<1> QED BY <1>1, <1>5

\* A sum may be taken group by group.
Class(D, key, k) == {x \in D : key[x] = k}
ClassSums(D, f, key, K) == [k \in K |-> SumFunction(Restrict(f, Class(D, key, k)))]

LEMMA SumByKey ==
    ASSUME NEW D, IsFiniteSet(D), NEW f \in [D -> Int], NEW K, IsFiniteSet(K), NEW key \in [D -> K]
    PROVE  SumFunction(f) = SumFunction(ClassSums(D, f, key, K))
<1> DEFINE h == [x \in D \X K |-> IF key[x[1]] = x[2] THEN f[x[1]] ELSE 0]
<1>1. h \in [D \X K -> Int]
    OBVIOUS
<1>2. \A x \in D, k \in K : h[<<x, k>>] = IF key[x] = k THEN f[x] ELSE 0
    OBVIOUS
<1> HIDE DEF h
<1>3. SumFunction(RowSums(h, D, K)) = SumFunction(ColumnSums(h, D, K))
    BY <1>1, SumExchanged
<1>4. ASSUME NEW x \in D PROVE RowSum(h, x, K) = f[x]
  <2> DEFINE q == [k \in K |-> h[<<x, k>>]]
             y == key[x]
             v == f[x]
  <2>1. /\ q \in [K -> Int] /\ y \in K /\ v \in Int
        /\ \A k \in K : q[k] = IF k = y THEN v ELSE 0
      BY <1>1, <1>2
  <2> HIDE DEF q, y, v
  <2>2. SumFunction(q) = v
      BY <2>1, SumOfPoint
  <2> QED BY <2>2 DEF q, v, RowSum
<1>5. RowSums(h, D, K) = f
    BY <1>4 DEF RowSums
<1>6. ASSUME NEW k \in K
      PROVE  ColumnSum(h, k, D) = SumFunction(Restrict(f, Class(D, key, k)))
  <2> DEFINE q == [x \in D |-> h[<<x, k>>]]
             C == Class(D, key, k)
  <2>1. /\ q \in [D -> Int] /\ C \in SUBSET D
        /\ \A x \in D \ C : q[x] = 0
        /\ \A x \in C : q[x] = f[x]
      BY <1>1, <1>2 DEF Class
  <2>2. ColumnSum(h, k, D) = SumFunction(q)
      BY DEF ColumnSum
  <2> HIDE DEF q, C
  <2>3. Restrict(q, C) = Restrict(f, C)
      BY <2>1 DEF Restrict
  <2>4. SumFunction(q) = SumFunction(Restrict(q, C))
      BY <2>1, SumOfSupport
  <2> QED BY <2>2, <2>3, <2>4 DEF C
<1>7. ColumnSums(h, D, K) = ClassSums(D, f, key, K)
    BY <1>6 DEF ColumnSums, ClassSums
<1> QED BY <1>3, <1>5, <1>7

---------------------------------------------------------------------------
(* Floors, remainders and the rounding order.                              *)

LEMMA FloorAndRemainder ==
    ASSUME NEW nums \in Seq(Int), NEW den \in Int \ {0}, NEW i \in DOMAIN nums
    PROVE  /\ nums[i] \in Int /\ Floor(nums, den, i) \in Int
           /\ Remainder(nums, den, i) \in 0 .. (Abs(den) - 1)
           /\ Sign(den) * nums[i] = Abs(den) * Floor(nums, den, i) + Remainder(nums, den, i)
<1>1. nums[i] \in Int /\ Abs(den) \in Nat \ {0} /\ Sign(den) \in {-1, 1}
    BY DEF Abs, Sign
<1>2. Sign(den) * nums[i] \in Int
    BY <1>1
<1>3. \A a \in Int, b \in Nat \ {0} :
         a \div b \in Int /\ a % b \in 0 .. (b - 1) /\ a = b * (a \div b) + (a % b)
    OBVIOUS
<1> QED BY <1>1, <1>2, <1>3 DEF Floor, Remainder

\* The rounding order is a strict total order of the rows.
LEMMA BeforeIsTotal ==
    ASSUME NEW nums \in Seq(Int), NEW den \in Int \ {0}, NEW giving \in BOOLEAN
    PROVE  /\ \A i \in DOMAIN nums : ~Before(nums, den, giving, i, i)
           /\ \A i, j \in DOMAIN nums :
                 i # j => Before(nums, den, giving, i, j) \/ Before(nums, den, giving, j, i)
           /\ \A i, j, k \in DOMAIN nums :
                 Before(nums, den, giving, i, j) /\ Before(nums, den, giving, j, k)
                     => Before(nums, den, giving, i, k)
<1>1. \A i \in DOMAIN nums : i \in Int /\ Remainder(nums, den, i) \in Int
  <2>1. Abs(den) \in Int
      BY DEF Abs
  <2>2. \A i \in DOMAIN nums : i \in Int
      OBVIOUS
  <2>3. \A i \in DOMAIN nums : Remainder(nums, den, i) \in 0 .. (Abs(den) - 1)
      BY FloorAndRemainder
  <2> QED BY <2>1, <2>2, <2>3
<1> DEFINE r(k) == IF giving THEN -Remainder(nums, den, k) ELSE Remainder(nums, den, k)
<1>2. \A i \in DOMAIN nums : i \in Int /\ r(i) \in Int
    BY <1>1
<1>3. \A i, j : Before(nums, den, giving, i, j) <=> (r(i) < r(j) \/ (r(i) = r(j) /\ i < j))
    BY DEF Before
<1> HIDE DEF r
<1> QED BY <1>2, <1>3

LEMMA RowsAreFinite ==
    ASSUME NEW nums \in Seq(Int)
    PROVE  /\ DOMAIN nums = 1 .. Len(nums) /\ Len(nums) \in Nat
           /\ IsFiniteSet(DOMAIN nums) /\ Cardinality(DOMAIN nums) = Len(nums)
<1>1. DOMAIN nums = 1 .. Len(nums) /\ Len(nums) \in Nat
    OBVIOUS
<1> QED BY <1>1, FS_Interval

\* Places are numbered from 0 without a gap: each one has its row.
LEMMA PlaceOfRow ==
    ASSUME NEW nums \in Seq(Int), NEW den \in Int \ {0}, NEW giving \in BOOLEAN
    PROVE  /\ \A i \in DOMAIN nums : Place(nums, den, giving, i) \in 0 .. (Len(nums) - 1)
           /\ \A i, j \in DOMAIN nums :
                 Before(nums, den, giving, i, j)
                     <=> Place(nums, den, giving, i) < Place(nums, den, giving, j)
           /\ \A p \in 0 .. (Len(nums) - 1) :
                 \E i \in DOMAIN nums : Place(nums, den, giving, i) = p
<1> DEFINE D == DOMAIN nums
           B(i, j) == Before(nums, den, giving, i, j)
           Earlier(i) == {j \in D : B(j, i)}
           size(i) == Cardinality(Earlier(i))
<1>1. /\ IsFiniteSet(D) /\ Cardinality(D) = Len(nums) /\ Len(nums) \in Nat
      /\ D = 1 .. Len(nums)
    BY RowsAreFinite
<1>2. /\ \A i \in D : ~B(i, i)
      /\ \A i, j \in D : i # j => B(i, j) \/ B(j, i)
      /\ \A i, j, k \in D : B(i, j) /\ B(j, k) => B(i, k)
    BY BeforeIsTotal
<1>3. \A i : Place(nums, den, giving, i) = size(i)
    BY DEF Place
<1> HIDE DEF D, B
<1>4. ASSUME NEW i \in D
      PROVE  IsFiniteSet(Earlier(i)) /\ size(i) \in 0 .. (Len(nums) - 1)
  <2>1. Earlier(i) \in SUBSET (D \ {i})
      BY <1>2
  <2> HIDE DEF Earlier
  <2>2. IsFiniteSet(D \ {i})
      BY <1>1, FS_RemoveElement
  <2>3. Cardinality(D \ {i}) = Len(nums) - 1
    <3>1. Cardinality(D \ {i}) = IF i \in D THEN Cardinality(D) - 1 ELSE Cardinality(D)
        BY <1>1, FS_RemoveElement
    <3> QED BY <3>1, <1>1
  <2>4. IsFiniteSet(Earlier(i)) /\ size(i) <= Len(nums) - 1
      BY <2>1, <2>2, <2>3, FS_Subset
  <2>5. size(i) \in Nat
      BY <2>4, FS_CardinalityType
  <2> HIDE DEF size
  <2> QED BY <2>4, <2>5, <1>1
<1>5. ASSUME NEW i \in D, NEW j \in D, B(i, j)
      PROVE  size(i) < size(j)
  <2>1. Earlier(i) \in SUBSET Earlier(j) /\ i \in Earlier(j) /\ i \notin Earlier(i)
      BY <1>2, <1>5
  <2> HIDE DEF Earlier
  <2>2. IsFiniteSet(Earlier(j))
      BY <1>4
  <2>3. size(i) <= size(j) /\ (size(i) = size(j) => Earlier(i) = Earlier(j))
      BY <2>1, <2>2, FS_Subset
  <2> HIDE DEF size
  <2>4. size(i) \in Nat /\ size(j) \in Nat
      BY <1>4
  <2> QED BY <2>1, <2>3, <2>4
<1> HIDE DEF size, Earlier
<1>6. \A i, j \in D : B(i, j) <=> size(i) < size(j)
  <2>1. \A i \in D : size(i) \in Int
      BY <1>4
  <2> QED BY <2>1, <1>2, <1>5
<1>7. ASSUME NEW p \in 0 .. (Len(nums) - 1)
      PROVE  \E i \in D : size(i) = p
  <2> DEFINE P == 0 .. (Len(nums) - 1)
             place == [i \in D |-> size(i)]
  <2>1. place \in [D -> P]
      BY <1>4
  <2>2. \A i, j \in D : place[i] = place[j] => i = j
    <3>1. \A i \in D : size(i) \in Int
        BY <1>4
    <3> QED BY <3>1, <1>2, <1>5
  <2>3. IsFiniteSet(P) /\ Cardinality(P) = Len(nums)
    <3> DEFINE last == Len(nums) - 1
    <3>1. 0 \in Int /\ last \in Int /\ ~(0 > last) /\ last - 0 + 1 = Len(nums)
        BY <1>1
    <3> HIDE DEF last
    <3>2. IsFiniteSet(0 .. last) /\ Cardinality(0 .. last) = last - 0 + 1
        BY <3>1, FS_Interval
    <3> QED BY <3>1, <3>2 DEF last
  <2>4. place \in Injection(D, P)
    <3> HIDE DEF place, P
    <3> QED BY <2>1, <2>2 DEF Injection, IsInjective
  <2>5. place \in Surjection(D, P)
    <3> HIDE DEF place, P
    <3> QED BY <2>3, <2>4, <1>1, FS_Injection
  <2>6. \E i \in D : place[i] = p
    <3> HIDE DEF place
    <3> QED BY <2>5 DEF Surjection
  <2> QED BY <2>6
<1> QED BY <1>3, <1>4, <1>6, <1>7 DEF D, B

\* Position p holds the row with place p - 1.
ByPlace(order, nums, den, giving) ==
    \A p, i \in DOMAIN nums : order[p] = i <=> Place(nums, den, giving, i) = p - 1

LEMMA SortedByPlace ==
    ASSUME NEW nums \in Seq(Int), NEW den \in Int \ {0}, NEW giving \in BOOLEAN
    PROVE  /\ Sorted(nums, den, giving) \in [DOMAIN nums -> DOMAIN nums]
           /\ Len(Sorted(nums, den, giving)) = Len(nums)
           /\ ByPlace(Sorted(nums, den, giving), nums, den, giving)
<1> DEFINE D == DOMAIN nums
           P(i) == Place(nums, den, giving, i)
           order == Sorted(nums, den, giving)
<1>1. D = 1 .. Len(nums) /\ Len(nums) \in Nat
    BY RowsAreFinite
<1>2. \A p \in D : \E i \in D : P(i) = p - 1
  <2>1. \A p \in D : p - 1 \in 0 .. (Len(nums) - 1)
      BY <1>1
  <2>2. \A p \in 0 .. (Len(nums) - 1) : \E i \in D : P(i) = p
      BY PlaceOfRow
  <2> HIDE DEF P
  <2> QED BY <2>1, <2>2
<1>3. \A i, j \in D : P(i) = P(j) => i = j
  <2>1. \A i, j \in D : i # j => P(i) < P(j) \/ P(j) < P(i)
      BY BeforeIsTotal, PlaceOfRow
  <2>2. \A i \in D : P(i) \in Int
      BY PlaceOfRow
  <2> QED BY <2>1, <2>2
<1>4. order = [p \in D |-> CHOOSE i \in D : P(i) = p - 1]
    BY DEF Sorted
<1> HIDE DEF D, P, order
<1>5. order \in [D -> D] /\ \A p \in D : P(order[p]) = p - 1
    BY <1>2, <1>4
<1>6. Len(order) = Len(nums)
    BY <1>1, <1>5
<1>7. \A p, i \in D : order[p] = i <=> P(i) = p - 1
    BY <1>3, <1>5
<1> QED BY <1>5, <1>6, <1>7 DEF D, P, order, ByPlace
---------------------------------------------------------------------------
(* Whose turn it is.                                                       *)

LEMMA QuotientIsUnique ==
    ASSUME NEW b \in Nat \ {0}, NEW q \in Int, NEW r \in 0 .. (b - 1), NEW a \in Int, a = b * q + r
    PROVE  a \div b = q /\ a % b = r
<1> DEFINE q2 == a \div b
           r2 == a % b
<1>1. q2 \in Int /\ r2 \in 0 .. (b - 1) /\ a = b * q2 + r2
    OBVIOUS
<1> HIDE DEF q2, r2
<1>2. b * q \in Int /\ b * q2 \in Int
    BY <1>1
<1>3. ~(q2 >= q + 1)
  <2> SUFFICES ASSUME q2 >= q + 1 PROVE FALSE
      OBVIOUS
  <2>1. b * q2 >= b * (q + 1) /\ b * (q + 1) = b * q + b
      BY <1>1
  <2> QED BY <2>1, <1>1, <1>2
<1>4. ~(q >= q2 + 1)
  <2> SUFFICES ASSUME q >= q2 + 1 PROVE FALSE
      OBVIOUS
  <2>1. b * q >= b * (q2 + 1) /\ b * (q2 + 1) = b * q2 + b
      BY <1>1
  <2> QED BY <2>1, <1>1, <1>2
<1>5. q2 = q
    BY <1>1, <1>3, <1>4
<1>6. r2 = r
    BY <1>1, <1>2, <1>5
<1> QED BY <1>5, <1>6 DEF q2, r2

LEMMA NextQuotient ==
    ASSUME NEW b \in Nat \ {0}, NEW m \in Nat
    PROVE  /\ m \div b \in Nat /\ m % b \in 0 .. (b - 1)
           /\ m % b < b - 1 => (m + 1) \div b = m \div b /\ (m + 1) % b = (m % b) + 1
           /\ m % b = b - 1 => (m + 1) \div b = m \div b + 1 /\ (m + 1) % b = 0
<1> DEFINE q == m \div b
           r == m % b
<1>1. q \in Nat /\ r \in 0 .. (b - 1) /\ m = b * q + r
    OBVIOUS
<1> HIDE DEF q, r
<1>2. CASE r < b - 1
  <2>1. m + 1 = b * q + (r + 1) /\ r + 1 \in 0 .. (b - 1)
      BY <1>1, <1>2
  <2>2. (m + 1) \div b = q /\ (m + 1) % b = r + 1
      BY <2>1, <1>1, QuotientIsUnique
  <2> QED BY <2>2, <1>1, <1>2 DEF q, r
<1>3. CASE r = b - 1
  <2>1. b * (q + 1) = b * q + b
      BY <1>1
  <2>2. m + 1 = b * (q + 1) + 0 /\ 0 \in 0 .. (b - 1)
      BY <2>1, <1>1, <1>3
  <2>3. (m + 1) \div b = q + 1 /\ (m + 1) % b = 0
      BY <2>2, <1>1, QuotientIsUnique
  <2> QED BY <2>3, <1>1, <1>3 DEF q, r
<1> QED BY <1>1, <1>2, <1>3 DEF q, r

\* The facts of a call.
LEMMA CallFacts ==
    ASSUME call \in Cases
    PROVE  /\ call.total \in Int /\ call.den \in Int \ {0} /\ call.nums \in Seq(Int)
           /\ Len(call.nums) \in Nat \ {0} /\ DOMAIN call.nums = 1 .. Len(call.nums)
           /\ Target \in Int /\ Abs(Target) \in Nat /\ Sign(Target) \in {-1, 1}
           /\ Sign(Target) * Abs(Target) = Target
           /\ Order = Sorted(call.nums, call.den, Target > 0)
<1>1. /\ call.total \in Int /\ call.den \in Int \ {0}
      /\ call.nums \in Seq(Int) /\ call.nums # <<>>
    BY CasesAssumption
<1>2. Len(call.nums) \in Nat \ {0} /\ DOMAIN call.nums = 1 .. Len(call.nums)
    BY <1>1
<1>3. Floors(call.nums, call.den) \in [DOMAIN call.nums -> Int] /\ IsFiniteSet(DOMAIN call.nums)
    BY <1>1, FloorAndRemainder, RowsAreFinite DEF Floors
<1>4. SumFunction(Floors(call.nums, call.den)) \in Int
    BY <1>3, SumType
<1>5. Target \in Int
    BY <1>1, <1>4 DEF Target, Difference
<1>6. /\ Abs(Target) \in Nat /\ Sign(Target) \in {-1, 1}
      /\ Sign(Target) * Abs(Target) = Target
    BY <1>5 DEF Abs, Sign
<1>7. Order = Sorted(call.nums, call.den, Target > 0)
  <2>1. CASE Target > 0
    <3>1. (Target > 0) = TRUE
        BY <2>1
    <3> QED BY <3>1 DEF Order, RoundingOrder, GivingOrder, Target
  <2>2. CASE ~(Target > 0)
    <3>1. (Target > 0) = FALSE
        BY <2>2
    <3> QED BY <3>1 DEF Order, RoundingOrder, TakingOrder, Target
  <2> QED BY <2>1, <2>2
<1> QED BY <1>1, <1>2, <1>5, <1>6, <1>7

LEMMA TurnOfRow ==
    ASSUME call \in Cases, NEW m \in Nat
    PROVE  /\ Turn(Order, m) \in DOMAIN call.nums
           /\ \A i \in DOMAIN call.nums :
                 Turn(Order, m) = i <=>
                     Place(call.nums, call.den, Target > 0, i) = m % Len(call.nums)
<1> DEFINE count == Len(call.nums)
           D == DOMAIN call.nums
           P(i) == Place(call.nums, call.den, Target > 0, i)
<1>1. /\ count \in Nat \ {0} /\ D = 1 .. count
      /\ Order = Sorted(call.nums, call.den, Target > 0)
    BY CallFacts
<1>2. Order \in [D -> D] /\ Len(Order) = count /\ \A p, i \in D : Order[p] = i <=> P(i) = p - 1
  <2> DEFINE giving == Target > 0
  <2>1. giving \in BOOLEAN /\ call.nums \in Seq(Int) /\ call.den \in Int \ {0}
      BY CallFacts
  <2>2. Order = Sorted(call.nums, call.den, giving)
      BY <1>1
  <2> HIDE DEF giving
  <2>3. /\ Order \in [D -> D] /\ Len(Order) = count
        /\ ByPlace(Order, call.nums, call.den, giving)
      BY <2>1, <2>2, SortedByPlace
  <2> QED BY <2>3 DEF giving, ByPlace
<1> HIDE DEF D, count, P
<1>3. m % count \in 0 .. (count - 1)
    BY <1>1, NextQuotient
<1>4. (m % count) + 1 \in D /\ ((m % count) + 1) - 1 = m % count
    BY <1>1, <1>3
<1>5. Turn(Order, m) = Order[(m % count) + 1]
    BY <1>2 DEF Turn
<1> QED BY <1>2, <1>4, <1>5 DEF D, P, count
LEMMA TurnsStep ==
    ASSUME call \in Cases, NEW m \in Nat, NEW i \in DOMAIN call.nums
    PROVE  /\ Turns(m, i) \in Nat /\ Turns(0, i) = 0
           /\ Turns(m + 1, i) = Turns(m, i) + (IF Turn(Order, m) = i THEN 1 ELSE 0)
<1> DEFINE count == Len(call.nums)
           place == Place(call.nums, call.den, Target > 0, i)
<1>1. count \in Nat \ {0}
    BY CallFacts
<1>2. place \in 0 .. (count - 1)
  <2> DEFINE giving == Target > 0
  <2>1. giving \in BOOLEAN /\ call.nums \in Seq(Int) /\ call.den \in Int \ {0}
      BY CallFacts
  <2> HIDE DEF giving
  <2>2. Place(call.nums, call.den, giving, i) \in 0 .. (count - 1)
      BY <2>1, PlaceOfRow
  <2> QED BY <2>2 DEF giving
<1>3. Turn(Order, m) = i <=> place = m % count
    BY TurnOfRow
<1>4. \A k : Turns(k, i) = k \div count + (IF place < k % count THEN 1 ELSE 0)
    BY DEF Turns
<1> HIDE DEF count, place
<1>5. /\ m \div count \in Nat /\ m % count \in 0 .. (count - 1)
      /\ m % count < count - 1 =>
            (m + 1) \div count = m \div count /\ (m + 1) % count = (m % count) + 1
      /\ m % count = count - 1 =>
            (m + 1) \div count = m \div count + 1 /\ (m + 1) % count = 0
    BY <1>1, NextQuotient
<1>6. 0 \div count = 0 /\ 0 % count = 0
    BY <1>1, QuotientIsUnique
<1>7. Turns(m, i) \in Nat /\ Turns(0, i) = 0
    BY <1>2, <1>4, <1>5, <1>6
<1>8. CASE m % count < count - 1
    BY <1>2, <1>3, <1>4, <1>5, <1>7, <1>8
<1>9. CASE m % count = count - 1
    BY <1>2, <1>3, <1>4, <1>5, <1>7, <1>9
<1> QED BY <1>1, <1>5, <1>7, <1>8, <1>9

\* The first m cents that are row i's.
Mine(order, i, m) == {t \in 0 .. (m - 1) : Turn(order, t) = i}

LEMMA TurnsCounted ==
    ASSUME NEW m \in Nat, NEW i, NEW order
    PROVE  /\ Cardinality(Mine(order, i, 0)) = 0 /\ Cardinality(Mine(order, i, m)) \in Nat
           /\ Cardinality(Mine(order, i, m + 1))
                 = Cardinality(Mine(order, i, m)) + (IF Turn(order, m) = i THEN 1 ELSE 0)
<1> DEFINE M(k) == Mine(order, i, k)
<1>1. M(0) = {}
    BY DEF Mine
<1>2. M(m + 1) = IF Turn(order, m) = i THEN M(m) \cup {m} ELSE M(m)
  <2>1. 0 .. ((m + 1) - 1) = (0 .. (m - 1)) \cup {m}
      OBVIOUS
  <2> QED BY <2>1 DEF Mine
<1>3. m \notin M(m)
    BY DEF Mine
<1>4. M(m) \in SUBSET (0 .. (m - 1)) /\ IsFiniteSet(0 .. (m - 1))
  <2>1. m - 1 \in Int
      OBVIOUS
  <2> QED BY <2>1, FS_Interval DEF Mine
<1> HIDE DEF M
<1>5. IsFiniteSet(M(m))
    BY <1>4, FS_Subset
<1>6. /\ Cardinality(M(m)) \in Nat
      /\ Cardinality(M(m) \cup {m}) = Cardinality(M(m)) + 1
    BY <1>3, <1>5, FS_CardinalityType, FS_AddElement
<1>7. Cardinality(M(0)) = 0
    BY <1>1, FS_EmptySet
<1>8. Cardinality(M(m + 1)) = Cardinality(M(m)) + (IF Turn(order, m) = i THEN 1 ELSE 0)
    BY <1>2, <1>6
<1> QED BY <1>6, <1>7, <1>8 DEF M

LEMMA EachInTurnByRow ==
    EachInTurn <=>
        \A i \in DOMAIN parts :
            /\ parts[i] = Floor(call.nums, call.den, i) + Sign(Target) * Turns(moved, i)
            /\ Turns(moved, i) = Cardinality(Mine(Order, i, moved))
BY DEF EachInTurn, Mine

---------------------------------------------------------------------------
(* The invariant of the loop.                                              *)

LEMMA InitLoopInv == LoopInit => LoopInv
<1> SUFFICES ASSUME LoopInit PROVE LoopInv
    OBVIOUS
<1>1. call \in Cases /\ moved = 0 /\ parts = Floors(call.nums, call.den)
    BY DEF LoopInit
<1>2. /\ call.total \in Int /\ call.den \in Int \ {0} /\ call.nums \in Seq(Int)
      /\ Target \in Int /\ Abs(Target) \in Nat /\ Sign(Target) \in {-1, 1}
      /\ Sign(Target) * Abs(Target) = Target
    BY <1>1, CallFacts
<1>3. /\ parts \in [DOMAIN call.nums -> Int] /\ DOMAIN parts = DOMAIN call.nums
      /\ \A i \in DOMAIN parts : parts[i] = Floor(call.nums, call.den, i)
    BY <1>1, <1>2, FloorAndRemainder DEF Floors
<1>4. LoopTypeOK
    BY <1>1, <1>2, <1>3 DEF LoopTypeOK
<1>5. EachInTurn
  <2> SUFFICES ASSUME NEW i \in DOMAIN parts
               PROVE  /\ parts[i] = Floor(call.nums, call.den, i) + Sign(Target) * Turns(moved, i)
                      /\ Turns(moved, i) = Cardinality(Mine(Order, i, moved))
      BY EachInTurnByRow
  <2>1. Turns(moved, i) = 0
      BY <1>1, <1>3, TurnsStep
  <2>2. Cardinality(Mine(Order, i, 0)) = 0
      BY TurnsCounted
  <2>3. Floor(call.nums, call.den, i) \in Int
      BY <1>2, <1>3, FloorAndRemainder
  <2> QED BY <2>1, <2>2, <2>3, <1>1, <1>2, <1>3
<1>6. Conserves
  <2>1. Target = call.total - SumFunction(parts)
      BY <1>1 DEF Target, Difference
  <2>2. SumFunction(parts) \in Int
      BY <1>2, <1>3, RowsAreFinite, SumType
  <2> QED BY <2>1, <2>2, <1>1, <1>2 DEF Conserves
<1> QED BY <1>4, <1>5, <1>6 DEF LoopInv

LEMMA MoveCentKeepsLoopInv ==
    ASSUME LoopInv, MoveCent
    PROVE  LoopInv'
<1>1. /\ call \in Cases /\ moved \in 0 .. Abs(Target) /\ moved # Abs(Target)
      /\ parts \in [DOMAIN call.nums -> Int] /\ DOMAIN parts = DOMAIN call.nums
      /\ call' = call /\ moved' = moved + 1 /\ Target' = Target /\ Order' = Order
    BY DEF LoopInv, LoopTypeOK, MoveCent, Done, Target, Order
<1>2. /\ call.total \in Int /\ call.den \in Int \ {0} /\ call.nums \in Seq(Int)
      /\ Target \in Int /\ Abs(Target) \in Nat /\ Sign(Target) \in {-1, 1}
    BY <1>1, CallFacts
<1>3. moved \in Nat /\ moved + 1 \in 0 .. Abs(Target)
    BY <1>1, <1>2
<1> DEFINE row == Turn(Order, moved)
<1>4. row \in DOMAIN call.nums
    BY <1>1, <1>3, TurnOfRow
<1>5. parts' = [parts EXCEPT ![row] = @ + Sign(Target)]
    BY DEF MoveCent
<1> HIDE DEF row
<1>6. parts' \in [DOMAIN call.nums -> Int] /\ DOMAIN parts' = DOMAIN parts
    BY <1>1, <1>2, <1>4, <1>5
<1>7. LoopTypeOK'
    BY <1>1, <1>3, <1>6 DEF LoopTypeOK
<1>8. EachInTurn'
  <2> SUFFICES ASSUME NEW i \in DOMAIN parts
               PROVE  /\ parts'[i] = Floor(call.nums, call.den, i) + Sign(Target) * Turns(moved + 1, i)
                      /\ Turns(moved + 1, i) = Cardinality(Mine(Order, i, moved + 1))
      BY <1>1, <1>6 DEF EachInTurn, Turns, Mine
  <2>1. /\ parts[i] = Floor(call.nums, call.den, i) + Sign(Target) * Turns(moved, i)
        /\ Turns(moved, i) = Cardinality(Mine(Order, i, moved))
      BY EachInTurnByRow DEF LoopInv
  <2>2. Turns(moved, i) \in Nat /\ Turns(moved + 1, i) = Turns(moved, i) + (IF row = i THEN 1 ELSE 0)
      BY <1>1, <1>3, TurnsStep DEF row
  <2>3. Cardinality(Mine(Order, i, moved + 1))
           = Cardinality(Mine(Order, i, moved)) + (IF row = i THEN 1 ELSE 0)
      BY <1>3, TurnsCounted DEF row
  <2>4. parts'[i] = parts[i] + (IF row = i THEN Sign(Target) ELSE 0)
      BY <1>1, <1>5
  <2>5. Floor(call.nums, call.den, i) \in Int
      BY <1>1, <1>2, FloorAndRemainder
  <2>6. Turns(moved + 1, i) = Cardinality(Mine(Order, i, moved + 1))
      BY <2>1, <2>2, <2>3
  <2> QED BY <2>1, <2>2, <2>4, <2>5, <2>6, <1>2
<1>9. Conserves'
  <2>1. SumFunction(parts') = SumFunction(parts) + Sign(Target)
    <3> DEFINE D == DOMAIN call.nums
    <3>1. IsFiniteSet(D) /\ parts \in [D -> Int] /\ row \in D /\ Sign(Target) \in Int
        BY <1>1, <1>2, <1>4, RowsAreFinite
    <3> HIDE DEF D
    <3>2. \A j \in D : parts'[j] = parts[j] + (IF row = j THEN Sign(Target) ELSE 0)
        BY <3>1, <1>5
    <3>3. parts' \in [D -> Int]
        BY <1>6 DEF D
    <3> QED BY <3>1, <3>2, <3>3, SumOfChanged
  <2>2. SumFunction(parts) \in Int
      BY <1>1, <1>2, RowsAreFinite, SumType
  <2>3. SumFunction(parts) + Sign(Target) * (Abs(Target) - moved) = call.total
      BY DEF LoopInv, Conserves
  <2>4. SumFunction(parts') + Sign(Target) * (Abs(Target) - (moved + 1)) = call.total
    <3>1. CASE Sign(Target) = 1
        BY <3>1, <2>1, <2>2, <2>3, <1>2, <1>3
    <3>2. CASE Sign(Target) = -1
        BY <3>2, <2>1, <2>2, <2>3, <1>2, <1>3
    <3> QED BY <3>1, <3>2, <1>2
  <2> QED BY <2>4, <1>1 DEF Conserves
<1> QED BY <1>7, <1>8, <1>9 DEF LoopInv

LEMMA NextKeepsLoopInv == LoopInv /\ [LoopNext]_loopVars => LoopInv'
<1> SUFFICES ASSUME LoopInv, [LoopNext]_loopVars PROVE LoopInv'
    OBVIOUS
<1>1. CASE MoveCent
    BY <1>1, MoveCentKeepsLoopInv
<1>2. CASE UNCHANGED loopVars
    BY <1>2 DEF loopVars, LoopInv, LoopTypeOK, EachInTurn, Conserves, Turns, Target, Order
<1> QED BY <1>1, <1>2 DEF LoopNext, Return

\* LoopInv holds of every call of _reconcile_parts after each cent: row i has
\* its floor and the cents of its turns.
THEOREM LoopInvariant == LoopSpec => []LoopInv
<1>1. LoopInit => LoopInv
    BY InitLoopInv
<1>2. LoopInv /\ [LoopNext]_loopVars => LoopInv'
    BY NextKeepsLoopInv
<1> QED BY <1>1, <1>2, PTL DEF LoopSpec

\* "exact conservation": the parts _reconcile_parts returns add up to the
\* total, and never stray from it by more than the cents still to move.
THEOREM RoundingConserves == LoopSpec => []Conserves
<1>1. LoopInv => Conserves
    BY DEF LoopInv
<1> QED BY <1>1, LoopInvariant, PTL
---------------------------------------------------------------------------
(* Rounding exact shares: what is left of them is fewer cents than there   *)
(* are shares with a remainder.                                            *)

WithRemainder(nums, den) == {i \in DOMAIN nums : Remainder(nums, den, i) > 0}

LEMMA ExactDifference ==
    ASSUME NEW total \in Int, NEW nums \in Seq(Int), NEW den \in Int \ {0}, Exact(total, nums, den)
    PROVE  /\ Difference(total, nums, den) \in Nat
           /\ Difference(total, nums, den) > 0 =>
                 Difference(total, nums, den) < Cardinality(WithRemainder(nums, den))
<1> DEFINE D == DOMAIN nums
           a == Abs(den)
           f == [i \in D |-> Sign(den) * nums[i]]
           fl == Floors(nums, den)
           rem == [i \in D |-> Remainder(nums, den, i)]
           zero == [i \in D |-> 0]
           d == Difference(total, nums, den)
           w == Cardinality(WithRemainder(nums, den))
<1>1. /\ a \in Nat \ {0} /\ Sign(den) \in {-1, 1} /\ Sign(den) * den = a
      /\ IsFiniteSet(D)
    BY RowsAreFinite DEF Abs, Sign
<1>2. \A i \in D : /\ nums[i] \in Int /\ Floor(nums, den, i) \in Int
                   /\ Remainder(nums, den, i) \in 0 .. (a - 1)
                   /\ Sign(den) * nums[i] = a * Floor(nums, den, i) + Remainder(nums, den, i)
    BY FloorAndRemainder
<1>3. /\ f \in [D -> Int] /\ fl \in [D -> Int] /\ rem \in [D -> Int] /\ zero \in [D -> Int]
      /\ nums \in [D -> Int]
  <2> HIDE DEF a
  <2> QED BY <1>1, <1>2 DEF Floors
<1>4. \A i \in D : f[i] = a * fl[i] + rem[i] /\ f[i] = Sign(den) * nums[i] + zero[i]
  <2>1. \A i \in D : Sign(den) * nums[i] \in Int
      BY <1>1, <1>2
  <2> HIDE DEF a
  <2> QED BY <2>1, <1>2 DEF Floors
<1>5. \A i \in D : 0 <= rem[i] /\ rem[i] <= a - 1 /\ 0 <= zero[i] /\ zero[i] <= 0
  <2> HIDE DEF a
  <2> QED BY <1>1, <1>2
<1>6. WithRemainder(nums, den) = {i \in D : rem[i] > 0}
    BY DEF WithRemainder
<1>7. w \in Nat
  <2>1. WithRemainder(nums, den) \in SUBSET D
      BY DEF WithRemainder
  <2> QED BY <2>1, <1>1, FS_Subset, FS_CardinalityType
<1> HIDE DEF D, a, f, fl, rem, zero
<1>8. SumFunction(f) = a * SumFunction(fl) + SumFunction(rem)
  <2>1. a \in Int /\ Combines(D, f, a, fl, rem)
      BY <1>1, <1>4 DEF Combines
  <2>2. IsFiniteSet(D)
      BY <1>1
  <2>3. f \in [D -> Int]
      BY <1>3
  <2>4. \A q \in [D -> Int], r \in [D -> Int], b \in Int :
           Combines(D, f, b, q, r) => SumFunction(f) = b * SumFunction(q) + SumFunction(r)
      BY <2>2, <2>3, SumIsLinear
  <2> QED BY <2>1, <2>4, <1>3
<1>9. SumFunction(f) = Sign(den) * SumFunction(nums) + SumFunction(zero)
  <2>1. Sign(den) \in Int /\ Combines(D, f, Sign(den), nums, zero)
      BY <1>1, <1>4 DEF Combines
  <2>2. IsFiniteSet(D)
      BY <1>1
  <2>3. f \in [D -> Int]
      BY <1>3
  <2>4. \A q \in [D -> Int], r \in [D -> Int], b \in Int :
           Combines(D, f, b, q, r) => SumFunction(f) = b * SumFunction(q) + SumFunction(r)
      BY <2>2, <2>3, SumIsLinear
  <2> QED BY <2>1, <2>4, <1>3
<1>10. SumFunction(zero) = 0
  <2>1. 0 <= SumFunction(zero) /\ SumFunction(zero) <= 0 * Cardinality({i \in D : zero[i] > 0})
      BY <1>1, <1>3, <1>5, SumIsBounded
  <2>2. {i \in D : zero[i] > 0} = {}
      BY <1>5, <1>3
  <2>3. SumFunction(zero) \in Int
      BY <1>1, <1>3, SumType
  <2>4. Cardinality({i \in D : zero[i] > 0}) = 0
      BY <2>2, FS_EmptySet
  <2> QED BY <2>1, <2>3, <2>4
<1>11. 0 <= SumFunction(rem) /\ SumFunction(rem) <= (a - 1) * w
  <2>1. a - 1 \in Nat
      BY <1>1
  <2>2. 0 <= SumFunction(rem) /\ SumFunction(rem) <= (a - 1) * Cardinality({i \in D : rem[i] > 0})
      BY <2>1, <1>1, <1>3, <1>5, SumIsBounded
  <2> QED BY <2>2, <1>6
<1>12. /\ SumFunction(fl) \in Int /\ SumFunction(rem) \in Int
       /\ d = total - SumFunction(fl) /\ SumFunction(nums) = total * den
    BY <1>1, <1>3, SumType DEF Difference, Exact, fl
<1> HIDE DEF d, w
<1>13. SumFunction(rem) = a * d
  <2>1. Sign(den) * (total * den) = total * (Sign(den) * den)
      BY <1>1
  <2>2. a * (total - SumFunction(fl)) = total * a - a * SumFunction(fl)
      BY <1>1, <1>12
  <2>3. a * SumFunction(fl) \in Int /\ total * a \in Int
      BY <1>1, <1>12
  <2> QED BY <2>1, <2>2, <2>3, <1>1, <1>8, <1>9, <1>10, <1>12
<1>14. d \in Int
    BY <1>12
<1>15. d \in Nat
  <2> SUFFICES ASSUME d <= -1 PROVE FALSE
      BY <1>14
  <2>1. a * d <= -a
    <3>1. a * d <= a * (-1)
        BY <1>1, <1>14
    <3> QED BY <3>1, <1>1, <1>14
  <2> QED BY <2>1, <1>1, <1>11, <1>12, <1>13
<1>16. ASSUME d > 0 PROVE d < w
  <2> SUFFICES ASSUME w <= d PROVE FALSE
      BY <1>7, <1>14
  <2>1. (a - 1) * w <= (a - 1) * d
      BY <1>1, <1>7, <1>15
  <2>2. (a - 1) * d = a * d - d
      BY <1>1, <1>15
  <2>3. (a - 1) * w \in Int /\ a * d \in Int
      BY <1>1, <1>7, <1>15
  <2> QED BY <2>1, <2>2, <2>3, <1>11, <1>13, <1>15, <1>16
<1> QED BY <1>15, <1>16 DEF d, w

\* Whoever has nothing left of his share comes after all who have.
LEMMA RemaindersComeFirst ==
    ASSUME NEW nums \in Seq(Int), NEW den \in Int \ {0}, NEW i \in DOMAIN nums,
           Remainder(nums, den, i) = 0
    PROVE  Cardinality(WithRemainder(nums, den)) <= Place(nums, den, TRUE, i)
<1> DEFINE Earlier == {j \in DOMAIN nums : Before(nums, den, TRUE, j, i)}
<1>1. \A j \in DOMAIN nums : Remainder(nums, den, j) \in Int
    BY FloorAndRemainder
<1>2. WithRemainder(nums, den) \in SUBSET Earlier
    BY <1>1 DEF WithRemainder, Before
<1>3. Earlier \in SUBSET DOMAIN nums
    OBVIOUS
<1> HIDE DEF Earlier
<1>4. IsFiniteSet(Earlier)
    BY <1>3, RowsAreFinite, FS_Subset
<1>5. Cardinality(WithRemainder(nums, den)) <= Cardinality(Earlier)
    BY <1>2, <1>4, FS_Subset
<1> QED BY <1>5 DEF Earlier, Place
---------------------------------------------------------------------------
(* The parts returned.                                                     *)

\* What the invariant says of a row when the loop is done.
LEMMA ReturnedPart ==
    ASSUME LoopInv, Done, NEW i \in DOMAIN parts
    PROVE  /\ i \in DOMAIN call.nums /\ call \in Cases
           /\ parts[i] = Floor(call.nums, call.den, i) + Sign(Target) * Turns(Abs(Target), i)
           /\ Turns(Abs(Target), i) \in Nat
           /\ Turns(Abs(Target), i) = Cardinality(Mine(Order, i, Abs(Target)))
<1>1. /\ call \in Cases /\ moved = Abs(Target) /\ moved \in Nat
      /\ DOMAIN parts = DOMAIN call.nums
    BY CallFacts DEF LoopInv, LoopTypeOK, Done
<1>2. /\ parts[i] = Floor(call.nums, call.den, i) + Sign(Target) * Turns(moved, i)
      /\ Turns(moved, i) = Cardinality(Mine(Order, i, moved))
    BY EachInTurnByRow DEF LoopInv
<1> QED BY <1>1, <1>2, TurnsStep

LEMMA PlaceFacts ==
    ASSUME call \in Cases, NEW i \in DOMAIN call.nums
    PROVE  /\ Place(call.nums, call.den, Target > 0, i) \in 0 .. (Len(call.nums) - 1)
           /\ \A j \in DOMAIN call.nums :
                 Before(call.nums, call.den, Target > 0, i, j)
                     <=> Place(call.nums, call.den, Target > 0, i)
                            < Place(call.nums, call.den, Target > 0, j)
<1> DEFINE giving == Target > 0
<1>1. giving \in BOOLEAN /\ call.nums \in Seq(Int) /\ call.den \in Int \ {0}
    BY CallFacts
<1> HIDE DEF giving
<1>2. /\ Place(call.nums, call.den, giving, i) \in 0 .. (Len(call.nums) - 1)
      /\ \A j \in DOMAIN call.nums :
            Before(call.nums, call.den, giving, i, j)
                <=> Place(call.nums, call.den, giving, i) < Place(call.nums, call.den, giving, j)
    BY <1>1, PlaceOfRow
<1> QED BY <1>2 DEF giving

\* Of exact shares, those with the first places get one cent, the others none.
LEMMA ExactTurns ==
    ASSUME call \in Cases, Exact(call.total, call.nums, call.den), NEW i \in DOMAIN call.nums
    PROVE  /\ Target \in Nat /\ Abs(Target) = Target /\ Sign(Target) = 1
           /\ Turns(Target, i) =
                 IF Place(call.nums, call.den, Target > 0, i) < Target THEN 1 ELSE 0
           /\ Target > 0 => Target < Cardinality(WithRemainder(call.nums, call.den))
<1> DEFINE count == Len(call.nums)
           w == Cardinality(WithRemainder(call.nums, call.den))
<1>1. /\ call.total \in Int /\ call.den \in Int \ {0} /\ call.nums \in Seq(Int)
      /\ count \in Nat \ {0}
    BY CallFacts
<1>2. Target \in Nat /\ (Target > 0 => Target < w)
    BY <1>1, ExactDifference DEF Target
<1>3. Abs(Target) = Target /\ Sign(Target) = 1
    BY <1>2 DEF Abs, Sign
<1>4. w \in Nat /\ w <= count
  <2>1. WithRemainder(call.nums, call.den) \in SUBSET DOMAIN call.nums
      BY DEF WithRemainder
  <2>2. /\ IsFiniteSet(DOMAIN call.nums) /\ Cardinality(DOMAIN call.nums) = count
      BY <1>1, RowsAreFinite
  <2> QED BY <2>1, <2>2, FS_Subset, FS_CardinalityType
<1>5. Target \in 0 .. (count - 1)
    BY <1>1, <1>2, <1>4
<1>6. Target \div count = 0 /\ Target % count = Target
  <2> DEFINE t == Target
  <2>1. count \in Nat \ {0} /\ t \in 0 .. (count - 1) /\ t \in Int
      BY <1>1, <1>2, <1>5
  <2> HIDE DEF count, t
  <2>2. t = count * 0 + t
      BY <2>1
  <2>3. t \div count = 0 /\ t % count = t
      BY <2>1, <2>2, QuotientIsUnique
  <2> QED BY <2>3 DEF t
<1>7. Turns(Target, i) = IF Place(call.nums, call.den, Target > 0, i) < Target THEN 1 ELSE 0
    BY <1>6 DEF Turns
<1> QED BY <1>2, <1>3, <1>7

\* A part of exact shares is the floor, or one more where something was left.
LEMMA ExactPart ==
    ASSUME LoopInv, Done, Exact(call.total, call.nums, call.den), NEW i \in DOMAIN parts
    PROVE  \/ parts[i] = Floor(call.nums, call.den, i)
           \/ /\ parts[i] = Floor(call.nums, call.den, i) + 1
              /\ Remainder(call.nums, call.den, i) > 0
<1> DEFINE place == Place(call.nums, call.den, Target > 0, i)
           w == Cardinality(WithRemainder(call.nums, call.den))
<1>1. /\ i \in DOMAIN call.nums /\ call \in Cases
      /\ parts[i] = Floor(call.nums, call.den, i) + Sign(Target) * Turns(Abs(Target), i)
    BY ReturnedPart
<1>2. /\ Target \in Nat /\ Abs(Target) = Target /\ Sign(Target) = 1
      /\ Turns(Target, i) = IF place < Target THEN 1 ELSE 0
      /\ Target > 0 => Target < w
    BY <1>1, ExactTurns
<1>3. /\ call.nums \in Seq(Int) /\ call.den \in Int \ {0}
    BY <1>1, CallFacts
<1>4. /\ Floor(call.nums, call.den, i) \in Int
      /\ Remainder(call.nums, call.den, i) \in Int /\ Remainder(call.nums, call.den, i) >= 0
  <2>1. Abs(call.den) \in Int
      BY <1>3 DEF Abs
  <2> QED BY <2>1, <1>1, <1>3, FloorAndRemainder
<1>5. place \in Nat
    BY <1>1, PlaceFacts, CallFacts
<1>6. ASSUME place < Target PROVE Remainder(call.nums, call.den, i) # 0
  <2> SUFFICES ASSUME Remainder(call.nums, call.den, i) = 0 PROVE FALSE
      OBVIOUS
  <2>1. Target > 0 /\ (Target > 0) = TRUE
      BY <1>2, <1>5, <1>6
  <2>2. place = Place(call.nums, call.den, TRUE, i)
      BY <2>1
  <2>3. w <= place
    <3>1. w <= Place(call.nums, call.den, TRUE, i)
        BY <1>1, <1>3, RemaindersComeFirst
    <3> HIDE DEF place, w
    <3> QED BY <3>1, <2>2
  <2>4. w \in Int
    <3>1. WithRemainder(call.nums, call.den) \in SUBSET DOMAIN call.nums
        BY DEF WithRemainder
    <3> QED BY <3>1, <1>3, RowsAreFinite, FS_Subset, FS_CardinalityType
  <2> HIDE DEF place, w
  <2> QED BY <2>1, <2>3, <2>4, <1>2, <1>5, <1>6
<1> HIDE DEF place, w
<1> QED BY <1>1, <1>2, <1>4, <1>6

LEMMA DoneIsWithinACent ==
    ASSUME LoopInv, Done, Exact(call.total, call.nums, call.den), NEW i \in DOMAIN parts
    PROVE  Abs(parts[i] * call.den - call.nums[i]) < Abs(call.den)
<1> DEFINE a == Abs(call.den)
           s == Sign(call.den)
           fl == Floor(call.nums, call.den, i)
           rem == Remainder(call.nums, call.den, i)
           v == call.nums[i]
<1>1. i \in DOMAIN call.nums /\ call.nums \in Seq(Int) /\ call.den \in Int \ {0}
    BY ReturnedPart, CallFacts
<1>2. /\ v \in Int /\ fl \in Int /\ rem \in 0 .. (a - 1) /\ s * v = a * fl + rem
    BY <1>1, FloorAndRemainder
<1>3. parts[i] = fl \/ (parts[i] = fl + 1 /\ rem > 0)
    BY ExactPart
<1>4. a \in Nat \ {0}
    BY <1>1 DEF Abs
<1>5. call.den \in Int /\ ((s = 1 /\ call.den = a) \/ (s = -1 /\ call.den = -a))
    BY <1>1 DEF Abs, Sign
<1> HIDE DEF a, s, fl, rem, v
<1>6. a * (fl + 1) = a * fl + a /\ a * fl \in Int
    BY <1>2, <1>4
<1>7. /\ parts[i] \in Int
      /\ a * parts[i] - s * v = -rem \/ (a * parts[i] - s * v = a - rem /\ rem > 0)
  <2>1. CASE parts[i] = fl
      BY <2>1, <1>2, <1>4, <1>6
  <2>2. CASE parts[i] = fl + 1 /\ rem > 0
      BY <2>2, <1>2, <1>4, <1>6
  <2> QED BY <2>1, <2>2, <1>3
<1>8. a * parts[i] - s * v < a /\ -a < a * parts[i] - s * v /\ a * parts[i] - s * v \in Int
    BY <1>2, <1>4, <1>7
<1>9. \A x \in Int : x < a /\ -a < x => Abs(x) < a /\ Abs(-x) < a
    BY <1>4 DEF Abs
<1>10. CASE s = 1 /\ call.den = a
  <2>1. parts[i] * call.den - v = a * parts[i] - s * v
      BY <1>2, <1>4, <1>7, <1>10
  <2> QED BY <2>1, <1>8, <1>9 DEF v, a
<1>11. CASE s = -1 /\ call.den = -a
  <2>1. parts[i] * call.den = -(a * parts[i])
      BY <1>4, <1>7, <1>11
  <2>2. a * parts[i] \in Int
      BY <1>4, <1>7
  <2>3. parts[i] * call.den - v = -(a * parts[i] - s * v)
      BY <2>1, <2>2, <1>2, <1>11
  <2> QED BY <2>3, <1>8, <1>9 DEF v, a
<1> QED BY <1>5, <1>10, <1>11
\* A larger share has the larger floor, or the same floor and more left of it.
LEMMA LargerShare ==
    ASSUME NEW nums \in Seq(Int), NEW den \in Int \ {0}, NEW i \in DOMAIN nums, NEW j \in DOMAIN nums,
           Sign(den) * (nums[i] - nums[j]) > 0
    PROVE  \/ Floor(nums, den, i) >= Floor(nums, den, j) + 1
           \/ /\ Floor(nums, den, i) = Floor(nums, den, j)
              /\ Remainder(nums, den, i) > Remainder(nums, den, j)
<1> DEFINE a == Abs(den)
           s == Sign(den)
           fi == Floor(nums, den, i)
           fj == Floor(nums, den, j)
           ri == Remainder(nums, den, i)
           rj == Remainder(nums, den, j)
           vi == nums[i]
           vj == nums[j]
<1>1. a \in Nat \ {0} /\ s \in {-1, 1}
    BY DEF Abs, Sign
<1>2. /\ vi \in Int /\ fi \in Int /\ ri \in 0 .. (a - 1) /\ s * vi = a * fi + ri
      /\ vj \in Int /\ fj \in Int /\ rj \in 0 .. (a - 1) /\ s * vj = a * fj + rj
    BY FloorAndRemainder
<1>3. s * (vi - vj) > 0
    OBVIOUS
<1> HIDE DEF a, s, fi, fj, ri, rj, vi, vj
<1>4. s * (vi - vj) = s * vi - s * vj
    BY <1>1, <1>2
<1>5. a * fi \in Int /\ a * fj \in Int /\ a * fi + ri > a * fj + rj
    BY <1>1, <1>2, <1>3, <1>4
<1>6. fi >= fj
  <2> SUFFICES ASSUME fj >= fi + 1 PROVE FALSE
      BY <1>2
  <2>1. a * fj >= a * (fi + 1) /\ a * (fi + 1) = a * fi + a
      BY <1>1, <1>2
  <2> QED BY <2>1, <1>1, <1>2, <1>5
<1>7. fi = fj => ri > rj
    BY <1>2, <1>5
<1>8. fi >= fj + 1 \/ (fi = fj /\ ri > rj)
    BY <1>2, <1>6, <1>7
<1> QED BY <1>8 DEF fi, fj, ri, rj

\* Two rows' turns differ by one at most, the row with the first place ahead.
LEMMA TurnsByPlace ==
    ASSUME call \in Cases, NEW m \in Nat, NEW i \in DOMAIN call.nums, NEW j \in DOMAIN call.nums
    PROVE  /\ Turns(m, i) <= Turns(m, j) + 1
           /\ Before(call.nums, call.den, Target > 0, i, j) => Turns(m, i) >= Turns(m, j)
<1> DEFINE count == Len(call.nums)
           P(k) == Place(call.nums, call.den, Target > 0, k)
           before == Before(call.nums, call.den, Target > 0, i, j)
<1>1. count \in Nat \ {0}
    BY CallFacts
<1>2. P(i) \in Int /\ P(j) \in Int /\ (before => P(i) < P(j))
  <2>1. P(i) \in 0 .. (count - 1) /\ P(j) \in 0 .. (count - 1) /\ (before => P(i) < P(j))
      BY PlaceFacts
  <2> HIDE DEF P, before
  <2> QED BY <2>1
<1>3. \A k : Turns(m, k) = m \div count + (IF P(k) < m % count THEN 1 ELSE 0)
    BY DEF Turns
<1> HIDE DEF count, P, before
<1>4. m \div count \in Nat /\ m % count \in Int
    BY <1>1, NextQuotient
<1>5. Turns(m, i) <= Turns(m, j) + 1 /\ (before => Turns(m, i) >= Turns(m, j))
    BY <1>2, <1>3, <1>4
<1> QED BY <1>5 DEF before

LEMMA LargerShareLargerPart ==
    ASSUME LoopInv, Done, NEW i \in DOMAIN parts, NEW j \in DOMAIN parts,
           Sign(call.den) * (call.nums[i] - call.nums[j]) > 0
    PROVE  parts[i] >= parts[j]
<1> DEFINE fi == Floor(call.nums, call.den, i)
           fj == Floor(call.nums, call.den, j)
           ti == Turns(Abs(Target), i)
           tj == Turns(Abs(Target), j)
           before == Before(call.nums, call.den, Target > 0, i, j)
           after == Before(call.nums, call.den, Target > 0, j, i)
           more == Remainder(call.nums, call.den, i) > Remainder(call.nums, call.den, j)
<1>1. /\ i \in DOMAIN call.nums /\ j \in DOMAIN call.nums /\ call \in Cases
      /\ call.nums \in Seq(Int) /\ call.den \in Int \ {0} /\ Target \in Int /\ Abs(Target) \in Nat
      /\ parts[i] = fi + Sign(Target) * ti /\ parts[j] = fj + Sign(Target) * tj
      /\ ti \in Nat /\ tj \in Nat
    BY ReturnedPart, CallFacts
<1>2. fi \in Int /\ fj \in Int
    BY <1>1, FloorAndRemainder
<1>3. fi >= fj + 1 \/ (fi = fj /\ more)
    BY <1>1, LargerShare
<1>4. /\ ti <= tj + 1 /\ tj <= ti + 1
      /\ before => ti >= tj
      /\ after => tj >= ti
    BY <1>1, TurnsByPlace
<1>5. more => (IF Target > 0 THEN before ELSE after)
  <2>1. Remainder(call.nums, call.den, i) \in Int /\ Remainder(call.nums, call.den, j) \in Int
    <3>1. Abs(call.den) \in Int
        BY <1>1 DEF Abs
    <3>2. \A k \in DOMAIN call.nums :
             Remainder(call.nums, call.den, k) \in 0 .. (Abs(call.den) - 1)
        BY <1>1, FloorAndRemainder
    <3>3. i \in DOMAIN call.nums /\ j \in DOMAIN call.nums
        BY <1>1
    <3> QED BY <3>1, <3>2, <3>3
  <2> QED BY <2>1 DEF Before
<1>6. Target = 0 => ti = 0 /\ tj = 0
  <2>1. Turns(0, i) = 0 /\ Turns(0, j) = 0
      BY <1>1, TurnsStep
  <2> QED BY <2>1 DEF Abs
<1>7. Sign(Target) = IF Target < 0 THEN -1 ELSE 1
    BY DEF Sign
<1> HIDE DEF fi, fj, ti, tj, before, after, more
<1>8. CASE Target > 0
    BY <1>1, <1>2, <1>3, <1>4, <1>5, <1>7, <1>8
<1>9. CASE Target = 0
    BY <1>1, <1>2, <1>3, <1>6, <1>7, <1>9
<1>10. CASE Target < 0
    BY <1>1, <1>2, <1>3, <1>4, <1>5, <1>7, <1>10
<1> QED BY <1>1, <1>8, <1>9, <1>10

\* Exact shares are rounded to a cent they lie next to, so no category takes
\* the whole residual, and a larger share never gets the smaller part.
THEOREM RoundingIsWithinACent == LoopSpec => []WithinACent
<1>1. LoopInv => WithinACent
    BY DoneIsWithinACent, LargerShareLargerPart DEF WithinACent
<1> QED BY <1>1, LoopInvariant, PTL
---------------------------------------------------------------------------
(* The loop, its closed form and the other engine's rounding.              *)

\* The whole loop at once, row by row.
LEMMA ClosedForm ==
    ASSUME NEW total, NEW nums, NEW den
    PROVE  ReconcileParts(total, nums, den) =
              [i \in DOMAIN nums |->
                  Floor(nums, den, i)
                      + Sign(Difference(total, nums, den))
                            * Cardinality(Mine(RoundingOrder(total, nums, den), i,
                                               Abs(Difference(total, nums, den))))]
BY DEF ReconcileParts, Mine

LEMMA LoopReturnsClosedForm ==
    ASSUME LoopInv, Done
    PROVE  parts = ReconcileParts(call.total, call.nums, call.den)
<1>1. call \in Cases /\ parts \in [DOMAIN call.nums -> Int]
    BY DEF LoopInv, LoopTypeOK
<1>2. \A i \in DOMAIN call.nums :
         parts[i] = Floor(call.nums, call.den, i)
                       + Sign(Target) * Cardinality(Mine(Order, i, Abs(Target)))
    BY <1>1, ReturnedPart
<1>3. parts = [i \in DOMAIN call.nums |->
                 Floor(call.nums, call.den, i)
                     + Sign(Target) * Cardinality(Mine(Order, i, Abs(Target)))]
    BY <1>1, <1>2
<1> QED BY <1>3, ClosedForm DEF Target, Order

\* The rows a keyed pass gives a cent are those with the first places.
LEMMA FirstInOrder ==
    ASSUME NEW nums \in Seq(Int), NEW den \in Int \ {0}, NEW i \in DOMAIN nums, NEW pennies \in Int
    PROVE  i \in {GivingOrder(nums, den)[m] :
                      m \in {m \in DOMAIN GivingOrder(nums, den) : m <= pennies}}
               <=> Place(nums, den, TRUE, i) < pennies
<1> DEFINE D == DOMAIN nums
           order == GivingOrder(nums, den)
           place == Place(nums, den, TRUE, i)
<1>1. D = 1 .. Len(nums) /\ Len(nums) \in Nat
    BY RowsAreFinite
<1>2. /\ order \in [D -> D]
      /\ \A p \in D : order[p] = i <=> place = p - 1
  <2> DEFINE giving == TRUE
  <2>1. giving \in BOOLEAN /\ order = Sorted(nums, den, giving)
      BY DEF GivingOrder
  <2>2. place = Place(nums, den, giving, i)
      OBVIOUS
  <2> HIDE DEF giving, order, place
  <2>3. order \in [D -> D] /\ ByPlace(order, nums, den, giving)
      BY <2>1, SortedByPlace
  <2> QED BY <2>2, <2>3 DEF ByPlace
<1>3. place \in 0 .. (Len(nums) - 1)
    BY PlaceOfRow
<1> HIDE DEF D, order, place
<1>4. place + 1 \in D /\ order[place + 1] = i
    BY <1>1, <1>2, <1>3
<1>5. \A p \in D : p \in Int
    BY <1>1
<1>6. i \in {order[m] : m \in {m \in DOMAIN order : m <= pennies}} <=> place < pennies
  <2>1. CASE place < pennies
    <3>1. place + 1 <= pennies
        BY <2>1, <1>3
    <3> QED BY <3>1, <2>1, <1>2, <1>4
  <2>2. CASE ~(place < pennies)
    <3>1. \A p \in D : order[p] = i => ~(p <= pennies)
        BY <2>2, <1>2, <1>3, <1>5
    <3> QED BY <3>1, <2>2, <1>2
  <2> QED BY <2>1, <2>2
<1> QED BY <1>6 DEF order, place

LEMMA EnginesAgreeOnExactShares ==
    ASSUME LoopInv, Done, Exact(call.total, call.nums, call.den)
    PROVE  parts = ReconcileKeyed(call.total, call.nums, call.den)
<1> DEFINE order == GivingOrder(call.nums, call.den)
           first == {order[m] : m \in {m \in DOMAIN order : m <= Target}}
<1>1. /\ call \in Cases /\ parts \in [DOMAIN call.nums -> Int]
      /\ call.nums \in Seq(Int) /\ call.den \in Int \ {0} /\ Target \in Int
    BY CallFacts DEF LoopInv, LoopTypeOK
<1>2. ReconcileKeyed(call.total, call.nums, call.den) =
         [i \in DOMAIN call.nums |->
             Floor(call.nums, call.den, i) + (IF i \in first THEN 1 ELSE 0)]
    BY DEF ReconcileKeyed, Target
<1>3. ASSUME NEW i \in DOMAIN call.nums
      PROVE  parts[i] = Floor(call.nums, call.den, i) + (IF i \in first THEN 1 ELSE 0)
  <2> DEFINE fl == Floor(call.nums, call.den, i)
             given == Place(call.nums, call.den, Target > 0, i) < Target
             first_place == Place(call.nums, call.den, TRUE, i)
  <2>1. /\ Target \in Nat /\ Abs(Target) = Target /\ Sign(Target) = 1
        /\ Turns(Target, i) = IF given THEN 1 ELSE 0
      BY <1>1, ExactTurns
  <2>2. parts[i] = fl + Sign(Target) * Turns(Abs(Target), i)
      BY <1>1, ReturnedPart
  <2>3. fl \in Int
      BY <1>1, FloorAndRemainder
  <2>4. i \in first <=> first_place < Target
      BY <1>1, FirstInOrder
  <2>5. given <=> first_place < Target
    <3>1. CASE Target > 0
      <4>1. (Target > 0) = TRUE
          BY <3>1
      <4> QED BY <4>1
    <3>2. CASE ~(Target > 0)
      <4>1. /\ first_place \in 0 .. (Len(call.nums) - 1) /\ Len(call.nums) \in Nat
            /\ Place(call.nums, call.den, Target > 0, i) \in 0 .. (Len(call.nums) - 1)
          BY <1>1, PlaceOfRow, PlaceFacts, CallFacts
      <4> HIDE DEF first_place
      <4> QED BY <4>1, <3>2, <2>1
    <3> QED BY <3>1, <3>2
  <2> HIDE DEF given, first, fl
  <2>6. parts[i] = fl + Turns(Target, i)
      BY <2>1, <2>2, <2>3
  <2>7. given <=> i \in first
      BY <2>4, <2>5
  <2>8. CASE given
      BY <2>1, <2>6, <2>7, <2>8 DEF fl
  <2>9. CASE ~given
      BY <2>1, <2>6, <2>7, <2>9 DEF fl
  <2> QED BY <2>8, <2>9
<1> HIDE DEF first
<1>4. parts = [i \in DOMAIN call.nums |->
                 Floor(call.nums, call.den, i) + (IF i \in first THEN 1 ELSE 0)]
    BY <1>1, <1>3
<1> QED BY <1>2, <1>4

\* The cent-by-cent loop returns what the closed form of the receipt modules
\* says, and what the jurisdictional engine's single pass would return.
THEOREM RoundingEnginesAgree == LoopSpec => []EnginesAgree
<1>1. LoopInv => EnginesAgree
    BY LoopReturnsClosedForm, EnginesAgreeOnExactShares DEF EnginesAgree
<1> QED BY <1>1, LoopInvariant, PTL
---------------------------------------------------------------------------
(* The order of the rows.  The rows are permuted by p: row i of the second *)
(* call is row p[i] of the first.                                          *)

Permuted(nums, p) == [i \in DOMAIN nums |-> nums[p[i]]]

DistinctRemainders(nums, den) ==
    \A i, j \in DOMAIN nums : i # j => Remainder(nums, den, i) # Remainder(nums, den, j)

\* What the lemmas below use of p, and of the permuted rows.
Rearranges(p, D) ==
    /\ \A i \in D : p[i] \in D
    /\ \A i, j \in D : p[i] = p[j] => i = j
    /\ \A j \in D : \E i \in D : p[i] = j

SameShares(nums, p, den) ==
    \A i \in DOMAIN nums :
        /\ Floor(Permuted(nums, p), den, i) = Floor(nums, den, p[i])
        /\ Remainder(Permuted(nums, p), den, i) = Remainder(nums, den, p[i])

LEMMA PermutedRows ==
    ASSUME NEW nums \in Seq(Int), NEW den \in Int \ {0},
           NEW p \in Bijection(DOMAIN nums, DOMAIN nums)
    PROVE  /\ Permuted(nums, p) \in Seq(Int)
           /\ DOMAIN Permuted(nums, p) = DOMAIN nums /\ Len(Permuted(nums, p)) = Len(nums)
           /\ Rearranges(p, DOMAIN nums) /\ SameShares(nums, p, den)
<1> DEFINE D == DOMAIN nums
           nums2 == Permuted(nums, p)
<1>1. Rearranges(p, D)
    BY DEF Rearranges, Bijection, Injection, Surjection, IsInjective
<1>2. D = 1 .. Len(nums) /\ Len(nums) \in Nat
    BY RowsAreFinite
<1>3. \A i \in D : nums[p[i]] \in Int
  <2>1. \A k \in D : nums[k] \in Int
      OBVIOUS
  <2> QED BY <2>1, <1>1 DEF Rearranges
<1>4. nums2 = [i \in 1 .. Len(nums) |-> nums[p[i]]]
    BY <1>2 DEF Permuted
<1>5. nums2 \in [1 .. Len(nums) -> Int]
    BY <1>2, <1>3, <1>4
<1>6. nums2 \in Seq(Int) /\ DOMAIN nums2 = D /\ Len(nums2) = Len(nums)
    BY <1>2, <1>5
<1>7. \A i \in D : nums2[i] = nums[p[i]]
    BY <1>2, <1>4
<1>8. SameShares(nums, p, den)
    BY <1>7 DEF Floor, Remainder, SameShares
<1> HIDE DEF nums2, D
<1> QED BY <1>1, <1>6, <1>8 DEF nums2, D

\* The floors add up to the same, so the difference to spread is the same.
LEMMA PermutedDifference ==
    ASSUME NEW total \in Int, NEW nums \in Seq(Int), NEW den \in Int \ {0},
           NEW p \in Bijection(DOMAIN nums, DOMAIN nums)
    PROVE  Difference(total, Permuted(nums, p), den) = Difference(total, nums, den)
<1> DEFINE D == DOMAIN nums
           f == Floors(nums, den)
           f2 == Floors(Permuted(nums, p), den)
<1>1. DOMAIN Permuted(nums, p) = D /\ Rearranges(p, D) /\ SameShares(nums, p, den)
    BY PermutedRows
<1>2. \A i \in D : Floor(nums, den, i) \in Int
    BY FloorAndRemainder
<1>3. /\ f \in [D -> Int] /\ f2 \in [D -> Int]
      /\ Reorders(D, f2, f, p)
    BY <1>1, <1>2 DEF Floors, Rearranges, SameShares, Reorders
<1>4. IsFiniteSet(D) /\ p \in Bijection(D, D)
    BY RowsAreFinite
<1> HIDE DEF D, f, f2
<1>5. SumFunction(f2) = SumFunction(f)
    BY <1>3, <1>4, SumReindexed
<1> QED BY <1>5 DEF Difference, f, f2

\* Without ties a row keeps its place wherever it comes.
LEMMA PermutedPlace ==
    ASSUME NEW nums \in Seq(Int), NEW den \in Int \ {0}, DistinctRemainders(nums, den),
           NEW p \in Bijection(DOMAIN nums, DOMAIN nums), NEW giving \in BOOLEAN,
           NEW i \in DOMAIN nums
    PROVE  Place(Permuted(nums, p), den, giving, i) = Place(nums, den, giving, p[i])
<1> DEFINE D == DOMAIN nums
           B(j, k) == Before(nums, den, giving, j, k)
           B2(j, k) == Before(Permuted(nums, p), den, giving, j, k)
           Earlier == {k \in D : B(k, p[i])}
           Earlier2 == {j \in D : B2(j, i)}
           move == [j \in Earlier2 |-> p[j]]
<1>0. DOMAIN Permuted(nums, p) = D /\ Rearranges(p, D) /\ SameShares(nums, p, den)
    BY PermutedRows
<1>1. /\ \A j \in D :
            /\ p[j] \in D
            /\ Remainder(Permuted(nums, p), den, j) = Remainder(nums, den, p[j])
      /\ \A j, k \in D : p[j] = p[k] => j = k
      /\ \A k \in D : \E j \in D : p[j] = k
    BY <1>0 DEF Rearranges, SameShares
<1>2. \A j \in D : j \in Int /\ Remainder(nums, den, j) \in Int
    BY FloorAndRemainder
<1>3. \A j \in D : B2(j, i) <=> B(p[j], p[i])
  <2> SUFFICES ASSUME NEW j \in D PROVE B2(j, i) <=> B(p[j], p[i])
      OBVIOUS
  <2> DEFINE a == Remainder(nums, den, p[j])
             b == Remainder(nums, den, p[i])
  <2>0. /\ Remainder(Permuted(nums, p), den, j) = a /\ Remainder(Permuted(nums, p), den, i) = b
        /\ a \in Int /\ b \in Int /\ i \in Int /\ j \in Int /\ p[i] \in Int /\ p[j] \in Int
      BY <1>1, <1>2
  <2>1. CASE j = i
      BY <2>0, <2>1 DEF Before
  <2>2. CASE j # i
    <3>1. Remainder(nums, den, p[j]) # Remainder(nums, den, p[i])
        BY <2>2, <1>1 DEF DistinctRemainders
    <3> QED BY <3>1, <2>0 DEF Before
  <2> QED BY <2>1, <2>2
<1>4. /\ Place(nums, den, giving, p[i]) = Cardinality(Earlier)
      /\ Place(Permuted(nums, p), den, giving, i) = Cardinality(Earlier2)
    BY <1>0 DEF Place
<1> HIDE DEF D, B, B2
<1>5. /\ \A j \in Earlier2 : j \in D /\ p[j] \in Earlier
      /\ \A k \in Earlier : k \in D /\ \E j \in Earlier2 : p[j] = k
    BY <1>1, <1>3
<1>6. IsFiniteSet(Earlier)
  <2>1. Earlier \in SUBSET D /\ IsFiniteSet(D)
      BY RowsAreFinite DEF D
  <2> QED BY <2>1, FS_Subset
<1> HIDE DEF Earlier, Earlier2
<1>7. /\ move \in [Earlier2 -> Earlier]
      /\ \A j, k \in Earlier2 : move[j] = move[k] => j = k
      /\ \A k \in Earlier : \E j \in Earlier2 : move[j] = k
    BY <1>1, <1>5
<1> HIDE DEF move
<1>8. move \in Bijection(Earlier2, Earlier)
    BY <1>7 DEF Bijection, Injection, Surjection, IsInjective
<1>9. IsFiniteSet(Earlier2)
  <2>1. Earlier2 \in SUBSET D /\ IsFiniteSet(D)
      BY <1>5, RowsAreFinite DEF D
  <2> QED BY <2>1, FS_Subset
<1>10. Cardinality(Earlier2) = Cardinality(Earlier)
  <2>1. ExistsBijection(Earlier2, Earlier)
      BY <1>8 DEF ExistsBijection
  <2> QED BY <2>1, <1>9, FS_Bijection
<1> QED BY <1>4, <1>10
\* The rounding order of any call, and whose turn a cent is in it.
LEMMA RoundingOrderIsSorted ==
    ASSUME NEW total \in Int, NEW nums, NEW den
    PROVE  RoundingOrder(total, nums, den) = Sorted(nums, den, Difference(total, nums, den) > 0)
<1> DEFINE d == Difference(total, nums, den)
<1>1. CASE d > 0
  <2>1. (d > 0) = TRUE
      BY <1>1
  <2> QED BY <2>1 DEF RoundingOrder, GivingOrder
<1>2. CASE ~(d > 0)
  <2>1. (d > 0) = FALSE
      BY <1>2
  <2> QED BY <2>1 DEF RoundingOrder, TakingOrder
<1> QED BY <1>1, <1>2

TurnByPlace(nums, den, giving, m, i) ==
    Turn(Sorted(nums, den, giving), m) = i <=> Place(nums, den, giving, i) = m % Len(nums)

LEMMA TurnInSorted ==
    ASSUME NEW nums \in Seq(Int), NEW den \in Int \ {0}, NEW giving \in BOOLEAN,
           NEW m \in Nat, NEW i \in DOMAIN nums
    PROVE  TurnByPlace(nums, den, giving, m, i)
<1> DEFINE count == Len(nums)
           order == Sorted(nums, den, giving)
<1>1. DOMAIN nums = 1 .. count /\ count \in Nat \ {0}
    BY RowsAreFinite
<1>2. Len(order) = count /\ ByPlace(order, nums, den, giving)
    BY SortedByPlace
<1> HIDE DEF count, order
<1>3. m % count \in 0 .. (count - 1)
    BY <1>1, NextQuotient
<1>4. (m % count) + 1 \in DOMAIN nums /\ ((m % count) + 1) - 1 = m % count
    BY <1>1, <1>3
<1>5. Turn(order, m) = order[(m % count) + 1]
    BY <1>2 DEF Turn
<1>6. order[(m % count) + 1] = i <=> Place(nums, den, giving, i) = ((m % count) + 1) - 1
    BY <1>2, <1>4 DEF ByPlace
<1> QED BY <1>4, <1>5, <1>6 DEF order, count, TurnByPlace

\* The cents that are row i's after the permutation were row p[i]'s before.
LEMMA PermutedTurns ==
    ASSUME NEW nums \in Seq(Int), NEW den \in Int \ {0}, DistinctRemainders(nums, den),
           NEW p \in Bijection(DOMAIN nums, DOMAIN nums), NEW giving \in BOOLEAN,
           NEW i \in DOMAIN nums, NEW cents \in Nat
    PROVE  Mine(Sorted(Permuted(nums, p), den, giving), i, cents)
               = Mine(Sorted(nums, den, giving), p[i], cents)
<1> DEFINE nums2 == Permuted(nums, p)
           k == p[i]
<1>1. /\ nums2 \in Seq(Int) /\ i \in DOMAIN nums2 /\ Len(nums2) = Len(nums)
      /\ Rearranges(p, DOMAIN nums)
    BY PermutedRows
<1>2. k \in DOMAIN nums
    BY <1>1 DEF Rearranges
<1>3. Place(nums2, den, giving, i) = Place(nums, den, giving, k)
    BY PermutedPlace
<1> HIDE DEF nums2, k
<1>4. \A m \in Nat :
         Turn(Sorted(nums2, den, giving), m) = i <=> Turn(Sorted(nums, den, giving), m) = k
  <2> SUFFICES ASSUME NEW m \in Nat
               PROVE  Turn(Sorted(nums2, den, giving), m) = i
                          <=> Turn(Sorted(nums, den, giving), m) = k
      OBVIOUS
  <2>1. TurnByPlace(nums2, den, giving, m, i)
      BY <1>1, TurnInSorted
  <2>2. TurnByPlace(nums, den, giving, m, k)
      BY <1>2, TurnInSorted
  <2> QED BY <2>1, <2>2, <1>1, <1>3 DEF TurnByPlace
<1>5. 0 .. (cents - 1) \in SUBSET Nat
    OBVIOUS
<1>6. Mine(Sorted(nums2, den, giving), i, cents) = Mine(Sorted(nums, den, giving), k, cents)
    BY <1>4, <1>5 DEF Mine
<1> QED BY <1>6 DEF nums2, k

LEMMA PermutedParts ==
    ASSUME NEW total \in Int, NEW nums \in Seq(Int), NEW den \in Int \ {0},
           DistinctRemainders(nums, den), NEW p \in Bijection(DOMAIN nums, DOMAIN nums)
    PROVE  ReconcileParts(total, Permuted(nums, p), den)
               = [i \in DOMAIN nums |-> ReconcileParts(total, nums, den)[p[i]]]
<1> DEFINE nums2 == Permuted(nums, p)
           d == Difference(total, nums, den)
           cents == Abs(d)
           giving == d > 0
           Given(q, i) == Cardinality(Mine(RoundingOrder(total, q, den), i, cents))
<1>1. /\ nums2 \in Seq(Int) /\ DOMAIN nums2 = DOMAIN nums
      /\ Rearranges(p, DOMAIN nums) /\ SameShares(nums, p, den)
    BY PermutedRows
<1>2. Difference(total, nums2, den) = d
    BY PermutedDifference
<1>3. d \in Int /\ cents \in Nat /\ giving \in BOOLEAN
  <2>1. Floors(nums, den) \in [DOMAIN nums -> Int] /\ IsFiniteSet(DOMAIN nums)
      BY FloorAndRemainder, RowsAreFinite DEF Floors
  <2>2. SumFunction(Floors(nums, den)) \in Int
      BY <2>1, SumType
  <2> QED BY <2>2 DEF Difference, Abs
<1>4. /\ RoundingOrder(total, nums, den) = Sorted(nums, den, giving)
      /\ RoundingOrder(total, nums2, den) = Sorted(nums2, den, giving)
    BY <1>2, RoundingOrderIsSorted
<1> HIDE DEF giving, cents
<1>5. \A i \in DOMAIN nums : Given(nums2, i) = Given(nums, p[i])
    BY <1>3, <1>4, PermutedTurns
<1>6. /\ ReconcileParts(total, nums, den) =
            [i \in DOMAIN nums |-> Floor(nums, den, i) + Sign(d) * Given(nums, i)]
      /\ ReconcileParts(total, nums2, den) =
            [i \in DOMAIN nums |-> Floor(nums2, den, i) + Sign(d) * Given(nums2, i)]
    BY <1>1, <1>2, ClosedForm DEF cents
<1> HIDE DEF nums2, d, Given
<1>7. \A i \in DOMAIN nums :
         /\ p[i] \in DOMAIN nums
         /\ Floor(nums2, den, i) = Floor(nums, den, p[i])
    BY <1>1 DEF Rearranges, SameShares, nums2
<1>8. ReconcileParts(total, nums2, den)
          = [i \in DOMAIN nums |-> ReconcileParts(total, nums, den)[p[i]]]
    BY <1>5, <1>6, <1>7
<1> QED BY <1>8 DEF nums2

LEMMA DoneIsRowOrderFree == LoopInv => RowOrderFree
<1> DEFINE D == DOMAIN parts
<1> SUFFICES ASSUME LoopInv, Done,
                    \A i, j \in D : i # j => Remainder(call.nums, call.den, i)
                                                # Remainder(call.nums, call.den, j),
                    NEW p \in Bijection(D, D)
             PROVE  ReconcileParts(call.total, [i \in D |-> call.nums[p[i]]], call.den)
                        = [i \in D |-> parts[p[i]]]
    BY DEF RowOrderFree
<1>1. /\ call \in Cases /\ D = DOMAIN call.nums
      /\ call.total \in Int /\ call.nums \in Seq(Int) /\ call.den \in Int \ {0}
    BY CallFacts DEF LoopInv, LoopTypeOK
<1>2. parts = ReconcileParts(call.total, call.nums, call.den)
    BY LoopReturnsClosedForm
<1>3. DistinctRemainders(call.nums, call.den)
    BY <1>1 DEF DistinctRemainders
<1>4. p \in Bijection(DOMAIN call.nums, DOMAIN call.nums)
    BY <1>1
<1>5. ReconcileParts(call.total, Permuted(call.nums, p), call.den)
          = [i \in DOMAIN call.nums |-> ReconcileParts(call.total, call.nums, call.den)[p[i]]]
    BY <1>1, <1>3, <1>4, PermutedParts
<1>6. Permuted(call.nums, p) = [i \in D |-> call.nums[p[i]]]
    BY <1>1 DEF Permuted
<1> HIDE DEF D
<1> QED BY <1>1, <1>2, <1>5, <1>6

\* "Rounding must not depend on source row order": whatever the number of
\* rows and the order they come in, when no two remainders are equal a row
\* gets the same part wherever it comes.
THEOREM RoundingIsRowOrderFree == LoopSpec => []RowOrderFree
<1> QED BY DoneIsRowOrderFree, LoopInvariant, PTL
---------------------------------------------------------------------------
(* What the rounding returns, cent by cent, whatever it is used for.       *)

\* Whose turn a cent is is one of the rows.
LEMMA TurnIsARow ==
    ASSUME NEW nums \in Seq(Int), nums # <<>>, NEW den \in Int \ {0}, NEW giving \in BOOLEAN,
           NEW m \in Nat
    PROVE  Turn(Sorted(nums, den, giving), m) \in DOMAIN nums
<1> DEFINE count == Len(nums)
           order == Sorted(nums, den, giving)
<1>1. DOMAIN nums = 1 .. count /\ count \in Nat \ {0}
    BY RowsAreFinite
<1>2. Len(order) = count /\ order \in [DOMAIN nums -> DOMAIN nums]
    BY SortedByPlace
<1> HIDE DEF count, order
<1>3. (m % count) + 1 \in DOMAIN nums
  <2>1. m % count \in 0 .. (count - 1)
      BY <1>1, NextQuotient
  <2> QED BY <1>1, <2>1
<1> QED BY <1>2, <1>3 DEF Turn, order

LEMMA DifferenceType ==
    ASSUME NEW total \in Int, NEW nums \in Seq(Int), NEW den \in Int \ {0}
    PROVE  /\ Difference(total, nums, den) \in Int /\ Abs(Difference(total, nums, den)) \in Nat
           /\ Sign(Difference(total, nums, den)) \in {-1, 1}
           /\ Sign(Difference(total, nums, den)) * Abs(Difference(total, nums, den))
                 = Difference(total, nums, den)
           /\ Floors(nums, den) \in [DOMAIN nums -> Int]
           /\ SumFunction(Floors(nums, den)) \in Int
           /\ Difference(total, nums, den) = total - SumFunction(Floors(nums, den))
<1>1. Floors(nums, den) \in [DOMAIN nums -> Int] /\ IsFiniteSet(DOMAIN nums)
    BY FloorAndRemainder, RowsAreFinite DEF Floors
<1>2. SumFunction(Floors(nums, den)) \in Int
    BY <1>1, SumType
<1> DEFINE d == Difference(total, nums, den)
<1>3. d = total - SumFunction(Floors(nums, den))
    BY DEF Difference
<1>4. d \in Int
    BY <1>2, <1>3
<1> HIDE DEF d
<1>5. Abs(d) \in Nat /\ Sign(d) \in {-1, 1} /\ Sign(d) * Abs(d) = d
    BY <1>4 DEF Abs, Sign
<1> QED BY <1>1, <1>2, <1>3, <1>4, <1>5 DEF d

\* The parts after the first m cents.
PartsAfter(total, nums, den, m) ==
    [i \in DOMAIN nums |->
        Floor(nums, den, i)
            + Sign(Difference(total, nums, den))
                  * Cardinality(Mine(RoundingOrder(total, nums, den), i, m))]

LEMMA PartsStep ==
    ASSUME NEW total \in Int, NEW nums \in Seq(Int), nums # <<>>, NEW den \in Int \ {0}, NEW m \in Nat
    PROVE  /\ PartsAfter(total, nums, den, m) \in [DOMAIN nums -> Int]
           /\ PartsAfter(total, nums, den, 0) = Floors(nums, den)
           /\ SumFunction(PartsAfter(total, nums, den, m + 1))
                 = SumFunction(PartsAfter(total, nums, den, m)) + Sign(Difference(total, nums, den))
<1> DEFINE D == DOMAIN nums
           sign == Sign(Difference(total, nums, den))
           order == RoundingOrder(total, nums, den)
           row == Turn(order, m)
           P(k) == PartsAfter(total, nums, den, k)
<1>1. IsFiniteSet(D) /\ sign \in {-1, 1}
    BY RowsAreFinite, DifferenceType
<1>2. \A i \in D : Floor(nums, den, i) \in Int
    BY FloorAndRemainder
<1>3. row \in D
  <2> DEFINE giving == Difference(total, nums, den) > 0
  <2>1. order = Sorted(nums, den, giving) /\ giving \in BOOLEAN
      BY RoundingOrderIsSorted
  <2> HIDE DEF giving
  <2> QED BY <2>1, TurnIsARow
<1> HIDE DEF row, order, sign
<1>4. \A k : P(k) = [i \in D |-> Floor(nums, den, i) + sign * Cardinality(Mine(order, i, k))]
    BY DEF PartsAfter, sign, order
<1>5. \A i \in D : /\ Cardinality(Mine(order, i, 0)) = 0 /\ Cardinality(Mine(order, i, m)) \in Nat
                   /\ Cardinality(Mine(order, i, m + 1))
                         = Cardinality(Mine(order, i, m)) + (IF row = i THEN 1 ELSE 0)
    BY TurnsCounted DEF row
<1> HIDE DEF D, P
<1>6. P(m) \in [D -> Int] /\ P(m + 1) \in [D -> Int]
  <2>1. \A i \in D : /\ Cardinality(Mine(order, i, m)) \in Int
                     /\ Cardinality(Mine(order, i, m + 1)) \in Int
      BY <1>5
  <2> QED BY <1>1, <1>2, <1>4, <2>1
<1>7. \A i \in D : P(m + 1)[i] = P(m)[i] + (IF row = i THEN sign ELSE 0)
  <2> SUFFICES ASSUME NEW i \in D
               PROVE  P(m + 1)[i] = P(m)[i] + (IF row = i THEN sign ELSE 0)
      OBVIOUS
  <2> DEFINE c == Cardinality(Mine(order, i, m))
             c2 == Cardinality(Mine(order, i, m + 1))
             fl == Floor(nums, den, i)
  <2>1. /\ P(m)[i] = fl + sign * c /\ P(m + 1)[i] = fl + sign * c2
        /\ fl \in Int /\ c \in Int /\ c2 = c + (IF row = i THEN 1 ELSE 0)
      BY <1>2, <1>4, <1>5
  <2> HIDE DEF c, c2, fl
  <2>2. CASE row = i
      BY <2>1, <2>2, <1>1
  <2>3. CASE row # i
      BY <2>1, <2>3, <1>1
  <2> QED BY <2>2, <2>3
<1>8. SumFunction(P(m + 1)) = SumFunction(P(m)) + sign
  <2> DEFINE f == P(m)
             f2 == P(m + 1)
  <2>1. f \in [D -> Int] /\ f2 \in [D -> Int] /\ sign \in Int
      BY <1>1, <1>6
  <2>2. \A i \in D : f2[i] = f[i] + (IF row = i THEN sign ELSE 0)
      BY <1>7
  <2> HIDE DEF f, f2
  <2>3. SumFunction(f2) = SumFunction(f) + sign
      BY <2>1, <2>2, <1>1, <1>3, SumOfChanged DEF D
  <2> QED BY <2>3 DEF f, f2
<1>9. P(0) = Floors(nums, den)
  <2>1. \A i \in D : Floor(nums, den, i) + sign * Cardinality(Mine(order, i, 0)) = Floor(nums, den, i)
      BY <1>1, <1>2, <1>5
  <2> QED BY <1>4, <2>1 DEF Floors, D
<1> QED BY <1>6, <1>8, <1>9 DEF P, D, sign

\* What _reconcile_parts returns adds up to the total, for any shares of at
\* least one row.
LEMMA PartsConserve ==
    ASSUME NEW total \in Int, NEW nums \in Seq(Int), nums # <<>>, NEW den \in Int \ {0}
    PROVE  /\ ReconcileParts(total, nums, den) \in [DOMAIN nums -> Int]
           /\ SumFunction(ReconcileParts(total, nums, den)) = total
<1> DEFINE d == Difference(total, nums, den)
           cents == Abs(d)
           P(m) == PartsAfter(total, nums, den, m)
           floors == SumFunction(Floors(nums, den))
           S == {m \in 0 .. cents : SumFunction(P(m)) = floors + Sign(d) * m}
<1>1. /\ d \in Int /\ cents \in Nat /\ Sign(d) \in {-1, 1} /\ Sign(d) * cents = d
      /\ floors \in Int /\ d = total - floors
    BY DifferenceType
<1>2. \A m \in Nat : /\ P(m) \in [DOMAIN nums -> Int] /\ P(0) = Floors(nums, den)
                     /\ SumFunction(P(m + 1)) = SumFunction(P(m)) + Sign(d)
    BY PartsStep
<1>3. ReconcileParts(total, nums, den) = P(cents)
    BY ClosedForm DEF PartsAfter
<1> HIDE DEF d, cents, P, floors
<1>4. 0 \in S
  <2>1. SumFunction(P(0)) = floors
      BY <1>2 DEF floors
  <2> QED BY <2>1, <1>1
<1>5. ASSUME NEW m \in 1 .. cents, m - 1 \in S
      PROVE  m \in S
  <2>1. m - 1 \in Nat /\ (m - 1) + 1 = m
      BY <1>1
  <2>2. SumFunction(P(m)) = SumFunction(P(m - 1)) + Sign(d)
      BY <2>1, <1>2
  <2>3. SumFunction(P(m - 1)) = floors + Sign(d) * (m - 1)
      BY <1>5
  <2>4. SumFunction(P(m)) = floors + Sign(d) * m
    <3>1. CASE Sign(d) = 1
        BY <3>1, <2>1, <2>2, <2>3, <1>1
    <3>2. CASE Sign(d) = -1
        BY <3>2, <2>1, <2>2, <2>3, <1>1
    <3> QED BY <3>1, <3>2, <1>1
  <2>5. m \in 0 .. cents
      BY <1>1
  <2> QED BY <2>4, <2>5
<1>6. cents \in S
  <2> HIDE DEF S
  <2>1. 0 .. cents \subseteq S
      BY <1>1, <1>4, <1>5, Induction
  <2> QED BY <2>1, <1>1
<1>7. SumFunction(P(cents)) = total
    BY <1>1, <1>6
<1> QED BY <1>1, <1>2, <1>3, <1>7

---------------------------------------------------------------------------
(* The divisions of an account: over File B rows, and over awards.         *)

LEMMA SplitConserves ==
    ASSUME NEW amount \in Int, NEW outlays \in Seq(Int), outlays # <<>>, SumFunction(outlays) # 0
    PROVE  SumFunction(Split(amount, outlays)) = amount
<1> DEFINE nums == [i \in DOMAIN outlays |-> amount * outlays[i]]
           den == SumFunction(outlays)
<1>1. IsFiniteSet(DOMAIN outlays) /\ outlays \in [DOMAIN outlays -> Int]
    BY RowsAreFinite
<1>2. den \in Int \ {0}
    BY <1>1, SumType
<1>3. nums \in Seq(Int) /\ nums # <<>>
  <2>1. DOMAIN outlays = 1 .. Len(outlays) /\ Len(outlays) \in Nat /\ Len(outlays) # 0
      BY RowsAreFinite
  <2>2. \A i \in DOMAIN outlays : amount * outlays[i] \in Int
      BY <1>1
  <2>3. nums \in [1 .. Len(outlays) -> Int]
      BY <2>1, <2>2
  <2> HIDE DEF nums
  <2>4. nums \in Seq(Int) /\ Len(nums) # 0
      BY <2>1, <2>3
  <2> QED BY <2>4
<1> HIDE DEF nums, den
<1>4. SumFunction(ReconcileParts(amount, nums, den)) = amount
    BY <1>2, <1>3, PartsConserve
<1> QED BY <1>4 DEF Split, nums, den

LEMMA EmptyParts == SumFunction(<<>>) = 0
<1>1. <<>> \in [{} -> Int]
    OBVIOUS
<1> QED BY <1>1, SumOfNone

LEMMA ChildrenConserve ==
    ASSUME NEW amount \in Int, NEW outlays \in Seq(Int)
    PROVE  DivisionTotal(Children(amount, outlays)) = amount
<1>1. CASE outlays = <<>> \/ SumFunction(outlays) = 0
  <2>1. Children(amount, outlays) = [parts |-> <<>>, residual |-> amount]
      BY <1>1 DEF Children
  <2> QED BY <2>1, EmptyParts DEF DivisionTotal
<1>2. CASE ~(outlays = <<>> \/ SumFunction(outlays) = 0)
  <2>1. Children(amount, outlays) = [parts |-> Split(amount, outlays), residual |-> 0]
      BY <1>2 DEF Children
  <2>2. SumFunction(Split(amount, outlays)) = amount
      BY <1>2, SplitConserves
  <2> QED BY <2>1, <2>2 DEF DivisionTotal
<1> QED BY <1>1, <1>2

\* A whole number and its floor and remainder have the same sign.
LEMMA FloorSign ==
    ASSUME NEW b \in Nat \ {0}, NEW f \in Int, NEW r \in 0 .. (b - 1)
    PROVE  /\ b * f + r >= 0 => f >= 0
           /\ b * f + r <= 0 => f <= 0 /\ (r > 0 => f <= -1)
           /\ b * f + r = 0 => f = 0 /\ r = 0
<1>1. CASE f >= 1
  <2>1. b * f = b + b * (f - 1) /\ b * (f - 1) >= 0
      BY <1>1
  <2>2. b * f \in Int /\ b * f >= b
      BY <1>1, <2>1
  <2> QED BY <1>1, <2>2
<1>2. CASE f = 0
    BY <1>2
<1>3. CASE f <= -1
  <2>1. b * f = -b - b * (-1 - f) /\ b * (-1 - f) >= 0
      BY <1>3
  <2>2. b * f \in Int /\ b * f <= -b
      BY <1>3, <2>1
  <2> QED BY <1>3, <2>2
<1> QED BY <1>1, <1>2, <1>3

LEMMA TwoRows == IsFiniteSet(1 .. 2) /\ Cardinality(1 .. 2) = 2
<1>1. 1 \in Int /\ 2 \in Int
    OBVIOUS
<1>2. /\ IsFiniteSet(1 .. 2)
      /\ Cardinality(1 .. 2) = IF 1 > 2 THEN 0 ELSE 2 - 1 + 1
    BY <1>1, FS_Interval
<1> QED BY <1>2

LEMMA SumOfTwo ==
    ASSUME NEW f \in [1 .. 2 -> Int]
    PROVE  SumFunction(f) = f[1] + f[2]
<1> DEFINE r == Restrict(f, (1 .. 2) \ {1})
<1>1. IsFiniteSet(1 .. 2) /\ 1 \in 1 .. 2
    BY TwoRows
<1>2. r \in [{2} -> Int] /\ r[2] = f[2]
  <2>1. (1 .. 2) \ {1} = {2}
      OBVIOUS
  <2> QED BY <2>1 DEF Restrict
<1>3. SumFunction(f) = f[1] + SumFunction(r)
    BY <1>1, SumTakeOut
<1> HIDE DEF r
<1>4. \A x \in {2} : r[x] = IF x = 2 THEN f[2] ELSE 0
    BY <1>2
<1>5. SumFunction(r) = f[2]
  <2> DEFINE v == f[2]
             D == {2}
  <2>1. v \in Int /\ IsFiniteSet(D) /\ r \in [D -> Int] /\ 2 \in D
      BY <1>2, FS_Singleton
  <2>2. \A x \in D : r[x] = IF x = 2 THEN v ELSE 0
      BY <1>4
  <2> HIDE DEF v, D
  <2>3. SumFunction(r) = v
      BY <2>1, <2>2, SumOfPoint
  <2> QED BY <2>3 DEF v
<1> QED BY <1>3, <1>5

LEMMA AtMostOne ==
    ASSUME NEW S \in SUBSET {1, 2}, NEW x \in {1, 2}, x \notin S
    PROVE  Cardinality(S) \in {0, 1}
<1>1. CASE S = {}
    BY <1>1, FS_EmptySet
<1>2. CASE S # {}
  <2>1. PICK y \in S : TRUE
      BY <1>2
  <2>2. S = {y}
      BY <2>1
  <2> QED BY <2>2, FS_Singleton
<1> QED BY <1>1, <1>2

Within(part, whole) == (0 <= part /\ part <= whole) \/ (whole <= part /\ part <= 0)

\* An amount divided in two by weights c and b - c, neither of them negative:
\* each part has the sign of the whole and is no larger.
LEMMA DividedInTwo ==
    ASSUME NEW amount \in Int, NEW b \in Nat \ {0}, NEW c \in 0 .. b,
           NEW pool, pool = ReconcileParts(amount, <<amount * c, amount * (b - c)>>, b)
    PROVE  /\ pool[1] \in Int /\ pool[2] \in Int /\ pool[1] + pool[2] = amount
           /\ Within(pool[1], amount)
           /\ c = 0 => pool[1] = 0
<1> DEFINE v1 == amount * c
           v2 == amount * (b - c)
           nums == <<v1, v2>>
           f1 == Floor(nums, b, 1)
           f2 == Floor(nums, b, 2)
           r1 == Remainder(nums, b, 1)
           r2 == Remainder(nums, b, 2)
           d == Difference(amount, nums, b)
           w == WithRemainder(nums, b)
<1>0. /\ b \in Int \ {0} /\ b - c \in Nat /\ c \in Nat
      /\ Abs(b) = b /\ Sign(b) = 1
    BY DEF Abs, Sign
<1>1. v1 \in Int /\ v2 \in Int
    BY <1>0
<1>2. v1 + v2 = amount * b
  <2>1. amount * (b - c) = amount * b - amount * c
      BY <1>0
  <2>2. amount * b \in Int /\ amount * c \in Int
      BY <1>0
  <2> QED BY <2>1, <2>2
<1>3. /\ amount >= 0 => v1 >= 0 /\ v2 >= 0
      /\ amount <= 0 => v1 <= 0 /\ v2 <= 0
      /\ c = 0 => v1 = 0
  <2>1. \A x \in Int, y \in Nat : (x >= 0 => x * y >= 0) /\ (x <= 0 => x * y <= 0) /\ x * 0 = 0
      OBVIOUS
  <2> QED BY <2>1, <1>0
<1> HIDE DEF v1, v2
<1>4. nums \in Seq(Int) /\ nums # <<>> /\ DOMAIN nums = 1 .. 2 /\ nums[1] = v1 /\ nums[2] = v2
    BY <1>1
<1>5. pool = ReconcileParts(amount, nums, b)
    BY DEF v1, v2
<1> HIDE DEF nums
<1>6. /\ f1 \in Int /\ r1 \in 0 .. (b - 1) /\ v1 = b * f1 + r1
      /\ f2 \in Int /\ r2 \in 0 .. (b - 1) /\ v2 = b * f2 + r2
  <2>1. \A i \in {1, 2} : /\ nums[i] \in Int /\ Floor(nums, b, i) \in Int
                          /\ Remainder(nums, b, i) \in 0 .. (b - 1)
                          /\ 1 * nums[i] = b * Floor(nums, b, i) + Remainder(nums, b, i)
    <3>1. 1 \in DOMAIN nums /\ 2 \in DOMAIN nums
        BY <1>4
    <3> QED BY <3>1, <1>0, <1>4, FloorAndRemainder
  <2> HIDE DEF f1, f2, r1, r2
  <2>2. 1 * v1 = v1 /\ 1 * v2 = v2
      BY <1>1
  <2> QED BY <2>1, <2>2, <1>4 DEF f1, f2, r1, r2
<1>7. pool \in [1 .. 2 -> Int] /\ SumFunction(pool) = amount
    BY <1>0, <1>4, <1>5, PartsConserve
<1>8. pool[1] + pool[2] = amount
    BY <1>7, SumOfTwo
<1>9. d = amount - (f1 + f2)
  <2>1. Floors(nums, b) \in [1 .. 2 -> Int] /\ Floors(nums, b)[1] = f1 /\ Floors(nums, b)[2] = f2
      BY <1>4, <1>6 DEF Floors
  <2>2. SumFunction(Floors(nums, b)) = f1 + f2
      BY <2>1, SumOfTwo
  <2> QED BY <2>2 DEF Difference
<1>10. d \in Nat /\ (d > 0 => d < Cardinality(w))
  <2>1. nums \in [1 .. 2 -> Int]
    <3>1. nums \in Seq(Int)
        BY <1>4
    <3>2. nums \in [DOMAIN nums -> Int]
        BY <3>1
    <3> QED BY <3>2, <1>4
  <2>2. SumFunction(nums) = amount * b
      BY <2>1, <1>2, <1>4, SumOfTwo
  <2> QED BY <2>2, <1>0, <1>4, ExactDifference DEF Exact
<1>11. w \in SUBSET {1, 2} /\ (1 \in w <=> r1 > 0) /\ (2 \in w <=> r2 > 0)
    BY <1>4 DEF WithRemainder
<1>12. d \in {0, 1} /\ (d = 1 => r1 > 0 /\ r2 > 0)
  <2> HIDE DEF d, w, r1, r2
  <2>1. 1 \notin w \/ 2 \notin w => Cardinality(w) \in {0, 1}
      BY <1>11, AtMostOne
  <2>2. Cardinality(w) \in 0 .. 2
    <3>1. w \in SUBSET (1 .. 2)
        BY <1>11
    <3>2. IsFiniteSet(1 .. 2) /\ Cardinality(1 .. 2) = 2
        BY TwoRows
    <3>3. Cardinality(w) <= 2 /\ Cardinality(w) \in Nat
        BY <3>1, <3>2, FS_Subset, FS_CardinalityType
    <3> QED BY <3>3
  <2> QED BY <2>1, <2>2, <1>10, <1>11
<1>13. pool[1] = f1 \/ (d = 1 /\ pool[1] = f1 + 1)
  <2> DEFINE order == RoundingOrder(amount, nums, b)
             Count(m) == Cardinality(Mine(order, 1, m))
  <2>1. pool[1] = f1 + Sign(d) * Count(Abs(d))
      BY <1>4, <1>5, ClosedForm
  <2>2. Count(0) = 0 /\ Count(0 + 1) = Count(0) + (IF Turn(order, 0) = 1 THEN 1 ELSE 0)
      BY TurnsCounted
  <2> HIDE DEF Count, order, d, f1
  <2>3. Sign(d) = 1 /\ Abs(d) = d
      BY <1>12 DEF Sign, Abs
  <2>4. Count(1) \in {0, 1}
      BY <2>2
  <2> QED BY <2>1, <2>2, <2>3, <2>4, <1>6, <1>12
<1> HIDE DEF f1, f2, r1, r2, d, w
<1>14. /\ v1 >= 0 => f1 >= 0
       /\ v1 <= 0 => f1 <= 0 /\ (r1 > 0 => f1 <= -1)
       /\ v1 = 0 => f1 = 0 /\ r1 = 0
    BY <1>6, FloorSign
<1>15. /\ v2 >= 0 => f2 >= 0
       /\ v2 <= 0 => f2 <= 0 /\ (r2 > 0 => f2 <= -1)
    BY <1>6, FloorSign
<1>16. Within(pool[1], amount)
    BY <1>3, <1>6, <1>9, <1>12, <1>13, <1>14, <1>15 DEF Within
<1>17. c = 0 => pool[1] = 0
    BY <1>3, <1>12, <1>13, <1>14, <1>6
<1>18. pool[1] \in Int /\ pool[2] \in Int
    BY <1>7
<1> QED BY <1>8, <1>16, <1>17, <1>18

---------------------------------------------------------------------------
(* Selections of rows.                                                     *)

Rank(I, i) == Cardinality({j \in I : j < i})

\* Every place of a selection has its row.
LEMMA RankedRows ==
    ASSUME NEW last \in Nat, NEW I \in SUBSET (1 .. last)
    PROVE  /\ Cardinality(I) \in Nat /\ (Cardinality(I) = 0 <=> I = {})
           /\ \A k \in 1 .. Cardinality(I) : \E i \in I : Rank(I, i) = k - 1
<1> DEFINE size == Cardinality(I)
           Earlier(i) == {j \in I : j < i}
<1>0. \A i \in I : i \in Int
    OBVIOUS
<1>1. IsFiniteSet(1 .. last) /\ IsFiniteSet(I) /\ size \in Nat
  <2>1. IsFiniteSet(1 .. last)
      BY FS_Interval
  <2> QED BY <2>1, FS_Subset, FS_CardinalityType
<1>2. size = 0 <=> I = {}
    BY <1>1, FS_EmptySet
<1>3. ASSUME NEW i \in I
      PROVE  IsFiniteSet(Earlier(i)) /\ Rank(I, i) \in 0 .. (size - 1)
  <2>1. Earlier(i) \in SUBSET (I \ {i})
      OBVIOUS
  <2>2. Rank(I, i) = Cardinality(Earlier(i))
      BY DEF Rank
  <2> HIDE DEF Earlier
  <2>3. IsFiniteSet(I \ {i}) /\ Cardinality(I \ {i}) = size - 1
      BY <1>1, FS_RemoveElement
  <2>4. IsFiniteSet(Earlier(i)) /\ Cardinality(Earlier(i)) <= size - 1
      BY <2>1, <2>3, FS_Subset
  <2>5. Cardinality(Earlier(i)) \in Nat
      BY <2>4, FS_CardinalityType
  <2> HIDE DEF size
  <2> QED BY <2>2, <2>4, <2>5, <1>1
<1>4. ASSUME NEW i \in I, NEW j \in I, i < j
      PROVE  Rank(I, i) < Rank(I, j)
  <2>1. Earlier(i) \in SUBSET Earlier(j) /\ i \in Earlier(j) /\ i \notin Earlier(i)
    <3>1. i \in Int /\ j \in Int /\ \A m \in I : m \in Int
        BY <1>0
    <3>2. ~(i < i) /\ \A m \in I : m < i => m < j
        BY <3>1, <1>4
    <3> QED BY <3>2, <1>4
  <2>2. Rank(I, i) = Cardinality(Earlier(i)) /\ Rank(I, j) = Cardinality(Earlier(j))
      BY DEF Rank
  <2> HIDE DEF Earlier
  <2>3. /\ Cardinality(Earlier(i)) <= Cardinality(Earlier(j))
        /\ Cardinality(Earlier(i)) = Cardinality(Earlier(j)) => Earlier(i) = Earlier(j)
      BY <2>1, <1>3, FS_Subset
  <2>4. Rank(I, i) \in Int /\ Rank(I, j) \in Int
      BY <1>1, <1>3
  <2> QED BY <2>1, <2>2, <2>3, <2>4
<1>5. ASSUME NEW k \in 1 .. size
      PROVE  \E i \in I : Rank(I, i) = k - 1
  <2> DEFINE P == 0 .. (size - 1)
             rank == [i \in I |-> Rank(I, i)]
  <2>1. rank \in [I -> P]
      BY <1>3
  <2>2. \A i, j \in I : rank[i] = rank[j] => i = j
    <3>1. \A i \in I : Rank(I, i) \in Int /\ i \in Int
      <4>1. \A i \in I : Rank(I, i) \in 0 .. (size - 1)
          BY <1>3
      <4> HIDE DEF size
      <4>2. \A r \in 0 .. (size - 1) : r \in Int
          BY <1>1
      <4> QED BY <4>1, <4>2, <1>0
    <3>2. \A i, j \in I : i # j => i < j \/ j < i
        BY <3>1
    <3>3. \A i, j \in I : i # j => Rank(I, i) # Rank(I, j)
        BY <3>1, <3>2, <1>4
    <3> QED BY <3>3
  <2>3. IsFiniteSet(P) /\ Cardinality(P) = size /\ k - 1 \in P
    <3> DEFINE top == size - 1
    <3>1. 0 \in Int /\ top \in Int /\ ~(0 > top) /\ top - 0 + 1 = size /\ k - 1 \in 0 .. top
        BY <1>1
    <3> HIDE DEF top
    <3>2. IsFiniteSet(0 .. top) /\ Cardinality(0 .. top) = top - 0 + 1
        BY <3>1, FS_Interval
    <3> QED BY <3>1, <3>2 DEF top
  <2>4. rank \in Injection(I, P)
    <3> HIDE DEF rank, P
    <3> QED BY <2>1, <2>2 DEF Injection, IsInjective
  <2>5. rank \in Surjection(I, P)
    <3> HIDE DEF rank, P
    <3> QED BY <2>3, <2>4, <1>1, FS_Injection
  <2>6. \E i \in I : rank[i] = k - 1
    <3> HIDE DEF rank
    <3> QED BY <2>3, <2>5 DEF Surjection
  <2> QED BY <2>6
<1> QED BY <1>1, <1>2, <1>5

\* The rows of a selection are different rows of what it selects from.
SelectedFrom(t, s, I, at) ==
    /\ at \in [DOMAIN t -> I]
    /\ \A k \in DOMAIN t : t[k] = s[at[k]]
    /\ \A k, l \in DOMAIN t : at[k] = at[l] => k = l

LEMMA SelectedRows ==
    ASSUME NEW T, NEW s \in Seq(T), NEW I \in SUBSET DOMAIN s
    PROVE  /\ Selected(s, I) \in Seq(T)
           /\ Selected(s, I) = <<>> <=> I = {}
           /\ \E at : SelectedFrom(Selected(s, I), s, I, at)
<1> DEFINE size == Cardinality(I)
           at == [k \in 1 .. size |-> CHOOSE i \in I : Rank(I, i) = k - 1]
           t == Selected(s, I)
<1>1. DOMAIN s = 1 .. Len(s) /\ Len(s) \in Nat
    OBVIOUS
<1>2. /\ size \in Nat /\ (size = 0 <=> I = {})
      /\ \A k \in 1 .. size : \E i \in I : Rank(I, i) = k - 1
    BY <1>1, RankedRows
<1>3. t = [k \in 1 .. size |-> s[at[k]]]
    BY DEF Selected, Rank
<1>4. /\ at \in [1 .. size -> I]
      /\ \A k \in 1 .. size : Rank(I, at[k]) = k - 1
    BY <1>2
<1> HIDE DEF at, t
<1>5. \A k \in 1 .. size : s[at[k]] \in T
    BY <1>1, <1>4
<1>6. t \in [1 .. size -> T]
    BY <1>3, <1>5
<1> HIDE DEF size
<1>7. t \in Seq(T) /\ DOMAIN t = 1 .. size /\ Len(t) = size
    BY <1>2, <1>6
<1>8. t = <<>> <=> size = 0
    BY <1>7, <1>2
<1>9. \A k, l \in 1 .. size : at[k] = at[l] => k = l
  <2>1. \A k, l \in 1 .. size : k - 1 = l - 1 => k = l
      BY <1>2
  <2> QED BY <2>1, <1>4
<1>10. SelectedFrom(t, s, I, at)
    BY <1>3, <1>4, <1>7, <1>9 DEF SelectedFrom
<1> QED BY <1>2, <1>7, <1>8, <1>10 DEF t

---------------------------------------------------------------------------
(* From a tax result to the pools.                                         *)

TaxResults == [Revenues -> Nat]
MappingRows == [revenue : Revenues, pool : Pools, share : Nat]
MappedRevenues == {r \in Revenues : Mapped(r)}

LEMMA MappingsOfRevenue ==
    ASSUME NEW r \in Revenues
    PROVE  /\ MappingsOf(r) \in Seq(MappingRows)
           /\ \A k \in DOMAIN MappingsOf(r) : MappingsOf(r)[k].pool \in ContributingPools
<1> DEFINE I == {i \in DOMAIN Mappings : Mappings[i].revenue = r}
<1>1. Mappings \in Seq(MappingRows) /\ I \in SUBSET DOMAIN Mappings
    BY EngineAssumption DEF MappingRows
<1>2. MappingsOf(r) = Selected(Mappings, I)
    BY DEF MappingsOf
<1> HIDE DEF I
<1>3. /\ Selected(Mappings, I) \in Seq(MappingRows)
      /\ \E at : SelectedFrom(Selected(Mappings, I), Mappings, I, at)
    BY <1>1, SelectedRows
<1>4. PICK at : SelectedFrom(MappingsOf(r), Mappings, I, at)
    BY <1>2, <1>3
<1>5. \A k \in DOMAIN MappingsOf(r) :
         at[k] \in DOMAIN Mappings /\ MappingsOf(r)[k] = Mappings[at[k]]
    BY <1>1, <1>4 DEF SelectedFrom
<1>6. \A k \in DOMAIN MappingsOf(r) : MappingsOf(r)[k].pool \in ContributingPools
    BY <1>5 DEF ContributingPools, Range
<1> QED BY <1>2, <1>3, <1>6

LEMMA ContributingPoolsType ==
    /\ ContributingPools \in SUBSET Pools /\ Pools \in SUBSET Nat /\ IsFiniteSet(ContributingPools)
<1>1. ContributingPools \in SUBSET Pools
  <2>1. \A i \in DOMAIN Mappings : Mappings[i] \in MappingRows
    <3>1. Mappings \in Seq(MappingRows)
        BY EngineAssumption DEF MappingRows
    <3> QED BY <3>1
  <2>2. \A m \in MappingRows : m.pool \in Pools
      BY DEF MappingRows
  <2> QED BY <2>1, <2>2 DEF ContributingPools, Range
<1>2. IsFiniteSet(Pools) /\ Pools \in SUBSET Nat
  <2>1. NPools \in Int /\ 1 \in Int
      BY EngineAssumption
  <2> QED BY <2>1, FS_Interval DEF Pools
<1> QED BY <1>1, <1>2, FS_Subset

\* The rows of a mapped revenue share out the whole of it.
LEMMA MappedAmountsConserve ==
    ASSUME NEW t \in TaxResults, NEW r \in MappedRevenues
    PROVE  /\ MappedAmounts(t, r) \in [DOMAIN MappingsOf(r) -> Int]
           /\ SumFunction(MappedAmounts(t, r)) = t[r]
<1> DEFINE rows == MappingsOf(r)
           nums == [k \in DOMAIN rows |-> t[r] * rows[k].share]
<1>1. rows \in Seq(MappingRows) /\ rows # <<>> /\ t[r] \in Nat
    BY MappingsOfRevenue DEF MappedRevenues, Mapped, TaxResults
<1>2. MappedAmounts(t, r) = ReconcileParts(t[r], nums, ShareUnit)
    BY DEF MappedAmounts
<1> HIDE DEF rows
<1>3. nums \in Seq(Int) /\ nums # <<>> /\ DOMAIN nums = DOMAIN rows
  <2>1. DOMAIN rows = 1 .. Len(rows) /\ Len(rows) \in Nat /\ Len(rows) # 0
      BY <1>1
  <2>2. \A k \in DOMAIN rows : rows[k].share \in Nat
    <3>1. \A k \in DOMAIN rows : rows[k] \in MappingRows
        BY <1>1
    <3> QED BY <3>1 DEF MappingRows
  <2>3. \A k \in DOMAIN rows : t[r] * rows[k].share \in Int
      BY <2>2, <1>1
  <2>4. nums \in [1 .. Len(rows) -> Int]
      BY <2>1, <2>3
  <2> HIDE DEF nums
  <2>5. nums \in Seq(Int) /\ Len(nums) # 0 /\ DOMAIN nums = DOMAIN rows
      BY <2>1, <2>4
  <2> QED BY <2>5
<1> HIDE DEF nums
<1>4. ShareUnit \in Int \ {0} /\ t[r] \in Int
    BY <1>1, EngineAssumption
<1>5. /\ ReconcileParts(t[r], nums, ShareUnit) \in [DOMAIN nums -> Int]
      /\ SumFunction(ReconcileParts(t[r], nums, ShareUnit)) = t[r]
    BY <1>3, <1>4, PartsConserve
<1> QED BY <1>2, <1>3, <1>5 DEF rows

\* What revenue r gives pool p.
MappedTo(t, r, p) ==
    SumFunction([k \in DOMAIN MappingsOf(r) |->
                    IF MappingsOf(r)[k].pool = p THEN MappedAmounts(t, r)[k] ELSE 0])

LEMMA MappedByPool ==
    ASSUME NEW t \in TaxResults, NEW r \in MappedRevenues
    PROVE  /\ \A p : MappedTo(t, r, p) \in Int
           /\ SumFunction([p \in ContributingPools |-> MappedTo(t, r, p)]) = t[r]
<1> DEFINE D == DOMAIN MappingsOf(r)
           f == MappedAmounts(t, r)
           K == ContributingPools
           key == [k \in D |-> MappingsOf(r)[k].pool]
<1>1. IsFiniteSet(D) /\ f \in [D -> Int] /\ SumFunction(f) = t[r]
  <2>1. MappingsOf(r) \in Seq(MappingRows) /\ r \in Revenues
      BY MappingsOfRevenue DEF MappedRevenues
  <2>2. D = 1 .. Len(MappingsOf(r)) /\ Len(MappingsOf(r)) \in Nat
      BY <2>1
  <2>3. IsFiniteSet(D)
      BY <2>2, FS_Interval
  <2> QED BY <2>3, MappedAmountsConserve
<1>2. key \in [D -> K] /\ IsFiniteSet(K)
    BY MappingsOfRevenue, ContributingPoolsType DEF MappedRevenues
<1>3. \A p : MappedTo(t, r, p) = SumFunction([k \in D |-> IF key[k] = p THEN f[k] ELSE 0])
    BY DEF MappedTo
<1> HIDE DEF D, f, K, key
<1>4. ASSUME NEW p
      PROVE  /\ MappedTo(t, r, p) \in Int
             /\ MappedTo(t, r, p) = SumFunction(Restrict(f, Class(D, key, p)))
  <2> DEFINE q == [k \in D |-> IF key[k] = p THEN f[k] ELSE 0]
             C == Class(D, key, p)
  <2>1. /\ q \in [D -> Int] /\ C \in SUBSET D
        /\ \A k \in D \ C : q[k] = 0
        /\ \A k \in C : q[k] = f[k]
      BY <1>1 DEF Class
  <2>2. MappedTo(t, r, p) = SumFunction(q)
      BY <1>3
  <2> HIDE DEF q, C
  <2>3. Restrict(q, C) = Restrict(f, C)
      BY <2>1 DEF Restrict
  <2>4. SumFunction(q) = SumFunction(Restrict(q, C)) /\ SumFunction(q) \in Int
      BY <1>1, <2>1, SumOfSupport, SumType
  <2> QED BY <2>2, <2>3, <2>4 DEF C
<1>5. [p \in K |-> MappedTo(t, r, p)] = ClassSums(D, f, key, K)
    BY <1>4 DEF ClassSums
<1>6. SumFunction(f) = SumFunction(ClassSums(D, f, key, K))
    BY <1>1, <1>2, SumByKey
<1> QED BY <1>1, <1>4, <1>5, <1>6 DEF K

LEMMA ContributionByRevenue ==
    ASSUME NEW t, NEW p
    PROVE  Contribution(t, p) = SumFunction([r \in MappedRevenues |-> MappedTo(t, r, p)])
BY DEF Contribution, MappedRevenues, MappedTo

LEMMA MappedRevenuesFinite == MappedRevenues \in SUBSET Revenues /\ IsFiniteSet(MappedRevenues)
<1>1. MappedRevenues \in SUBSET Revenues
    BY DEF MappedRevenues
<1> QED BY <1>1, EngineAssumption, FS_Subset

\* All pools together get the mapped part of the tax.
AllContributions(t) == SumFunction([p \in ContributingPools |-> Contribution(t, p)])

LEMMA MappedTaxIsContributed ==
    ASSUME NEW t \in TaxResults
    PROVE  /\ \A p : Contribution(t, p) \in Int
           /\ AllContributions(t) = SumFunction(Restrict(t, MappedRevenues))
<1> DEFINE R == MappedRevenues
           P == ContributingPools
           h == [x \in P \X R |-> MappedTo(t, x[2], x[1])]
<1>1. IsFiniteSet(R) /\ IsFiniteSet(P)
    BY MappedRevenuesFinite, ContributingPoolsType
<1>2. /\ \A r \in R : \A p : MappedTo(t, r, p) \in Int
      /\ \A r \in R : SumFunction([p \in P |-> MappedTo(t, r, p)]) = t[r]
    BY MappedByPool
<1>3. \A p : Contribution(t, p) = SumFunction([r \in R |-> MappedTo(t, r, p)])
    BY ContributionByRevenue
<1>4. ASSUME NEW p PROVE Contribution(t, p) \in Int
  <2> DEFINE q == [r \in R |-> MappedTo(t, r, p)]
  <2>1. q \in [R -> Int]
      BY <1>2
  <2> HIDE DEF q, R
  <2>2. SumFunction(q) \in Int
      BY <2>1, <1>1, SumType
  <2> QED BY <2>2, <1>3 DEF q
<1> HIDE DEF R, P
<1>5. h \in [P \X R -> Int] /\ \A p \in P, r \in R : h[<<p, r>>] = MappedTo(t, r, p)
    BY <1>2
<1> HIDE DEF h
<1>6. SumFunction(RowSums(h, P, R)) = SumFunction(ColumnSums(h, P, R))
    BY <1>1, <1>5, SumExchanged
<1>7. \A p \in P : RowSum(h, p, R) = Contribution(t, p)
    BY <1>3, <1>5 DEF RowSum
<1>8. \A r \in R : ColumnSum(h, r, P) = t[r]
    BY <1>2, <1>5 DEF ColumnSum
<1>9. RowSums(h, P, R) = [p \in P |-> Contribution(t, p)]
    BY <1>7 DEF RowSums
<1>10. ColumnSums(h, P, R) = Restrict(t, R)
    BY <1>8 DEF ColumnSums, Restrict
<1> QED BY <1>4, <1>6, <1>9, <1>10 DEF AllContributions, P, R

\* A tax whose every paid revenue is mapped is contributed whole.
LEMMA MappedTaxIsWhole ==
    ASSUME NEW t \in TaxResults, \A r \in Revenues : t[r] # 0 => Mapped(r)
    PROVE  AllContributions(t) = TotalTax(t)
<1>1. IsFiniteSet(Revenues) /\ t \in [Revenues -> Int] /\ MappedRevenues \in SUBSET Revenues
    BY EngineAssumption, MappedRevenuesFinite DEF TaxResults
<1>2. \A r \in Revenues \ MappedRevenues : t[r] = 0
    BY DEF MappedRevenues
<1>3. SumFunction(t) = SumFunction(Restrict(t, MappedRevenues))
    BY <1>1, <1>2, SumOfSupport
<1> QED BY <1>3, MappedTaxIsContributed DEF TotalTax

---------------------------------------------------------------------------
(* From a pool to the spending facts.                                      *)

WorkbookAccounts == UNION {{w[i].account : i \in DOMAIN w} : w \in Workbooks}
FactRows == [id : Int, sub : STRING, fun : STRING, account : WorkbookAccounts, amount : Int]
AllocationRows == [pool : Pools, fact : FactRows, amount : Int]

DistinctFacts(rows) == rows \in Seq(FactRows) /\ \A i, j \in DOMAIN rows : rows[i] = rows[j] => i = j

\* Allocations s of pool p: each fact once, and nothing lost.
Spreads(s, p, contribution, denominator) ==
    /\ s \in Seq(AllocationRows)
    /\ \A i \in DOMAIN s : s[i].pool = p
    /\ \A i, j \in DOMAIN s : s[i].fact = s[j].fact => i = j
    /\ s # <<>> => /\ SumFunction([i \in DOMAIN s |-> s[i].amount]) = contribution
                   /\ SumFunction([i \in DOMAIN s |-> s[i].fact.amount]) = denominator

LEMMA EligibleFactsAreDistinct ==
    ASSUME NEW rows, DistinctFacts(rows), NEW p
    PROVE  DistinctFacts(EligibleRows(rows, p))
<1> DEFINE I == {i \in DOMAIN rows : Rules[p] # NoRule /\ Eligible(rows[i], Rules[p])}
           t == Selected(rows, I)
<1>1. rows \in Seq(FactRows) /\ I \in SUBSET DOMAIN rows
    BY DEF DistinctFacts
<1>2. EligibleRows(rows, p) = t
    BY DEF EligibleRows
<1> HIDE DEF I, t
<1>3. t \in Seq(FactRows) /\ \E at : SelectedFrom(t, rows, I, at)
    BY <1>1, SelectedRows DEF t
<1>4. PICK at : SelectedFrom(t, rows, I, at)
    BY <1>3
<1>5. \A k \in DOMAIN t : at[k] \in DOMAIN rows /\ t[k] = rows[at[k]]
    BY <1>1, <1>4 DEF SelectedFrom
<1>6. \A k, l \in DOMAIN t : t[k] = t[l] => k = l
    BY <1>4, <1>5 DEF SelectedFrom, DistinctFacts
<1> QED BY <1>2, <1>3, <1>6 DEF DistinctFacts

LEMMA OutlayType ==
    ASSUME NEW rows \in Seq(FactRows)
    PROVE  /\ DOMAIN rows = 1 .. Len(rows) /\ Len(rows) \in Nat /\ IsFiniteSet(DOMAIN rows)
           /\ \A i \in DOMAIN rows : rows[i] \in FactRows /\ rows[i].amount \in Int
           /\ Outlay(rows) \in Int
<1>1. DOMAIN rows = 1 .. Len(rows) /\ Len(rows) \in Nat
    OBVIOUS
<1>2. IsFiniteSet(DOMAIN rows)
    BY <1>1, FS_Interval
<1>3. \A i \in DOMAIN rows : rows[i] \in FactRows
    OBVIOUS
<1>4. \A x \in FactRows : x.amount \in Int
    BY DEF FactRows
<1> DEFINE q == [i \in DOMAIN rows |-> rows[i].amount]
<1>5. q \in [DOMAIN rows -> Int]
    BY <1>3, <1>4
<1> HIDE DEF q
<1>6. SumFunction(q) \in Int
    BY <1>2, <1>5, SumType
<1> QED BY <1>1, <1>2, <1>3, <1>4, <1>6 DEF q, Outlay

\* A contribution is spread whole, or not at all.
LEMMA SpreadConserves ==
    ASSUME NEW p \in Pools, NEW contribution \in Int, NEW rows, DistinctFacts(rows)
    PROVE  Spreads(Spread(p, contribution, rows), p, contribution, Outlay(rows))
<1> DEFINE D == DOMAIN rows
           out == Outlay(rows)
           nums == [i \in D |-> contribution * rows[i].amount]
           shares == ReconcileParts(contribution, nums, out)
           s == [i \in D |-> [pool |-> p, fact |-> rows[i], amount |-> shares[i]]]
<1>1. CASE ~(rows # <<>> /\ out # 0 /\ contribution # 0)
  <2>1. Spread(p, contribution, rows) = <<>>
      BY <1>1 DEF Spread
  <2>2. Spreads(<<>>, p, contribution, out)
      BY DEF Spreads
  <2> QED BY <2>1, <2>2
<1>2. CASE rows # <<>> /\ out # 0 /\ contribution # 0
  <2>1. Spread(p, contribution, rows) = s
      BY <1>2 DEF Spread
  <2>2. /\ rows \in Seq(FactRows) /\ D = 1 .. Len(rows) /\ Len(rows) \in Nat /\ Len(rows) # 0
        /\ \A i \in D : rows[i] \in FactRows /\ rows[i].amount \in Int
        /\ \A i, j \in D : rows[i] = rows[j] => i = j
    <3>1. rows \in Seq(FactRows)
        BY DEF DistinctFacts
    <3>2. Len(rows) # 0
        BY <3>1, <1>2
    <3> QED BY <3>1, <3>2, OutlayType DEF DistinctFacts
  <2>3. nums \in Seq(Int) /\ nums # <<>> /\ DOMAIN nums = D
    <3>1. \A i \in D : contribution * rows[i].amount \in Int
        BY <2>2
    <3>2. nums \in [1 .. Len(rows) -> Int]
        BY <2>2, <3>1
    <3> HIDE DEF nums
    <3>3. nums \in Seq(Int) /\ Len(nums) # 0 /\ DOMAIN nums = D
        BY <2>2, <3>2
    <3> QED BY <3>3
  <2>4. out \in Int \ {0}
      BY <1>2, <2>2, OutlayType
  <2> HIDE DEF nums, out
  <2>5. shares \in [D -> Int] /\ SumFunction(shares) = contribution
      BY <2>3, <2>4, PartsConserve
  <2> HIDE DEF shares, D
  <2>6. \A i \in D : [pool |-> p, fact |-> rows[i], amount |-> shares[i]] \in AllocationRows
      BY <2>2, <2>5 DEF AllocationRows
  <2>7. s \in [1 .. Len(rows) -> AllocationRows] /\ DOMAIN s = D
      BY <2>2, <2>6
  <2>8. \A i \in D : s[i].pool = p /\ s[i].fact = rows[i] /\ s[i].amount = shares[i]
      OBVIOUS
  <2> HIDE DEF s
  <2>9. s \in Seq(AllocationRows)
      BY <2>2, <2>7
  <2>10. SumFunction([i \in DOMAIN s |-> s[i].amount]) = contribution
    <3>1. [i \in DOMAIN s |-> s[i].amount] = shares
        BY <2>5, <2>7, <2>8
    <3> QED BY <3>1, <2>5
  <2>11. SumFunction([i \in DOMAIN s |-> s[i].fact.amount]) = out
    <3>1. [i \in DOMAIN s |-> s[i].fact.amount] = [i \in DOMAIN rows |-> rows[i].amount]
        BY <2>7, <2>8 DEF D
    <3> QED BY <3>1 DEF out, Outlay
  <2>12. \A i \in DOMAIN s : s[i].pool = p
      BY <2>7, <2>8
  <2>13. \A i, j \in DOMAIN s : s[i].fact = s[j].fact => i = j
      BY <2>2, <2>7, <2>8
  <2>14. Spreads(s, p, contribution, out)
      BY <2>9, <2>10, <2>11, <2>12, <2>13, Zenon DEF Spreads
  <2> QED BY <2>1, <2>14 DEF out
<1> QED BY <1>1, <1>2

\* One computed pool.
Computed(c, t) ==
    /\ c.pool \in ContributingPools
    /\ c.contribution = Contribution(t, c.pool)
    /\ Spreads(c.allocations, c.pool, c.contribution, c.denominator)

ComputationRows ==
    [pool : Pools, contribution : Int, matched : BOOLEAN, denominator : Int,
     allocations : Seq(AllocationRows)]

LEMMA PoolIsComputed ==
    ASSUME NEW t \in TaxResults, NEW rows, DistinctFacts(rows), NEW p \in ContributingPools
    PROVE  /\ PoolComputation(t, rows, p) \in ComputationRows
           /\ PoolComputation(t, rows, p).pool = p
           /\ Computed(PoolComputation(t, rows, p), t)
<1> DEFINE eligible == EligibleRows(rows, p)
           con == Contribution(t, p)
           s == Spread(p, con, eligible)
           den == Outlay(eligible)
           matched == eligible # <<>>
           c == [pool |-> p, contribution |-> con, matched |-> matched, denominator |-> den,
                 allocations |-> s]
<1>1. PoolComputation(t, rows, p) = c
    BY DEF PoolComputation
<1>2. DistinctFacts(eligible) /\ p \in Pools /\ con \in Int /\ matched \in BOOLEAN
    BY EligibleFactsAreDistinct, ContributingPoolsType, MappedTaxIsContributed
<1> HIDE DEF eligible
<1>3. den \in Int
    BY <1>2, OutlayType DEF DistinctFacts
<1>4. con = Contribution(t, p)
    OBVIOUS
<1> HIDE DEF con
<1>5. Spreads(s, p, con, den)
    BY <1>2, SpreadConserves
<1> HIDE DEF s, den, matched
<1>6. s \in Seq(AllocationRows)
    BY <1>5 DEF Spreads
<1>7. c \in ComputationRows /\ c.pool = p /\ c.contribution = con /\ c.denominator = den
      /\ c.allocations = s
    BY <1>2, <1>3, <1>6 DEF ComputationRows
<1> HIDE DEF c
<1> QED BY <1>1, <1>4, <1>5, <1>7 DEF Computed

\* The computations of a tax result, one for each pool.
Computations(done, t) ==
    /\ done \in Seq(ComputationRows)
    /\ \A i \in DOMAIN done : Computed(done[i], t)
    /\ \A i, j \in DOMAIN done : done[i].pool = done[j].pool => i = j

LEMMA NextPool ==
    ASSUME NEW done, Remaining(done) # {}
    PROVE  Min(Remaining(done)) \in Remaining(done)
<1>1. Remaining(done) \in SUBSET Nat
    BY ContributingPoolsType DEF Remaining
<1>2. PICK m \in Remaining(done) : \A k \in Remaining(done) : m <= k
    BY <1>1, LeastNatural
<1> QED BY <1>2 DEF Min

LEMMA AppendComputation ==
    ASSUME NEW t \in TaxResults, NEW rows, DistinctFacts(rows),
           NEW done, Computations(done, t), Remaining(done) # {}
    PROVE  Computations(Append(done, PoolComputation(t, rows, Min(Remaining(done)))), t)
<1> DEFINE p == Min(Remaining(done))
           c == PoolComputation(t, rows, p)
           next == Append(done, c)
<1>1. p \in ContributingPools /\ \A i \in DOMAIN done : done[i].pool # p
  <2>1. p \in Remaining(done)
      BY NextPool
  <2> HIDE DEF p
  <2> QED BY <2>1 DEF Remaining
<1> HIDE DEF p
<1>2. c \in ComputationRows /\ c.pool = p /\ Computed(c, t)
    BY <1>1, PoolIsComputed
<1> HIDE DEF c
<1>3. /\ done \in Seq(ComputationRows)
      /\ \A i \in DOMAIN done : Computed(done[i], t)
      /\ \A i, j \in DOMAIN done : done[i].pool = done[j].pool => i = j
    BY DEF Computations
<1>4. /\ next \in Seq(ComputationRows)
      /\ DOMAIN next = DOMAIN done \cup {Len(done) + 1}
      /\ \A i \in DOMAIN done : next[i] = done[i]
      /\ next[Len(done) + 1] = c
    BY <1>2, <1>3
<1> HIDE DEF next
<1>5. \A i \in DOMAIN next : Computed(next[i], t)
    BY <1>2, <1>3, <1>4
<1>6. \A i, j \in DOMAIN next : next[i].pool = next[j].pool => i = j
    BY <1>1, <1>2, <1>3, <1>4
<1> QED BY <1>4, <1>5, <1>6 DEF Computations, next, c, p

LEMMA NoComputations == \A t : Computations(<<>>, t)
BY DEF Computations

LEMMA ComputationFacts ==
    ASSUME NEW t, NEW done, Computations(done, t)
    PROVE  /\ DOMAIN done = 1 .. Len(done) /\ Len(done) \in Nat /\ IsFiniteSet(DOMAIN done)
           /\ \A i \in DOMAIN done :
                 /\ done[i].pool \in ContributingPools
                 /\ done[i].contribution \in Int /\ done[i].denominator \in Int
                 /\ done[i].contribution = Contribution(t, done[i].pool)
                 /\ Spreads(done[i].allocations, done[i].pool, done[i].contribution,
                            done[i].denominator)
                 /\ done[i].allocations \in Seq(AllocationRows)
<1>1. DOMAIN done = 1 .. Len(done) /\ Len(done) \in Nat
    BY DEF Computations
<1>2. IsFiniteSet(DOMAIN done)
    BY <1>1, FS_Interval
<1>3. \A i \in DOMAIN done : done[i] \in ComputationRows /\ Computed(done[i], t)
    BY DEF Computations
<1>4. \A c \in ComputationRows : c.contribution \in Int /\ c.denominator \in Int
    BY DEF ComputationRows
<1> QED BY <1>1, <1>2, <1>3, <1>4 DEF Computed, Spreads

\* When no pool remains, every pool has contributed once.
LEMMA AllPoolsContributed ==
    ASSUME NEW t, NEW done, Computations(done, t), Remaining(done) = {}
    PROVE  Contributed(done) = AllContributions(t)
<1> DEFINE D == DOMAIN done
           E == ContributingPools
           f == [p \in E |-> Contribution(t, p)]
           f2 == [i \in D |-> done[i].contribution]
           q == [i \in D |-> done[i].pool]
<1>1. IsFiniteSet(D) /\ IsFiniteSet(E)
    BY ComputationFacts, ContributingPoolsType
<1>2. /\ \A i \in D : /\ done[i].pool \in E
                      /\ done[i].contribution \in Int
                      /\ done[i].contribution = Contribution(t, done[i].pool)
      /\ \A i, j \in D : done[i].pool = done[j].pool => i = j
    BY ComputationFacts DEF Computations
<1>3. \A p \in E : \E i \in D : done[i].pool = p
    BY DEF Remaining
<1> HIDE DEF D, E
<1>4. /\ q \in [D -> E]
      /\ \A i, j \in D : q[i] = q[j] => i = j
      /\ \A p \in E : \E i \in D : q[i] = p
    BY <1>2, <1>3
<1>5. f \in [E -> Int] /\ f2 \in [D -> Int]
  <2>1. \A p \in E : Contribution(t, p) \in Int
      BY <1>2, <1>3
  <2> QED BY <1>2, <2>1
<1>6. Reorders(D, f2, f, q)
    BY <1>2 DEF Reorders
<1> HIDE DEF q, f, f2
<1>7. q \in Bijection(D, E)
    BY <1>4 DEF Bijection, Injection, Surjection, IsInjective
<1>8. SumFunction(f2) = SumFunction(f)
    BY <1>1, <1>5, <1>6, <1>7, SumReindexed
<1> QED BY <1>8 DEF f, f2, D, E, Contributed, AllContributions

---------------------------------------------------------------------------
(* Views of the allocations.                                               *)

\* The values of a function that are all different.
LEMMA SumOfRange ==
    ASSUME NEW D, IsFiniteSet(D), NEW T, NEW s \in [D -> T],
           \A i, j \in D : s[i] = s[j] => i = j,
           NEW v \in [Range(s) -> Int]
    PROVE  /\ IsFiniteSet(Range(s))
           /\ SumFunction(v) = SumFunction([i \in D |-> v[s[i]]])
<1> DEFINE E == Range(s)
           f2 == [i \in D |-> v[s[i]]]
<1>1. s \in [D -> E] /\ \A p \in E : \E i \in D : s[i] = p
    BY DEF Range
<1> HIDE DEF E
<1>2. s \in Bijection(D, E)
    BY <1>1 DEF Bijection, Injection, Surjection, IsInjective
<1>3. IsFiniteSet(E)
  <2>1. ExistsBijection(D, E)
      BY <1>2 DEF ExistsBijection
  <2> QED BY <2>1, FS_Bijection
<1>4. v \in [E -> Int]
    BY DEF E
<1>5. f2 \in [D -> Int] /\ Reorders(D, f2, v, s)
    BY <1>1, <1>4 DEF Reorders
<1> HIDE DEF f2
<1>6. SumFunction(f2) = SumFunction(v)
    BY <1>2, <1>3, <1>4, <1>5, SumReindexed
<1> QED BY <1>3, <1>6 DEF f2, E


LEMMA RangeIsFinite ==
    ASSUME NEW D, IsFiniteSet(D), NEW T, NEW g \in [D -> T]
    PROVE  IsFiniteSet(Range(g))
<1>1. g \in Surjection(D, Range(g))
    BY DEF Surjection, Range
<1> QED BY <1>1, FS_Surjection

AmountsOf(A) == [a \in A |-> a.amount]

LEMMA AmountsType ==
    ASSUME NEW A \in SUBSET AllocationRows, IsFiniteSet(A)
    PROVE  /\ AmountsOf(A) \in [A -> Int] /\ Amount(A) \in Int
           /\ \A B \in SUBSET A : /\ IsFiniteSet(B) /\ Amount(B) \in Int
                                  /\ Amount(B) = SumFunction(Restrict(AmountsOf(A), B))
<1>1. \A a \in A : a.amount \in Int
    BY DEF AllocationRows
<1>2. AmountsOf(A) \in [A -> Int]
    BY <1>1 DEF AmountsOf
<1>3. ASSUME NEW B \in SUBSET A
      PROVE  /\ IsFiniteSet(B) /\ Amount(B) \in Int
             /\ Amount(B) = SumFunction(Restrict(AmountsOf(A), B))
  <2>1. Restrict(AmountsOf(A), B) = AmountsOf(B)
      BY DEF Restrict, AmountsOf
  <2>2. IsFiniteSet(B) /\ SumFunction(Restrict(AmountsOf(A), B)) \in Int
      BY <1>2, RestrictionFacts
  <2> QED BY <2>1, <2>2 DEF Amount, AmountsOf
<1>4. A \in SUBSET A
    OBVIOUS
<1> QED BY <1>2, <1>3, <1>4

\* Dollars are the same whatever they are grouped by.
AmountsBy(A, key, K) == [k \in K |-> Amount({a \in A : key[a] = k})]

LEMMA AmountByKey ==
    ASSUME NEW A \in SUBSET AllocationRows, IsFiniteSet(A), NEW K, IsFiniteSet(K), NEW key \in [A -> K]
    PROVE  /\ AmountsBy(A, key, K) \in [K -> Int]
           /\ Amount(A) = SumFunction(AmountsBy(A, key, K))
<1>1. AmountsOf(A) \in [A -> Int] /\ Amount(A) = SumFunction(AmountsOf(A))
    BY AmountsType DEF Amount, AmountsOf
<1>2. \A k \in K : /\ Amount({a \in A : key[a] = k}) \in Int
                   /\ Amount({a \in A : key[a] = k})
                         = SumFunction(Restrict(AmountsOf(A), Class(A, key, k)))
  <2> SUFFICES ASSUME NEW k \in K
               PROVE  /\ Amount(Class(A, key, k)) \in Int
                      /\ Amount(Class(A, key, k))
                            = SumFunction(Restrict(AmountsOf(A), Class(A, key, k)))
      BY DEF Class
  <2>1. Class(A, key, k) \in SUBSET A
      BY DEF Class
  <2> QED BY <2>1, AmountsType
<1>3. AmountsBy(A, key, K) = ClassSums(A, AmountsOf(A), key, K)
    BY <1>2 DEF AmountsBy, ClassSums
<1>4. AmountsBy(A, key, K) \in [K -> Int]
    BY <1>2 DEF AmountsBy
<1>5. SumFunction(AmountsOf(A)) = SumFunction(ClassSums(A, AmountsOf(A), key, K))
    BY <1>1, SumByKey
<1> QED BY <1>1, <1>3, <1>4, <1>5

\* The nodes of _group_allocations, one for each budget function.
FunctionsOf(A) == {a.fact.fun : a \in A}
OfFunction(A, f) == {a \in A : a.fact.fun = f}
FunctionNode(A, f) ==
    [fun |-> f, amount |-> Amount(OfFunction(A, f)), base |-> GovernmentBase(OfFunction(A, f)),
     pools |-> {a.pool : a \in OfFunction(A, f)}]
FunctionNodes(A) == [f \in FunctionsOf(A) |-> FunctionNode(A, f)]

LEMMA GroupedNodes ==
    ASSUME NEW A \in SUBSET AllocationRows, IsFiniteSet(A)
    PROVE  /\ IsFiniteSet(FunctionsOf(A))
           /\ Grouped(A) = Range(FunctionNodes(A))
           /\ \A v \in [Grouped(A) -> Int] :
                 SumFunction(v) = SumFunction([f \in FunctionsOf(A) |-> v[FunctionNode(A, f)]])
<1> DEFINE K == FunctionsOf(A)
           N == FunctionNodes(A)
           T == {N[f] : f \in K}
<1>1. IsFiniteSet(K)
  <2> DEFINE g == [a \in A |-> a.fact.fun]
  <2>1. g \in [A -> K] /\ Range(g) = K
      BY DEF FunctionsOf, Range
  <2> HIDE DEF g, K
  <2> QED BY <2>1, RangeIsFinite
<1>2. \A f \in K : N[f] = FunctionNode(A, f) /\ N[f].fun = f
    BY DEF FunctionNodes, FunctionNode
<1>3. N \in [K -> T]
    BY DEF FunctionNodes
<1>4. Grouped(A) = Range(N)
    BY DEF Grouped, FunctionNodes, FunctionNode, FunctionsOf, OfFunction, Range
<1>5. \A f, g \in K : N[f] = N[g] => f = g
    BY <1>2
<1> HIDE DEF N, K, T
<1>6. ASSUME NEW v \in [Range(N) -> Int]
      PROVE  SumFunction(v) = SumFunction([f \in K |-> v[FunctionNode(A, f)]])
  <2>1. SumFunction(v) = SumFunction([f \in K |-> v[N[f]]])
      BY <1>1, <1>3, <1>5, SumOfRange
  <2>2. [f \in K |-> v[N[f]]] = [f \in K |-> v[FunctionNode(A, f)]]
      BY <1>2
  <2> QED BY <2>1, <2>2
<1> QED BY <1>1, <1>4, <1>6 DEF N, K

LEMMA GroupedAmount ==
    ASSUME NEW A \in SUBSET AllocationRows, IsFiniteSet(A)
    PROVE  NodesTotal(Grouped(A)) = Amount(A)
<1> DEFINE K == FunctionsOf(A)
           key == [a \in A |-> a.fact.fun]
           v == [m \in Grouped(A) |-> m.amount]
<1>1. IsFiniteSet(K) /\ Grouped(A) = Range(FunctionNodes(A))
    BY GroupedNodes
<1>2. key \in [A -> K]
    BY DEF FunctionsOf
<1>3. AmountsBy(A, key, K) \in [K -> Int] /\ Amount(A) = SumFunction(AmountsBy(A, key, K))
  <2> HIDE DEF key, K
  <2> QED BY <1>1, <1>2, AmountByKey
<1>4. \A f \in K : FunctionNode(A, f).amount = AmountsBy(A, key, K)[f]
  <2> SUFFICES ASSUME NEW f \in K
               PROVE  Amount(OfFunction(A, f)) = Amount({a \in A : key[a] = f})
      BY DEF FunctionNode, AmountsBy
  <2>1. OfFunction(A, f) = {a \in A : key[a] = f}
      BY DEF OfFunction
  <2> QED BY <2>1
<1>5. \A f \in K : FunctionNode(A, f) \in Grouped(A)
    BY <1>1 DEF FunctionNodes, Range
<1>6. \A m \in Grouped(A) : \E f \in K : m = FunctionNode(A, f)
    BY <1>1 DEF FunctionNodes, Range
<1> HIDE DEF K, key
<1>7. v \in [Grouped(A) -> Int]
  <2>1. \A m \in Grouped(A) : m.amount \in Int
      BY <1>3, <1>4, <1>6
  <2> QED BY <2>1
<1>8. \A f \in K : v[FunctionNode(A, f)] = AmountsBy(A, key, K)[f]
    BY <1>4, <1>5
<1> HIDE DEF v
<1>9. SumFunction(v) = SumFunction([f \in K |-> v[FunctionNode(A, f)]])
    BY <1>7, GroupedNodes DEF K
<1>10. [f \in K |-> v[FunctionNode(A, f)]] = AmountsBy(A, key, K)
    BY <1>3, <1>8
<1> QED BY <1>3, <1>9, <1>10 DEF NodesTotal, v

\* Nor is any government spending lost or counted twice by grouping.
FactsOf(A) == {a.fact : a \in A}
SpendingOf(F) == [x \in F |-> x.amount]

LEMMA SpendingType ==
    ASSUME NEW A \in SUBSET AllocationRows, IsFiniteSet(A)
    PROVE  /\ IsFiniteSet(FactsOf(A)) /\ SpendingOf(FactsOf(A)) \in [FactsOf(A) -> Int]
           /\ GovernmentBase(A) = SumFunction(SpendingOf(FactsOf(A)))
<1>1. IsFiniteSet(FactsOf(A))
  <2> DEFINE g == [a \in A |-> a.fact]
  <2>1. g \in [A -> FactsOf(A)] /\ Range(g) = FactsOf(A)
      BY DEF FactsOf, Range
  <2> HIDE DEF g
  <2> QED BY <2>1, RangeIsFinite
<1>2. \A x \in FactsOf(A) : x.amount \in Int
    BY DEF FactsOf, AllocationRows, FactRows
<1>3. SpendingOf(FactsOf(A)) \in [FactsOf(A) -> Int]
    BY <1>2 DEF SpendingOf
<1> QED BY <1>1, <1>3 DEF GovernmentBase, SpendingOf, FactsOf

LEMMA GroupedBase ==
    ASSUME NEW A \in SUBSET AllocationRows, IsFiniteSet(A)
    PROVE  SumFunction([m \in Grouped(A) |-> m.base]) = GovernmentBase(A)
<1> DEFINE K == FunctionsOf(A)
           F == FactsOf(A)
           w == SpendingOf(F)
           key == [x \in F |-> x.fun]
           v == [m \in Grouped(A) |-> m.base]
<1>1. IsFiniteSet(K) /\ Grouped(A) = Range(FunctionNodes(A))
    BY GroupedNodes
<1>2. key \in [F -> K]
    BY DEF FunctionsOf, FactsOf
<1>3. IsFiniteSet(F) /\ w \in [F -> Int] /\ GovernmentBase(A) = SumFunction(w)
    BY SpendingType
<1>4. SumFunction(w) = SumFunction(ClassSums(F, w, key, K))
  <2> HIDE DEF key, K, F, w
  <2> QED BY <1>1, <1>2, <1>3, SumByKey
<1>5. ASSUME NEW f \in K
      PROVE  /\ FunctionNode(A, f).base = SumFunction(Restrict(w, Class(F, key, f)))
             /\ FunctionNode(A, f).base \in Int
  <2>1. FunctionNode(A, f).base = GovernmentBase(OfFunction(A, f))
      BY DEF FunctionNode
  <2>2. Class(F, key, f) = FactsOf(OfFunction(A, f)) /\ Class(F, key, f) \in SUBSET F
      BY DEF Class, FactsOf, OfFunction
  <2>3. GovernmentBase(OfFunction(A, f)) = SumFunction(SpendingOf(FactsOf(OfFunction(A, f))))
      BY DEF GovernmentBase, SpendingOf, FactsOf
  <2>4. SpendingOf(FactsOf(OfFunction(A, f))) = Restrict(w, Class(F, key, f))
      BY <2>2 DEF SpendingOf, Restrict
  <2>5. SumFunction(Restrict(w, Class(F, key, f))) \in Int
    <3> HIDE DEF F, w, key
    <3> QED BY <1>3, <2>2, RestrictionFacts
  <2> QED BY <2>1, <2>3, <2>4, <2>5
<1>6. \A f \in K : FunctionNode(A, f) \in Grouped(A)
    BY <1>1 DEF FunctionNodes, Range
<1>7. \A m \in Grouped(A) : \E f \in K : m = FunctionNode(A, f)
    BY <1>1 DEF FunctionNodes, Range
<1> HIDE DEF K, key, F, w
<1>8. v \in [Grouped(A) -> Int]
  <2>1. \A m \in Grouped(A) : m.base \in Int
      BY <1>5, <1>7
  <2> QED BY <2>1
<1>9. \A f \in K : v[FunctionNode(A, f)] = ClassSums(F, w, key, K)[f]
    BY <1>5, <1>6 DEF ClassSums
<1> HIDE DEF v
<1>10. SumFunction(v) = SumFunction([f \in K |-> v[FunctionNode(A, f)]])
    BY <1>8, GroupedNodes DEF K
<1>11. [f \in K |-> v[FunctionNode(A, f)]] = ClassSums(F, w, key, K)
    BY <1>9 DEF ClassSums
<1> QED BY <1>3, <1>4, <1>10, <1>11 DEF v

\* What is allocated of one pool.
LEMMA SpreadSums ==
    ASSUME NEW s, NEW p, NEW con, NEW den, Spreads(s, p, con, den)
    PROVE  /\ Range(s) \in SUBSET AllocationRows /\ IsFiniteSet(Range(s))
           /\ \A a \in Range(s) : a.pool = p
           /\ Amount(Range(s)) = IF s = <<>> THEN 0 ELSE con
           /\ s # <<>> => GovernmentBase(Range(s)) = den
<1> DEFINE D == DOMAIN s
           A == Range(s)
<1>1. /\ s \in Seq(AllocationRows)
      /\ \A i \in D : s[i].pool = p
      /\ \A i, j \in D : s[i].fact = s[j].fact => i = j
      /\ s # <<>> => /\ SumFunction([i \in D |-> s[i].amount]) = con
                     /\ SumFunction([i \in D |-> s[i].fact.amount]) = den
    BY DEF Spreads
<1>2. D = 1 .. Len(s) /\ Len(s) \in Nat /\ s \in [D -> AllocationRows]
    BY <1>1
<1>3. IsFiniteSet(D)
  <2>1. IsFiniteSet(1 .. Len(s))
    <3>1. Len(s) \in Int /\ 1 \in Int
        BY <1>2
    <3> QED BY <3>1, FS_Interval
  <2> QED BY <2>1, <1>2
<1>4. A \in SUBSET AllocationRows /\ IsFiniteSet(A) /\ \A i \in D : s[i] \in A
  <2>1. A \in SUBSET AllocationRows /\ \A i \in D : s[i] \in A
      BY <1>2 DEF Range
  <2>2. IsFiniteSet(A)
      BY <1>2, <1>3, RangeIsFinite
  <2> QED BY <2>1, <2>2
<1>5. \A a \in A : a.pool = p
    BY <1>1 DEF Range
<1>6. Amount(A) = SumFunction([i \in D |-> s[i].amount])
  <2> DEFINE v == AmountsOf(A)
  <2>1. v \in [A -> Int] /\ Amount(A) = SumFunction(v)
      BY <1>4, AmountsType DEF Amount, AmountsOf
  <2>2. \A i \in D : v[s[i]] = s[i].amount
      BY <1>4 DEF AmountsOf
  <2>3. \A i, j \in D : s[i] = s[j] => i = j
      BY <1>1
  <2> HIDE DEF v, D
  <2>4. SumFunction(v) = SumFunction([i \in D |-> v[s[i]]])
    <3>1. v \in [Range(s) -> Int] /\ s \in [D -> AllocationRows]
        BY <1>2, <2>1
    <3> QED BY <1>3, <2>3, <3>1, SumOfRange
  <2>5. [i \in D |-> v[s[i]]] = [i \in D |-> s[i].amount]
      BY <2>2
  <2> QED BY <2>1, <2>4, <2>5
<1>7. GovernmentBase(A) = SumFunction([i \in D |-> s[i].fact.amount])
  <2> DEFINE g == [i \in D |-> s[i].fact]
             F == FactsOf(A)
             v == SpendingOf(F)
  <2>1. v \in [F -> Int] /\ GovernmentBase(A) = SumFunction(v)
      BY <1>4, SpendingType
  <2>2. Range(g) = F /\ g \in [D -> F]
      BY <1>4 DEF FactsOf, Range
  <2>3. \A i \in D : g[i] \in F /\ v[g[i]] = s[i].fact.amount
      BY <2>2 DEF SpendingOf
  <2>4. \A i, j \in D : g[i] = g[j] => i = j
      BY <1>1
  <2> HIDE DEF g, F, v, D
  <2>5. SumFunction(v) = SumFunction([i \in D |-> v[g[i]]])
      BY <1>3, <2>1, <2>2, <2>4, SumOfRange
  <2>6. [i \in D |-> v[g[i]]] = [i \in D |-> s[i].fact.amount]
      BY <2>3
  <2> QED BY <2>1, <2>5, <2>6
<1>8. s = <<>> => SumFunction([i \in D |-> s[i].amount]) = 0
  <2> SUFFICES ASSUME s = <<>> PROVE SumFunction([i \in D |-> s[i].amount]) = 0
      OBVIOUS
  <2>1. D = {}
      OBVIOUS
  <2>2. [i \in D |-> s[i].amount] \in [{} -> Int]
      BY <2>1
  <2> QED BY <2>2, SumOfNone
<1> HIDE DEF D, A
<1> QED BY <1>1, <1>4, <1>5, <1>6, <1>7, <1>8 DEF A

\* The nodes of a pool add up to its contribution, and their spending to
\* its eligible spending.
LEMMA PoolConserves ==
    ASSUME NEW t, NEW done, Computations(done, t), NEW i \in DOMAIN done,
           done[i].allocations # <<>>
    PROVE  LET nodes == Grouped(Range(done[i].allocations))
           IN  /\ NodesTotal(nodes) = done[i].contribution
               /\ SumFunction([n \in nodes |-> n.base]) = done[i].denominator
<1> DEFINE A == Range(done[i].allocations)
<1>1. Spreads(done[i].allocations, done[i].pool, done[i].contribution, done[i].denominator)
    BY ComputationFacts
<1>2. /\ A \in SUBSET AllocationRows /\ IsFiniteSet(A)
      /\ Amount(A) = done[i].contribution /\ GovernmentBase(A) = done[i].denominator
    BY <1>1, SpreadSums
<1> HIDE DEF A
<1>3. /\ NodesTotal(Grouped(A)) = Amount(A)
      /\ SumFunction([n \in Grouped(A) |-> n.base]) = GovernmentBase(A)
    BY <1>2, GroupedAmount, GroupedBase
<1> QED BY <1>2, <1>3 DEF A

PoolAllocations(done, i) == Range(done[i].allocations)

LEMMA AllocationsType ==
    ASSUME NEW t, NEW done, Computations(done, t)
    PROVE  /\ Allocations(done) \in SUBSET AllocationRows /\ IsFiniteSet(Allocations(done))
           /\ \A i \in DOMAIN done :
                 /\ PoolAllocations(done, i) \in SUBSET AllocationRows
                 /\ IsFiniteSet(PoolAllocations(done, i))
                 /\ \A a \in PoolAllocations(done, i) : a.pool = done[i].pool
                 /\ Amount(PoolAllocations(done, i))
                       = IF done[i].allocations = <<>> THEN 0 ELSE done[i].contribution
<1>1. ASSUME NEW i \in DOMAIN done
      PROVE  /\ PoolAllocations(done, i) \in SUBSET AllocationRows
             /\ IsFiniteSet(PoolAllocations(done, i))
             /\ \A a \in PoolAllocations(done, i) : a.pool = done[i].pool
             /\ Amount(PoolAllocations(done, i))
                   = IF done[i].allocations = <<>> THEN 0 ELSE done[i].contribution
  <2>1. Spreads(done[i].allocations, done[i].pool, done[i].contribution, done[i].denominator)
      BY ComputationFacts
  <2> QED BY <2>1, SpreadSums DEF PoolAllocations
<1> DEFINE S == {PoolAllocations(done, i) : i \in DOMAIN done}
           g == [i \in DOMAIN done |-> PoolAllocations(done, i)]
<1>2. Allocations(done) = UNION S
    BY DEF Allocations, PoolAllocations
<1>3. IsFiniteSet(S)
  <2>1. g \in [DOMAIN done -> S] /\ Range(g) = S
      BY DEF Range
  <2> HIDE DEF g, S
  <2> QED BY <2>1, ComputationFacts, RangeIsFinite
<1>4. \A T \in S : IsFiniteSet(T) /\ T \in SUBSET AllocationRows
    BY <1>1
<1> HIDE DEF S
<1>5. IsFiniteSet(UNION S)
    BY <1>3, <1>4, FS_UNION
<1>6. UNION S \in SUBSET AllocationRows
    BY <1>4
<1> QED BY <1>1, <1>2, <1>5, <1>6

\* What is allocated, and the residual pools, are what was contributed.
LEMMA AllocatedAndResidual ==
    ASSUME NEW t, NEW done, Computations(done, t)
    PROVE  /\ Amount(Allocations(done)) \in Int /\ ResidualAmount(done) \in Int
           /\ Amount(Allocations(done)) + ResidualAmount(done) = Contributed(done)
<1> DEFINE D == DOMAIN done
           A == Allocations(done)
           E == {i \in D : done[i].allocations = <<>>}
           f == [i \in D |-> done[i].contribution]
           key == [a \in A |-> CHOOSE i \in D : a \in PoolAllocations(done, i)]
           by == AmountsBy(A, key, D)
<1>1. IsFiniteSet(D) /\ A \in SUBSET AllocationRows /\ IsFiniteSet(A) /\ E \in SUBSET D
    BY ComputationFacts, AllocationsType
<1>2. f \in [D -> Int] /\ \A i \in D : f[i] = done[i].contribution /\ done[i].contribution \in Int
    BY ComputationFacts
<1>3. \A i, j \in D : done[i].pool = done[j].pool => i = j
    BY DEF Computations
<1>4. /\ \A a \in A : \E i \in D : a \in PoolAllocations(done, i)
      /\ \A i \in D : PoolAllocations(done, i) \in SUBSET A
    BY DEF Allocations, PoolAllocations
<1>5. \A i \in D : \A a \in PoolAllocations(done, i) : a.pool = done[i].pool
    BY AllocationsType
<1>6. key \in [A -> D] /\ \A a \in A : a \in PoolAllocations(done, key[a])
    BY <1>4
<1>7. \A i \in D : {a \in A : key[a] = i} = PoolAllocations(done, i)
  <2> SUFFICES ASSUME NEW i \in D PROVE {a \in A : key[a] = i} = PoolAllocations(done, i)
      OBVIOUS
  <2> HIDE DEF key, A, D
  <2>1. \A a \in PoolAllocations(done, i) : a \in A /\ key[a] \in D /\ done[key[a]].pool = done[i].pool
      BY <1>4, <1>5, <1>6
  <2>2. \A a \in PoolAllocations(done, i) : key[a] = i
      BY <2>1, <1>3
  <2> QED BY <2>1, <2>2, <1>6
<1> HIDE DEF key, A
<1>8. by \in [D -> Int] /\ Amount(A) = SumFunction(by)
  <2> HIDE DEF D
  <2> QED BY <1>1, <1>6, AmountByKey
<1>9. \A i \in D : by[i] = IF done[i].allocations = <<>> THEN 0 ELSE done[i].contribution
  <2>1. \A i \in D : by[i] = Amount(PoolAllocations(done, i))
      BY <1>7 DEF AmountsBy
  <2> HIDE DEF by
  <2> QED BY <2>1, AllocationsType
<1>10. /\ \A i \in E : by[i] = 0
       /\ \A i \in D \ E : by[i] = f[i]
    BY <1>2, <1>9
<1>11. SumFunction(f) = Contributed(done)
    BY DEF Contributed
<1>12. ResidualAmount(done) = SumFunction(Restrict(f, E))
  <2> DEFINE R == ResidualPools(done)
             g == [i \in E |-> done[i]]
             v == [c \in R |-> c.contribution]
  <2>1. R = Range(g) /\ g \in [E -> R]
      BY DEF ResidualPools, Range
  <2>2. \A i, j \in E : g[i] = g[j] => i = j
      BY <1>3
  <2>3. v \in [R -> Int]
      BY <1>2 DEF ResidualPools
  <2>4. \A i \in E : g[i] \in R /\ v[g[i]] = f[i]
      BY <2>1, <1>2
  <2>5. ResidualAmount(done) = SumFunction(v)
      BY DEF ResidualAmount
  <2> HIDE DEF R, g, v, E, D, f
  <2>6. SumFunction(v) = SumFunction([i \in E |-> v[g[i]]])
    <3>1. IsFiniteSet(E)
        BY <1>1, FS_Subset
    <3>2. v \in [Range(g) -> Int] /\ g \in [E -> R]
        BY <2>1, <2>3
    <3> QED BY <3>1, <3>2, <2>2, SumOfRange
  <2>7. [i \in E |-> v[g[i]]] = Restrict(f, E)
      BY <2>4 DEF Restrict
  <2> QED BY <2>5, <2>6, <2>7
<1> HIDE DEF D, E, f, by
<1>13. SumFunction(by) = SumFunction(Restrict(by, D \ E))
  <2>1. D \ E \in SUBSET D /\ D \ (D \ E) = E
      BY <1>1
  <2> QED BY <2>1, <1>1, <1>8, <1>10, SumOfSupport
<1>14. Restrict(by, D \ E) = Restrict(f, D \ E)
    BY <1>10 DEF Restrict
<1>15. SumFunction(f) = SumFunction(Restrict(f, E)) + SumFunction(Restrict(f, D \ E))
    BY <1>1, <1>2, SumSplit
<1>16. SumFunction(Restrict(f, E)) \in Int /\ SumFunction(Restrict(f, D \ E)) \in Int
  <2>1. D \ E \in SUBSET D
      OBVIOUS
  <2> QED BY <2>1, <1>1, <1>2, RestrictionFacts
<1> QED BY <1>8, <1>11, <1>12, <1>13, <1>14, <1>15, <1>16 DEF A

---------------------------------------------------------------------------
(* The account nodes.                                                      *)

LEMMA AccountBooks ==
    ASSUME NEW book \in FileBs \cup FileCs, NEW a \in WorkbookAccounts, a # NoAccount
    PROVE  book[a] \in Seq(Int)
<1>1. PICK w \in Workbooks : \E i \in DOMAIN w : a = w[i].account
    BY DEF WorkbookAccounts
<1>2. PICK i \in DOMAIN w : a = w[i].account
    BY <1>1
<1>3. w[i].account # NoAccount => book[w[i].account] \in Seq(Int)
    BY ReceiptAssumption
<1> QED BY <1>2, <1>3

AccountsOf(done) == {x.fact.account : x \in Allocations(done)} \ {NoAccount}
OfAccountIn(done, account) == {a \in Allocations(done) : a.fact.account = account}

\* The dollars of the accounts, and those without an account, are all dollars.
LEMMA AmountByAccount ==
    ASSUME NEW t, NEW done, Computations(done, t)
    PROVE  /\ IsFiniteSet(AccountsOf(done))
           /\ AccountsOf(done) \in SUBSET (WorkbookAccounts \ {NoAccount})
           /\ \A k : Amount(OfAccountIn(done, k)) \in Int
           /\ Amount(Allocations(done)) =
                 Amount(OfAccountIn(done, NoAccount))
                     + SumFunction([k \in AccountsOf(done) |-> Amount(OfAccountIn(done, k))])
           /\ SumFunction([k \in AccountsOf(done) |-> Amount(OfAccountIn(done, k))]) \in Int
<1> DEFINE A == Allocations(done)
           S == {x.fact.account : x \in A}
           K == S \cup {NoAccount}
           E == AccountsOf(done)
           key == [a \in A |-> a.fact.account]
           by == AmountsBy(A, key, K)
<1>1. A \in SUBSET AllocationRows /\ IsFiniteSet(A)
    BY AllocationsType
<1>2. key \in [A -> K] /\ key \in [A -> S] /\ Range(key) = S
    BY DEF Range
<1>3. IsFiniteSet(K)
  <2>1. IsFiniteSet(S)
    <3> HIDE DEF key, A, S
    <3> QED BY <1>1, <1>2, RangeIsFinite
  <2> HIDE DEF S
  <2> QED BY <2>1, FS_AddElement
<1>4. E = K \ {NoAccount} /\ NoAccount \in K /\ E \in SUBSET K
    BY DEF AccountsOf
<1>5. E \in SUBSET (WorkbookAccounts \ {NoAccount})
    BY <1>1 DEF AccountsOf, AllocationRows, FactRows
<1>6. \A k : /\ OfAccountIn(done, k) = {a \in A : key[a] = k}
             /\ OfAccountIn(done, k) \in SUBSET A
    BY DEF OfAccountIn
<1>7. \A k : Amount(OfAccountIn(done, k)) \in Int
  <2> HIDE DEF A
  <2> QED BY <1>1, <1>6, AmountsType
<1> HIDE DEF A, K, key, E
<1>8. by \in [K -> Int] /\ Amount(A) = SumFunction(by)
    BY <1>1, <1>2, <1>3, AmountByKey
<1>9. \A k \in K : by[k] = Amount(OfAccountIn(done, k))
    BY <1>6 DEF AmountsBy
<1> HIDE DEF by
<1>10. SumFunction(by) = by[NoAccount] + SumFunction(Restrict(by, K \ {NoAccount}))
    BY <1>3, <1>4, <1>8, SumTakeOut
<1>11. Restrict(by, K \ {NoAccount}) = [k \in E |-> Amount(OfAccountIn(done, k))]
    BY <1>4, <1>9 DEF Restrict
<1>12. IsFiniteSet(E) /\ SumFunction(Restrict(by, E)) \in Int
    BY <1>3, <1>4, <1>8, RestrictionFacts
<1> QED BY <1>4, <1>5, <1>7, <1>8, <1>9, <1>10, <1>11, <1>12 DEF A, E

AccountNodes(fileB) == {AccountNode(a, fileB) : a \in AccountsOf(detail)}

IsAccountNode(m) ==
    /\ m = [account |-> m.account, amount |-> m.amount, fileB |-> m.fileB,
            children |-> m.children, awards |-> m.awards]
    /\ m.account \in WorkbookAccounts \ {NoAccount}
    /\ m.amount \in Int /\ m.fileB \in Seq(Int)

LEMMA AccountNodesAreNodes ==
    ASSUME Computations(detail, tax), NEW fileB \in FileBs
    PROVE  \A m \in AccountNodes(fileB) :
              IsAccountNode(m) /\ DivisionTotal(m.children) = m.amount
<1> SUFFICES ASSUME NEW a \in AccountsOf(detail)
             PROVE  /\ IsAccountNode(AccountNode(a, fileB))
                    /\ DivisionTotal(AccountNode(a, fileB).children) = AccountNode(a, fileB).amount
    BY DEF AccountNodes
<1> DEFINE amount == Amount(OfAccount(a))
           b == fileB[a]
           children == Children(amount, b)
           awards == [parts |-> <<>>, residual |-> amount]
<1>1. a \in WorkbookAccounts \ {NoAccount} /\ amount \in Int
    BY AmountByAccount DEF OfAccount, OfAccountIn
<1>2. b \in Seq(Int)
    BY <1>1, AccountBooks
<1>3. DivisionTotal(children) = amount
    BY <1>1, <1>2, ChildrenConserve
<1>4. AccountNode(a, fileB) = [account |-> a, amount |-> amount, fileB |-> b,
                               children |-> children, awards |-> awards]
    BY DEF AccountNode
<1> HIDE DEF amount, b, children, awards
<1> QED BY <1>1, <1>2, <1>3, <1>4 DEF IsAccountNode

\* The bridge conserves what the pools contributed.
LEMMA BridgeConserves ==
    ASSUME Computations(detail, tax), NEW fileB \in FileBs
    PROVE  NodesTotal(AccountNodes(fileB)) + BridgeResidual = Contributed(detail)
<1> DEFINE E == AccountsOf(detail)
           T == AccountNodes(fileB)
           N == [a \in E |-> AccountNode(a, fileB)]
           v == [m \in T |-> m.amount]
           f == [a \in E |-> Amount(OfAccountIn(detail, a))]
           A == Allocations(detail)
           rest == Amount(OfAccountIn(detail, NoAccount))
<1>1. /\ IsFiniteSet(E) /\ rest \in Int /\ SumFunction(f) \in Int
      /\ Amount(A) = rest + SumFunction(f)
    BY AmountByAccount
<1>2. N \in [E -> T] /\ Range(N) = T
    BY DEF AccountNodes, Range
<1>3. \A a \in E : /\ N[a].account = a /\ N[a] \in T
                   /\ N[a].amount = Amount(OfAccountIn(detail, a))
    BY <1>2 DEF AccountNode, OfAccount, OfAccountIn
<1>4. \A a, c \in E : N[a] = N[c] => a = c
    BY <1>3
<1>5. v \in [T -> Int]
  <2>1. \A m \in T : m.amount \in Int
      BY AccountNodesAreNodes DEF IsAccountNode
  <2> QED BY <2>1
<1>6. NodesTotal(T) = SumFunction(v)
    BY DEF NodesTotal
<1>7. BridgeResidual = ResidualAmount(detail) + rest
    BY DEF BridgeResidual, OfAccount, OfAccountIn
<1>8. \A a \in E : v[N[a]] = Amount(OfAccountIn(detail, a))
    BY <1>3
<1>9. /\ Amount(A) \in Int /\ ResidualAmount(detail) \in Int
      /\ Amount(A) + ResidualAmount(detail) = Contributed(detail)
    BY AllocatedAndResidual
<1> HIDE DEF E, T, N, v, A, rest
<1>10. SumFunction(v) = SumFunction([a \in E |-> v[N[a]]])
  <2>1. v \in [Range(N) -> Int]
      BY <1>2, <1>5
  <2>2. IsFiniteSet(E) /\ N \in [E -> T]
      BY <1>1, <1>2
  <2> HIDE DEF f
  <2> QED BY <1>4, <2>1, <2>2, SumOfRange
<1>11. [a \in E |-> v[N[a]]] = f
    BY <1>8
<1> HIDE DEF f
<1>12. NodesTotal(T) + BridgeResidual = Contributed(detail)
    BY <1>1, <1>6, <1>7, <1>9, <1>10, <1>11
<1> QED BY <1>12 DEF T

\* Awards are taken from the account, and what they leave stays there.
LEMMA ProjectionConserves ==
    ASSUME NEW amount \in Int, NEW fileB \in Seq(Int), NEW fileC \in Seq(Int)
    PROVE  /\ DivisionTotal(Projection(amount, fileB, fileC)) = amount
           /\ Within(SumFunction(Projection(amount, fileB, fileC).parts), amount)
<1>1. CASE ~Projectable(fileB, fileC)
  <2>1. Projection(amount, fileB, fileC) = [parts |-> <<>>, residual |-> amount]
      BY <1>1 DEF Projection
  <2> QED BY <2>1, EmptyParts DEF DivisionTotal, Within
<1>2. CASE Projectable(fileB, fileC)
  <2> DEFINE b == SumFunction(fileB)
             c == SumFunction(fileC)
             pool == AwardPool(amount, fileB, fileC)
             given == AwardParts(pool[1], fileC)
  <2>1. Projection(amount, fileB, fileC) = [parts |-> given, residual |-> pool[2]]
      BY <1>2 DEF Projection
  <2>2. b \in Nat \ {0} /\ c \in 0 .. b /\ fileC # <<>>
    <3>1. b \in Int
        BY RowsAreFinite, SumType
    <3> QED BY <3>1, <1>2 DEF Projectable
  <2>3. pool = ReconcileParts(amount, <<amount * c, amount * (b - c)>>, b)
      BY DEF AwardPool
  <2> HIDE DEF b, pool
  <2>4. /\ pool[1] \in Int /\ pool[2] \in Int /\ pool[1] + pool[2] = amount
        /\ Within(pool[1], amount)
        /\ c = 0 => pool[1] = 0
    <3>1. amount \in Int /\ b \in Nat \ {0} /\ c \in 0 .. b
        BY <2>2
    <3> HIDE DEF c
    <3>2. \A q : q = ReconcileParts(amount, <<amount * c, amount * (b - c)>>, b)
                    => /\ q[1] \in Int /\ q[2] \in Int /\ q[1] + q[2] = amount
                       /\ Within(q[1], amount)
                       /\ c = 0 => q[1] = 0
        BY <3>1, DividedInTwo
    <3> QED BY <3>2, <2>3
  <2>5. SumFunction(given) = pool[1]
    <3>1. CASE c = 0
      <4>1. given = <<>>
          BY <3>1 DEF AwardParts
      <4> QED BY <3>1, <4>1, <2>4, EmptyParts
    <3>2. CASE c # 0
      <4>1. given = Split(pool[1], fileC)
          BY <3>2 DEF AwardParts
      <4> QED BY <3>2, <4>1, <2>2, <2>4, SplitConserves
    <3> QED BY <3>1, <3>2
  <2> HIDE DEF given
  <2> QED BY <2>1, <2>4, <2>5 DEF DivisionTotal
<1> QED BY <1>1, <1>2

---------------------------------------------------------------------------
(* The invariant of a request beside re-ingestions.                        *)

\* The facts in the database have ids of their own; the request is at one of its phases.
ReceiptTypeOK ==
    /\ DistinctFacts(facts) /\ lastId \in Int
    /\ tax \in TaxResults
    /\ phase \in {"idle", "base", "detail", "awards", "published", "refused"}

\* A base receipt that was not refused has computed every pool, and the pools
\* got the whole tax.
BaseConserves ==
    BaseReady => Remaining(base) = {} /\ AllContributions(tax) = TotalTax(tax)

\* An account node has an amount and File B outlays of its account, and once it
\* is published its awards are within the amount.
AccountsAreNodes ==
    \A m \in accounts :
        /\ IsAccountNode(m)
        /\ phase = "published" => Within(SumFunction(m.awards.parts), m.amount)

\* The inductive invariant.  It says nothing of the facts a pool read: they may
\* be replaced before the next pool reads its own.
ReceiptInv ==
    /\ ReceiptTypeOK
    /\ Computations(base, tax) /\ Computations(detail, tax)
    /\ BaseConserves
    /\ RefusedOnlyUnmapped
    /\ AccountsAreNodes

LEMMA NumberedFacts ==
    ASSUME NEW w \in Workbooks, NEW after \in Int
    PROVE  DistinctFacts(Numbered(w, after)) /\ after + Len(w) \in Int
<1> DEFINE rows == Numbered(w, after)
           D == DOMAIN w
<1>1. w \in Seq([sub : STRING, fun : STRING, account : STRING, amount : Int])
    BY ReceiptAssumption
<1>2. D = 1 .. Len(w) /\ Len(w) \in Nat
    BY <1>1
<1>3. \A i \in D : /\ w[i].sub \in STRING /\ w[i].fun \in STRING /\ w[i].amount \in Int
                   /\ w[i].account \in WorkbookAccounts
  <2>1. \A i \in D : w[i].account \in WorkbookAccounts
      BY DEF WorkbookAccounts
  <2>2. \A i \in D : w[i] \in [sub : STRING, fun : STRING, account : STRING, amount : Int]
    <3> DEFINE T == [sub : STRING, fun : STRING, account : STRING, amount : Int]
    <3> HIDE DEF T
    <3>1. w \in Seq(T)
        BY <1>1 DEF T
    <3>2. \A i \in DOMAIN w : w[i] \in T
        BY <3>1
    <3> QED BY <3>2 DEF T
  <2> QED BY <2>1, <2>2
<1>4. rows = [i \in 1 .. Len(w) |-> [id |-> after + i, sub |-> w[i].sub, fun |-> w[i].fun,
                                     account |-> w[i].account, amount |-> w[i].amount]]
    BY <1>2 DEF Numbered
<1> HIDE DEF rows
<1>5. \A i \in 1 .. Len(w) : /\ rows[i] \in FactRows /\ rows[i].id = after + i
    BY <1>2, <1>3, <1>4 DEF FactRows
<1>6. rows \in [1 .. Len(w) -> FactRows]
    BY <1>4, <1>5
<1>7. rows \in Seq(FactRows) /\ DOMAIN rows = 1 .. Len(w)
    BY <1>2, <1>6
<1>8. \A i, j \in 1 .. Len(w) : rows[i] = rows[j] => i = j
  <2>1. \A i, j \in 1 .. Len(w) : after + i = after + j => i = j
      BY <1>2
  <2> QED BY <2>1, <1>5
<1> QED BY <1>2, <1>7, <1>8 DEF DistinctFacts, rows

LEMMA InitReceiptInv == Init => ReceiptInv
<1> SUFFICES ASSUME Init PROVE ReceiptInv
    OBVIOUS
<1>1. /\ phase = "idle" /\ base = <<>> /\ detail = <<>> /\ accounts = {}
      /\ tax = [r \in Revenues |-> 0]
    BY DEF Init
<1>2. DistinctFacts(facts) /\ lastId \in Int
  <2>1. PICK w \in Workbooks : facts = Numbered(w, 0) /\ lastId = Len(w)
      BY DEF Init
  <2>2. DistinctFacts(Numbered(w, 0)) /\ 0 + Len(w) \in Int
      BY NumberedFacts
  <2>3. Len(w) \in Int
      BY ReceiptAssumption
  <2> QED BY <2>1, <2>2, <2>3
<1>3. tax \in TaxResults
    BY <1>1 DEF TaxResults
<1>4. Computations(base, tax) /\ Computations(detail, tax)
    BY <1>1, NoComputations
<1> QED BY <1>1, <1>2, <1>3, <1>4 DEF ReceiptInv, ReceiptTypeOK, BaseConserves, BaseReady,
             RefusedOnlyUnmapped, AccountsAreNodes

LEMMA ReplaceOutlaysKeepsInv ==
    ASSUME ReceiptInv, ReplaceOutlays
    PROVE  ReceiptInv'
<1>1. UNCHANGED <<phase, tax, base, detail, accounts>>
    BY DEF ReplaceOutlays
<1>2. DistinctFacts(facts') /\ lastId' \in Int
  <2>1. PICK w \in Workbooks : facts' = Numbered(w, lastId) /\ lastId' = lastId + Len(w)
      BY DEF ReplaceOutlays
  <2> QED BY <2>1, NumberedFacts DEF ReceiptInv, ReceiptTypeOK
<1> QED BY <1>1, <1>2 DEF ReceiptInv, ReceiptTypeOK, BaseConserves, BaseReady, RefusedOnlyUnmapped,
             AccountsAreNodes

LEMMA RequestKeepsInv ==
    ASSUME ReceiptInv, Request
    PROVE  ReceiptInv'
<1>1. /\ tax' \in Taxes /\ phase' = "base" /\ base' = <<>> /\ detail' = <<>> /\ accounts' = {}
      /\ facts' = facts /\ lastId' = lastId
    BY DEF Request, dbVars
<1>2. tax' \in TaxResults
    BY <1>1, ReceiptAssumption DEF TaxResults
<1>3. Computations(base', tax') /\ Computations(detail', tax')
    BY <1>1, NoComputations
<1> QED BY <1>1, <1>2, <1>3 DEF ReceiptInv, ReceiptTypeOK, BaseConserves, BaseReady,
             RefusedOnlyUnmapped, AccountsAreNodes

LEMMA ComputeBasePoolKeepsInv ==
    ASSUME ReceiptInv, ComputeBasePool
    PROVE  ReceiptInv'
<1>1. /\ phase = "base" /\ Remaining(base) # {}
      /\ base' = Append(base, PoolComputation(tax, facts, Min(Remaining(base))))
      /\ UNCHANGED <<facts, lastId, phase, tax, detail, accounts>>
    BY DEF ComputeBasePool, dbVars
<1>2. Computations(base', tax')
    BY <1>1, AppendComputation DEF ReceiptInv, ReceiptTypeOK
<1> QED BY <1>1, <1>2 DEF ReceiptInv, ReceiptTypeOK, BaseConserves, BaseReady,
             RefusedOnlyUnmapped, AccountsAreNodes

\* The base receipt is refused only when a paid revenue is not mapped.
LEMMA FinishBaseKeepsInv ==
    ASSUME ReceiptInv, FinishBase
    PROVE  ReceiptInv'
<1>1. /\ phase = "base" /\ Remaining(base) = {}
      /\ phase' = IF Contributed(base) = TotalTax(tax) THEN "detail" ELSE "refused"
      /\ UNCHANGED <<facts, lastId, tax, base, detail, accounts>>
    BY DEF FinishBase, dbVars
<1>2. Contributed(base) = AllContributions(tax)
    BY <1>1, AllPoolsContributed DEF ReceiptInv
<1>3. BaseConserves'
    BY <1>1, <1>2 DEF BaseConserves, BaseReady
<1>4. RefusedOnlyUnmapped'
  <2> SUFFICES ASSUME Contributed(base) # TotalTax(tax)
               PROVE  \E r \in Revenues : tax[r] # 0 /\ ~Mapped(r)
      BY <1>1 DEF RefusedOnlyUnmapped
  <2> QED BY <1>2, MappedTaxIsWhole DEF ReceiptInv, ReceiptTypeOK
<1>5. AccountsAreNodes'
    BY <1>1 DEF ReceiptInv, AccountsAreNodes
<1>6. ReceiptTypeOK'
    BY <1>1 DEF ReceiptInv, ReceiptTypeOK
<1> QED BY <1>1, <1>3, <1>4, <1>5, <1>6 DEF ReceiptInv

LEMMA ComputeDetailPoolKeepsInv ==
    ASSUME ReceiptInv, ComputeDetailPool
    PROVE  ReceiptInv'
<1>1. /\ phase = "detail" /\ Remaining(detail) # {}
      /\ detail' = Append(detail, PoolComputation(tax, facts, Min(Remaining(detail))))
      /\ UNCHANGED <<facts, lastId, phase, tax, base, accounts>>
    BY DEF ComputeDetailPool, dbVars
<1>2. Computations(detail', tax')
    BY <1>1, AppendComputation DEF ReceiptInv, ReceiptTypeOK
<1> QED BY <1>1, <1>2 DEF ReceiptInv, ReceiptTypeOK, BaseConserves, BaseReady,
             RefusedOnlyUnmapped, AccountsAreNodes

\* The bridge is never refused: its pools contribute what the base receipt's
\* do, whatever became of the facts.
LEMMA BridgeKeepsInv ==
    ASSUME ReceiptInv, Bridge
    PROVE  ReceiptInv'
<1>1. PICK fileB \in FileBs :
          /\ accounts' = AccountNodes(fileB)
          /\ phase' = IF /\ NodesTotal(AccountNodes(fileB)) + BridgeResidual = TotalTax(tax)
                         /\ \A n \in AccountNodes(fileB) : DivisionTotal(n.children) = n.amount
                      THEN "awards" ELSE "refused"
    BY DEF Bridge, AccountNodes, AccountsOf
<1>2. /\ phase = "detail" /\ Remaining(detail) = {}
      /\ UNCHANGED <<facts, lastId, tax, base, detail>>
    BY DEF Bridge, dbVars
<1>3. Computations(detail, tax) /\ AllContributions(tax) = TotalTax(tax) /\ Remaining(base) = {}
    BY <1>2 DEF ReceiptInv, BaseConserves, BaseReady
<1>4. \A m \in AccountNodes(fileB) : IsAccountNode(m) /\ DivisionTotal(m.children) = m.amount
    BY <1>3, AccountNodesAreNodes
<1>5. NodesTotal(AccountNodes(fileB)) + BridgeResidual = TotalTax(tax)
    BY <1>2, <1>3, BridgeConserves, AllPoolsContributed
<1>6. phase' = "awards"
    BY <1>1, <1>4, <1>5
<1>7. AccountsAreNodes'
    BY <1>1, <1>4, <1>6 DEF AccountsAreNodes
<1> QED BY <1>2, <1>3, <1>6, <1>7 DEF ReceiptInv, ReceiptTypeOK, BaseConserves, BaseReady,
             RefusedOnlyUnmapped

\* Nor is the award projection.
LEMMA ProjectAwardsKeepsInv ==
    ASSUME ReceiptInv, ProjectAwards
    PROVE  ReceiptInv'
<1> DEFINE Projected(fileC, n) ==
              [n EXCEPT !.awards = Projection(n.amount, n.fileB, fileC[n.account])]
           Nodes(fileC) == {Projected(fileC, n) : n \in accounts}
<1>1. PICK fileC \in FileCs :
          /\ accounts' = Nodes(fileC)
          /\ phase' = IF \A n \in Nodes(fileC) : DivisionTotal(n.awards) = n.amount
                      THEN "published" ELSE "refused"
    BY DEF ProjectAwards
<1>2. phase = "awards" /\ UNCHANGED <<facts, lastId, tax, base, detail>>
    BY DEF ProjectAwards, dbVars
<1>3. ASSUME NEW m \in Nodes(fileC)
      PROVE  /\ IsAccountNode(m) /\ DivisionTotal(m.awards) = m.amount
             /\ Within(SumFunction(m.awards.parts), m.amount)
  <2>1. PICK n \in accounts : m = Projected(fileC, n)
      OBVIOUS
  <2>2. IsAccountNode(n)
      BY DEF ReceiptInv, AccountsAreNodes
  <2> DEFINE awards == Projection(n.amount, n.fileB, fileC[n.account])
  <2>3. m = [n EXCEPT !.awards = awards]
      BY <2>1
  <2>4. /\ n = [account |-> n.account, amount |-> n.amount, fileB |-> n.fileB,
                children |-> n.children, awards |-> n.awards]
        /\ n.account \in WorkbookAccounts \ {NoAccount}
        /\ n.amount \in Int /\ n.fileB \in Seq(Int)
      BY <2>2 DEF IsAccountNode
  <2>5. /\ DivisionTotal(awards) = n.amount
        /\ Within(SumFunction(awards.parts), n.amount)
    <3>1. fileC[n.account] \in Seq(Int)
        BY <2>4, AccountBooks
    <3> QED BY <2>4, <3>1, ProjectionConserves
  <2> HIDE DEF awards
  <2>6. m = [account |-> n.account, amount |-> n.amount, fileB |-> n.fileB,
             children |-> n.children, awards |-> awards]
      BY <2>3, <2>4
  <2> QED BY <2>4, <2>5, <2>6 DEF IsAccountNode
<1>4. phase' = "published"
    BY <1>1, <1>3
<1>5. AccountsAreNodes'
    BY <1>1, <1>3, <1>4 DEF AccountsAreNodes
<1> QED BY <1>2, <1>4, <1>5 DEF ReceiptInv, ReceiptTypeOK, BaseConserves, BaseReady,
             RefusedOnlyUnmapped

LEMMA NextKeepsReceiptInv == ReceiptInv /\ [Next]_vars => ReceiptInv'
<1> SUFFICES ASSUME ReceiptInv, [Next]_vars PROVE ReceiptInv'
    OBVIOUS
<1>1. CASE ReplaceOutlays
    BY <1>1, ReplaceOutlaysKeepsInv
<1>2. CASE Request
    BY <1>2, RequestKeepsInv
<1>3. CASE ComputeBasePool
    BY <1>3, ComputeBasePoolKeepsInv
<1>4. CASE FinishBase
    BY <1>4, FinishBaseKeepsInv
<1>5. CASE ComputeDetailPool
    BY <1>5, ComputeDetailPoolKeepsInv
<1>6. CASE Bridge
    BY <1>6, BridgeKeepsInv
<1>7. CASE ProjectAwards
    BY <1>7, ProjectAwardsKeepsInv
<1>8. CASE UNCHANGED vars
    BY <1>8 DEF vars, ReceiptInv, ReceiptTypeOK, BaseConserves, BaseReady, RefusedOnlyUnmapped,
                AccountsAreNodes
<1> QED BY <1>1, <1>2, <1>3, <1>4, <1>5, <1>6, <1>7, <1>8 DEF Next

\* ReceiptInv holds of every request, however many re-ingestions come
\* between its steps.
THEOREM ReceiptInvariant == Spec => []ReceiptInv
<1> QED BY InitReceiptInv, NextKeepsReceiptInv, PTL DEF Spec

\* docs/ALLOCATION_ENGINE.md: the nodes of a pool add up to its contribution
\* and their spending to the pool's eligible spending.
THEOREM PoolsAreConserved == Spec => []PoolsConserve
<1>1. ReceiptInv => PoolsConserve
  <2> SUFFICES ASSUME ReceiptInv, NEW i \in DOMAIN base, base[i].allocations # <<>>
               PROVE  LET nodes == Grouped(Range(base[i].allocations))
                      IN  /\ NodesTotal(nodes) = base[i].contribution
                          /\ SumFunction([n \in nodes |-> n.base]) = base[i].denominator
      BY DEF PoolsConserve
  <2> QED BY PoolConserves DEF ReceiptInv
<1> QED BY <1>1, ReceiptInvariant, PTL

\* docs/ALLOCATION_ENGINE.md: the purpose nodes and the explicit residuals
\* add up to the whole tax.
THEOREM PurposesAreConserved == Spec => []PurposeConserves
<1>1. ReceiptInv => PurposeConserves
  <2> SUFFICES ASSUME ReceiptInv, BaseReady
               PROVE  NodesTotal(Grouped(Allocations(base))) + ResidualAmount(base) = TotalTax(tax)
      BY DEF PurposeConserves
  <2>1. /\ Computations(base, tax) /\ Remaining(base) = {}
        /\ AllContributions(tax) = TotalTax(tax)
      BY DEF ReceiptInv, BaseConserves
  <2>2. NodesTotal(Grouped(Allocations(base))) = Amount(Allocations(base))
      BY <2>1, AllocationsType, GroupedAmount
  <2> QED BY <2>1, <2>2, AllocatedAndResidual, AllPoolsContributed
<1> QED BY <1>1, ReceiptInvariant, PTL

\* A request is refused only for a tax no mapping takes.
THEOREM OnlyUnmappedIsRefused == Spec => []RefusedOnlyUnmapped
<1>1. ReceiptInv => RefusedOnlyUnmapped
    BY DEF ReceiptInv
<1> QED BY <1>1, ReceiptInvariant, PTL

\* Awards never get more of an account than it has, nor of the other sign.
THEOREM AwardsStayWithinAccount == Spec => []AwardsWithinAccount
<1>1. ReceiptInv => AwardsWithinAccount
    BY DEF ReceiptInv, AccountsAreNodes, AwardsWithinAccount, Within
<1> QED BY <1>1, ReceiptInvariant, PTL

---------------------------------------------------------------------------
(* The receipts of the state and of the county.                            *)

\* On exact shares the single pass of the jurisdictional engine is the
\* rounding of the allocation engine.
LEMMA KeyedIsParts ==
    ASSUME NEW total \in Int, NEW nums \in Seq(Int), nums # <<>>, NEW den \in Int \ {0},
           Exact(total, nums, den)
    PROVE  ReconcileKeyed(total, nums, den) = ReconcileParts(total, nums, den)
<1> DEFINE d == Difference(total, nums, den)
           n == Len(nums)
           w == Cardinality(WithRemainder(nums, den))
           giving == GivingOrder(nums, den)
           order == RoundingOrder(total, nums, den)
           first == {giving[m] : m \in {m \in DOMAIN giving : m <= d}}
           mine(i) == {m \in 0 .. (Abs(d) - 1) : Turn(order, m) = i}
           place(i) == Place(nums, den, TRUE, i)
<1>1. d \in Nat /\ (d > 0 => d < w) /\ w \in Nat /\ w <= n /\ n \in Nat \ {0}
  <2>1. WithRemainder(nums, den) \in SUBSET DOMAIN nums
      BY DEF WithRemainder
  <2>2. IsFiniteSet(DOMAIN nums) /\ Cardinality(DOMAIN nums) = n /\ n \in Nat
      BY RowsAreFinite
  <2>3. d \in Nat /\ (d > 0 => d < w)
      BY ExactDifference
  <2>4. n # 0
      OBVIOUS
  <2> QED BY <2>1, <2>2, <2>3, <2>4, FS_Subset, FS_CardinalityType
<1>2. Abs(d) = d /\ Sign(d) = 1
    BY <1>1 DEF Abs, Sign
<1>3. ASSUME NEW i \in DOMAIN nums
      PROVE  Cardinality(mine(i)) = IF i \in first THEN 1 ELSE 0
  <2>1. i \in first <=> place(i) < d
    <3>1. d \in Int
        BY <1>1
    <3> HIDE DEF d
    <3> QED BY <3>1, FirstInOrder
  <2>2. place(i) \in 0 .. (n - 1)
      BY PlaceOfRow
  <2>3. CASE d = 0
    <3>1. mine(i) = {}
        BY <2>3, <1>2
    <3>2. i \notin first
      <4> HIDE DEF first, place
      <4> QED BY <2>1, <2>2, <2>3
    <3> QED BY <3>1, <3>2, FS_EmptySet
  <2>4. CASE d > 0
    <3>1. order = Sorted(nums, den, TRUE)
        BY <2>4 DEF RoundingOrder, GivingOrder
    <3>2. Len(order) = n /\ ByPlace(order, nums, den, TRUE)
      <4> DEFINE give == TRUE
      <4>1. give \in BOOLEAN
          OBVIOUS
      <4>2. order = Sorted(nums, den, give)
          BY <3>1
      <4> HIDE DEF give, order
      <4>3. Len(order) = n /\ ByPlace(order, nums, den, give)
          BY <4>1, <4>2, SortedByPlace
      <4> QED BY <4>3 DEF give
    <3>3. ASSUME NEW m \in 0 .. (d - 1)
          PROVE  Turn(order, m) = i <=> m = place(i)
      <4>1. m % n = m
        <5>1. m \in 0 .. (n - 1) /\ m = n * 0 + m /\ m \in Int
            BY <1>1, <2>4
        <5> HIDE DEF n
        <5> QED BY <5>1, <1>1, QuotientIsUnique
      <4>2. m + 1 \in DOMAIN nums /\ m \in Int
          BY <1>1, <2>4, RowsAreFinite
      <4>3. Turn(order, m) = order[m + 1]
          BY <3>2, <4>1 DEF Turn
      <4>4. order[m + 1] = i <=> place(i) = (m + 1) - 1
          BY <3>2, <4>2 DEF ByPlace
      <4> HIDE DEF place, order
      <4> QED BY <4>2, <4>3, <4>4, <2>2
    <3>4. mine(i) = IF place(i) < d THEN {place(i)} ELSE {}
      <4> HIDE DEF place, order, d
      <4> QED BY <3>3, <2>2, <1>1, <1>2
    <3> QED BY <3>4, <2>1, FS_EmptySet, FS_Singleton
  <2> QED BY <2>3, <2>4, <1>1
<1>4. ReconcileKeyed(total, nums, den) =
         [i \in DOMAIN nums |-> Floor(nums, den, i) + (IF i \in first THEN 1 ELSE 0)]
    BY DEF ReconcileKeyed
<1>5. ReconcileParts(total, nums, den) =
         [i \in DOMAIN nums |-> Floor(nums, den, i) + Sign(d) * Cardinality(mine(i))]
    BY DEF ReconcileParts
<1>6. ASSUME NEW i \in DOMAIN nums
      PROVE  Floor(nums, den, i) + (IF i \in first THEN 1 ELSE 0)
                = Floor(nums, den, i) + Sign(d) * Cardinality(mine(i))
  <2> HIDE DEF first, mine
  <2> QED BY <1>2, <1>3
<1> HIDE DEF first, mine
<1> QED BY <1>4, <1>5, <1>6

\* Hence it conserves the total, and gives nothing negative of a total that is not.
LEMMA KeyedConserves ==
    ASSUME NEW total \in Int, NEW nums \in Seq(Int), nums # <<>>, NEW den \in Int \ {0},
           Exact(total, nums, den)
    PROVE  /\ ReconcileKeyed(total, nums, den) \in [DOMAIN nums -> Int]
           /\ SumFunction(ReconcileKeyed(total, nums, den)) = total
           /\ (den > 0 /\ \A i \in DOMAIN nums : nums[i] >= 0) =>
                 \A i \in DOMAIN nums : ReconcileKeyed(total, nums, den)[i] >= 0
<1>1. /\ ReconcileKeyed(total, nums, den) \in [DOMAIN nums -> Int]
      /\ SumFunction(ReconcileKeyed(total, nums, den)) = total
    BY KeyedIsParts, PartsConserve
<1>2. ASSUME den > 0, NEW i \in DOMAIN nums, nums[i] >= 0
      PROVE  ReconcileKeyed(total, nums, den)[i] >= 0
  <2>1. /\ Floor(nums, den, i) \in Int /\ Remainder(nums, den, i) \in 0 .. (Abs(den) - 1)
        /\ Sign(den) * nums[i] = Abs(den) * Floor(nums, den, i) + Remainder(nums, den, i)
        /\ nums[i] \in Int
      BY FloorAndRemainder
  <2>2. Sign(den) = 1 /\ Abs(den) = den /\ den \in Nat \ {0}
      BY <1>2 DEF Sign, Abs
  <2>3. den * Floor(nums, den, i) + Remainder(nums, den, i) >= 0
      BY <2>1, <2>2, <1>2
  <2>4. Floor(nums, den, i) >= 0
      BY <2>1, <2>2, <2>3, FloorSign
  <2>5. \/ ReconcileKeyed(total, nums, den)[i] = Floor(nums, den, i)
        \/ ReconcileKeyed(total, nums, den)[i] = Floor(nums, den, i) + 1
      BY <2>1 DEF ReconcileKeyed
  <2> QED BY <2>1, <2>4, <2>5
<1> QED BY <1>1, <1>2

\* A row of the sign of its denominator has a part that is not negative.
LEMMA KeyedSign ==
    ASSUME NEW total, NEW nums \in Seq(Int), NEW den \in Int \ {0},
           NEW i \in DOMAIN nums, Sign(den) * nums[i] >= 0
    PROVE  ReconcileKeyed(total, nums, den)[i] >= 0
<1>1. /\ Floor(nums, den, i) \in Int /\ Remainder(nums, den, i) \in 0 .. (Abs(den) - 1)
      /\ Sign(den) * nums[i] = Abs(den) * Floor(nums, den, i) + Remainder(nums, den, i)
    BY FloorAndRemainder
<1>2. Abs(den) \in Nat \ {0}
    BY DEF Abs
<1>3. Abs(den) * Floor(nums, den, i) + Remainder(nums, den, i) >= 0
    BY <1>1
<1>4. Floor(nums, den, i) >= 0
    BY <1>1, <1>2, <1>3, FloorSign
<1>5. \/ ReconcileKeyed(total, nums, den)[i] = Floor(nums, den, i)
      \/ ReconcileKeyed(total, nums, den)[i] = Floor(nums, den, i) + 1
    BY <1>1 DEF ReconcileKeyed
<1> QED BY <1>1, <1>4, <1>5

\* A sum of amounts that are not negative is not negative.
LEMMA SumOfNaturals ==
    ASSUME NEW D, IsFiniteSet(D), NEW f \in [D -> Nat]
    PROVE  SumFunction(f) \in Nat
<1>0. f \in [D -> Int]
    OBVIOUS
<1>1. PICK g \in [SUBSET D -> Int] : SumTable(D, f, g) /\ SumFunction(f) = g[D]
    BY <1>0, SumOverSubsets
<1> DEFINE G == {s \in SUBSET D : g[s] \in Nat}
<1>2. {} \in G
    BY <1>1 DEF SumTable
<1>3. \A s \in SUBSET D : s # {} /\ (\A x \in s : s \ {x} \in G) => s \in G
  <2> SUFFICES ASSUME NEW s \in SUBSET D, s # {}, \A x \in s : s \ {x} \in G
               PROVE  g[s] \in Nat
      OBVIOUS
  <2>1. PICK x \in s : TRUE
      OBVIOUS
  <2>2. g[s] = f[x] + g[s \ {x}]
      BY <1>1 DEF SumTable
  <2>3. g[s \ {x}] \in Nat /\ f[x] \in Nat
      OBVIOUS
  <2> QED BY <2>2, <2>3
<1>4. SUBSET D \subseteq G
  <2> HIDE DEF G
  <2> QED BY <1>2, <1>3, SubsetInduction
<1> QED BY <1>1, <1>4

\* A sum of three parts, as the three that the law names.
LEMMA SumOfThree ==
    ASSUME NEW f \in [1 .. 3 -> Int]
    PROVE  SumFunction(f) = f[1] + f[2] + f[3]
<1> DEFINE r == Restrict(f, (1 .. 3) \ {3})
<1>1. IsFiniteSet(1 .. 3) /\ 3 \in 1 .. 3
  <2>1. IsFiniteSet(1 .. 3)
      BY FS_Interval, 1 \in Int, 3 \in Int
  <2> QED BY <2>1
<1>2. r \in [1 .. 2 -> Int] /\ r[1] = f[1] /\ r[2] = f[2]
  <2>1. (1 .. 3) \ {3} = 1 .. 2
      OBVIOUS
  <2> QED BY <2>1 DEF Restrict
<1>3. SumFunction(f) = f[3] + SumFunction(r)
    BY <1>1, SumTakeOut
<1>4. f[1] \in Int /\ f[2] \in Int /\ f[3] \in Int
    OBVIOUS
<1> HIDE DEF r
<1>5. SumFunction(r) = r[1] + r[2]
    BY <1>2, SumOfTwo
<1> QED BY <1>2, <1>3, <1>4, <1>5

LEMMA ThreeRows ==
    ASSUME NEW a \in Int, NEW b \in Int, NEW c \in Int
    PROVE  /\ <<a, b, c>> \in Seq(Int) /\ <<a, b, c>> # <<>>
           /\ DOMAIN <<a, b, c>> = 1 .. 3
           /\ SumFunction(<<a, b, c>>) = a + b + c
<1> DEFINE f == <<a, b, c>>
<1>1. f \in Seq(Int) /\ f # <<>> /\ DOMAIN f = 1 .. 3
    OBVIOUS
<1>2. f \in [1 .. 3 -> Int] /\ f[1] = a /\ f[2] = b /\ f[3] = c
  <2>1. Len(f) = 3 /\ f[1] = a /\ f[2] = b /\ f[3] = c
      OBVIOUS
  <2>2. ASSUME NEW s \in Seq(Int) PROVE s \in [DOMAIN s -> Int]
      OBVIOUS
  <2> HIDE DEF f
  <2>3. f \in [DOMAIN f -> Int]
      BY <1>1, <2>2
  <2> QED BY <1>1, <2>1, <2>3
<1> HIDE DEF f
<1>3. SumFunction(f) = f[1] + f[2] + f[3]
    BY <1>2, SumOfThree
<1> QED BY <1>1, <1>2, <1>3 DEF f

\* The three half-cents of the surtax.
LEMMA PoolsOfTheSurtax ==
    ASSUME NEW t \in Nat
    PROVE  /\ LocalPools(t) \in [1 .. 3 -> Int]
           /\ LocalPools(t)[1] \in Nat /\ LocalPools(t)[2] \in Nat /\ LocalPools(t)[3] \in Nat
           /\ LocalPools(t)[1] + LocalPools(t)[2] + LocalPools(t)[3] = t
<1> DEFINE nums == <<t, t, t>>
<1>1. /\ nums \in Seq(Int) /\ nums # <<>> /\ DOMAIN nums = 1 .. 3
      /\ SumFunction(nums) = t + t + t
    BY ThreeRows
<1>2. Exact(t, nums, 3)
    BY <1>1 DEF Exact
<1>3. \A i \in DOMAIN nums : nums[i] >= 0
    BY <1>1
<1> DEFINE pools == ReconcileKeyed(t, nums, 3)
<1>4. /\ pools \in [1 .. 3 -> Int] /\ SumFunction(pools) = t
      /\ \A i \in 1 .. 3 : pools[i] >= 0
  <2> HIDE DEF nums
  <2>1. 3 \in Int \ {0} /\ 3 > 0 /\ t \in Int
      OBVIOUS
  <2> QED BY <1>1, <1>2, <1>3, <2>1, KeyedConserves
<1>5. LocalPools(t) = pools
    BY DEF LocalPools
<1> HIDE DEF pools
<1>6. SumFunction(pools) = pools[1] + pools[2] + pools[3]
    BY <1>4, SumOfThree
<1> QED BY <1>4, <1>5, <1>6

\* Each of the shares of law, of an amount.
LEMMA DistributionConserves ==
    ASSUME NEW amount \in Nat
    PROVE  /\ Distributed(amount) \in [1 .. 3 -> Int]
           /\ SumFunction(Distributed(amount)) = amount
           /\ \A i \in 1 .. 3 : Distributed(amount)[i] >= 0
<1> DEFINE nums == [i \in 1 .. 3 |-> amount * <<5698, 3545, 757>>[i]]
<1>1. /\ nums \in [1 .. 3 -> Int] /\ nums \in Seq(Int) /\ nums # <<>> /\ DOMAIN nums = 1 .. 3
      /\ nums[1] = amount * 5698 /\ nums[2] = amount * 3545 /\ nums[3] = amount * 757
    OBVIOUS
<1>2. Distributed(amount) = ReconcileKeyed(amount, nums, 10000)
    BY DEF Distributed
<1> HIDE DEF nums
<1>3. SumFunction(nums) = amount * 10000
  <2>1. SumFunction(nums) = nums[1] + nums[2] + nums[3]
      BY <1>1, SumOfThree
  <2> QED BY <2>1, <1>1
<1>4. \A i \in DOMAIN nums : nums[i] >= 0
    BY <1>1
<1>5. Exact(amount, nums, 10000)
    BY <1>3 DEF Exact
<1> DEFINE unit == 10000
           s == ReconcileKeyed(amount, nums, unit)
<1>6. unit \in Int \ {0} /\ unit > 0 /\ amount \in Int /\ Exact(amount, nums, unit)
    BY <1>5
<1>7. Distributed(amount) = s
    BY <1>2
<1> HIDE DEF unit
<1>8. /\ s \in [1 .. 3 -> Int] /\ SumFunction(s) = amount
      /\ \A i \in 1 .. 3 : s[i] >= 0
  <2>1. nums \in Seq(Int) /\ nums # <<>> /\ DOMAIN nums = 1 .. 3
      BY <1>1
  <2>2. /\ s \in [DOMAIN nums -> Int] /\ SumFunction(s) = amount
        /\ \A i \in DOMAIN nums : s[i] >= 0
      BY <2>1, <1>4, <1>6, KeyedConserves
  <2> QED BY <2>1, <2>2
<1> QED BY <1>7, <1>8

\* The local receipt is the surtax, pool by pool and government by government.
LEMMA LocalReceiptConserves ==
    ASSUME NEW t \in Nat
    PROVE  /\ Whole(LocalReceipt(t)) = t
           /\ \A pool \in {LocalReceipt(t).wspp, LocalReceipt(t).infrastructure} :
                 /\ SumFunction(pool.children) = pool.amount
                 /\ \A i \in DOMAIN pool.children : pool.children[i] >= 0
           /\ \A pool \in {LocalReceipt(t).wspp, LocalReceipt(t).infrastructure,
                            LocalReceipt(t).school} : pool.amount >= 0
<1> DEFINE p == LocalPools(t)
<1>1. p[1] \in Nat /\ p[2] \in Nat /\ p[3] \in Nat /\ p[1] + p[2] + p[3] = t
    BY PoolsOfTheSurtax
<1> HIDE DEF p
<1>2. LocalReceipt(t) =
         [infrastructure |-> [amount |-> p[1], children |-> Distributed(p[1])],
          school         |-> [amount |-> p[2], children |-> <<>>],
          wspp           |-> [amount |-> p[3], children |-> Distributed(p[3])]]
    BY DEF LocalReceipt, p
<1>3. Whole(LocalReceipt(t)) = t
    BY <1>1, <1>2 DEF Whole
<1>4. ASSUME NEW a \in Nat
      PROVE  /\ SumFunction(Distributed(a)) = a
             /\ \A i \in DOMAIN Distributed(a) : Distributed(a)[i] >= 0
    BY DistributionConserves
<1>5. \A pool \in {LocalReceipt(t).wspp, LocalReceipt(t).infrastructure,
                    LocalReceipt(t).school} : pool.amount >= 0
    BY <1>1, <1>2
<1> QED BY <1>1, <1>2, <1>3, <1>4, <1>5

\* The state tax over its functions, whatever the signs of their expenses.
LEMMA StateReceiptConserves ==
    ASSUME NEW t \in Int
    PROVE  SumFunction(StateReceipt(t, Spending)) = t
<1> DEFINE nums == [i \in DOMAIN Spending |-> t * Spending[i]]
           zero == [i \in DOMAIN Spending |-> 0]
           D == DOMAIN Spending
           den == SumFunction(Spending)
<1>1. Spending \in Seq(Int) /\ den # 0
    BY QuestionsAssumption
<1>2. D = 1 .. Len(Spending) /\ Len(Spending) \in Nat /\ IsFiniteSet(D) /\ Spending \in [D -> Int]
    BY <1>1, RowsAreFinite
<1>3. den \in Int
    BY <1>2, SumType
<1>4. Spending # <<>>
  <2> SUFFICES ASSUME D = {} PROVE FALSE
      BY <1>1
  <2>1. Spending \in [{} -> Int]
      BY <1>2
  <2> QED BY <2>1, <1>1, SumOfNone
<1>5. nums \in [D -> Int] /\ nums \in Seq(Int) /\ nums # <<>>
    BY <1>1, <1>2, <1>4
<1>6. SumFunction(nums) = t * den
  <2>1. zero \in [D -> Int] /\ \A i \in D : zero[i] = 0
      OBVIOUS
  <2>2. SumFunction(zero) = 0
    <3> HIDE DEF zero, D
    <3> QED BY <2>1, <1>2, SumOfZeros
  <2>3. Combines(D, nums, t, Spending, zero)
      BY <1>2 DEF Combines
  <2> HIDE DEF nums, zero, D, den
  <2>4. SumFunction(nums) = t * SumFunction(Spending) + SumFunction(zero)
      BY <1>2, <1>5, <2>1, <2>3, SumIsLinear
  <2> QED BY <2>2, <2>4, <1>3 DEF den
<1>7. StateReceipt(t, Spending) = ReconcileKeyed(t, nums, den)
    BY DEF StateReceipt
<1> HIDE DEF nums, den
<1>8. Exact(t, nums, den)
    BY <1>6 DEF Exact
<1> QED BY <1>1, <1>3, <1>5, <1>7, <1>8, KeyedConserves

\* A function of the state is negative only against the sign of all expenses together.
LEMMA StateReceiptSign ==
    ASSUME NEW t \in Nat, NEW i \in DOMAIN Spending,
           Sign(SumFunction(Spending)) * Spending[i] >= 0
    PROVE  StateReceipt(t, Spending)[i] >= 0
<1> DEFINE nums == [k \in DOMAIN Spending |-> t * Spending[k]]
           den == SumFunction(Spending)
<1>1. Spending \in Seq(Int) /\ den # 0
    BY QuestionsAssumption
<1>2. DOMAIN Spending = 1 .. Len(Spending) /\ Len(Spending) \in Nat
      /\ IsFiniteSet(DOMAIN Spending) /\ Spending \in [DOMAIN Spending -> Int]
    BY <1>1, RowsAreFinite
<1>3. den \in Int
    BY <1>2, SumType
<1>4. Spending[i] \in Int /\ Sign(den) \in {1, -1}
    BY <1>2 DEF Sign
<1>5. nums \in Seq(Int) /\ i \in DOMAIN nums /\ nums[i] = t * Spending[i]
    BY <1>2
<1>6. StateReceipt(t, Spending) = ReconcileKeyed(t, nums, den)
    BY DEF StateReceipt
<1> HIDE DEF nums, den
<1>7. Sign(den) * nums[i] >= 0
  <2>1. Sign(den) * Spending[i] >= 0
      BY DEF den
  <2>2. CASE Sign(den) = 1
      BY <1>4, <1>5, <2>1, <2>2
  <2>3. CASE Sign(den) = -1
    <3>1. Spending[i] <= 0
        BY <1>4, <2>1, <2>3
    <3>2. t * Spending[i] <= 0 /\ t * Spending[i] \in Int
        BY <1>4, <3>1
    <3> QED BY <1>5, <2>3, <3>2
  <2> QED BY <1>4, <2>2, <2>3
<1> QED BY <1>1, <1>3, <1>5, <1>6, <1>7, KeyedSign

\* What is known of any sequence of rows.
LEMMA RowsOf ==
    ASSUME NEW T, NEW s \in Seq(T)
    PROVE  /\ DOMAIN s = 1 .. Len(s) /\ Len(s) \in Nat
           /\ IsFiniteSet(DOMAIN s)
           /\ s \in [DOMAIN s -> T] /\ \A i \in DOMAIN s : s[i] \in T
<1>1. DOMAIN s = 1 .. Len(s) /\ Len(s) \in Nat
    OBVIOUS
<1>2. IsFiniteSet(1 .. Len(s))
    BY <1>1, FS_Interval, 1 \in Int, Len(s) \in Int
<1>3. s \in [DOMAIN s -> T]
    OBVIOUS
<1> QED BY <1>1, <1>2, <1>3

\* A quotient of amounts that are not negative is not negative, rounded or not.
LEMMA DivisionType ==
    ASSUME NEW a \in Nat, NEW b \in Nat \ {0}
    PROVE  a \div b \in Nat
<1> DEFINE q == a \div b
           r == a % b
<1>1. q \in Int /\ r \in 0 .. (b - 1) /\ b * q + r = a
    OBVIOUS
<1> HIDE DEF q, r
<1>2. q >= 0
    BY <1>1, FloorSign
<1> QED BY <1>1, <1>2 DEF q

LEMMA HalfUpType ==
    ASSUME NEW n \in Nat, NEW d \in Nat \ {0}
    PROVE  HalfUp(n, d) \in Nat
<1>1. 2 * n + d \in Nat /\ 2 * d \in Nat \ {0}
    OBVIOUS
<1> QED BY <1>1, DivisionType DEF HalfUp

\* Every income has a quintile: the last one, if no interval holds it.
LEMMA QuintileOfIncome ==
    ASSUME NEW income
    PROVE  Quintile(income) \in {Profile.quintiles[k] : k \in DOMAIN Profile.quintiles}
<1> DEFINE qs == Profile.quintiles
           fits(k) == /\ income >= qs[k].lower
                      /\ (qs[k].upper = Unbounded \/ income < qs[k].upper)
           ks == [k \in DOMAIN qs |-> k]
           I == {i \in 1 .. Len(ks) : fits(ks[i])}
           first == IF I # {} THEN Min(I) ELSE 0
<1>1. DOMAIN qs = 1 .. Len(qs) /\ Len(qs) \in Nat \ {0} /\ Len(ks) = Len(qs)
    BY ProfileAssumption
<1>2. Quintile(income) = qs[IF first = 0 THEN Len(qs) ELSE first]
    BY DEF Quintile, SelectInSeq
<1>3. first \in 0 .. Len(qs)
  <2> HIDE DEF qs, fits
  <2>1. I \in SUBSET Nat /\ I \in SUBSET (1 .. Len(qs))
      BY <1>1
  <2> HIDE DEF I
  <2>2. CASE I # {}
    <3>1. PICK m \in I : \A k \in I : m <= k
        BY <2>1, <2>2, LeastNatural
    <3>2. Min(I) \in I
        BY <3>1 DEF Min
    <3>3. first = Min(I)
        BY <2>2
    <3> HIDE DEF first
    <3>4. Min(I) \in 1 .. Len(qs)
        BY <2>1, <3>2
    <3>5. first \in 1 .. Len(qs)
        BY <3>3, <3>4
    <3> QED BY <1>1, <3>5
  <2>3. CASE I = {}
      BY <2>3, <1>1
  <2> QED BY <2>2, <2>3
<1> HIDE DEF first, qs
<1> QED BY <1>1, <1>2, <1>3 DEF qs

\* Taxable spending and the sales taxes on it are never negative.
LEMMA TaxableType ==
    ASSUME NEW spent \in Nat
    PROVE  /\ SumFunction(StateTaxable(spent)) \in Nat
           /\ SumFunction(LocalTaxable(spent)) \in Nat
<1> DEFINE D == DOMAIN Profile.categories
<1>1. /\ IsFiniteSet(D)
      /\ \A i \in D : /\ Profile.categories[i].baseline \in Nat
                      /\ Profile.categories[i].taxability \in Nat
  <2>1. Profile.categories \in Seq([baseline : Nat, taxability : Nat, capped : BOOLEAN])
      BY ProfileAssumption
  <2>2. /\ IsFiniteSet(D)
        /\ \A i \in D : Profile.categories[i] \in [baseline : Nat, taxability : Nat, capped : BOOLEAN]
      BY <2>1, RowsOf
  <2> QED BY <2>2
<1>2. StateTaxable(spent) \in [D -> Nat]
  <2>1. \A a \in Nat, b \in Nat : a * spent * b \in Nat
      OBVIOUS
  <2> QED BY <1>1, <2>1 DEF StateTaxable
<1>3. LocalTaxable(spent) \in [D -> Nat]
  <2>1. Profile.cap * 100 * Profile.all_units \in Nat
    <3>1. Profile.cap \in Nat /\ Profile.all_units \in Nat
        BY ProfileAssumption
    <3> QED BY <3>1
  <2>2. \A i \in D : StateTaxable(spent)[i] \in Nat
      BY <1>2
  <2> QED BY <2>1, <2>2 DEF LocalTaxable
<1> QED BY <1>1, <1>2, <1>3, SumOfNaturals

LEMMA SalesTaxesType ==
    ASSUME NEW income
    PROVE  SalesTaxes(income).state \in Nat /\ SalesTaxes(income).local \in Nat
<1> DEFINE spent == Quintile(income).total
           st == SumFunction(StateTaxable(spent))
           lt == SumFunction(LocalTaxable(spent))
           units == Profile.all_units
<1>1. spent \in Nat
  <2>1. PICK k \in DOMAIN Profile.quintiles : Quintile(income) = Profile.quintiles[k]
      BY QuintileOfIncome
  <2>2. Profile.quintiles[k] \in [lower : Nat, upper : Nat \cup {Unbounded}, total : Nat]
      BY ProfileAssumption, RowsOf
  <2> QED BY <2>1, <2>2
<1>2. st \in Nat /\ lt \in Nat
    BY <1>1, TaxableType
<1>3. units \in Nat \ {0} /\ Profile.state_rate \in Nat /\ Profile.local_rate \in Nat
    BY ProfileAssumption
<1>4. SalesTaxes(income) =
         [state |-> HalfUp(HalfUp(st, units) * Profile.state_rate, 1000),
          local |-> HalfUp(HalfUp(lt, units) * Profile.local_rate, 1000)]
    BY DEF SalesTaxes
<1> HIDE DEF st, lt, units
<1>5. HalfUp(st, units) \in Nat /\ HalfUp(lt, units) \in Nat
    BY <1>2, <1>3, HalfUpType
<1>6. HalfUp(st, units) * Profile.state_rate \in Nat /\ HalfUp(lt, units) * Profile.local_rate \in Nat
    BY <1>3, <1>5
<1>7. 1000 \in Nat \ {0}
    OBVIOUS
<1> QED BY <1>4, <1>6, <1>7, HalfUpType

---------------------------------------------------------------------------
(* Federal taxes.                                                          *)

\* Rounding moves an amount by half a cent at most, keeps cents as they are
\* and the order of amounts.
WholeCents == {x \in Int : x % Cent = 0}

LEMMA MoneyIsRounded ==
    ASSUME NEW x \in Int
    PROVE  /\ Money(x) \in WholeCents
           /\ Money(x) - x \in (1 - Cent \div 2) .. (Cent \div 2)
           /\ x \in WholeCents => Money(x) = x
           /\ x >= 0 => Money(x) >= 0
    BY DEF Money, Cent, WholeCents

LEMMA MoneyIsMonotone ==
    ASSUME NEW x \in Int, NEW y \in Int, x <= y
    PROVE  Money(x) <= Money(y)
    BY DEF Money, Cent

LEMMA CentsAdd ==
    ASSUME NEW x \in WholeCents, NEW y \in WholeCents
    PROVE  x + y \in WholeCents /\ x - y \in WholeCents
    BY DEF WholeCents, Cent

\* Of a tax rounded in three parts and once as a whole.
LEMMA ThreeRoundings ==
    ASSUME NEW i \in WholeCents, NEW a \in Int, NEW b \in Int, NEW c \in Int
    PROVE  Abs((i + Money(a) + Money(b) + Money(c)) - Money(i + a + b + c)) <= Cent
<1> DEFINE d == (i + Money(a) + Money(b) + Money(c)) - Money(i + a + b + c)
<1>1. i \in Int /\ i + a + b + c \in Int
    BY DEF WholeCents
<1>2. /\ Money(a) \in WholeCents /\ Money(a) - a \in -49 .. 50
      /\ Money(b) \in WholeCents /\ Money(b) - b \in -49 .. 50
      /\ Money(c) \in WholeCents /\ Money(c) - c \in -49 .. 50
      /\ Money(i + a + b + c) \in WholeCents
      /\ Money(i + a + b + c) - (i + a + b + c) \in -49 .. 50
  <2>1. \A x \in Int : Money(x) \in WholeCents /\ Money(x) - x \in -49 .. 50
      BY MoneyIsRounded DEF Cent
  <2> QED BY <1>1, <2>1
<1>3. \A x \in WholeCents : x \in Int
    BY DEF WholeCents
<1>4. d \in WholeCents
    BY <1>2, CentsAdd
<1>5. d \in -197 .. 199
  <2> DEFINE ma == Money(a)
             mb == Money(b)
             mc == Money(c)
             m == Money(i + a + b + c)
  <2>1. ma \in Int /\ mb \in Int /\ mc \in Int /\ m \in Int
      BY <1>2, <1>3
  <2>2. /\ ma - a \in -49 .. 50 /\ mb - b \in -49 .. 50 /\ mc - c \in -49 .. 50
        /\ m - (i + a + b + c) \in -49 .. 50 /\ d = (i + ma + mb + mc) - m
      BY <1>2
  <2> HIDE DEF ma, mb, mc, m, d
  <2> QED BY <1>1, <2>1, <2>2
<1> HIDE DEF d
<1>6. d \in {-100, 0, 100}
    BY <1>4, <1>5 DEF WholeCents, Cent
<1> QED BY <1>6 DEF Abs, Cent, d

\* What the bands below have left, and what they have taxed.
Taken == [lower : Int, remaining : Int, total : Int]
BracketRows == [upper : Nat \cup {NoLimit}, rate : Nat]

\* A band keeps three numbers, whatever its bounds.
LEMMA BandType ==
    ASSUME NEW below \in Taken, NEW bracket \in BracketRows
    PROVE  Band(below, bracket) \in Taken
<1> DEFINE width == IF bracket.upper = NoLimit THEN below.remaining
                    ELSE AtLeastZero(Least(below.remaining, bracket.upper - below.lower))
<1>1. /\ below.lower \in Int /\ below.remaining \in Int /\ below.total \in Int
      /\ bracket.rate \in Nat /\ (bracket.upper # NoLimit => bracket.upper \in Nat)
    BY DEF Taken, BracketRows
<1>2. width \in Int
    BY <1>1 DEF AtLeastZero, Least
<1> HIDE DEF width
<1>3. width * bracket.rate \in Int
    BY <1>1, <1>2
<1>4. Band(below, bracket) =
         IF below.remaining <= 0 THEN below
         ELSE [lower     |-> IF bracket.upper = NoLimit THEN below.lower ELSE bracket.upper,
               remaining |-> below.remaining - width,
               total     |-> below.total + width * bracket.rate]
    BY DEF Band, width
<1> QED BY <1>1, <1>2, <1>3, <1>4 DEF Taken

\* The recursion over the bands has the values its equation says.
LEMMA BandsOfSchedule ==
    ASSUME NEW taxable \in Int, NEW brackets \in Seq(BracketRows)
    PROVE  /\ Bands(taxable, brackets) \in [0 .. Len(brackets) -> Taken]
           /\ Bands(taxable, brackets)[0] = [lower |-> 0, remaining |-> taxable, total |-> 0]
           /\ \A k \in 1 .. Len(brackets) :
                 Bands(taxable, brackets)[k] = Band(Bands(taxable, brackets)[k - 1], brackets[k])
<1> DEFINE n == Len(brackets)
           first == [lower |-> 0, remaining |-> taxable, total |-> 0]
           step == [x \in (1 .. n) \X Taken |-> Band(x[2], brackets[x[1]])]
           Iterates(after) ==
               after = [k \in 0 .. n |->
                           IF k = 0 THEN first ELSE Band(after[k - 1], brackets[k])]
           bands == CHOOSE after : Iterates(after)
<1>1. n \in Nat /\ \A k \in 1 .. n : brackets[k] \in BracketRows
    BY RowsOf
<1>2. first \in Taken
    BY DEF Taken
<1>3. \A x \in (1 .. n) \X Taken : Band(x[2], brackets[x[1]]) \in Taken
    BY <1>1, BandType
<1>4. step \in StepFunction(n, Taken)
    BY <1>3 DEF StepFunction
<1>5. \A k \in 1 .. n, b \in Taken : step[<<k, b>>] = Band(b, brackets[k])
    OBVIOUS
<1> HIDE DEF first, step, n
<1>6. PICK g \in Recursive(n, Taken, first, step) : TRUE
    BY <1>1, <1>2, <1>4, Recursion
<1>7. /\ g \in [0 .. n -> Taken]
      /\ \A k \in 0 .. n : g[k] = IF k = 0 THEN first ELSE step[<<k, g[k - 1]>>]
    BY <1>6 DEF Recursive
<1>8. ASSUME NEW k \in 0 .. n
      PROVE  g[k] = IF k = 0 THEN first ELSE Band(g[k - 1], brackets[k])
  <2>1. CASE k = 0
      BY <2>1, <1>7
  <2>2. CASE k # 0
    <3>1. k \in 1 .. n /\ k - 1 \in 0 .. n
        BY <2>2, <1>1
    <3> QED BY <3>1, <2>2, <1>5, <1>7
  <2> QED BY <2>1, <2>2
<1>9. Iterates(g)
    BY <1>7, <1>8
<1>10. Iterates(bands)
  <2> HIDE DEF Iterates
  <2> QED BY <1>9
<1>11. Bands(taxable, brackets) = bands
    BY DEF Bands, first, n
<1> HIDE DEF bands
<1>12. /\ DOMAIN bands = 0 .. n /\ bands = [k \in 0 .. n |-> bands[k]]
       /\ \A k \in 0 .. n : bands[k] = IF k = 0 THEN first ELSE Band(bands[k - 1], brackets[k])
    BY <1>10
<1>13. bands[0] = first /\ \A k \in 1 .. n : bands[k] = Band(bands[k - 1], brackets[k])
  <2>1. 0 \in 0 .. n /\ \A k \in 1 .. n : k \in 0 .. n /\ k # 0
      BY <1>1
  <2> HIDE DEF Iterates
  <2> QED BY <2>1, <1>12
<1> DEFINE S == {k \in 0 .. n : bands[k] \in Taken}
<1>14. 0 \in S
    BY <1>1, <1>2, <1>13
<1>15. \A k \in 1 .. n : k - 1 \in S => k \in S
    BY <1>1, <1>13, BandType
<1>16. 0 .. n \subseteq S
  <2> HIDE DEF S
  <2> QED BY <1>1, <1>14, <1>15, Induction
<1>17. bands \in [0 .. n -> Taken]
    BY <1>12, <1>16
<1> QED BY <1>11, <1>13, <1>17 DEF first, n

\* The band a dollar above taxable lies in.
Holds(bracket, taxable) == bracket.upper = NoLimit \/ (bracket.upper # NoLimit /\ taxable < bracket.upper)
IsBandOf(m, brackets, taxable) ==
    /\ m \in DOMAIN brackets /\ Holds(brackets[m], taxable)
    /\ \A j \in 1 .. (m - 1) : ~Holds(brackets[j], taxable)
Bottom(brackets, k) == IF k = 0 THEN 0 ELSE brackets[k].upper

\* What a schedule is: its bounds are numbers that ascend, except the last.
LEMMA ScheduleFacts ==
    ASSUME NEW brackets, IsSchedule(brackets)
    PROVE  /\ brackets \in Seq(BracketRows) /\ Len(brackets) \in Nat \ {0}
           /\ DOMAIN brackets = 1 .. Len(brackets)
           /\ \A k \in DOMAIN brackets : brackets[k] \in BracketRows /\ brackets[k].rate \in Nat
           /\ \A k \in DOMAIN brackets : brackets[k].upper = NoLimit <=> k = Len(brackets)
           /\ \A k \in 0 .. (Len(brackets) - 1) : Bottom(brackets, k) \in Nat
           /\ \A k \in 1 .. (Len(brackets) - 1) : Bottom(brackets, k - 1) < Bottom(brackets, k)
<1>1. brackets \in Seq(BracketRows) /\ brackets # <<>>
    BY DEF IsSchedule, BracketRows
<1>2. /\ DOMAIN brackets = 1 .. Len(brackets) /\ Len(brackets) \in Nat \ {0}
      /\ \A k \in DOMAIN brackets : brackets[k] \in BracketRows
    BY <1>1, RowsOf
<1>3. \A k \in DOMAIN brackets : brackets[k].upper = NoLimit <=> k = Len(brackets)
    BY DEF IsSchedule
<1>4. ASSUME NEW k \in 0 .. (Len(brackets) - 1) PROVE Bottom(brackets, k) \in Nat
  <2>1. CASE k = 0
      BY <2>1 DEF Bottom
  <2>2. CASE k # 0
    <3>1. k \in DOMAIN brackets /\ k # Len(brackets)
      <4>1. \A n \in Nat \ {0} : \A i \in 0 .. (n - 1) : i # 0 => i \in 1 .. n /\ i # n
          OBVIOUS
      <4> QED BY <4>1, <2>2, <1>2
    <3>2. brackets[k].upper # NoLimit /\ brackets[k] \in BracketRows
        BY <3>1, <1>2, <1>3
    <3> QED BY <3>2, <2>2 DEF Bottom, BracketRows
  <2> QED BY <2>1, <2>2
<1>5. ASSUME NEW k \in 1 .. (Len(brackets) - 1)
      PROVE  Bottom(brackets, k - 1) < Bottom(brackets, k)
  <2>1. (IF k = 1 THEN 0 ELSE brackets[k - 1].upper) < brackets[k].upper
      BY DEF IsSchedule
  <2>2. k \in Int /\ k # 0 /\ (k - 1 = 0 <=> k = 1)
      BY <1>2
  <2> QED BY <2>1, <2>2 DEF Bottom
<1>6. \A k \in DOMAIN brackets : brackets[k].rate \in Nat
    BY <1>2 DEF BracketRows
<1> QED BY <1>1, <1>2, <1>3, <1>4, <1>5, <1>6

\* Up to the band of the dollar, two incomes a dollar apart are taxed alike.
TaxedAlike(brackets, t, k, a, b) ==
    /\ k < Len(brackets) /\ Bottom(brackets, k) <= t
    /\ \A j \in 1 .. k : ~Holds(brackets[j], t)
    /\ a.remaining = t - Bottom(brackets, k) /\ b.remaining = (t + 1) - Bottom(brackets, k)
    /\ b.lower = Bottom(brackets, k) /\ (a.remaining > 0 => a.lower = Bottom(brackets, k))
    /\ a.total = b.total

\* Above it nothing is left of either, and the dollar has been taxed.
DollarTaxed(brackets, t, k, a, b) ==
    /\ a.remaining = 0 /\ b.remaining = 0
    /\ \E m \in 1 .. k : /\ IsBandOf(m, brackets, t)
                         /\ b.total = a.total + brackets[m].rate

\* One band on, the two incomes are still alike or the dollar has just been taxed.
LEMMA NextBand ==
    ASSUME NEW brackets, IsSchedule(brackets), NEW t \in Nat, NEW k \in 1 .. Len(brackets),
           NEW a \in Taken, NEW b \in Taken,
           \/ TaxedAlike(brackets, t, k - 1, a, b)
           \/ DollarTaxed(brackets, t, k - 1, a, b)
    PROVE  \/ TaxedAlike(brackets, t, k, Band(a, brackets[k]), Band(b, brackets[k]))
           \/ DollarTaxed(brackets, t, k, Band(a, brackets[k]), Band(b, brackets[k]))
<1> DEFINE bracket == brackets[k]
           rate == bracket.rate
           low == Bottom(brackets, k - 1)
<1>1. /\ bracket \in BracketRows /\ rate \in Nat /\ k \in DOMAIN brackets /\ low \in Nat
      /\ (bracket.upper = NoLimit <=> k = Len(brackets))
      /\ k \in Nat /\ k - 1 \in 0 .. (Len(brackets) - 1) /\ Len(brackets) \in Nat
  <2>1. k - 1 \in 0 .. (Len(brackets) - 1) /\ Len(brackets) \in Nat /\ k \in DOMAIN brackets
      BY ScheduleFacts
  <2> QED BY <2>1, ScheduleFacts
<1>2. /\ a.lower \in Int /\ a.remaining \in Int /\ a.total \in Int
      /\ b.lower \in Int /\ b.remaining \in Int /\ b.total \in Int
    BY DEF Taken
<1>3. CASE DollarTaxed(brackets, t, k - 1, a, b)
  <2>1. Band(a, bracket) = a /\ Band(b, bracket) = b
      BY <1>3 DEF DollarTaxed, Band
  <2>2. \A m \in 1 .. (k - 1) : m \in 1 .. k
      BY <1>1
  <2> QED BY <1>3, <2>1, <2>2 DEF DollarTaxed
<1>4. CASE TaxedAlike(brackets, t, k - 1, a, b)
  <2>1. /\ low <= t /\ a.remaining = t - low /\ b.remaining = (t + 1) - low /\ b.lower = low
        /\ (a.remaining > 0 => a.lower = low) /\ a.total = b.total
        /\ \A j \in 1 .. (k - 1) : ~Holds(brackets[j], t)
      BY <1>4 DEF TaxedAlike
  <2>2. CASE Holds(bracket, t)
    <3>1. IsBandOf(k, brackets, t)
        BY <2>1, <2>2, <1>1 DEF IsBandOf
    <3>2. /\ Band(b, bracket).remaining = 0
          /\ Band(b, bracket).total = b.total + b.remaining * rate
      <4>1. CASE bracket.upper = NoLimit
          BY <4>1, <2>1, <1>1, <1>2 DEF Band
      <4>2. CASE bracket.upper # NoLimit
        <5>1. bracket.upper \in Nat /\ t < bracket.upper
            BY <4>2, <2>2, <1>1 DEF Holds, BracketRows
        <5>2. AtLeastZero(Least(b.remaining, bracket.upper - b.lower)) = b.remaining
            BY <5>1, <2>1, <1>1, <1>2 DEF AtLeastZero, Least
        <5> QED BY <5>2, <4>2, <2>1, <1>1, <1>2 DEF Band
      <4> QED BY <4>1, <4>2
    <3>3. /\ Band(a, bracket).remaining = 0
          /\ Band(a, bracket).total = a.total + a.remaining * rate
      <4>0. CASE a.remaining = 0
          BY <4>0, <1>1, <1>2 DEF Band
      <4>1. CASE a.remaining > 0 /\ bracket.upper = NoLimit
          BY <4>1, <2>1, <1>1, <1>2 DEF Band
      <4>2. CASE a.remaining > 0 /\ bracket.upper # NoLimit
        <5>1. bracket.upper \in Nat /\ t < bracket.upper
            BY <4>2, <2>2, <1>1 DEF Holds, BracketRows
        <5>2. AtLeastZero(Least(a.remaining, bracket.upper - a.lower)) = a.remaining
            BY <5>1, <4>2, <2>1, <1>1, <1>2 DEF AtLeastZero, Least
        <5> QED BY <5>2, <4>2, <2>1, <1>1, <1>2 DEF Band
      <4> QED BY <4>0, <4>1, <4>2, <2>1, <1>1
    <3>4. b.remaining * rate = a.remaining * rate + rate
      <4>1. b.remaining = a.remaining + 1
          BY <2>1, <1>1
      <4>2. \A x \in Int, y \in Nat : (x + 1) * y = x * y + y
          OBVIOUS
      <4> QED BY <4>1, <4>2, <1>1, <1>2
    <3>5. Band(b, bracket).total = Band(a, bracket).total + rate
      <4>1. a.remaining * rate \in Int
          BY <1>1, <1>2
      <4>2. b.remaining * rate \in Int
          BY <1>1, <1>2
      <4> DEFINE x == a.remaining * rate
                 y == b.remaining * rate
      <4>3. /\ Band(b, bracket).total = b.total + y /\ Band(a, bracket).total = a.total + x
            /\ x \in Int /\ y \in Int /\ y = x + rate /\ a.total = b.total
          BY <4>1, <4>2, <3>2, <3>3, <3>4, <2>1
      <4> HIDE DEF x, y
      <4> QED BY <4>3, <1>1, <1>2
    <3>6. k \in 1 .. k
        BY <1>1
    <3> QED BY <3>1, <3>2, <3>3, <3>5, <3>6 DEF DollarTaxed
  <2>3. CASE ~Holds(bracket, t)
    <3> DEFINE top == bracket.upper
    <3>1. top # NoLimit /\ top \in Nat /\ top <= t /\ k # Len(brackets)
        BY <2>3, <1>1 DEF Holds, BracketRows
    <3>2. k \in 1 .. (Len(brackets) - 1) /\ Bottom(brackets, k) = top /\ low < top
      <4>1. k \in 1 .. (Len(brackets) - 1)
          BY <3>1, <1>1
      <4>2. Bottom(brackets, k) = top
          BY <4>1 DEF Bottom
      <4> QED BY <4>1, <4>2, ScheduleFacts
    <3>3. /\ AtLeastZero(Least(a.remaining, top - a.lower)) = top - low
          /\ AtLeastZero(Least(b.remaining, top - b.lower)) = top - low
          /\ a.remaining > 0 /\ b.remaining > 0
        BY <3>1, <3>2, <2>1, <1>1, <1>2 DEF AtLeastZero, Least
    <3>4. /\ Band(a, bracket) = [lower |-> top, remaining |-> a.remaining - (top - low),
                                 total |-> a.total + (top - low) * rate]
          /\ Band(b, bracket) = [lower |-> top, remaining |-> b.remaining - (top - low),
                                 total |-> b.total + (top - low) * rate]
        BY <3>1, <3>3, <1>2 DEF Band
    <3>5. a.remaining - (top - low) = t - top /\ b.remaining - (top - low) = (t + 1) - top
      <4>1. a.remaining = t - low /\ b.remaining = (t + 1) - low /\ low \in Int /\ top \in Int
          BY <3>1, <2>1, <1>1
      <4> HIDE DEF low, top
      <4> QED BY <4>1
    <3>6. \A j \in 1 .. k : ~Holds(brackets[j], t)
      <4>1. \A j \in 1 .. k : j = k \/ j \in 1 .. (k - 1)
          BY <1>1
      <4> QED BY <4>1, <2>1, <2>3
    <3>7. k < Len(brackets)
        BY <3>2, <1>1
    <3> QED BY <3>1, <3>2, <3>4, <3>5, <3>6, <3>7, <2>1 DEF TaxedAlike
  <2> QED BY <2>2, <2>3
<1> QED BY <1>3, <1>4

\* One more dollar is taxed at the rate of its band.
LEMMA OneMoreDollar ==
    ASSUME NEW brackets, IsSchedule(brackets), NEW t \in Nat
    PROVE  \E m : /\ IsBandOf(m, brackets, t)
                  /\ Bands(t + 1, brackets)[Len(brackets)].total
                        = Bands(t, brackets)[Len(brackets)].total + brackets[m].rate
<1> DEFINE n == Len(brackets)
           a == Bands(t, brackets)
           b == Bands(t + 1, brackets)
           S == {k \in 0 .. n : \/ TaxedAlike(brackets, t, k, a[k], b[k])
                                \/ DollarTaxed(brackets, t, k, a[k], b[k])}
<1>1. /\ brackets \in Seq(BracketRows) /\ n \in Nat \ {0} /\ t \in Int /\ t + 1 \in Int
    BY ScheduleFacts
<1>2. /\ a \in [0 .. n -> Taken] /\ b \in [0 .. n -> Taken]
      /\ a[0] = [lower |-> 0, remaining |-> t, total |-> 0]
      /\ b[0] = [lower |-> 0, remaining |-> t + 1, total |-> 0]
      /\ \A k \in 1 .. n : a[k] = Band(a[k - 1], brackets[k])
      /\ \A k \in 1 .. n : b[k] = Band(b[k - 1], brackets[k])
    BY <1>1, BandsOfSchedule
<1> HIDE DEF a, b
<1>3. 0 \in S
  <2>1. TaxedAlike(brackets, t, 0, a[0], b[0])
      BY <1>1, <1>2 DEF TaxedAlike, Bottom
  <2> QED BY <2>1, <1>1
<1>4. \A k \in 1 .. n : k - 1 \in S => k \in S
  <2> SUFFICES ASSUME NEW k \in 1 .. n, k - 1 \in S PROVE k \in S
      OBVIOUS
  <2>1. k \in 0 .. n /\ k - 1 \in 0 .. n
      BY <1>1
  <2>2. a[k - 1] \in Taken /\ b[k - 1] \in Taken
      BY <2>1, <1>2
  <2>3. \/ TaxedAlike(brackets, t, k, Band(a[k - 1], brackets[k]), Band(b[k - 1], brackets[k]))
        \/ DollarTaxed(brackets, t, k, Band(a[k - 1], brackets[k]), Band(b[k - 1], brackets[k]))
      BY <2>2, NextBand
  <2> QED BY <2>1, <2>3, <1>2
<1>5. n \in S
  <2>1. 0 .. n \subseteq S
    <3> HIDE DEF S
    <3> QED BY <1>1, <1>3, <1>4, Induction
  <2> QED BY <2>1, <1>1
<1>6. ~TaxedAlike(brackets, t, n, a[n], b[n])
    BY <1>1 DEF TaxedAlike
<1> QED BY <1>5, <1>6 DEF DollarTaxed, a, b

\* Whole dollars at a whole percent are whole cents.
LEMMA ProductOfCents ==
    ASSUME NEW w \in Int, NEW r \in WholeCents
    PROVE  w * r \in WholeCents
<1>1. PICK q \in Int : r = 100 * q
  <2>1. r \in Int /\ r % 100 = 0
      BY DEF WholeCents, Cent
  <2>2. r = 100 * (r \div 100) /\ r \div 100 \in Int
      BY <2>1
  <2> QED BY <2>2
<1>2. w * q \in Int /\ w * (100 * q) = 100 * (w * q)
    OBVIOUS
<1> DEFINE p == w * q
<1>3. p \in Int /\ w * r = 100 * p
    BY <1>1, <1>2
<1> HIDE DEF p
<1>4. (100 * p) % 100 = 0 /\ 100 * p \in Int
    BY <1>3
<1> QED BY <1>3, <1>4 DEF WholeCents, Cent

\* Rates in whole percents tax whole dollars in whole cents.
LEMMA BandsInCents ==
    ASSUME NEW s \in Statuses, NEW t \in Int
    PROVE  Bands(t, FederalRules.brackets[s])[Len(FederalRules.brackets[s])].total \in WholeCents
<1> DEFINE brackets == FederalRules.brackets[s]
           n == Len(brackets)
           a == Bands(t, brackets)
           S == {k \in 0 .. n : a[k].total \in WholeCents}
<1>1. IsSchedule(brackets)
    BY RulesAssumption
<1>2. \A k \in DOMAIN brackets : brackets[k].rate % Cent = 0
    BY WholePercentAssumption
<1> HIDE DEF brackets
<1>3. /\ brackets \in Seq(BracketRows) /\ n \in Nat \ {0} /\ DOMAIN brackets = 1 .. n
      /\ \A k \in DOMAIN brackets : brackets[k] \in BracketRows /\ brackets[k].rate \in Nat
    BY <1>1, ScheduleFacts
<1>4. /\ a \in [0 .. n -> Taken] /\ a[0] = [lower |-> 0, remaining |-> t, total |-> 0]
      /\ \A k \in 1 .. n : a[k] = Band(a[k - 1], brackets[k])
    BY <1>3, BandsOfSchedule
<1> HIDE DEF a, n
<1>5. 0 \in S
    BY <1>3, <1>4 DEF WholeCents, Cent
<1>6. \A k \in 1 .. n : k - 1 \in S => k \in S
  <2> SUFFICES ASSUME NEW k \in 1 .. n, k - 1 \in S PROVE a[k].total \in WholeCents
      BY <1>3
  <2> DEFINE below == a[k - 1]
             bracket == brackets[k]
             width == IF bracket.upper = NoLimit THEN below.remaining
                      ELSE AtLeastZero(Least(below.remaining, bracket.upper - below.lower))
  <2>1. below \in Taken /\ bracket \in BracketRows /\ a[k] = Band(below, bracket)
      BY <1>3, <1>4
  <2>2. /\ below.lower \in Int /\ below.remaining \in Int /\ below.total \in WholeCents
        /\ bracket.rate \in WholeCents /\ (bracket.upper # NoLimit => bracket.upper \in Nat)
      BY <2>1, <1>2, <1>3 DEF Taken, BracketRows, WholeCents
  <2>3. width \in Int
      BY <2>2 DEF AtLeastZero, Least
  <2>4. a[k].total = below.total \/ a[k].total = below.total + width * bracket.rate
      BY <2>1 DEF Band
  <2> HIDE DEF below, bracket, width
  <2>5. width * bracket.rate \in WholeCents
      BY <2>2, <2>3, ProductOfCents
  <2> QED BY <2>2, <2>4, <2>5, CentsAdd
<1>7. n \in S
  <2>1. 0 .. n \subseteq S
    <3> HIDE DEF S
    <3> QED BY <1>3, <1>5, <1>6, Induction
  <2> QED BY <2>1, <1>3
<1> QED BY <1>7 DEF a, n, brackets

\* So that the tax before credits is the exact one: nothing is rounded off.
LEMMA IncomeTaxType ==
    ASSUME NEW s \in Statuses, NEW t \in Int
    PROVE  /\ Bands(t, FederalRules.brackets[s])[Len(FederalRules.brackets[s])].total \in Int
           /\ OrdinaryIncomeTax(t, FederalRules.brackets[s])
                 = Bands(t, FederalRules.brackets[s])[Len(FederalRules.brackets[s])].total
           /\ OrdinaryIncomeTax(t, FederalRules.brackets[s]) \in WholeCents
<1> DEFINE total == Bands(t, FederalRules.brackets[s])[Len(FederalRules.brackets[s])].total
<1>1. total \in WholeCents
    BY BandsInCents
<1>2. OrdinaryIncomeTax(t, FederalRules.brackets[s]) = Money(total)
    BY DEF OrdinaryIncomeTax
<1> HIDE DEF total
<1>3. total \in Int
    BY <1>1 DEF WholeCents
<1>4. Money(total) = total
    BY <1>1, <1>3, MoneyIsRounded
<1> QED BY <1>1, <1>2, <1>3, <1>4 DEF total

\* The first band that holds a dollar is the one whose rate RateAt gives.
LEMMA RateOfBand ==
    ASSUME NEW s \in Statuses, NEW t \in Nat, NEW m, IsBandOf(m, FederalRules.brackets[s], t)
    PROVE  RateAt(t, s) = FederalRules.brackets[s][m].rate
<1> DEFINE brackets == FederalRules.brackets[s]
           above == {k \in DOMAIN brackets : Holds(brackets[k], t)}
<1>1. RateAt(t, s) = brackets[CHOOSE k \in above : \A j \in above : k <= j].rate
    BY DEF RateAt, Holds
<1>2. IsSchedule(brackets)
    BY RulesAssumption
<1> HIDE DEF brackets
<1>3. DOMAIN brackets = 1 .. Len(brackets) /\ Len(brackets) \in Nat
    BY <1>2, ScheduleFacts
<1>4. m \in above /\ \A j \in 1 .. (m - 1) : j \notin above
    BY DEF IsBandOf, brackets
<1>5. \A k \in above : k \in Int
    BY <1>3
<1> HIDE DEF above
<1>6. above \subseteq 1 .. Len(brackets)
    BY <1>3 DEF above
<1>7. \A j \in above : m <= j
  <2> SUFFICES ASSUME NEW j \in above, j < m PROVE FALSE
      BY <1>4, <1>5
  <2>1. j \in 1 .. (m - 1)
      BY <1>4, <1>6, <1>3
  <2> QED BY <2>1, <1>4
<1>8. \A k \in above : (\A j \in above : k <= j) => k = m
    BY <1>4, <1>5, <1>7
<1>9. (CHOOSE k \in above : \A j \in above : k <= j) = m
    BY <1>4, <1>7, <1>8
<1> QED BY <1>1, <1>9 DEF brackets

HouseholdRows ==
    [status : Statuses, wage : Nat, spouse : Nat, children : Nat, others : Nat]

\* One more dollar of wages changes nothing else of the household.
LEMMA RaisedHousehold ==
    ASSUME NEW h \in HouseholdRows
    PROVE  /\ Raised(h) \in HouseholdRows
           /\ Raised(h).wage = h.wage + 1 /\ Raised(h).spouse = h.spouse
           /\ Raised(h).status = h.status /\ Raised(h).children = h.children
           /\ Raised(h).others = h.others
           /\ h.wage \in Nat /\ h.spouse \in Nat /\ h.children \in Nat /\ h.others \in Nat
           /\ h.status \in Statuses
    BY DEF Raised, HouseholdRows

IncomeTaxOf(h) ==
    OrdinaryIncomeTax(AtLeastZero((h.wage + h.spouse) - FederalRules.standard_deduction[h.status]),
                      FederalRules.brackets[h.status])

\* What one more dollar of wages adds to the income tax before credits.
LEMMA DollarAtItsRate ==
    ASSUME NEW h \in HouseholdRows
    PROVE  /\ IncomeTaxOf(h) \in WholeCents /\ IncomeTaxOf(h) \in Int
           /\ IncomeTaxOf(Raised(h)) \in WholeCents /\ IncomeTaxOf(Raised(h)) \in Int
           /\ IncomeTaxOf(Raised(h)) >= IncomeTaxOf(h)
           /\ LET taxable == h.wage + h.spouse - FederalRules.standard_deduction[h.status]
              IN  IncomeTaxOf(Raised(h)) - IncomeTaxOf(h)
                     = IF taxable < 0 THEN 0 ELSE RateAt(taxable, h.status)
<1> DEFINE s == h.status
           taxable == h.wage + h.spouse - FederalRules.standard_deduction[s]
           brackets == FederalRules.brackets[s]
           Due(t) == OrdinaryIncomeTax(t, brackets)
<1>1. s \in Statuses /\ taxable \in Int /\ IsSchedule(brackets)
    BY RaisedHousehold, RulesAssumption
<1>2. /\ IncomeTaxOf(h) = Due(AtLeastZero(taxable))
      /\ IncomeTaxOf(Raised(h)) = Due(AtLeastZero(taxable + 1))
  <2>1. /\ (h.wage + h.spouse) - FederalRules.standard_deduction[s] = taxable
        /\ ((h.wage + 1) + h.spouse) - FederalRules.standard_deduction[s] = taxable + 1
    <3>1. h.wage \in Int /\ h.spouse \in Int /\ FederalRules.standard_deduction[s] \in Int
        BY <1>1, RaisedHousehold, RulesAssumption
    <3> QED BY <3>1
  <2> QED BY <2>1, RaisedHousehold DEF IncomeTaxOf
<1> HIDE DEF taxable
<1>3. \A t \in Int : Due(t) \in WholeCents /\ Due(t) \in Int
                     /\ Due(t) = Bands(t, brackets)[Len(brackets)].total
    BY <1>1, IncomeTaxType DEF WholeCents
<1>4. AtLeastZero(taxable) \in Int /\ AtLeastZero(taxable + 1) \in Int
    BY <1>1 DEF AtLeastZero
<1>5. CASE taxable < 0
  <2>1. AtLeastZero(taxable) = 0 /\ AtLeastZero(taxable + 1) = 0
      BY <1>1, <1>5 DEF AtLeastZero
  <2>2. IncomeTaxOf(Raised(h)) = IncomeTaxOf(h) /\ IncomeTaxOf(h) \in WholeCents /\ IncomeTaxOf(h) \in Int
      BY <2>1, <1>2, <1>3
  <2>3. IncomeTaxOf(Raised(h)) - IncomeTaxOf(h) = 0
      BY <2>2
  <2> QED BY <2>2, <2>3, <1>5 DEF taxable
<1>6. CASE ~(taxable < 0)
  <2>1. taxable \in Nat /\ AtLeastZero(taxable) = taxable /\ AtLeastZero(taxable + 1) = taxable + 1
      BY <1>1, <1>6 DEF AtLeastZero
  <2>2. PICK m : /\ IsBandOf(m, brackets, taxable)
                 /\ Bands(taxable + 1, brackets)[Len(brackets)].total
                       = Bands(taxable, brackets)[Len(brackets)].total + brackets[m].rate
      BY <1>1, <2>1, OneMoreDollar
  <2>3. brackets[m].rate \in Nat
      BY <1>1, <2>2, ScheduleFacts DEF IsBandOf
  <2>4. RateAt(taxable, s) = brackets[m].rate
      BY <1>1, <2>1, <2>2, RateOfBand
  <2>5. /\ IncomeTaxOf(h) \in WholeCents /\ IncomeTaxOf(h) \in Int
        /\ IncomeTaxOf(Raised(h)) \in WholeCents /\ IncomeTaxOf(Raised(h)) \in Int
        /\ IncomeTaxOf(Raised(h)) = IncomeTaxOf(h) + brackets[m].rate
      BY <1>2, <1>3, <1>4, <2>1, <2>2
  <2>6. IncomeTaxOf(Raised(h)) - IncomeTaxOf(h) = RateAt(taxable, s)
      BY <2>3, <2>4, <2>5
  <2>7. IncomeTaxOf(Raised(h)) >= IncomeTaxOf(h)
      BY <2>3, <2>5
  <2> QED BY <2>5, <2>6, <2>7, <1>6 DEF taxable
<1> QED BY <1>5, <1>6

\* A quotient rises with its dividend, a product with its factor.
LEMMA QuotientsAscend ==
    ASSUME NEW a \in Nat, NEW b \in Nat, a <= b, NEW d \in Nat \ {0}
    PROVE  a \div d <= b \div d
<1> DEFINE q1 == a \div d
           r1 == a % d
           q2 == b \div d
           r2 == b % d
<1>1. /\ q1 \in Int /\ r1 \in 0 .. (d - 1) /\ d * q1 + r1 = a
      /\ q2 \in Int /\ r2 \in 0 .. (d - 1) /\ d * q2 + r2 = b
    OBVIOUS
<1> HIDE DEF q1, r1, q2, r2
<1> SUFFICES ASSUME q2 < q1 PROVE FALSE
    BY <1>1 DEF q1, q2
<1>2. q1 - q2 - 1 \in Nat
    BY <1>1
<1>3. \A x \in Nat : d * x \in Nat
    OBVIOUS
<1>4. d * (q1 - q2 - 1) = d * q1 - d * q2 - d
    BY <1>1
<1> DEFINE x == d * q1
           y == d * q2
<1>5. x \in Int /\ y \in Int /\ x + r1 = a /\ y + r2 = b /\ x - y - d \in Nat
    BY <1>1, <1>2, <1>3, <1>4
<1> HIDE DEF x, y
<1> QED BY <1>1, <1>5

\* A phased credit falls, if anything, as wages rise, and stays in whole dollars.
LEMMA CreditFalls ==
    ASSUME NEW c \in Nat, NEW w \in Nat, NEW t \in Nat
    PROVE  /\ PhasedCredit(c, w, t) \in Nat /\ PhasedCredit(c, w + 1, t) \in Nat
           /\ PhasedCredit(c, w + 1, t) <= PhasedCredit(c, w, t)
           /\ c \in WholeCents => /\ PhasedCredit(c, w, t) \in WholeCents
                                  /\ PhasedCredit(c, w + 1, t) \in WholeCents
<1> DEFINE inc == FederalRules.phaseout_increment
           red == FederalRules.phaseout_reduction
           steps(v) == (AtLeastZero(v - t) + inc - 1) \div inc
           cut(v) == steps(v) * red * Dollar
<1>1. inc \in Nat \ {0} /\ red \in Nat
    BY RulesAssumption
<1>2. \A v : PhasedCredit(c, v, t) = AtLeastZero(c - cut(v))
    BY DEF PhasedCredit
<1> HIDE DEF inc, red
<1>3. /\ AtLeastZero(w - t) + inc - 1 \in Nat /\ AtLeastZero(w + 1 - t) + inc - 1 \in Nat
      /\ AtLeastZero(w - t) + inc - 1 <= AtLeastZero(w + 1 - t) + inc - 1
    BY <1>1 DEF AtLeastZero
<1>4. steps(w) \in Nat /\ steps(w + 1) \in Nat /\ steps(w) <= steps(w + 1)
    BY <1>1, <1>3, DivisionType, QuotientsAscend
<1> HIDE DEF steps
<1>5. /\ cut(w) \in Nat /\ cut(w + 1) \in Nat /\ cut(w) <= cut(w + 1)
      /\ cut(w) \in WholeCents /\ cut(w + 1) \in WholeCents
  <2>1. ASSUME NEW n \in Nat
        PROVE  n * red * Dollar \in Nat /\ n * red * Dollar \in WholeCents
    <3>1. n * red \in Nat
        BY <1>1
    <3>2. \A k \in Nat : k * 10000 \in Nat /\ (k * 10000) % 100 = 0
        OBVIOUS
    <3> QED BY <3>1, <3>2 DEF Dollar, WholeCents, Cent
  <2>2. ASSUME NEW n \in Nat, NEW m \in Nat, n <= m
        PROVE  n * red * Dollar <= m * red * Dollar
    <3>1. (m - n) * red \in Nat
      <4>1. m - n \in Nat
          BY <2>2
      <4> QED BY <4>1, <1>1
    <3>2. (m - n) * red = m * red - n * red /\ m * red \in Int /\ n * red \in Int
        BY <1>1
    <3> DEFINE x == n * red
               y == m * red
    <3>3. x \in Int /\ y \in Int /\ x <= y
        BY <3>1, <3>2
    <3> HIDE DEF x, y
    <3>4. x * 10000 <= y * 10000
        BY <3>3
    <3> QED BY <3>4 DEF x, y, Dollar
  <2> QED BY <1>4, <2>1, <2>2
<1> HIDE DEF cut
<1>6. ASSUME NEW v \in Int
      PROVE  AtLeastZero(v) \in Nat /\ (v \in WholeCents => AtLeastZero(v) \in WholeCents)
    BY DEF AtLeastZero, WholeCents, Cent
<1>7. AtLeastZero(c - cut(w + 1)) <= AtLeastZero(c - cut(w))
    BY <1>5 DEF AtLeastZero
<1>8. c - cut(w) \in Int /\ c - cut(w + 1) \in Int
    BY <1>5
<1> QED BY <1>2, <1>5, <1>6, <1>7, <1>8, CentsAdd

LEMMA RateTimes ==
    ASSUME NEW x \in Int, NEW y \in Int, x <= y, NEW r \in Nat
    PROVE  x * r \in Int /\ y * r \in Int /\ x * r <= y * r
<1>1. (y - x) * r \in Nat
  <2>1. y - x \in Nat
      OBVIOUS
  <2> QED BY <2>1
<1>2. (y - x) * r = y * r - x * r /\ x * r \in Int /\ y * r \in Int
    OBVIOUS
<1> DEFINE a == x * r
           b == y * r
<1>3. a \in Int /\ b \in Int /\ b - a \in Nat
    BY <1>1, <1>2
<1> HIDE DEF a, b
<1>4. a <= b
    BY <1>3
<1> QED BY <1>3, <1>4 DEF a, b

\* The payroll taxes of a household do not fall with one more dollar of wages.
MedicareOf(h) == (h.wage + h.spouse) * FederalRules.medicare_rate

LEMMA PayrollTaxesRise ==
    ASSUME NEW h \in HouseholdRows
    PROVE  /\ SocialSecurity(h) \in Int /\ SocialSecurity(Raised(h)) \in Int
           /\ MedicareOf(h) \in Int /\ MedicareOf(Raised(h)) \in Int
           /\ Surtax(h) \in Int /\ Surtax(Raised(h)) \in Int
           /\ SocialSecurity(h) <= SocialSecurity(Raised(h))
           /\ MedicareOf(h) <= MedicareOf(Raised(h))
           /\ Surtax(h) <= Surtax(Raised(h))
<1> DEFINE limit == FederalRules.wage_base
           top == FederalRules.surtax_threshold[h.status]
<1>1. /\ h.wage \in Nat /\ h.spouse \in Nat /\ h.status \in Statuses
      /\ Raised(h).wage = h.wage + 1 /\ Raised(h).spouse = h.spouse
      /\ Raised(h).status = h.status
    BY RaisedHousehold
<1>2. /\ limit \in Nat /\ top \in Nat /\ FederalRules.ss_rate \in Nat
      /\ FederalRules.medicare_rate \in Nat /\ FederalRules.surtax_rate \in Nat
    BY <1>1, RulesAssumption
<1>3. /\ Least(h.wage, limit) + Least(h.spouse, limit) \in Int
      /\ Least(h.wage + 1, limit) + Least(h.spouse, limit) \in Int
      /\ Least(h.wage, limit) + Least(h.spouse, limit)
            <= Least(h.wage + 1, limit) + Least(h.spouse, limit)
    BY <1>1, <1>2 DEF Least
<1>4. /\ AtLeastZero(h.wage + h.spouse - top) \in Int
      /\ AtLeastZero((h.wage + 1) + h.spouse - top) \in Int
      /\ AtLeastZero(h.wage + h.spouse - top) <= AtLeastZero((h.wage + 1) + h.spouse - top)
    BY <1>1, <1>2 DEF AtLeastZero
<1>5. /\ h.wage + h.spouse \in Int /\ (h.wage + 1) + h.spouse \in Int
      /\ h.wage + h.spouse <= (h.wage + 1) + h.spouse
    BY <1>1
<1> HIDE DEF limit, top
<1>6. /\ SocialSecurity(h) = (Least(h.wage, limit) + Least(h.spouse, limit)) * FederalRules.ss_rate
      /\ SocialSecurity(Raised(h))
            = (Least(h.wage + 1, limit) + Least(h.spouse, limit)) * FederalRules.ss_rate
    BY <1>1 DEF SocialSecurity, limit
<1>7. /\ Surtax(h) = AtLeastZero(h.wage + h.spouse - top) * FederalRules.surtax_rate
      /\ Surtax(Raised(h)) = AtLeastZero((h.wage + 1) + h.spouse - top) * FederalRules.surtax_rate
    BY <1>1 DEF Surtax, top
<1>8. /\ MedicareOf(h) = (h.wage + h.spouse) * FederalRules.medicare_rate
      /\ MedicareOf(Raised(h)) = ((h.wage + 1) + h.spouse) * FederalRules.medicare_rate
    BY <1>1 DEF MedicareOf
<1>9. SocialSecurity(h) \in Int /\ SocialSecurity(Raised(h)) \in Int
      /\ SocialSecurity(h) <= SocialSecurity(Raised(h))
    BY <1>2, <1>3, <1>6, RateTimes
<1>10. MedicareOf(h) \in Int /\ MedicareOf(Raised(h)) \in Int
       /\ MedicareOf(h) <= MedicareOf(Raised(h))
    BY <1>2, <1>5, <1>8, RateTimes
<1>11. Surtax(h) \in Int /\ Surtax(Raised(h)) \in Int /\ Surtax(h) <= Surtax(Raised(h))
    BY <1>2, <1>4, <1>7, RateTimes
<1> QED BY <1>9, <1>10, <1>11

\* The credit that lowers the income tax, and what is left of the tax.
CreditOf(h) ==
    PhasedCredit((FederalRules.child_credit * h.children + FederalRules.other_credit * h.others) * Dollar,
                 h.wage + h.spouse, FederalRules.phaseout_threshold[h.status])
AfterCredits(h) == AtLeastZero(IncomeTaxOf(h) - Least(IncomeTaxOf(h), CreditOf(h)))

\* The amounts of calculate, by name.
LEMMA TaxesOfHousehold ==
    ASSUME NEW h
    PROVE  /\ FederalTaxes(h).before_credits = IncomeTaxOf(h)
           /\ FederalTaxes(h).total =
                 Money(AfterCredits(h) + SocialSecurity(h) + MedicareOf(h) + Surtax(h))
           /\ AllocableTaxes(h) =
                 Money(AfterCredits(h)) + Money(SocialSecurity(h)) + Money(MedicareOf(h))
                     + Money(Surtax(h))
<1> DEFINE f == FederalTaxes(h)
<1>1. /\ f.before_credits = IncomeTaxOf(h)
      /\ f.total = Money(AfterCredits(h) + SocialSecurity(h) + MedicareOf(h) + Surtax(h))
      /\ f.income = Money(AfterCredits(h)) /\ f.social_security = Money(SocialSecurity(h))
      /\ f.medicare = Money(MedicareOf(h)) /\ f.surtax = Money(Surtax(h))
    BY DEF FederalTaxes, IncomeTaxOf, CreditOf, AfterCredits, MedicareOf
<1>2. AllocableTaxes(h) = f.income + f.social_security + f.medicare + f.surtax
    BY DEF AllocableTaxes
<1> HIDE DEF f
<1> QED BY <1>1, <1>2 DEF f

\* Income tax less the credit rises with wages: the tax rises and the credit falls.
LEMMA TaxAfterCredits ==
    ASSUME NEW h \in HouseholdRows
    PROVE  /\ AfterCredits(h) \in WholeCents /\ AfterCredits(h) \in Int
           /\ AfterCredits(Raised(h)) \in Int /\ AfterCredits(h) <= AfterCredits(Raised(h))
<1> DEFINE potential == (FederalRules.child_credit * h.children
                            + FederalRules.other_credit * h.others) * Dollar
           begins == FederalRules.phaseout_threshold[h.status]
           wages == h.wage + h.spouse
<1>1. /\ h.wage \in Nat /\ h.spouse \in Nat /\ h.status \in Statuses
      /\ h.children \in Nat /\ h.others \in Nat
      /\ Raised(h).wage = h.wage + 1 /\ Raised(h).spouse = h.spouse
      /\ Raised(h).status = h.status /\ Raised(h).children = h.children
      /\ Raised(h).others = h.others
    BY RaisedHousehold
<1>2. begins \in Nat /\ FederalRules.child_credit \in Nat /\ FederalRules.other_credit \in Nat
    BY <1>1, RulesAssumption
<1>3. potential \in Nat /\ potential \in WholeCents
  <2>1. FederalRules.child_credit * h.children \in Nat /\ FederalRules.other_credit * h.others \in Nat
      BY <1>1, <1>2
  <2>2. \A k \in Nat, m \in Nat : (k + m) * 10000 \in Nat /\ ((k + m) * 10000) % 100 = 0
    <3>1. \A k \in Nat : k * 10000 \in Nat /\ (k * 10000) % 100 = 0
        OBVIOUS
    <3>2. \A k \in Nat, m \in Nat : k + m \in Nat
        OBVIOUS
    <3> QED BY <3>1, <3>2
  <2> QED BY <2>1, <2>2 DEF Dollar, WholeCents, Cent
<1>4. wages \in Nat /\ (h.wage + 1) + h.spouse = wages + 1
    BY <1>1
<1>5. /\ CreditOf(h) = PhasedCredit(potential, wages, begins)
      /\ CreditOf(Raised(h)) = PhasedCredit(potential, wages + 1, begins)
    BY <1>1, <1>4 DEF CreditOf
<1> HIDE DEF potential, begins, wages
<1>6. /\ CreditOf(h) \in Nat /\ CreditOf(h) \in WholeCents
      /\ CreditOf(Raised(h)) \in Nat /\ CreditOf(Raised(h)) <= CreditOf(h)
    BY <1>2, <1>3, <1>4, <1>5, CreditFalls
<1>7. /\ IncomeTaxOf(h) \in WholeCents /\ IncomeTaxOf(h) \in Int
      /\ IncomeTaxOf(Raised(h)) \in Int /\ IncomeTaxOf(h) <= IncomeTaxOf(Raised(h))
  <2>1. IncomeTaxOf(Raised(h)) >= IncomeTaxOf(h)
      BY DollarAtItsRate
  <2> QED BY <2>1, DollarAtItsRate
<1> DEFINE t == IncomeTaxOf(h)
           u == IncomeTaxOf(Raised(h))
           c == CreditOf(h)
           d == CreditOf(Raised(h))
<1>8. /\ AfterCredits(h) = AtLeastZero(t - Least(t, c))
      /\ AfterCredits(Raised(h)) = AtLeastZero(u - Least(u, d))
    BY DEF AfterCredits
<1>9. t \in Int /\ u \in Int /\ t <= u /\ c \in Nat /\ d \in Nat /\ d <= c
      /\ t \in WholeCents /\ c \in WholeCents
    BY <1>6, <1>7
<1> HIDE DEF t, u, c, d
<1>10. /\ AtLeastZero(t - Least(t, c)) = IF t < c THEN 0 ELSE t - c
       /\ AtLeastZero(u - Least(u, d)) = IF u < d THEN 0 ELSE u - d
    BY <1>9 DEF AtLeastZero, Least
<1>11. t - c \in WholeCents /\ 0 \in WholeCents
    BY <1>9, CentsAdd DEF WholeCents, Cent
<1> QED BY <1>8, <1>9, <1>10, <1>11

\* One more dollar of wages is taxed, in the year's total, by no less than nothing.
LEMMA TotalRises ==
    ASSUME NEW h \in HouseholdRows
    PROVE  FederalTaxes(Raised(h)).total >= FederalTaxes(h).total
<1> DEFINE x == AfterCredits(h) + SocialSecurity(h) + MedicareOf(h) + Surtax(h)
           y == AfterCredits(Raised(h)) + SocialSecurity(Raised(h)) + MedicareOf(Raised(h))
                    + Surtax(Raised(h))
<1>1. x \in Int /\ y \in Int /\ x <= y
    BY TaxAfterCredits, PayrollTaxesRise
<1>2. FederalTaxes(h).total = Money(x) /\ FederalTaxes(Raised(h)).total = Money(y)
    BY TaxesOfHousehold
<1> HIDE DEF x, y
<1>3. Money(x) <= Money(y) /\ Money(x) \in Int /\ Money(y) \in Int
    BY <1>1, MoneyIsMonotone, MoneyIsRounded DEF WholeCents
<1> QED BY <1>2, <1>3

\* Of the four taxes only three are rounded; the income tax is in cents already.
LEMMA PartsOfTotal ==
    ASSUME NEW h \in HouseholdRows
    PROVE  /\ AllocableTaxes(h) \in Int
           /\ Abs(AllocableTaxes(h) - FederalTaxes(h).total) <= Cent
<1> DEFINE i == AfterCredits(h)
           a == SocialSecurity(h)
           b == MedicareOf(h)
           c == Surtax(h)
<1>1. i \in WholeCents /\ i \in Int /\ a \in Int /\ b \in Int /\ c \in Int
    BY TaxAfterCredits, PayrollTaxesRise
<1>2. /\ AllocableTaxes(h) = Money(i) + Money(a) + Money(b) + Money(c)
      /\ FederalTaxes(h).total = Money(i + a + b + c)
    BY TaxesOfHousehold
<1> HIDE DEF i, a, b, c
<1>3. Money(i) = i
    BY <1>1, MoneyIsRounded
<1>4. Money(a) \in Int /\ Money(b) \in Int /\ Money(c) \in Int
    BY <1>1, MoneyIsRounded DEF WholeCents
<1>5. Abs((i + Money(a) + Money(b) + Money(c)) - Money(i + a + b + c)) <= Cent
    BY <1>1, ThreeRoundings
<1> QED BY <1>1, <1>2, <1>3, <1>4, <1>5

---------------------------------------------------------------------------
(* The Census tables and the partition of one government's rows.           *)

\* Category k holds item c, whichever of its two lists it is in.
CategoryHolds(k, c) ==
    \/ c \in Categories[k].special
    \/ c[1] \in {"E", "F"} /\ c[2] \in Categories[k].functions

\* The tables of census_taxonomy.py, entry by entry.
LEMMA SeventeenCategories ==
    /\ DOMAIN Categories = 1 .. 17 /\ Len(Categories) = 17
    /\ \A k \in 1 .. 17 : \/ k = 1 \/ k = 2 \/ k = 3 \/ k = 4 \/ k = 5 \/ k = 6 \/ k = 7 \/ k = 8 \/ k = 9
                          \/ k = 10 \/ k = 11 \/ k = 12 \/ k = 13 \/ k = 14 \/ k = 15 \/ k = 16 \/ k = 17
    BY DEF Categories

LEMMA KeysOfCategories ==
    /\ Categories[1].key = "general_government"
    /\ Categories[2].key = "education_libraries"
    /\ Categories[3].key = "public_welfare_human_services"
    /\ Categories[4].key = "health"
    /\ Categories[5].key = "hospitals"
    /\ Categories[6].key = "fire_protection"
    /\ Categories[7].key = "police"
    /\ Categories[8].key = "corrections"
    /\ Categories[9].key = "judicial_legal"
    /\ Categories[10].key = "protective_regulation"
    /\ Categories[11].key = "transportation"
    /\ Categories[12].key = "natural_resources_environment"
    /\ Categories[13].key = "parks_recreation"
    /\ Categories[14].key = "housing_community_development"
    /\ Categories[15].key = "sewerage_solid_waste"
    /\ Categories[16].key = "interest_general_debt"
    /\ Categories[17].key = "other_unallocable"
    BY DEF Categories, Category

LEMMA ListsOfCategories ==
    /\ Categories[1].functions = {"23", "26", "29", "31"} /\ Categories[1].special = {}
    /\ Categories[2].functions = {"12", "16", "18", "21", "52"} /\ Categories[2].special = {<<"J", "19">>}
    /\ Categories[3].functions = {"22", "77", "79", "85"} /\ Categories[3].special = {}
    /\ Categories[4].functions = {"32"} /\ Categories[4].special = {}
    /\ Categories[5].functions = {"36"} /\ Categories[5].special = {}
    /\ Categories[6].functions = {"24"} /\ Categories[6].special = {}
    /\ Categories[7].functions = {"62"} /\ Categories[7].special = {}
    /\ Categories[8].functions = {"04", "05"} /\ Categories[8].special = {}
    /\ Categories[9].functions = {"25"} /\ Categories[9].special = {}
    /\ Categories[10].functions = {"66"} /\ Categories[10].special = {}
    /\ Categories[11].functions = {"01", "44", "45", "60", "87"} /\ Categories[11].special = {}
    /\ Categories[12].functions = {"55", "56", "59"} /\ Categories[12].special = {}
    /\ Categories[13].functions = {"61"} /\ Categories[13].special = {}
    /\ Categories[14].functions = {"50"} /\ Categories[14].special = {}
    /\ Categories[15].functions = {"80", "81"} /\ Categories[15].special = {}
    /\ Categories[16].functions = {} /\ Categories[16].special = {<<"I", "89">>}
    /\ Categories[17].functions = {"03", "89"} /\ Categories[17].special = {}
    BY DEF Categories, Category

\* No two categories have one key, and no function is in two of them.
LEMMA KeysAreDistinct ==
    \A k \in 1 .. 17 : /\ Categories[k].key # "none"
                       /\ \A j \in 1 .. 17 : Categories[j].key = Categories[k].key => j = k
    BY KeysOfCategories, SeventeenCategories

LEMMA FunctionHasOneCategory ==
    \A f \in FunctionCodes :
        \E m \in 1 .. 17 : /\ f \in Categories[m].functions
                           /\ \A j \in 1 .. 17 : f \in Categories[j].functions => j = m
    BY ListsOfCategories, SeventeenCategories DEF FunctionCodes

\* Every item the formula adds up has exactly one category.
LEMMA ItemHasOneCategory ==
    ASSUME NEW c \in DirectGeneralCodes
    PROVE  \E m \in 1 .. 17 : /\ CategoryHolds(m, c)
                              /\ \A j \in 1 .. 17 : CategoryHolds(j, c) => j = m
<1>1. CASE c = <<"J", "19">>
  <2>1. CategoryHolds(2, c)
      BY <1>1, ListsOfCategories DEF CategoryHolds
  <2>2. c[1] \notin {"E", "F"} /\ c # <<"I", "89">>
      BY <1>1
  <2>3. \A j \in 1 .. 17 : c \in Categories[j].special => j = 2
      BY <2>2, ListsOfCategories, SeventeenCategories
  <2> QED BY <2>1, <2>2, <2>3 DEF CategoryHolds
<1>2. CASE c = <<"I", "89">>
  <2>1. CategoryHolds(16, c)
      BY <1>2, ListsOfCategories DEF CategoryHolds
  <2>2. c[1] \notin {"E", "F"} /\ c # <<"J", "19">>
      BY <1>2
  <2>3. \A j \in 1 .. 17 : c \in Categories[j].special => j = 16
      BY <2>2, ListsOfCategories, SeventeenCategories
  <2> QED BY <2>1, <2>2, <2>3 DEF CategoryHolds
<1>3. CASE c \in {"E", "F"} \X FunctionCodes
  <2>1. c[1] \in {"E", "F"} /\ c[2] \in FunctionCodes
      BY <1>3
  <2>2. \A j \in 1 .. 17 : c \notin Categories[j].special
    <3>1. c # <<"J", "19">> /\ c # <<"I", "89">>
        BY <2>1
    <3> QED BY <3>1, ListsOfCategories, SeventeenCategories
  <2>3. PICK m \in 1 .. 17 : /\ c[2] \in Categories[m].functions
                             /\ \A j \in 1 .. 17 : c[2] \in Categories[j].functions => j = m
      BY <2>1, FunctionHasOneCategory
  <2> QED BY <2>1, <2>2, <2>3 DEF CategoryHolds
<1> QED BY <1>1, <1>2, <1>3 DEF DirectGeneralCodes

\* A search finds the one index there is, if any.
LEMMA LeastOfOne ==
    ASSUME NEW m \in Nat, NEW I, \A i \in I : i = m
    PROVE  (IF I # {} THEN Min(I) ELSE 0) = IF I # {} THEN m ELSE 0
<1>1. CASE I # {}
  <2>1. I = {m}
      BY <1>1
  <2>2. Min({m}) = m
      BY DEF Min
  <2> QED BY <1>1, <2>1, <2>2
<1> QED BY <1>1

\* CategoryOf finds it.
LEMMA CategoryOfItem ==
    ASSUME NEW c \in DirectGeneralCodes, NEW m \in 1 .. 17, CategoryHolds(m, c),
           \A j \in 1 .. 17 : CategoryHolds(j, c) => j = m
    PROVE  CategoryOf(c) = Categories[m]
<1> DEFINE I == {i \in 1 .. Len(Categories) : c \in Categories[i].special}
           J == {i \in 1 .. Len(Categories) : c[1] \in {"E", "F"} /\ c[2] \in Categories[i].functions}
           special == IF I # {} THEN Min(I) ELSE 0
           function == IF J # {} THEN Min(J) ELSE 0
           k == IF special # 0 THEN special ELSE function
<1>1. CategoryOf(c) = IF k = 0 THEN NoCategory ELSE Categories[k]
    BY Zenon DEF CategoryOf, SelectInSeq
<1>2. /\ \A i \in I : i = m
      /\ \A i \in J : i = m
      /\ I # {} \/ J # {}
    BY SeventeenCategories DEF CategoryHolds
<1> HIDE DEF I, J
<1>3. special = (IF I # {} THEN m ELSE 0) /\ function = IF J # {} THEN m ELSE 0
  <2>1. m \in Nat
      OBVIOUS
  <2> QED BY <1>2, <2>1, LeastOfOne
<1> HIDE DEF special, function
<1>4. k = m /\ m # 0
    BY <1>2, <1>3
<1> HIDE DEF k
<1> QED BY <1>1, <1>4

CategoryKeys == {Categories[k].key : k \in DOMAIN Categories}

\* The key of an item tells its category, and no key is that of an excluded item.
LEMMA KeyOfItem ==
    /\ IsFiniteSet(CategoryKeys) /\ "none" \notin CategoryKeys
    /\ \A c \in DirectGeneralCodes : CategoryOf(c).key \in CategoryKeys
    /\ \A c, d \in DirectGeneralCodes :
          CategoryOf(c).key = CategoryOf(d).key <=> CategoryOf(c) = CategoryOf(d)
    /\ \A c : c \notin DirectGeneralCodes => CategoryOf(c).key = "none"
<1>1. IsFiniteSet(CategoryKeys)
  <2> DEFINE g == [k \in 1 .. 17 |-> Categories[k].key]
  <2>1. g \in [1 .. 17 -> CategoryKeys] /\ Range(g) = CategoryKeys
      BY SeventeenCategories DEF CategoryKeys, Range
  <2>2. IsFiniteSet(1 .. 17)
      BY FS_Interval, 1 \in Int, 17 \in Int
  <2> HIDE DEF g
  <2> QED BY <2>1, <2>2, RangeIsFinite
<1>2. "none" \notin CategoryKeys
    BY KeysAreDistinct, SeventeenCategories DEF CategoryKeys
<1>3. \A c \in DirectGeneralCodes : \E m \in 1 .. 17 : CategoryOf(c) = Categories[m]
    BY ItemHasOneCategory, CategoryOfItem
<1>4. \A c \in DirectGeneralCodes : CategoryOf(c).key \in CategoryKeys
    BY <1>3, SeventeenCategories DEF CategoryKeys
<1>5. ASSUME NEW c \in DirectGeneralCodes, NEW d \in DirectGeneralCodes,
             CategoryOf(c).key = CategoryOf(d).key
      PROVE  CategoryOf(c) = CategoryOf(d)
    BY <1>3, <1>5, KeysAreDistinct
<1>6. ASSUME NEW c, c \notin DirectGeneralCodes
      PROVE  CategoryOf(c).key = "none"
  <2>1. CategoryOf(c) = NoCategory
      BY <1>6 DEF CategoryOf
  <2> QED BY <2>1 DEF NoCategory
<1> QED BY <1>1, <1>2, <1>4, <1>5, <1>6

\* What TaxonomyTablesAgree says of one item.
LEMMA ItemsOfTheFormula ==
    ASSUME NEW c \in DirectGeneralCodes
    PROVE  /\ FlowType(c) = "EXPENDITURE" /\ c[1] \notin IntergovPrefixes
           /\ Cardinality({k \in DOMAIN Categories : CategoryHolds(k, c)}) = 1
<1>1. c[1] \in {"E", "F", "I", "J"}
    BY DEF DirectGeneralCodes
<1>2. FlowType(c) = "EXPENDITURE"
    BY <1>1 DEF FlowType
<1>3. PICK m \in 1 .. 17 : CategoryHolds(m, c) /\ \A j \in 1 .. 17 : CategoryHolds(j, c) => j = m
    BY ItemHasOneCategory
<1>4. {k \in DOMAIN Categories : CategoryHolds(k, c)} = {m}
    BY <1>3, SeventeenCategories
<1> QED BY <1>1, <1>2, <1>4, FS_Singleton DEF IntergovPrefixes

\* A total may be taken class by class.
ClassTotals(f, D, key, K) == [k \in K |-> Total(f, Class(D, key, k))]

LEMMA TotalByClass ==
    ASSUME NEW D, IsFiniteSet(D), NEW f \in [D -> Int], NEW K, IsFiniteSet(K), NEW key \in [D -> K]
    PROVE  /\ Total(f, D) \in Int /\ ClassTotals(f, D, key, K) \in [K -> Int]
           /\ Total(f, D) = SumFunction(ClassTotals(f, D, key, K))
<1>1. Total(f, D) = SumFunction(f)
  <2>1. [x \in D |-> f[x]] = f
      OBVIOUS
  <2> QED BY <2>1 DEF Total
<1>2. ASSUME NEW k \in K
      PROVE  /\ SumFunction(Restrict(f, Class(D, key, k))) = Total(f, Class(D, key, k))
             /\ Total(f, Class(D, key, k)) \in Int
  <2>1. Class(D, key, k) \in SUBSET D
      BY DEF Class
  <2>2. SumFunction(Restrict(f, Class(D, key, k))) \in Int
      BY <2>1, RestrictionFacts
  <2> QED BY <2>2 DEF Total, Restrict
<1>3. ClassSums(D, f, key, K) = ClassTotals(f, D, key, K) /\ ClassTotals(f, D, key, K) \in [K -> Int]
    BY <1>2 DEF ClassSums, ClassTotals
<1>4. SumFunction(f) \in Int /\ SumFunction(f) = SumFunction(ClassSums(D, f, key, K))
    BY SumType, SumByKey
<1> QED BY <1>1, <1>3, <1>4

\* The parts of a partition.
LedgerRows == [spelled : (STRING \X STRING) \X STRING, amount : Int]
RowAmounts(rows) == [i \in DOMAIN rows |-> rows[i].amount]
PresentCodes(rows) == {ItemCode(rows[i]) : i \in DOMAIN rows}
IncludedCodes(rows) == PresentCodes(rows) \cap DirectGeneralCodes
ByCode(rows) == [c \in IncludedCodes(rows) |-> AmountOf(rows, c)]
CodesOfKey(rows, key) == {c \in IncludedCodes(rows) : CategoryOf(c).key = key}
KeyAmounts(rows) == [key \in CategoryKeys |-> Total(ByCode(rows), CodesOfKey(rows, key))]
ShownKeys(rows) == {key \in CategoryKeys : KeyAmounts(rows)[key] # 0}
CategoryNode(rows, key) ==
    [key |-> key, amount |-> KeyAmounts(rows)[key], codes |-> CodesOfKey(rows, key)]
CategoryNodes(rows) == [key \in ShownKeys(rows) |-> CategoryNode(rows, key)]

\* The result of build_expenditure_partition, by name.
LEMMA PartitionParts ==
    ASSUME NEW rows, NEW year \in SupportedYears
    PROVE  /\ Partition(rows, year).refused = FALSE
           /\ Partition(rows, year).parent = Total(ByCode(rows), IncludedCodes(rows))
           /\ Partition(rows, year).nodes = Range(CategoryNodes(rows))
           /\ Partition(rows, year).residual = Total(ByCode(rows), CodesOfKey(rows, "none"))
           /\ Partition(rows, year).residualCodes = CodesOfKey(rows, "none")
           /\ Partition(rows, year).excluded = PresentCodes(rows) \ IncludedCodes(rows)
<1> DEFINE p == Partition(rows, year)
<1>1. p = [refused  |-> FALSE,
           parent   |-> Total(ByCode(rows), IncludedCodes(rows)),
           nodes    |-> {CategoryNode(rows, key) :
                            key \in {k \in DOMAIN KeyAmounts(rows) : KeyAmounts(rows)[k] # 0}},
           residual |-> Total(ByCode(rows), CodesOfKey(rows, "none")),
           residualCodes |-> CodesOfKey(rows, "none"),
           excluded |-> PresentCodes(rows) \ IncludedCodes(rows)]
    BY Zenon DEF Partition, ByCode, IncludedCodes, PresentCodes, CodesOfKey, KeyAmounts,
                 CategoryNode, CategoryKeys
<1>2. DOMAIN KeyAmounts(rows) = CategoryKeys
    BY DEF KeyAmounts
<1>3. {CategoryNode(rows, key) : key \in ShownKeys(rows)} = Range(CategoryNodes(rows))
    BY DEF CategoryNodes, Range
<1> HIDE DEF p
<1> QED BY <1>1, <1>2, <1>3 DEF p, ShownKeys

\* What each code adds up to, and all the codes of the formula.
LEMMA CodesAddUp ==
    ASSUME NEW rows \in Seq(LedgerRows)
    PROVE  /\ IsFiniteSet(IncludedCodes(rows)) /\ ByCode(rows) \in [IncludedCodes(rows) -> Int]
           /\ Total(ByCode(rows), IncludedCodes(rows)) = Total(RowAmounts(rows), InFormula(rows))
<1> DEFINE D == DOMAIN rows
           f == RowAmounts(rows)
           E == InFormula(rows)
           r == Restrict(f, E)
           K == IncludedCodes(rows)
           code == [i \in D |-> ItemCode(rows[i])]
           key == [i \in E |-> ItemCode(rows[i])]
<1>1. IsFiniteSet(D) /\ f \in [D -> Int]
  <2>1. IsFiniteSet(D) /\ \A i \in D : rows[i] \in LedgerRows
      BY RowsOf
  <2> QED BY <2>1 DEF LedgerRows, RowAmounts
<1>2. IsFiniteSet(K)
  <2>1. code \in [D -> PresentCodes(rows)] /\ Range(code) = PresentCodes(rows)
      BY DEF PresentCodes, Range
  <2>2. IsFiniteSet(PresentCodes(rows))
    <3>1. IsFiniteSet(D)
        BY <1>1
    <3> HIDE DEF code, D
    <3>2. IsFiniteSet(Range(code))
        BY <2>1, <3>1, RangeIsFinite
    <3> QED BY <2>1, <3>2
  <2>3. K \in SUBSET PresentCodes(rows)
      BY DEF IncludedCodes
  <2> QED BY <2>2, <2>3, FS_Subset
<1>3. E \in SUBSET D /\ key \in [E -> K]
    BY DEF InFormula, IncludedCodes, PresentCodes
<1>4. IsFiniteSet(E) /\ r \in [E -> Int] /\ \A i \in E : r[i] = f[i]
  <2> HIDE DEF D, f, E
  <2> QED BY <1>1, <1>3, RestrictionFacts
<1>5. ASSUME NEW c \in K
      PROVE  AmountOf(rows, c) = Total(r, Class(E, key, c))
  <2>1. c \in DirectGeneralCodes
      BY DEF IncludedCodes
  <2>2. Class(E, key, c) = {i \in D : ItemCode(rows[i]) = c}
      BY <2>1 DEF Class, InFormula
  <2>3. Class(E, key, c) \in SUBSET E
      BY DEF Class
  <2>4. [i \in Class(E, key, c) |-> r[i]] = [i \in Class(E, key, c) |-> f[i]]
    <3> HIDE DEF r, f, E, key
    <3> QED BY <1>4, <2>3
  <2>5. AmountOf(rows, c) = SumFunction([i \in {i \in D : ItemCode(rows[i]) = c} |-> f[i]])
      BY DEF AmountOf, RowAmounts, Total
  <2> HIDE DEF r, f, E, key
  <2> QED BY <2>2, <2>4, <2>5 DEF Total
<1>6. /\ Total(r, E) \in Int /\ ClassTotals(r, E, key, K) \in [K -> Int]
      /\ Total(r, E) = SumFunction(ClassTotals(r, E, key, K))
  <2> HIDE DEF r, E, K, key
  <2> QED BY <1>2, <1>3, <1>4, TotalByClass
<1>7. ByCode(rows) = ClassTotals(r, E, key, K)
    BY <1>5 DEF ByCode, ClassTotals
<1>8. Total(ByCode(rows), K) = SumFunction(ByCode(rows))
  <2>1. [x \in K |-> ByCode(rows)[x]] = ByCode(rows)
      BY DEF ByCode
  <2> QED BY <2>1 DEF Total
<1>9. Total(r, E) = Total(f, E)
  <2>1. [x \in E |-> r[x]] = [x \in E |-> f[x]]
    <3> HIDE DEF r, f, E
    <3> QED BY <1>4
  <2> QED BY <2>1 DEF Total
<1> HIDE DEF f, r, E, K, key
<1> QED BY <1>2, <1>6, <1>7, <1>8, <1>9 DEF f, E, K

\* The nodes that are shown make up the parent.
LEMMA NodesAddUp ==
    ASSUME NEW rows \in Seq(LedgerRows)
    PROVE  SumFunction([n \in Range(CategoryNodes(rows)) |-> n.amount])
              = Total(ByCode(rows), IncludedCodes(rows))
<1> DEFINE D == IncludedCodes(rows)
           f == ByCode(rows)
           K == CategoryKeys
           key == [c \in D |-> CategoryOf(c).key]
           sums == KeyAmounts(rows)
           S == ShownKeys(rows)
           N == CategoryNodes(rows)
           v == [n \in Range(N) |-> n.amount]
<1>1. IsFiniteSet(D) /\ f \in [D -> Int] /\ D \in SUBSET D /\ IsFiniteSet(K)
    BY CodesAddUp, KeyOfItem
<1>2. key \in [D -> K]
    BY KeyOfItem DEF IncludedCodes
<1>3. \A k \in K : Class(D, key, k) = CodesOfKey(rows, k)
    BY DEF Class, CodesOfKey
<1>4. /\ ClassTotals(f, D, key, K) \in [K -> Int]
      /\ Total(f, D) = SumFunction(ClassTotals(f, D, key, K))
  <2> HIDE DEF D, f, K, key
  <2> QED BY <1>1, <1>2, TotalByClass
<1>5. sums = ClassTotals(f, D, key, K)
    BY <1>3 DEF KeyAmounts, ClassTotals
<1>6. S \in SUBSET K /\ \A k \in K \ S : sums[k] = 0
    BY DEF ShownKeys
<1>7. sums \in [K -> Int] /\ SumFunction(sums) = Total(f, D)
    BY <1>4, <1>5
<1>8. SumFunction(sums) = SumFunction(Restrict(sums, S)) /\ IsFiniteSet(S)
  <2>1. IsFiniteSet(K) /\ sums \in [K -> Int]
      BY <1>1, <1>7
  <2> HIDE DEF sums, K, S
  <2>2. SumFunction(sums) = SumFunction(Restrict(sums, S))
      BY <1>6, <2>1, SumOfSupport
  <2>3. IsFiniteSet(S)
      BY <1>6, <2>1, FS_Subset
  <2> QED BY <2>2, <2>3
<1>9. /\ N \in [S -> Range(N)]
      /\ \A k \in S : N[k].key = k /\ N[k].amount = sums[k]
    BY DEF CategoryNodes, CategoryNode, Range
<1>10. v \in [Range(N) -> Int]
  <2>1. \A n \in Range(N) : \E k \in S : n = N[k]
      BY <1>9 DEF Range
  <2>2. \A k \in S : sums[k] \in Int
      BY <1>6, <1>7
  <2> HIDE DEF N, sums, S
  <2> QED BY <1>9, <2>1, <2>2
<1>11. IsFiniteSet(Range(N)) /\ N \in Bijection(S, Range(N))
  <2> DEFINE T == Range(N)
  <2>1. \A k, l \in S : N[k] = N[l] => k = l
      BY <1>9
  <2>2. N \in [S -> T] /\ \A n \in T : \E k \in S : N[k] = n
      BY <1>9 DEF Range
  <2> HIDE DEF N, S, T
  <2>3. IsFiniteSet(Range(N))
      BY <1>8, <2>2, RangeIsFinite
  <2>4. N \in Bijection(S, T)
      BY <2>1, <2>2 DEF Bijection, Injection, Surjection, IsInjective
  <2> QED BY <2>3, <2>4 DEF T
<1>12. Restrict(sums, S) \in [S -> Int] /\ Reorders(S, Restrict(sums, S), v, N)
  <2>1. Restrict(sums, S) \in [S -> Int]
      BY <1>6, <1>7 DEF Restrict
  <2>2. \A k \in S : v[N[k]] = sums[k]
    <3> HIDE DEF N, sums, S
    <3> QED BY <1>9 DEF Range
  <2> QED BY <2>1, <2>2 DEF Restrict, Reorders
<1>13. SumFunction(Restrict(sums, S)) = SumFunction(v)
  <2> DEFINE E == Range(N)
             g == Restrict(sums, S)
  <2>1. /\ IsFiniteSet(S) /\ IsFiniteSet(E) /\ v \in [E -> Int] /\ N \in Bijection(S, E)
        /\ g \in [S -> Int] /\ Reorders(S, g, v, N)
      BY <1>8, <1>10, <1>11, <1>12
  <2> HIDE DEF N, S, v, E, g
  <2>2. SumFunction(g) = SumFunction(v)
      BY <2>1, SumReindexed
  <2> QED BY <2>2 DEF g
<1> QED BY <1>7, <1>8, <1>13

\* No included item is without a category.
LEMMA NothingIsResidual ==
    ASSUME NEW rows
    PROVE  /\ CodesOfKey(rows, "none") = {}
           /\ Total(ByCode(rows), CodesOfKey(rows, "none")) = 0
<1>1. CodesOfKey(rows, "none") = {}
    BY KeyOfItem DEF CodesOfKey, IncludedCodes
<1>2. [x \in {} |-> ByCode(rows)[x]] \in [{} -> Int]
    OBVIOUS
<1> QED BY <1>1, <1>2, SumOfNone DEF Total

\* A node holds the codes of its key, and no other node does.
LEMMA NodesAreApart ==
    ASSUME NEW rows, NEW n \in Range(CategoryNodes(rows))
    PROVE  /\ n.key \in ShownKeys(rows) /\ n = CategoryNode(rows, n.key)
           /\ n.codes = CodesOfKey(rows, n.key)
<1>1. PICK k \in ShownKeys(rows) : n = CategoryNode(rows, k)
    BY DEF CategoryNodes, Range
<1>2. n.key = k /\ n.codes = CodesOfKey(rows, k)
    BY <1>1 DEF CategoryNode
<1> QED BY <1>1, <1>2

\* A code of the formula that no node holds is in a category that nets to zero.
LEMMA HiddenNetsToZero ==
    ASSUME NEW rows, NEW c \in IncludedCodes(rows),
           \A n \in Range(CategoryNodes(rows)) : c \notin n.codes
    PROVE  Total([d \in PresentCodes(rows) |-> AmountOf(rows, d)],
                 {d \in PresentCodes(rows) : CategoryOf(d) = CategoryOf(c)}) = 0
<1> DEFINE k == CategoryOf(c).key
           alike == {d \in PresentCodes(rows) : CategoryOf(d) = CategoryOf(c)}
<1>1. c \in DirectGeneralCodes /\ k \in CategoryKeys
    BY KeyOfItem DEF IncludedCodes
<1>2. k \notin ShownKeys(rows)
  <2> SUFFICES ASSUME k \in ShownKeys(rows) PROVE FALSE
      OBVIOUS
  <2>1. CategoryNode(rows, k) \in Range(CategoryNodes(rows))
      BY DEF CategoryNodes, Range
  <2>2. c \in CategoryNode(rows, k).codes
      BY DEF CategoryNode, CodesOfKey
  <2> QED BY <2>1, <2>2
<1>3. KeyAmounts(rows)[k] = 0
    BY <1>1, <1>2 DEF ShownKeys
<1>4. KeyAmounts(rows)[k] = Total(ByCode(rows), CodesOfKey(rows, k))
    BY <1>1 DEF KeyAmounts
<1>5. alike = CodesOfKey(rows, k)
  <2>1. ASSUME NEW d \in PresentCodes(rows)
        PROVE  CategoryOf(d) = CategoryOf(c) <=> d \in DirectGeneralCodes /\ CategoryOf(d).key = k
    <3>1. CASE d \in DirectGeneralCodes
        BY <1>1, <3>1, KeyOfItem
    <3>2. CASE d \notin DirectGeneralCodes
        BY <1>1, <3>2, KeyOfItem
    <3> QED BY <3>1, <3>2
  <2> QED BY <2>1 DEF CodesOfKey, IncludedCodes
<1>6. [x \in alike |-> [d \in PresentCodes(rows) |-> AmountOf(rows, d)][x]]
         = [x \in CodesOfKey(rows, k) |-> ByCode(rows)[x]]
  <2>1. alike \in SUBSET PresentCodes(rows) /\ CodesOfKey(rows, k) \in SUBSET IncludedCodes(rows)
      BY DEF CodesOfKey
  <2> QED BY <1>5, <2>1 DEF ByCode
<1> QED BY <1>3, <1>4, <1>6 DEF Total

---------------------------------------------------------------------------
(* The invariant: an answer is the one its question has.                   *)

ReceiptFor(h) ==
    [federal |-> FederalTaxes(h),
     state   |-> StateReceipt(SalesTaxes(h.wage + h.spouse).state, Spending),
     local   |-> LocalReceipt(SalesTaxes(h.wage + h.spouse).local),
     total   |-> SupportedTax(AllocableTaxes(h) \div Cent, h.wage + h.spouse)]

FormulasInv ==
    \/ \E h \in Households : /\ question = Household(h)
                             /\ answer # NoAnswer => answer = ReceiptFor(h)
    \/ \E l \in Ledgers, y \in Years : /\ question = Ledger(l, y)
                                       /\ answer # NoAnswer => answer = Partition(l, y)

\* Both steps keep it.
LEMMA InitFormulasInv == FormulasInit => FormulasInv
    BY DEF FormulasInit, FormulasInv

LEMMA NextKeepsFormulasInv == FormulasInv /\ [FormulasNext]_formulaVars => FormulasInv'
<1> SUFFICES ASSUME FormulasInv, [FormulasNext]_formulaVars PROVE FormulasInv'
    OBVIOUS
<1>1. CASE CalculateReceipt
  <2>1. question' = question /\ question.about = "household"
      BY <1>1 DEF CalculateReceipt
  <2>2. PICK h \in Households : question = Household(h)
      BY <2>1 DEF FormulasInv, Ledger
  <2>3. question.household = h
      BY <2>2 DEF Household
  <2>4. answer' = ReceiptFor(h)
      BY <1>1, <2>3 DEF CalculateReceipt, ReceiptFor
  <2> QED BY <2>1, <2>2, <2>4 DEF FormulasInv
<1>2. CASE BuildPartition
  <2>1. question' = question /\ question.about = "ledger"
      BY <1>2 DEF BuildPartition
  <2>2. PICK l \in Ledgers, y \in Years : question = Ledger(l, y)
      BY <2>1 DEF FormulasInv, Household
  <2>3. question.rows = l /\ question.year = y
      BY <2>2 DEF Ledger
  <2>4. answer' = Partition(l, y)
      BY <1>2, <2>3 DEF BuildPartition
  <2> QED BY <2>1, <2>2, <2>4 DEF FormulasInv
<1>3. CASE UNCHANGED formulaVars
    BY <1>3 DEF formulaVars, FormulasInv
<1> QED BY <1>1, <1>2, <1>3 DEF FormulasNext

\* FormulasInv holds of every question and of every answer.
THEOREM FormulasInvariant == FormulasSpec => []FormulasInv
    BY InitFormulasInv, NextKeepsFormulasInv, PTL DEF FormulasSpec

\* What an answer is, once there is one.
LEMMA ReceiptAnswered ==
    ASSUME FormulasInv, Answered("household")
    PROVE  /\ question.household \in HouseholdRows
           /\ answer = ReceiptFor(question.household)
<1>1. question.about = "household" /\ answer # NoAnswer
    BY DEF Answered
<1>2. PICK h \in Households : question = Household(h) /\ answer = ReceiptFor(h)
    BY <1>1 DEF FormulasInv, Ledger
<1>3. question.household = h
    BY <1>2 DEF Household
<1> QED BY <1>2, <1>3, QuestionsAssumption DEF HouseholdRows

LEMMA PartitionAnswered ==
    ASSUME FormulasInv, Answered("ledger"), ~answer.refused
    PROVE  /\ question.rows \in Seq(LedgerRows) /\ question.year \in SupportedYears
           /\ answer = Partition(question.rows, question.year)
<1>1. question.about = "ledger" /\ answer # NoAnswer
    BY DEF Answered
<1>2. PICK l \in Ledgers, y \in Years : question = Ledger(l, y) /\ answer = Partition(l, y)
    BY <1>1 DEF FormulasInv, Household
<1>3. question.rows = l /\ question.year = y
    BY <1>2 DEF Ledger
<1>4. y \in SupportedYears
  <2>1. y \notin SupportedYears => Partition(l, y) = [refused |-> TRUE]
      BY DEF Partition
  <2> QED BY <1>2, <2>1
<1> QED BY <1>2, <1>3, <1>4, QuestionsAssumption DEF LedgerRows

\* The six properties of an answer.
LEMMA EachDollarIsTaxedOnce == FormulasInv => EachDollarAtItsRate
<1> SUFFICES ASSUME FormulasInv, Answered("household") PROVE EachDollarAtItsRate
    BY DEF EachDollarAtItsRate
<1> DEFINE h == question.household
<1>1. h \in HouseholdRows /\ answer = ReceiptFor(h)
    BY ReceiptAnswered
<1>2. answer.federal.before_credits = IncomeTaxOf(h)
    BY <1>1, TaxesOfHousehold DEF ReceiptFor
<1>3. FederalTaxes(Raised(h)).before_credits = IncomeTaxOf(Raised(h))
    BY TaxesOfHousehold
<1>4. LET taxable == h.wage + h.spouse - FederalRules.standard_deduction[h.status]
      IN  IncomeTaxOf(Raised(h)) - IncomeTaxOf(h)
             = IF taxable < 0 THEN 0 ELSE RateAt(taxable, h.status)
  <2> HIDE DEF h
  <2> QED BY <1>1, DollarAtItsRate
<1> QED BY <1>2, <1>3, <1>4 DEF EachDollarAtItsRate

LEMMA RaisesRaiseTheTotal == FormulasInv => MoreWagesMoreTax
<1> SUFFICES ASSUME FormulasInv, Answered("household") PROVE MoreWagesMoreTax
    BY DEF MoreWagesMoreTax
<1> DEFINE h == question.household
<1>1. h \in HouseholdRows /\ answer = ReceiptFor(h)
    BY ReceiptAnswered
<1>2. answer.federal.total = FederalTaxes(h).total
    BY <1>1 DEF ReceiptFor
<1>3. FederalTaxes(Raised(h)).total >= FederalTaxes(h).total
  <2> HIDE DEF h
  <2> QED BY <1>1, TotalRises
<1> QED BY <1>2, <1>3 DEF MoreWagesMoreTax

LEMMA PartsAreTheTotal == FormulasInv => AllocatedIsTheLiability
<1> SUFFICES ASSUME FormulasInv, Answered("household") PROVE AllocatedIsTheLiability
    BY DEF AllocatedIsTheLiability
<1> DEFINE h == question.household
<1>1. h \in HouseholdRows /\ answer = ReceiptFor(h)
    BY ReceiptAnswered
<1>2. answer.federal.total = FederalTaxes(h).total
    BY <1>1 DEF ReceiptFor
<1>3. Abs(AllocableTaxes(h) - FederalTaxes(h).total) <= Cent
  <2> HIDE DEF h
  <2> QED BY <1>1, PartsOfTotal
<1> QED BY <1>2, <1>3 DEF AllocatedIsTheLiability

LEMMA ReceiptAddsUp == FormulasInv => ReceiptsAddUp
<1> SUFFICES ASSUME FormulasInv, Answered("household") PROVE ReceiptsAddUp
    BY DEF ReceiptsAddUp
<1> DEFINE h == question.household
           income == h.wage + h.spouse
           sales == SalesTaxes(income)
           federal == AllocableTaxes(h) \div Cent
<1>1. h \in HouseholdRows /\ answer = ReceiptFor(h)
    BY ReceiptAnswered
<1>2. /\ answer.state = StateReceipt(sales.state, Spending)
      /\ answer.local = LocalReceipt(sales.local)
      /\ answer.total = federal + sales.state + sales.local
    BY <1>1 DEF ReceiptFor, SupportedTax
<1>3. sales.state \in Nat /\ sales.local \in Nat
  <2> HIDE DEF income
  <2> QED BY SalesTaxesType
<1> HIDE DEF sales
<1>4. SumFunction(answer.state) = sales.state
  <2>1. sales.state \in Int
      BY <1>3
  <2> QED BY <1>2, <2>1, StateReceiptConserves
<1>5. /\ Whole(answer.local) = sales.local
      /\ \A pool \in {answer.local.wspp, answer.local.infrastructure} :
            /\ SumFunction(pool.children) = pool.amount
            /\ \A i \in DOMAIN pool.children : pool.children[i] >= 0
      /\ \A pool \in {answer.local.wspp, answer.local.infrastructure, answer.local.school} :
            pool.amount >= 0
    BY <1>2, <1>3, LocalReceiptConserves
<1>6. answer.total = federal + SumFunction(answer.state) + Whole(answer.local)
    BY <1>2, <1>4, <1>5
<1>7. \A i \in DOMAIN Spending :
         Sign(SumFunction(Spending)) * Spending[i] >= 0 => answer.state[i] >= 0
    BY <1>2, <1>3, StateReceiptSign
<1> QED BY <1>5, <1>6, <1>7 DEF ReceiptsAddUp

LEMMA PartitionIsConserved == FormulasInv => PartitionConserves
<1> SUFFICES ASSUME FormulasInv, Answered("ledger"), ~answer.refused PROVE PartitionConserves
    BY DEF PartitionConserves
<1> DEFINE rows == question.rows
           codes == PresentCodes(rows)
           N == CategoryNodes(rows)
           shown == [n \in Range(N) |-> n.amount]
<1>1. /\ rows \in Seq(LedgerRows) /\ question.year \in SupportedYears
      /\ answer = Partition(rows, question.year)
    BY PartitionAnswered
<1> HIDE DEF rows
<1>2. /\ answer.parent = Total(ByCode(rows), IncludedCodes(rows))
      /\ answer.nodes = Range(N)
      /\ answer.residual = Total(ByCode(rows), CodesOfKey(rows, "none"))
      /\ answer.residualCodes = CodesOfKey(rows, "none")
      /\ answer.excluded = codes \ IncludedCodes(rows)
    BY <1>1, PartitionParts
<1>3. answer.parent = Total(RowAmounts(rows), InFormula(rows)) /\ answer.parent \in Int
  <2>1. /\ IsFiniteSet(IncludedCodes(rows)) /\ ByCode(rows) \in [IncludedCodes(rows) -> Int]
        /\ Total(ByCode(rows), IncludedCodes(rows)) = Total(RowAmounts(rows), InFormula(rows))
      BY <1>1, CodesAddUp
  <2>2. [x \in IncludedCodes(rows) |-> ByCode(rows)[x]] = ByCode(rows)
      BY <2>1
  <2>3. Total(ByCode(rows), IncludedCodes(rows)) = SumFunction(ByCode(rows))
      BY <2>2 DEF Total
  <2>4. SumFunction(ByCode(rows)) \in Int
      BY <2>1, SumType
  <2> QED BY <1>2, <2>1, <2>3, <2>4
<1>4. answer.residualCodes = {} /\ answer.residual = 0
    BY <1>2, NothingIsResidual
<1>5. answer.parent = SumFunction(shown)
    BY <1>1, <1>2, NodesAddUp
<1>6. answer.parent = SumFunction(shown) + answer.residual
    BY <1>3, <1>4, <1>5
<1>7. ASSUME NEW n \in Range(N), NEW o \in Range(N), n.codes \cap o.codes # {}
      PROVE  n = o
  <2>1. PICK c : c \in n.codes /\ c \in o.codes
      BY <1>7
  <2>2. /\ n = CategoryNode(rows, n.key) /\ n.codes = CodesOfKey(rows, n.key)
        /\ o = CategoryNode(rows, o.key) /\ o.codes = CodesOfKey(rows, o.key)
      BY NodesAreApart
  <2>3. n.key = CategoryOf(c).key /\ o.key = CategoryOf(c).key
      BY <2>1, <2>2 DEF CodesOfKey
  <2> QED BY <2>2, <2>3
<1>8. ASSUME NEW c \in (codes \ answer.excluded) \ UNION {n.codes : n \in Range(N)}
      PROVE  Total([d \in codes |-> AmountOf(rows, d)],
                   {d \in codes : CategoryOf(d) = CategoryOf(c)}) = 0
  <2>1. c \in IncludedCodes(rows)
      BY <1>2 DEF IncludedCodes
  <2>2. \A n \in Range(N) : c \notin n.codes
      OBVIOUS
  <2> QED BY <2>1, <2>2, HiddenNetsToZero
<1>9. /\ {ItemCode(rows[i]) : i \in DOMAIN rows} = codes
      /\ [i \in DOMAIN rows |-> rows[i].amount] = RowAmounts(rows)
    BY DEF PresentCodes, RowAmounts
<1> HIDE DEF codes, N
<1>10. answer.parent = Total([i \in DOMAIN rows |-> rows[i].amount], InFormula(rows))
    BY <1>3, <1>9
<1>11. answer.parent = SumFunction([n \in answer.nodes |-> n.amount]) + answer.residual
    BY <1>2, <1>6
<1>12. \A n, o \in answer.nodes : n.codes \cap o.codes # {} => n = o
    BY <1>2, <1>7
<1>13. \A c \in (codes \ answer.excluded) \ UNION {n.codes : n \in answer.nodes} :
          Total([d \in codes |-> AmountOf(rows, d)],
                {d \in codes : CategoryOf(d) = CategoryOf(c)}) = 0
  <2>1. UNION {n.codes : n \in answer.nodes} = UNION {n.codes : n \in Range(N)}
      BY <1>2
  <2> QED BY <1>8, <2>1
<1> QED BY <1>4, <1>9, <1>10, <1>11, <1>12, <1>13 DEF PartitionConserves, rows

LEMMA TablesAgree == FormulasInv => TaxonomyTablesAgree
<1> SUFFICES ASSUME FormulasInv, Answered("ledger"), ~answer.refused,
                    NEW n \in answer.nodes, NEW c \in n.codes
             PROVE  /\ FlowType(c) = "EXPENDITURE" /\ c[1] \notin IntergovPrefixes
                    /\ Cardinality({k \in DOMAIN Categories :
                          \/ c \in Categories[k].special
                          \/ c[1] \in {"E", "F"} /\ c[2] \in Categories[k].functions}) = 1
    BY DEF TaxonomyTablesAgree
<1> DEFINE rows == question.rows
<1>1. answer.nodes = Range(CategoryNodes(rows))
  <2>1. question.year \in SupportedYears /\ answer = Partition(rows, question.year)
      BY PartitionAnswered
  <2> HIDE DEF rows
  <2> QED BY <2>1, PartitionParts
<1>2. c \in DirectGeneralCodes
    BY <1>1, NodesAreApart DEF CodesOfKey, IncludedCodes
<1> QED BY <1>2, ItemsOfTheFormula DEF CategoryHolds

\* tests/golden/test_2026_bracket_boundaries.py, for every schedule of whole percents and
\* every household: the bands of _ordinary_income_tax join without gap or overlap.
THEOREM EveryDollarAtItsRate == FormulasSpec => []EachDollarAtItsRate
    BY FormulasInvariant, EachDollarIsTaxedOnce, PTL

\* No raise of a dollar lowers the total of calculate, under any rules of
\* RulesAssumption in whole percents: not at the wage base, in the phase-out, or where the surtax begins.
THEOREM RaisesNeverLowerTax == FormulasSpec => []MoreWagesMoreTax
    BY FormulasInvariant, RaisesRaiseTheTotal, PTL

\* The four taxes that the allocation engine splits are the total personal liability,
\* within one cent.
THEOREM LiabilityIsAllocated == FormulasSpec => []AllocatedIsTheLiability
    BY FormulasInvariant, PartsAreTheTotal, PTL

\* The supported total is, to the cent, the nodes of the federal, state and local receipts,
\* and a node is negative only where an audited expense of the state runs against the rest.
THEOREM ReceiptsOfEveryHouseholdAddUp == FormulasSpec => []ReceiptsAddUp
    BY FormulasInvariant, ReceiptAddsUp, PTL

\* Every dollar of the formula is in the parent of build_expenditure_partition and in one
\* of its categories, whatever the rows repeat or cancel.
THEOREM PartitionsAreConserved == FormulasSpec => []PartitionConserves
    BY FormulasInvariant, PartitionIsConserved, PTL

\* Each item of a node is an expenditure of the government itself and has one category.
THEOREM CensusTablesAgree == FormulasSpec => []TaxonomyTablesAgree
    BY FormulasInvariant, TablesAgree, PTL
=============================================================================
