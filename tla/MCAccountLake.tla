--------------------------- MODULE MCAccountLake ----------------------------
(***************************************************************************)
(* A small lake: two submission types and two archives that differ         *)
(* in the number of members of each type.                                  *)
(***************************************************************************)
EXTENDS AccountLake, TLC

CONSTANTS a1, a2, q6, q12, B, C

\* a1 has two members of B, a2 one: materializing a2 after a1 leaves a part over.
MCNParts == (a1 :> (B :> 2 @@ C :> 1)) @@ (a2 :> (B :> 1 @@ C :> 1))

\* One member each: nothing is left over.
MCOneMember == a1 :> (B :> 1) @@ a2 :> (B :> 1)

\* The initializer's requests and counts; an operator gives a2 again without them.
MCGiven == {<<a1, q12, TRUE>>, <<a2, q6, TRUE>>, <<a2, None, FALSE>>}

MCMiscounted == {<<a2, C>>}
MCNoneMiscounted == {}
=============================================================================
