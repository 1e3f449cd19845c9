------------------------ MODULE MCAccountActivation -------------------------
(***************************************************************************)
(* Three agencies on pages of one.  The first has no identifier in the     *)
(* reference, and shares its abbreviation with the third; the shard of the *)
(* second may hold File B rows too.                                        *)
(***************************************************************************)
EXTENDS AccountActivation

MCKnown == {2, 3}
MCAbbreviation == <<"X", "Y", "X">>
MCStrays == {<<Shard(2), "B">>}
=============================================================================
