------------------------ MODULE MCProductActivation -------------------------
(***************************************************************************)
(* A full edition and a smaller one, one revision, one lost volume; the    *)
(* budget file may have a second part in one archive and not in the next.  *)
(***************************************************************************)
EXTENDS ProductActivation
CONSTANTS full, small

PartsOfTypes == [t \in Account |-> IF t = "B" THEN 2 ELSE 1]
=============================================================================
