--------------------------- MODULE MCNativeIngest ---------------------------
(***************************************************************************)
(* Three editions of a ledger: one that ends inside a batch, one that ends *)
(* with one, and one with a row that cannot be parsed.                     *)
(***************************************************************************)
EXTENDS NativeIngest, TLC

CONSTANTS f1, f2, f3

MCRows == (f1 :> <<"money", "blank", "money", "money">>) @@ (f2 :> <<"money", "money">>)
          @@ (f3 :> <<"money", "money", "money", "bad">>)
=============================================================================
