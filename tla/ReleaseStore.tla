---------------------------- MODULE ReleaseStore ----------------------------
(***************************************************************************)
(* What the warehouse promises about a dataset release, whatever the steps *)
(* by which an archive is converted: the detail a release makes visible is *)
(* either nothing or every part of one archive.  It is withdrawn as a      *)
(* whole and published as a whole; one archive never fades into another.   *)
(***************************************************************************)
EXTENDS Naturals

CONSTANTS Type,     \* the submission files of USAspending: A, B, C
          Archive,  \* the archives that can be materialized
          NParts    \* [Archive -> [Type -> Nat]]: members of a type in an archive

VARIABLE visible    \* [Type -> set of <<archive, part>>]

Whole(a, t) == {a} \X (1 .. NParts[a][t])

Init == visible = [t \in Type |-> {}]

Withdraw(types) ==
    visible' = [t \in Type |-> IF t \in types THEN {} ELSE visible[t]]

Publish(t, a) ==
    /\ visible[t] = {}
    /\ NParts[a][t] > 0
    /\ visible' = [visible EXCEPT ![t] = Whole(a, t)]

Next ==
    \/ \E types \in SUBSET Type : Withdraw(types)
    \/ \E t \in Type, a \in Archive : Publish(t, a)

Spec == Init /\ [][Next]_visible
=============================================================================
