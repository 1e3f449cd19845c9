---------------------------- MODULE NativeIngest ----------------------------
(***************************************************************************)
(* Ingestion of a jurisdiction's own ledger: the file is registered,       *)
(* converted to Parquet if asked for, and its rows are stored as facts if  *)
(* asked for, in batches that are committed on the way.  One release is    *)
(* ingested again and again, with other files and other options, by a      *)
(* command that can fail or die between any two steps.                     *)
(***************************************************************************)
EXTENDS Naturals, Sequences, FiniteSets

CONSTANTS File,       \* editions of the ledger
          Rows,       \* [File -> Seq of {"money", "blank", "bad"}]
          None, Partial,
          BatchSize   \* batch_size

ASSUME LedgerAssumption ==
    /\ Rows \in [File -> Seq({"money", "blank", "bad"})]
    /\ BatchSize \in Nat \ {0}
    /\ None \notin File /\ Partial \notin File

VARIABLES
    release,  \* the committed DatasetRelease row, with the options it was READY under
    parquet,  \* the file at source.parquet and the content hash of its object
    facts,    \* committed DetailedSpendFact rows: <<file, row number>>
    session,  \* the transaction: whether it deleted the facts, and the rows it adds
    run       \* local variables of the command

vars == <<release, parquet, facts, session, run>>

Empty == [deleted |-> FALSE, added |-> {}]
Idle == [pc |-> "idle", file |-> None, rows |-> FALSE, parquet |-> FALSE, next |-> 1, made |-> 0]

Init ==
    /\ release = [status |-> "ABSENT", file |-> None, rows |-> FALSE, parquet |-> FALSE, count |-> 0]
    /\ parquet = [file |-> None, object |-> None]
    /\ facts = {}
    /\ session = Empty
    /\ run = Idle

\* The facts as the transaction in hand sees them.
Seen == (IF session.deleted THEN {} ELSE facts) \cup session.added

Commit == facts' = Seen /\ session' = Empty

Start(f, rows, pq) ==
    /\ run.pc = "idle"
    /\ run' = [Idle EXCEPT !.pc = "raw", !.file = f, !.rows = rows, !.parquet = pq]
    /\ UNCHANGED <<release, parquet, facts, session>>

\* The commit inside register_file is the one that takes the release out of READY.
RegisterRaw ==
    /\ run.pc = "raw"
    /\ release' = [release EXCEPT !.status = "INGESTING"]
    /\ run' = [run EXCEPT !.pc = IF run.parquet THEN "convert" ELSE "delete"]
    /\ UNCHANGED <<parquet, facts, session>>

Convert ==
    /\ run.pc = "convert"
    /\ parquet' = [parquet EXCEPT !.file = run.file]
    /\ run' = [run EXCEPT !.pc = "register"]
    /\ UNCHANGED <<release, facts, session>>

DieInCopy ==
    /\ run.pc = "convert"
    /\ parquet' = [parquet EXCEPT !.file = IF @ = None THEN Partial ELSE @]
    /\ run' = Idle
    /\ UNCHANGED <<release, facts, session>>

RegisterParquet ==
    /\ run.pc = "register"
    /\ parquet' = [parquet EXCEPT !.object = parquet.file]
    /\ run' = [run EXCEPT !.pc = "delete"]
    /\ UNCHANGED <<release, facts, session>>

\* Faulty variant of DeleteRows: the earlier rows stay.
DeleteNothing ==
    /\ run.pc = "delete"
    /\ run' = [run EXCEPT !.pc = IF run.rows THEN "row" ELSE "ready"]
    /\ UNCHANGED <<release, parquet, facts, session>>

\* The earlier rows are deleted in the transaction of the first batch.
DeleteRows ==
    /\ run.pc = "delete"
    /\ session' = [session EXCEPT !.deleted = run.rows]
    /\ run' = [run EXCEPT !.pc = IF run.rows THEN "row" ELSE "ready"]
    /\ UNCHANGED <<release, parquet, facts>>

RowInHand == Rows[run.file][run.next]

SkipBlank ==
    /\ run.pc = "row" /\ run.next <= Len(Rows[run.file])
    /\ RowInHand = "blank"
    /\ run' = [run EXCEPT !.next = @ + 1]
    /\ UNCHANGED <<release, parquet, facts, session>>

AddRow ==
    /\ run.pc = "row" /\ run.next <= Len(Rows[run.file])
    /\ RowInHand = "money"
    /\ session' = [session EXCEPT !.added = @ \cup {<<run.file, run.next>>}]
    /\ run' = [run EXCEPT !.next = @ + 1, !.made = @ + 1,
                          !.pc = IF (run.made + 1) % BatchSize = 0 THEN "commit" ELSE "row"]
    /\ UNCHANGED <<release, parquet, facts>>

CommitBatch ==
    /\ run.pc = "commit"
    /\ Commit
    /\ run' = [run EXCEPT !.pc = "row"]
    /\ UNCHANGED <<release, parquet>>

\* Faulty variant of CommitRest: only whole batches are committed.
CommitNoRest ==
    /\ run.pc = "row" /\ run.next > Len(Rows[run.file])
    /\ session' = Empty
    /\ run' = [run EXCEPT !.pc = "ready"]
    /\ UNCHANGED <<release, parquet, facts>>

CommitRest ==
    /\ run.pc = "row" /\ run.next > Len(Rows[run.file])
    /\ Commit
    /\ run' = [run EXCEPT !.pc = "ready"]
    /\ UNCHANGED <<release, parquet>>

ParquetRows == IF run.parquet THEN Len(Rows[run.file]) ELSE 0

MarkReady ==
    /\ run.pc = "ready"
    /\ release' = [status |-> "READY", file |-> run.file, rows |-> run.rows, parquet |-> run.parquet,
                   count |-> IF ParquetRows # 0 THEN ParquetRows ELSE run.made]
    /\ run' = Idle
    /\ UNCHANGED <<parquet, facts, session>>

\* An amount or a year that cannot be parsed, or a native key that repeats: the open
\* batch is rolled back, the committed ones stay.
RaiseOnRow ==
    /\ run.pc = "row" /\ run.next <= Len(Rows[run.file])
    /\ RowInHand = "bad"
    /\ session' = Empty /\ run' = Idle
    /\ UNCHANGED <<release, parquet, facts>>

\* Any other exception, or the death of the process.
Stop ==
    /\ run.pc # "idle"
    /\ session' = Empty /\ run' = Idle
    /\ UNCHANGED <<release, parquet, facts>>

Next ==
    \/ \E f \in File, rows \in BOOLEAN, pq \in BOOLEAN : Start(f, rows, pq)
    \/ RegisterRaw \/ Convert \/ DieInCopy \/ RegisterParquet
    \/ DeleteRows \/ SkipBlank \/ AddRow \/ CommitBatch \/ CommitRest \/ RaiseOnRow
    \/ MarkReady
    \/ Stop

Spec == Init /\ [][Next]_vars

-----------------------------------------------------------------------------
MoneyRows(f) == {<<f, i>> : i \in {j \in DOMAIN Rows[f] : Rows[f][j] = "money"}}

\* A ledger that is READY with materialized rows holds every row of its file that has
\* an amount and no other, its Parquet file is of the same edition, and its row count
\* is not below them, whatever batches earlier ingestions had left behind.
ReadyLedgerIsWhole ==
    release.status = "READY" =>
        /\ release.rows => /\ facts = MoneyRows(release.file)
                           /\ release.count >= Cardinality(facts)
        /\ release.parquet => parquet = [file |-> release.file, object |-> release.file]

\* The facts are rows of one edition of the ledger, and its first ones: a batch is
\* committed with the deletion of the earlier rows or after it, so that an ingestion
\* that ends anywhere never leaves two editions added up.
LedgerOfOneEdition ==
    /\ \A x, y \in facts : x[1] = y[1]
    /\ \A x \in facts : \A i \in 1 .. x[2] :
          Rows[x[1]][i] = "money" => <<x[1], i>> \in facts
=============================================================================
