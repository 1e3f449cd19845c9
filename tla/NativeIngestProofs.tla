------------------------- MODULE NativeIngestProofs -------------------------
(***************************************************************************)
(* A ledger that is READY with materialized rows is whole, and its facts   *)
(* are never rows of two editions, for all editions, rows and batch sizes. *)
(* LedgerInv is inductive: what makes it so is RunProgress, that the       *)
(* transaction in hand sees exactly the rows read so far, whichever of     *)
(* them the batches have committed already.                                *)
(***************************************************************************)
EXTENDS NativeIngest, FiniteSetTheorems, TLAPS

Fact == File \X Nat
Pc == {"idle", "raw", "convert", "register", "delete", "row", "commit", "ready"}

ReleaseType == [status : {"ABSENT", "INGESTING", "READY"}, file : File \cup {None},
                rows : BOOLEAN, parquet : BOOLEAN, count : Nat]
ParquetType == [file : File \cup {None, Partial}, object : File \cup {None, Partial}]
SessionType == [deleted : BOOLEAN, added : SUBSET Fact]
RunType == [pc : Pc, file : File \cup {None}, rows : BOOLEAN, parquet : BOOLEAN,
            next : Nat \ {0}, made : Nat]

TypeOK ==
    /\ release \in ReleaseType
    /\ parquet \in ParquetType
    /\ facts \in SUBSET Fact
    /\ session \in SessionType
    /\ run \in RunType

\* The rows with an amount among the first ones of a file, before row n.
FirstRows(f, n) == {<<f, i>> : i \in {j \in DOMAIN Rows[f] : Rows[f][j] = "money" /\ j < n}}

\* Before the rows and after them no transaction is open; in between it sees the rows
\* read so far, and nothing of an earlier ingestion.
SessionProgress ==
    /\ run.pc \notin {"row", "commit"} => session = Empty
    /\ run.pc \in {"row", "commit"} =>
          /\ run.rows
          /\ Seen = FirstRows(run.file, run.next)
          /\ Cardinality(Seen) <= run.made
    /\ run.pc = "ready" /\ run.rows =>
          /\ facts = MoneyRows(run.file)
          /\ Cardinality(facts) <= run.made

\* The release left READY before anything else was written.
RunProgress ==
    /\ run.pc # "idle" => run.file \in File
    /\ run.pc \notin {"idle", "raw"} => release.status = "INGESTING"
    /\ run.pc \in {"raw", "convert", "register", "delete"} => run.next = 1 /\ run.made = 0
    /\ run.pc = "register" => parquet.file = run.file
    /\ run.pc \in {"delete", "row", "commit", "ready"} /\ run.parquet =>
          parquet = [file |-> run.file, object |-> run.file]

\* The committed facts are the first rows of one file.
FactsAreFirstRows == facts = {} \/ \E f \in File, n \in Nat : facts = FirstRows(f, n)

LedgerInv ==
    TypeOK /\ RunProgress /\ SessionProgress /\ FactsAreFirstRows /\ ReadyLedgerIsWhole

-----------------------------------------------------------------------------
\* The rows of a file are numbered, and each is one of three kinds.
LEMMA RowsOfAFile ==
    ASSUME NEW f \in File
    PROVE  /\ Len(Rows[f]) \in Nat
           /\ DOMAIN Rows[f] = 1 .. Len(Rows[f])
           /\ MoneyRows(f) \subseteq Fact
           /\ \A n \in Nat : FirstRows(f, n) \subseteq Fact
<1>1. Rows[f] \in Seq({"money", "blank", "bad"})
    BY LedgerAssumption
<1>2. Len(Rows[f]) \in Nat /\ DOMAIN Rows[f] = 1 .. Len(Rows[f])
    BY <1>1
<1> QED BY <1>2 DEF MoneyRows, FirstRows, Fact

\* Reading on past a row with an amount adds that row.
LEMMA ReadAmount ==
    ASSUME NEW f \in File, NEW n \in DOMAIN Rows[f], Rows[f][n] = "money"
    PROVE  FirstRows(f, n + 1) = FirstRows(f, n) \cup {<<f, n>>}
<1>1. \A j \in DOMAIN Rows[f] : j < n + 1 <=> j < n \/ j = n
    BY RowsOfAFile
<1> QED BY <1>1 DEF FirstRows

\* Reading on past any other row adds nothing.
LEMMA ReadOther ==
    ASSUME NEW f \in File, NEW n \in DOMAIN Rows[f], Rows[f][n] # "money"
    PROVE  FirstRows(f, n + 1) = FirstRows(f, n)
<1>1. \A j \in DOMAIN Rows[f] : j < n + 1 <=> j < n \/ j = n
    BY RowsOfAFile
<1> QED BY <1>1 DEF FirstRows

\* Before the first row nothing has been read, after the last one everything.
LEMMA ReadNothingAndAll ==
    ASSUME NEW f \in File
    PROVE  /\ FirstRows(f, 1) = {}
           /\ \A n \in Nat : n > Len(Rows[f]) => FirstRows(f, n) = MoneyRows(f)
<1>1. \A j \in DOMAIN Rows[f] : ~(j < 1)
    BY RowsOfAFile
<1>2. \A n \in Nat : n > Len(Rows[f]) => \A j \in DOMAIN Rows[f] : j < n
    BY RowsOfAFile
<1> QED BY <1>1, <1>2 DEF FirstRows, MoneyRows

\* There are at most as many rows read as the row in hand has before it.
LEMMA FirstRowsAreCounted ==
    ASSUME NEW f \in File, NEW n \in Nat \ {0}
    PROVE  /\ IsFiniteSet(FirstRows(f, n))
           /\ Cardinality(FirstRows(f, n)) \in Nat
           /\ Cardinality(FirstRows(f, n)) <= Len(Rows[f])
<1> DEFINE Numbers == {j \in DOMAIN Rows[f] : Rows[f][j] = "money" /\ j < n}
           pair == [j \in Numbers |-> <<f, j>>]
<1>1. Len(Rows[f]) \in Nat /\ DOMAIN Rows[f] = 1 .. Len(Rows[f])
    BY RowsOfAFile
<1>2. IsFiniteSet(1 .. Len(Rows[f])) /\ Cardinality(1 .. Len(Rows[f])) = Len(Rows[f])
    <2>1. 1 \in Int /\ Len(Rows[f]) \in Int
        BY <1>1
    <2>2. /\ IsFiniteSet(1 .. Len(Rows[f]))
          /\ Cardinality(1 .. Len(Rows[f])) =
                IF 1 > Len(Rows[f]) THEN 0 ELSE Len(Rows[f]) - 1 + 1
        BY <2>1, FS_Interval
    <2> QED BY <1>1, <2>2
<1>3. IsFiniteSet(Numbers) /\ Cardinality(Numbers) <= Len(Rows[f])
    <2>1. Numbers \in SUBSET (1 .. Len(Rows[f]))
        BY <1>1
    <2> QED BY <2>1, <1>2, FS_Subset
<1>4. pair \in Surjection(Numbers, FirstRows(f, n))
    <2>1. pair \in [Numbers -> FirstRows(f, n)]
        BY DEF FirstRows
    <2>2. \A x \in FirstRows(f, n) : \E j \in Numbers : pair[j] = x
        BY DEF FirstRows
    <2> QED BY <2>1, <2>2 DEF Surjection
<1> HIDE DEF pair
<1>5. IsFiniteSet(FirstRows(f, n)) /\ Cardinality(FirstRows(f, n)) <= Cardinality(Numbers)
    BY <1>3, <1>4, FS_Surjection
<1>6. Cardinality(FirstRows(f, n)) \in Nat /\ Cardinality(Numbers) \in Nat
    BY <1>3, <1>5, FS_CardinalityType
<1> QED BY <1>1, <1>3, <1>5, <1>6

-----------------------------------------------------------------------------
\* The initial state satisfies the invariant.
LEMMA InitLedgerInv == Init => LedgerInv
<1> SUFFICES ASSUME Init PROVE LedgerInv
    OBVIOUS
<1>1. TypeOK
    BY DEF Init, TypeOK, ReleaseType, ParquetType, SessionType, RunType, Fact, Pc, Idle, Empty
<1>2. RunProgress /\ SessionProgress
    BY DEF Init, RunProgress, SessionProgress, Idle
<1> QED BY <1>1, <1>2 DEF Init, LedgerInv, FactsAreFirstRows, ReadyLedgerIsWhole

-----------------------------------------------------------------------------
\* The type invariant is kept: only AddRow and the commits touch sets of facts.
LEMMA TypeStep == TypeOK /\ RunProgress /\ [Next]_vars => TypeOK'
<1> SUFFICES ASSUME TypeOK, RunProgress, [Next]_vars PROVE TypeOK'
    OBVIOUS
<1> USE DEF TypeOK, ReleaseType, ParquetType, SessionType, RunType, Pc, Idle, Empty
<1>1. ASSUME NEW f \in File, NEW rows \in BOOLEAN, NEW pq \in BOOLEAN, Start(f, rows, pq)
      PROVE TypeOK'
    <2>1. run' = [pc |-> "raw", file |-> f, rows |-> rows, parquet |-> pq, next |-> 1, made |-> 0]
        BY <1>1 DEF Start
    <2>2. run' \in RunType
        BY <2>1
    <2> QED BY <2>2, <1>1 DEF Start
<1>2. CASE RegisterRaw
    BY <1>2 DEF RegisterRaw
<1>3. CASE Convert
    BY <1>3 DEF Convert, RunProgress
<1>4. CASE DieInCopy
    BY <1>4 DEF DieInCopy
<1>5. CASE RegisterParquet
    BY <1>5 DEF RegisterParquet
<1>6. CASE DeleteRows
    BY <1>6 DEF DeleteRows
<1>7. CASE SkipBlank
    BY <1>7 DEF SkipBlank
<1>8. CASE AddRow
    <2>1. <<run.file, run.next>> \in Fact
        BY <1>8 DEF AddRow, RunProgress, Fact
    <2>2. session' \in SessionType
        BY <2>1, <1>8 DEF AddRow
    <2>3. run' \in RunType
        <3> DEFINE pc == IF (run.made + 1) % BatchSize = 0 THEN "commit" ELSE "row"
        <3>1. run' = [run EXCEPT !.next = run.next + 1, !.made = run.made + 1, !.pc = pc]
            BY <1>8 DEF AddRow
        <3>2. pc \in Pc
            OBVIOUS
        <3>3. run.next + 1 \in Nat \ {0} /\ run.made + 1 \in Nat
            OBVIOUS
        <3> HIDE DEF pc
        <3> QED BY <3>1, <3>2, <3>3
    <2> QED BY <2>2, <2>3, <1>8 DEF AddRow
<1>9. CASE CommitBatch
    BY <1>9 DEF CommitBatch, Commit, Seen
<1>10. CASE CommitRest
    BY <1>10 DEF CommitRest, Commit, Seen
<1>11. CASE RaiseOnRow
    BY <1>11 DEF RaiseOnRow
<1>12. CASE MarkReady
    <2>1. run.file \in File /\ Len(Rows[run.file]) \in Nat
        BY <1>12, RowsOfAFile DEF MarkReady, RunProgress
    <2>2. ParquetRows \in Nat
        BY <2>1 DEF ParquetRows
    <2>3. release' \in ReleaseType
        BY <2>1, <2>2, <1>12 DEF MarkReady
    <2> QED BY <2>3, <1>12 DEF MarkReady
<1>13. CASE Stop
    BY <1>13 DEF Stop
<1>14. CASE UNCHANGED vars
    BY <1>14 DEF vars
<1> QED
    BY <1>1, <1>2, <1>3, <1>4, <1>5, <1>6, <1>7, <1>8, <1>9, <1>10, <1>11, <1>12, <1>13, <1>14
    DEF Next

\* The release stays out of READY, and the Parquet file is the run's own.
LEMMA RunStep == TypeOK /\ RunProgress /\ [Next]_vars => RunProgress'
<1> SUFFICES ASSUME TypeOK, RunProgress, [Next]_vars PROVE RunProgress'
    OBVIOUS
<1> USE DEF RunProgress, TypeOK, ReleaseType, ParquetType, RunType, Pc, Idle
<1>1. ASSUME NEW f \in File, NEW rows \in BOOLEAN, NEW pq \in BOOLEAN, Start(f, rows, pq)
      PROVE RunProgress'
    <2>1. run' = [pc |-> "raw", file |-> f, rows |-> rows, parquet |-> pq, next |-> 1, made |-> 0]
        BY <1>1 DEF Start
    <2> QED BY <2>1
<1>2. CASE RegisterRaw
    BY <1>2 DEF RegisterRaw
<1>3. CASE Convert
    BY <1>3 DEF Convert
<1>4. CASE DieInCopy \/ RaiseOnRow \/ Stop
    BY <1>4 DEF DieInCopy, RaiseOnRow, Stop
<1>5. CASE RegisterParquet
    BY <1>5 DEF RegisterParquet
<1>6. CASE DeleteRows
    BY <1>6 DEF DeleteRows
<1>7. CASE SkipBlank
    BY <1>7 DEF SkipBlank
<1>8. CASE AddRow
    BY <1>8 DEF AddRow
<1>9. CASE CommitBatch \/ CommitRest
    BY <1>9 DEF CommitBatch, CommitRest
<1>10. CASE MarkReady
    BY <1>10 DEF MarkReady
<1>11. CASE UNCHANGED vars
    BY <1>11 DEF vars
<1> QED BY <1>1, <1>2, <1>3, <1>4, <1>5, <1>6, <1>7, <1>8, <1>9, <1>10, <1>11 DEF Next

-----------------------------------------------------------------------------
\* The transaction sees the rows read so far.
LEMMA SessionStep ==
    TypeOK /\ RunProgress /\ SessionProgress /\ [Next]_vars => SessionProgress'
<1> SUFFICES ASSUME TypeOK, RunProgress, SessionProgress, [Next]_vars
             PROVE  SessionProgress'
    OBVIOUS
<1> DEFINE n == run.next
           f == run.file
<1>1. CASE \E g \in File, rows \in BOOLEAN, pq \in BOOLEAN : Start(g, rows, pq)
    BY <1>1 DEF Start, Idle, SessionProgress
<1>2. CASE RegisterRaw \/ Convert \/ RegisterParquet
    BY <1>2 DEF RegisterRaw, Convert, RegisterParquet, SessionProgress, TypeOK, RunType
<1>3. CASE DieInCopy \/ RaiseOnRow \/ Stop
    BY <1>3 DEF DieInCopy, RaiseOnRow, Stop, Idle, SessionProgress
<1>4. CASE DeleteRows
    <2>1. f \in File /\ n = 1 /\ run.made = 0 /\ session = Empty
        BY <1>4 DEF DeleteRows, RunProgress, SessionProgress
    <2>2. CASE run.rows
        <3>1. run' = [run EXCEPT !.pc = "row"] /\ session' = [session EXCEPT !.deleted = TRUE]
            BY <1>4, <2>2 DEF DeleteRows
        <3>2. Seen' = {}
            BY <2>1, <3>1 DEF Seen, Empty
        <3>3. Seen' = FirstRows(f, 1) /\ Cardinality(Seen') <= 0
            BY <3>2, <2>1, ReadNothingAndAll, FS_EmptySet
        <3> QED BY <3>1, <3>3, <2>1, <2>2 DEF SessionProgress, TypeOK, RunType
    <2>3. CASE ~run.rows
        <3>1. run' = [run EXCEPT !.pc = "ready"] /\ session' = [session EXCEPT !.deleted = run.rows]
            BY <1>4, <2>3 DEF DeleteRows
        <3>2. session' = Empty
            BY <2>1, <2>3, <3>1 DEF Empty, TypeOK, RunType
        <3> QED BY <3>1, <3>2, <2>3 DEF SessionProgress, TypeOK, RunType
    <2> QED BY <2>2, <2>3
<1>5. CASE SkipBlank
    <2>1. f \in File /\ n \in DOMAIN Rows[f] /\ Rows[f][n] # "money"
        BY <1>5, RowsOfAFile DEF SkipBlank, RowInHand, RunProgress, TypeOK, RunType
    <2>2. FirstRows(f, n + 1) = FirstRows(f, n)
        BY <2>1, ReadOther
    <2>3. run' = [run EXCEPT !.next = n + 1] /\ UNCHANGED <<facts, session>> /\ run.pc = "row"
        BY <1>5 DEF SkipBlank
    <2>4. Seen' = Seen
        BY <2>3 DEF Seen
    <2> QED BY <2>2, <2>3, <2>4 DEF SessionProgress, TypeOK, RunType
<1>6. CASE AddRow
    <2>1. f \in File /\ n \in DOMAIN Rows[f] /\ Rows[f][n] = "money" /\ n \in Nat \ {0}
        BY <1>6, RowsOfAFile DEF AddRow, RowInHand, RunProgress, TypeOK, RunType
    <2>2. Seen = FirstRows(f, n) /\ Cardinality(Seen) <= run.made /\ run.rows
        BY <1>6 DEF AddRow, SessionProgress
    <2>3. Seen' = Seen \cup {<<f, n>>}
        BY <1>6 DEF AddRow, Seen, TypeOK, SessionType
    <2>4. Seen' = FirstRows(f, n + 1)
        BY <2>1, <2>2, <2>3, ReadAmount
    <2>5. Cardinality(Seen') <= run.made + 1
        <3>1. IsFiniteSet(Seen) /\ Cardinality(Seen) \in Nat
            BY <2>1, <2>2, FirstRowsAreCounted
        <3>2. Cardinality(Seen \cup {<<f, n>>}) =
                 IF <<f, n>> \in Seen THEN Cardinality(Seen) ELSE Cardinality(Seen) + 1
            BY <3>1, FS_AddElement
        <3>3. run.made \in Nat
            BY DEF TypeOK, RunType
        <3> QED BY <3>1, <3>2, <3>3, <2>2, <2>3
    <2>6. /\ run'.pc \in {"row", "commit"} /\ run'.rows /\ run'.file = f
          /\ run'.next = n + 1 /\ run'.made = run.made + 1
        BY <1>6, <2>2 DEF AddRow, TypeOK, RunType
    <2> QED BY <2>4, <2>5, <2>6 DEF SessionProgress
<1>7. CASE CommitBatch
    <2>1. Seen' = Seen
        BY <1>7 DEF CommitBatch, Commit, Seen, Empty
    <2>2. run' = [run EXCEPT !.pc = "row"] /\ run.pc = "commit"
        BY <1>7 DEF CommitBatch
    <2> QED BY <2>1, <2>2 DEF SessionProgress, TypeOK, RunType
<1>8. CASE CommitRest
    <2>1. f \in File /\ n \in Nat /\ n > Len(Rows[f])
        BY <1>8 DEF CommitRest, RunProgress, TypeOK, RunType
    <2>2. Seen = MoneyRows(f) /\ Cardinality(Seen) <= run.made
        BY <2>1, <1>8, ReadNothingAndAll DEF CommitRest, SessionProgress
    <2>3. facts' = Seen /\ session' = Empty /\ run' = [run EXCEPT !.pc = "ready"]
        BY <1>8 DEF CommitRest, Commit
    <2> QED BY <2>2, <2>3 DEF SessionProgress, TypeOK, RunType
<1>9. CASE MarkReady
    BY <1>9 DEF MarkReady, Idle, SessionProgress
<1>10. CASE UNCHANGED vars
    BY <1>10 DEF vars, SessionProgress, Seen
<1> QED BY <1>1, <1>2, <1>3, <1>4, <1>5, <1>6, <1>7, <1>8, <1>9, <1>10 DEF Next

\* Only a commit changes the facts, and it commits the first rows of the run's file.
LEMMA FactsStep == LedgerInv /\ [Next]_vars => FactsAreFirstRows'
<1> SUFFICES ASSUME LedgerInv, [Next]_vars PROVE FactsAreFirstRows'
    OBVIOUS
<1>1. CASE CommitBatch \/ CommitRest
    <2>1. run.file \in File /\ run.next \in Nat
        BY <1>1 DEF CommitBatch, CommitRest, LedgerInv, RunProgress, TypeOK, RunType
    <2>2. facts' = FirstRows(run.file, run.next)
        BY <1>1 DEF CommitBatch, CommitRest, Commit, LedgerInv, SessionProgress
    <2> QED BY <2>1, <2>2 DEF FactsAreFirstRows
<1>2. CASE facts' = facts
    BY <1>2 DEF LedgerInv, FactsAreFirstRows
<1> QED
    BY <1>1, <1>2 DEF Next, vars, Start, RegisterRaw, Convert, DieInCopy, RegisterParquet,
       DeleteRows, SkipBlank, AddRow, RaiseOnRow, MarkReady, Stop

\* A release becomes READY with what the run has committed, and what it says is kept
\* until the commit that withdraws it.
LEMMA ReadyStep == LedgerInv /\ [Next]_vars => ReadyLedgerIsWhole'
<1> SUFFICES ASSUME LedgerInv, [Next]_vars PROVE ReadyLedgerIsWhole'
    OBVIOUS
<1>1. CASE MarkReady
    <2>1. run.file \in File /\ run.made \in Nat /\ Len(Rows[run.file]) \in Nat
        BY <1>1, RowsOfAFile DEF MarkReady, LedgerInv, RunProgress, TypeOK, RunType
    <2>2. /\ release'.file = run.file /\ release'.rows = run.rows /\ release'.parquet = run.parquet
          /\ release'.count = IF ParquetRows # 0 THEN ParquetRows ELSE run.made
          /\ facts' = facts /\ parquet' = parquet
        BY <1>1 DEF MarkReady
    <2>3. release'.rows => facts = MoneyRows(run.file) /\ Cardinality(facts) <= run.made
        BY <1>1, <2>2 DEF MarkReady, LedgerInv, SessionProgress
    <2>4. release'.rows => Cardinality(facts) <= release'.count
        <3>1. FirstRows(run.file, Len(Rows[run.file]) + 1) = MoneyRows(run.file)
            BY <2>1, ReadNothingAndAll
        <3>2. Cardinality(MoneyRows(run.file)) \in Nat
              /\ Cardinality(MoneyRows(run.file)) <= Len(Rows[run.file])
            BY <2>1, <3>1, FirstRowsAreCounted
        <3> QED BY <2>1, <2>2, <2>3, <3>2 DEF ParquetRows
    <2>5. release'.parquet => parquet = [file |-> run.file, object |-> run.file]
        BY <1>1, <2>2 DEF MarkReady, LedgerInv, RunProgress
    <2>6. release'.rows => release'.count >= Cardinality(facts')
        <3>1. release'.rows => Cardinality(facts) \in Nat
            <4>1. FirstRows(run.file, Len(Rows[run.file]) + 1) = MoneyRows(run.file)
                BY <2>1, ReadNothingAndAll
            <4> QED BY <2>1, <2>3, <4>1, FirstRowsAreCounted
        <3>2. release'.count \in Nat
            BY <2>1, <2>2 DEF ParquetRows
        <3> QED BY <2>2, <2>4, <3>1, <3>2
    <2> QED BY <2>2, <2>3, <2>5, <2>6 DEF ReadyLedgerIsWhole
<1>2. CASE release'.status # "READY"
    BY <1>2 DEF ReadyLedgerIsWhole
<1>3. CASE UNCHANGED <<release, parquet, facts>>
    BY <1>3 DEF LedgerInv, ReadyLedgerIsWhole, MoneyRows
<1>4. CASE Convert \/ DieInCopy \/ RegisterParquet \/ CommitBatch \/ CommitRest
    BY <1>2, <1>4 DEF Convert, DieInCopy, RegisterParquet, CommitBatch, CommitRest,
       LedgerInv, RunProgress
<1>5. CASE RegisterRaw
    BY <1>2, <1>5 DEF RegisterRaw, LedgerInv, TypeOK, ReleaseType
<1> QED
    BY <1>1, <1>3, <1>4, <1>5 DEF Next, vars, Start, DeleteRows, SkipBlank, AddRow,
       RaiseOnRow, Stop

-----------------------------------------------------------------------------
\* The invariant is inductive.
LEMMA LedgerInvStep == LedgerInv /\ [Next]_vars => LedgerInv'
<1> SUFFICES ASSUME LedgerInv, [Next]_vars PROVE LedgerInv'
    OBVIOUS
<1>1. TypeOK' /\ RunProgress' /\ SessionProgress'
    BY TypeStep, RunStep, SessionStep DEF LedgerInv
<1> QED BY <1>1, FactsStep, ReadyStep DEF LedgerInv

\* Every reachable state satisfies the invariant.
THEOREM LedgerInvHolds == Spec => []LedgerInv
<1>1. Init => LedgerInv
    BY InitLedgerInv
<1>2. LedgerInv /\ [Next]_vars => LedgerInv'
    BY LedgerInvStep
<1> QED BY <1>1, <1>2, PTL DEF Spec

\* A ledger that is READY with materialized rows is whole, for any editions and batch
\* size, wherever earlier ingestions ended (ingest_native_csv).  A ledger made READY
\* without materializing keeps what facts it had, and nothing is claimed of those.
THEOREM ReadyLedgersAreWhole == Spec => []ReadyLedgerIsWhole
<1>1. LedgerInv => ReadyLedgerIsWhole
    BY DEF LedgerInv
<1> QED BY <1>1, LedgerInvHolds, PTL

\* The first rows of one file are what LedgerOfOneEdition asks for.
LEMMA FirstRowsAreOneEdition == TypeOK /\ FactsAreFirstRows => LedgerOfOneEdition
<1> SUFFICES ASSUME TypeOK, NEW f \in File, NEW n \in Nat, facts = FirstRows(f, n)
             PROVE  LedgerOfOneEdition
    BY DEF FactsAreFirstRows, LedgerOfOneEdition
<1>1. \A x \in facts : x[1] = f /\ x[2] \in DOMAIN Rows[f] /\ x[2] < n
    BY DEF FirstRows
<1>2. DOMAIN Rows[f] = 1 .. Len(Rows[f]) /\ Len(Rows[f]) \in Nat
    BY RowsOfAFile
<1>3. ASSUME NEW x \in facts, NEW i \in 1 .. x[2], Rows[f][i] = "money"
      PROVE  <<f, i>> \in facts
    <2>1. x[2] \in DOMAIN Rows[f] /\ x[2] < n
        BY <1>1
    <2>2. i \in DOMAIN Rows[f] /\ i < n
        BY <1>2, <2>1
    <2> QED BY <1>3, <2>2 DEF FirstRows
<1> QED BY <1>1, <1>3 DEF LedgerOfOneEdition

\* The facts of a release are the first rows of one edition at all times: no end of an
\* ingestion leaves two editions added up (ingest_native_csv).
THEOREM LedgersAreOfOneEdition == Spec => []LedgerOfOneEdition
<1>1. LedgerInv => LedgerOfOneEdition
    BY FirstRowsAreOneEdition DEF LedgerInv
<1> QED BY <1>1, LedgerInvHolds, PTL
=============================================================================
