------------------------- MODULE CensusIngestProofs -------------------------
(***************************************************************************)
(* A Census release that is READY holds one whole archive, and its readers *)
(* never add up two, for all archives, batch sizes and numbers of readers, *)
(* and an end of the loader between any two commits.  CensusInv is         *)
(* inductive: what makes it so is LoaderProgress, that the records a       *)
(* loader has committed are exactly those it has read.  The steps are      *)
(* sorted by what they touch: the registry, the readers, the releases.     *)
(***************************************************************************)
EXTENDS CensusIngest, FiniteSetTheorems, WellFoundedInduction, TLAPS

LoaderType == [pc : {"idle", "units", "rawUnits", "records", "refused", "raw"},
               dataset : Dataset \cup {None}, edition : Edition \cup {None}, pos : Nat]

ReaderType == [pc : {"idle", "rows"}, dataset : Dataset \cup {None},
               gov : Gov \cup {None}, rows : SUBSET Fact]

ReleaseType == [status : Status, rows : Nat, raw : Edition \cup {None}]

StoreType == /\ release \in [Dataset -> ReleaseType]
             /\ facts \in [Dataset -> SUBSET Fact]
             /\ coverage \in [Dataset -> [Gov -> Nat]]

CrosswalkType == /\ registry \in [status : Status, raw : BOOLEAN]
                 /\ created \in [Gov -> Nat]
                 /\ home \in [Gov -> {"none", "own", "created"}]
                 /\ name \in [Gov -> {"none", "placeholder", "official"}]

LoaderOK == /\ loader \in LoaderType
            /\ loader.pc = "units" => loader.pos <= Len(Units)
            /\ loader.pc = "records" =>
                  loader.pos < NRecords[loader.dataset][loader.edition] + BatchSize

ReaderOK == /\ reader \in [Reader -> ReaderType]
            /\ \A r \in Reader : reader[r].pc = "rows" => reader[r].dataset \in Dataset

\* The type invariant by parts.
LEMMA TypeParts == TypeOK <=> StoreType /\ CrosswalkType /\ LoaderOK /\ ReaderOK
    BY DEF TypeOK, StoreType, CrosswalkType, LoaderOK, ReaderOK, LoaderType, ReaderType, ReleaseType

\* What the invariant says of the releases alone.
StoreInv == LoaderProgress /\ ReadyIsComplete /\ FactsOfOneEdition

\* The records of a dataset's archive are numbered from one.
LEMMA RecordsAreFacts ==
    ASSUME NEW d \in Dataset, NEW e \in Edition
    PROVE  /\ NRecords[d][e] \in Nat
           /\ Whole(d, e) \subseteq Fact
    BY CensusAssumption DEF Whole, Records, Fact

\* A loader that has gone past the last record has read the whole archive.
LEMMA ReadToTheEnd ==
    ASSUME NEW d \in Dataset, NEW e \in Edition, NEW n \in Nat, n >= NRecords[d][e]
    PROVE  {f \in Whole(d, e) : f[2] <= n} = Whole(d, e)
<1>1. \A f \in Whole(d, e) : f[2] \in Records(d, e)
    BY DEF Whole
<1>2. \A i \in Records(d, e) : i <= n
    BY RecordsAreFacts DEF Records
<1> QED BY <1>1, <1>2

-----------------------------------------------------------------------------
\* The initial state satisfies the invariant.
LEMMA InitCensusInv == Init => CensusInv
<1> SUFFICES ASSUME Init PROVE CensusInv
    OBVIOUS
<1> USE CensusAssumption DEF Init
<1>1. StoreType
    BY DEF StoreType, ReleaseType, Status
<1>2. CrosswalkType
    BY DEF CrosswalkType, Status
<1>3. LoaderOK
    BY DEF LoaderOK, LoaderType, Idle
<1>4. ReaderOK
    BY DEF ReaderOK, ReaderType
<1>5. LoaderProgress
    BY DEF LoaderProgress, Idle
<1>6. ReadyIsComplete
    BY DEF ReadyIsComplete
<1>7. FactsOfOneEdition
    BY DEF FactsOfOneEdition
<1>8. AnswersOfOneEdition
    BY DEF AnswersOfOneEdition
<1> QED BY <1>1, <1>2, <1>3, <1>4, <1>5, <1>6, <1>7, <1>8, TypeParts DEF CensusInv

-----------------------------------------------------------------------------
(* The registry.                                                           *)

\* A step of the registry leaves the releases and their readers alone.
LEMMA RegistryStep ==
    ASSUME CensusInv, UNCHANGED <<storeVars, reader>>, CrosswalkType', LoaderOK',
           loader'.pc \notin {"records", "refused", "raw"}
    PROVE  CensusInv'
<1>1. StoreType' /\ ReaderOK'
    BY TypeParts DEF CensusInv, StoreType, ReaderOK, storeVars
<1>2. LoaderProgress'
    BY DEF LoaderProgress
<1>3. ReadyIsComplete' /\ FactsOfOneEdition'
    BY DEF CensusInv, storeVars, ReadyIsComplete, FactsOfOneEdition
<1>4. AnswersOfOneEdition'
    BY DEF CensusInv, AnswersOfOneEdition
<1> DEFINE Parts == StoreType /\ CrosswalkType /\ LoaderOK /\ ReaderOK
<1>5. TypeOK'
    BY <1>1 DEF TypeOK, StoreType, CrosswalkType, LoaderOK, ReaderOK, LoaderType, ReaderType, ReleaseType
<1> QED BY <1>2, <1>3, <1>4, <1>5 DEF CensusInv

\* The new jurisdictions of a batch can be counted.
LEMMA RowsAreCounted ==
    ASSUME NEW from \in Nat, NEW to \in Nat, NEW g \in Gov
    PROVE  Rows(from, to, g) \in Nat
<1>1. IsFiniteSet((from + 1) .. to)
    BY FS_Interval
<1>2. {i \in NewUnits(from, to) : Units[i] = g} \subseteq (from + 1) .. to
    BY DEF NewUnits
<1>3. IsFiniteSet({i \in NewUnits(from, to) : Units[i] = g})
    BY <1>1, <1>2, FS_Subset
<1> QED BY <1>3, FS_CardinalityType DEF Rows

\* Starting the registry.
LEMMA StartUnitsKeepsInv == ASSUME CensusInv, StartUnits PROVE CensusInv'
<1>1. CrosswalkType'
    BY TypeParts DEF CensusInv, StartUnits, CrosswalkType, registryVars
<1>2. LoaderOK' /\ loader'.pc \notin {"records", "refused", "raw"}
    BY CensusAssumption DEF StartUnits, Idle, LoaderOK, LoaderType
<1> QED BY <1>1, <1>2, RegistryStep DEF StartUnits

\* A committed batch of the registry.
LEMMA CommitUnitsKeepsInv == ASSUME CensusInv, CommitUnits PROVE CensusInv'
<1>1. CrosswalkType /\ LoaderOK
    BY TypeParts DEF CensusInv
<1>2. PICK to \in 1 .. Len(Units) :
          /\ created' = [g \in Gov |-> created[g] + Rows(loader.pos, to, g)]
          /\ home' = [g \in Gov |-> IF g \in Listed(loader.pos, to) THEN Home(g) ELSE home[g]]
          /\ name' = Renamed(loader.pos, to)
          /\ loader' = [loader EXCEPT !.pos = to]
    BY DEF CommitUnits
<1>3. Len(Units) \in Nat /\ to \in Nat /\ loader.pos \in Nat
    BY <1>1, CensusAssumption DEF LoaderOK, LoaderType
<1>4. created' \in [Gov -> Nat]
    <2>1. \A g \in Gov : created[g] \in Nat /\ Rows(loader.pos, to, g) \in Nat
        BY <1>1, <1>3, RowsAreCounted DEF CrosswalkType
    <2> QED BY <1>2, <2>1
<1>5. home' \in [Gov -> {"none", "own", "created"}]
    <2>1. \A g \in Gov : home[g] \in {"none", "own", "created"}
        BY <1>1 DEF CrosswalkType
    <2> QED BY <1>2, <2>1 DEF Home
<1>6. name' \in [Gov -> {"none", "placeholder", "official"}]
    <2>1. \A g \in Gov : name[g] \in {"none", "placeholder", "official"}
        BY <1>1 DEF CrosswalkType
    <2> QED BY <1>2, <2>1 DEF Renamed
<1>7. registry' \in [status : Status, raw : BOOLEAN]
    BY <1>1 DEF CommitUnits, CrosswalkType, Status
<1>8. LoaderOK' /\ loader'.pc \notin {"records", "refused", "raw"}
    BY <1>1, <1>2, <1>3 DEF CommitUnits, LoaderOK, LoaderType
<1>9. CrosswalkType'
    BY <1>4, <1>5, <1>6, <1>7 DEF CrosswalkType
<1> QED BY <1>8, <1>9, RegistryStep DEF CommitUnits

\* The end of the registry, and its archive.
LEMMA PublishUnitsKeepsInv ==
    ASSUME CensusInv, PublishUnits \/ RegisterRawUnits PROVE CensusInv'
<1>1. CrosswalkType /\ LoaderOK
    BY TypeParts DEF CensusInv
<1>2. CrosswalkType'
    BY <1>1 DEF PublishUnits, RegisterRawUnits, CrosswalkType, Status
<1>3. LoaderOK' /\ loader'.pc \notin {"records", "refused", "raw"}
    <2>1. CASE PublishUnits
        BY <1>1, <2>1 DEF PublishUnits, LoaderOK, LoaderType
    <2>2. CASE RegisterRawUnits
        BY <1>1, <2>2 DEF RegisterRawUnits, Idle, LoaderOK, LoaderType
    <2> QED BY <2>1, <2>2
<1> QED BY <1>2, <1>3, RegistryStep DEF PublishUnits, RegisterRawUnits

-----------------------------------------------------------------------------
(* The requests.                                                           *)

\* A step of a request disturbs its own answer and nothing else.
LEMMA ReaderStep ==
    ASSUME CensusInv, UNCHANGED <<storeVars, registryVars, loader>>, ReaderOK',
           AnswersOfOneEdition'
    PROVE  CensusInv'
<1>1. StoreType' /\ CrosswalkType' /\ LoaderOK'
    BY TypeParts DEF CensusInv, StoreType, CrosswalkType, LoaderOK, storeVars, registryVars
<1>2. LoaderProgress' /\ ReadyIsComplete' /\ FactsOfOneEdition'
    BY DEF CensusInv, storeVars, LoaderProgress, ReadyIsComplete, FactsOfOneEdition
<1>3. TypeOK'
    BY <1>1 DEF TypeOK, StoreType, CrosswalkType, LoaderOK, ReaderOK, LoaderType, ReaderType, ReleaseType
<1> QED BY <1>2, <1>3 DEF CensusInv

\* Selecting the release.
LEMMA SelectReleaseKeepsInv ==
    ASSUME CensusInv, NEW r \in Reader, NEW d \in Dataset, NEW g \in Gov, SelectRelease(r, d, g)
    PROVE  CensusInv'
<1>1. ReaderOK
    BY TypeParts DEF CensusInv
<1> DEFINE new == IF release[d].status = "READY"
                  THEN [pc |-> "rows", dataset |-> d, gov |-> g, rows |-> {}]
                  ELSE [pc |-> "idle", dataset |-> None, gov |-> None, rows |-> {}]
<1>2. new \in ReaderType /\ (new.pc = "rows" => new.dataset \in Dataset) /\ new.rows = {}
    BY DEF ReaderType
<1>3. reader' = [reader EXCEPT ![r] = new]
    BY DEF SelectRelease
<1> HIDE DEF new
<1>4. ReaderOK'
    BY <1>1, <1>2, <1>3 DEF ReaderOK
<1>5. AnswersOfOneEdition'
    BY <1>1, <1>2, <1>3 DEF CensusInv, ReaderOK, AnswersOfOneEdition
<1> QED BY <1>4, <1>5, ReaderStep DEF SelectRelease

\* Reading the rows: all of one archive, because the facts are.
LEMMA SelectRowsKeepsInv ==
    ASSUME CensusInv, NEW r \in Reader, SelectRows(r) PROVE CensusInv'
<1>1. ReaderOK /\ StoreType
    BY TypeParts DEF CensusInv
<1> DEFINE rows == RowsOf(reader[r].dataset, reader[r].gov)
<1>2. reader[r].dataset \in Dataset
    BY <1>1 DEF SelectRows, ReaderOK
<1>3. rows \subseteq facts[reader[r].dataset]
    BY DEF RowsOf
<1>4. rows \in SUBSET Fact
    BY <1>1, <1>2, <1>3 DEF StoreType
<1>5. PICK e \in Edition : facts[reader[r].dataset] \subseteq Whole(reader[r].dataset, e)
    BY <1>2 DEF CensusInv, FactsOfOneEdition
<1>6. \A f \in rows : f[1] = e
    BY <1>3, <1>5 DEF Whole
<1>7. reader' = [reader EXCEPT ![r] = [reader[r] EXCEPT !.pc = "idle", !.rows = rows]]
    BY <1>1 DEF SelectRows, ReaderOK, ReaderType
<1> HIDE DEF rows
<1> DEFINE new == [reader[r] EXCEPT !.pc = "idle", !.rows = rows]
<1>8. new \in ReaderType /\ new.pc = "idle" /\ new.rows = rows
    BY <1>1, <1>4 DEF ReaderOK, ReaderType
<1> HIDE DEF new
<1>9. reader' = [reader EXCEPT ![r] = new]
    BY <1>7 DEF new
<1>10. ReaderOK'
    BY <1>1, <1>8, <1>9 DEF ReaderOK
<1>11. AnswersOfOneEdition'
    BY <1>1, <1>6, <1>8, <1>9 DEF CensusInv, ReaderOK, AnswersOfOneEdition
<1> QED BY <1>10, <1>11, ReaderStep DEF SelectRows

-----------------------------------------------------------------------------
(* The releases.                                                           *)

\* An ingestion works on one release; the others are left as they are.
Elsewhere(d) == \A c \in Dataset \ {d} : facts'[c] = facts[c] /\ release'[c] = release[c]

\* What a step that touches the release of one dataset has to show.
LEMMA ReleaseStep ==
    ASSUME CensusInv, NEW d \in Dataset, Elsewhere(d), UNCHANGED reader,
           StoreType', CrosswalkType', LoaderOK', LoaderProgress',
           release'[d].status = "READY" =>
               \E e \in Edition : facts'[d] = Whole(d, e) /\ release'[d].rows = NRecords[d][e],
           \E e \in Edition : facts'[d] \subseteq Whole(d, e)
    PROVE  CensusInv'
<1>1. ReaderOK'
    BY TypeParts DEF CensusInv, ReaderOK
<1>2. TypeOK'
    BY <1>1 DEF TypeOK, StoreType, CrosswalkType, LoaderOK, ReaderOK, LoaderType, ReaderType, ReleaseType
<1>3. ReadyIsComplete'
    BY DEF CensusInv, ReadyIsComplete, Elsewhere, Whole
<1>4. FactsOfOneEdition'
    BY DEF CensusInv, FactsOfOneEdition, Elsewhere, Whole
<1>5. AnswersOfOneEdition'
    BY DEF CensusInv, AnswersOfOneEdition
<1> QED BY <1>2, <1>3, <1>4, <1>5 DEF CensusInv

\* Starting an archive: the release is taken out of READY and emptied.
LEMMA StartFinanceKeepsInv ==
    ASSUME CensusInv, NEW d \in Dataset, NEW e \in Edition, StartFinance(d, e)
    PROVE  CensusInv'
<1>1. StoreType /\ CrosswalkType
    BY TypeParts DEF CensusInv
<1> DEFINE row == [release[d] EXCEPT !.status = "INGESTING"]
<1>2. row \in ReleaseType /\ row.status = "INGESTING"
    BY <1>1 DEF StoreType, ReleaseType, Status
<1>3. release' = [release EXCEPT ![d] = row]
    BY <1>1 DEF StartFinance, StoreType
<1> HIDE DEF row
<1>4. facts' = [facts EXCEPT ![d] = {}] /\ coverage' = [coverage EXCEPT ![d] = [g \in Gov |-> 0]]
    BY DEF StartFinance
<1>5. StoreType'
    <2>1. release' \in [Dataset -> ReleaseType]
        BY <1>1, <1>2, <1>3 DEF StoreType
    <2>2. facts' \in [Dataset -> SUBSET Fact]
        BY <1>1, <1>4 DEF StoreType
    <2>3. coverage' \in [Dataset -> [Gov -> Nat]]
        <3>1. [g \in Gov |-> 0] \in [Gov -> Nat]
            OBVIOUS
        <3> QED BY <1>1, <1>4, <3>1, Zenon DEF StoreType
    <2> QED BY <2>1, <2>2, <2>3 DEF StoreType
<1>6. CrosswalkType'
    BY <1>1 DEF StartFinance, registryVars, CrosswalkType
<1>7. loader' = [pc |-> "records", dataset |-> d, edition |-> e, pos |-> 0]
    BY DEF StartFinance
<1>8. LoaderOK'
    <2>1. NRecords[d][e] \in Nat /\ BatchSize \in Nat \ {0}
        BY RecordsAreFacts, CensusAssumption
    <2>2. 0 < NRecords[d][e] + BatchSize
        BY <2>1
    <2> QED BY <1>7, <2>2 DEF LoaderOK, LoaderType
<1>9. facts'[d] = {} /\ release'[d].status = "INGESTING" /\ Elsewhere(d)
    BY <1>1, <1>2, <1>3, <1>4 DEF StoreType, Elsewhere
<1>10. LoaderProgress'
    <2>1. \A f \in Whole(d, e) : f[2] \in Nat /\ f[2] > 0
        BY RecordsAreFacts DEF Whole, Records
    <2>2. {f \in Whole(d, e) : f[2] <= 0} = {}
        BY <2>1
    <2> QED BY <1>7, <1>9, <2>2 DEF LoaderProgress, Whole, Records
<1>11. UNCHANGED reader
    BY DEF StartFinance
<1> QED BY <1>5, <1>6, <1>8, <1>9, <1>10, <1>11, ReleaseStep

\* A batch: the records committed are those read.
LEMMA FlushKeepsInv == ASSUME CensusInv, Flush PROVE CensusInv'
<1>1. StoreType /\ CrosswalkType /\ LoaderOK
    BY TypeParts DEF CensusInv
<1> DEFINE d == loader.dataset
           e == loader.edition
           n == loader.pos + BatchSize
<1>2. d \in Dataset /\ e \in Edition /\ loader.pc = "records"
    BY DEF Flush, CensusInv, LoaderProgress
<1>3. n \in Nat /\ loader.pos \in Nat /\ NRecords[d][e] \in Nat /\ BatchSize \in Nat \ {0}
    BY <1>1, <1>2, RecordsAreFacts, CensusAssumption DEF LoaderOK, LoaderType
<1>4. facts[d] = {f \in Whole(d, e) : f[2] <= loader.pos} /\ release[d].status = "INGESTING"
    BY <1>2 DEF CensusInv, LoaderProgress
<1>5. facts' = [facts EXCEPT ![d] = facts[d] \cup Batch] /\ UNCHANGED <<release, coverage, registry, reader>>
    BY <1>1, <1>2 DEF Flush, StoreType
<1>6. facts[d] \cup Batch = {f \in Whole(d, e) : f[2] <= n}
    <2>1. Batch = {f \in Whole(d, e) : loader.pos < f[2] /\ f[2] <= n}
        BY DEF Batch, Whole
    <2>2. \A f \in Whole(d, e) : f[2] \in Nat
        BY <1>2, <1>3 DEF Whole, Records
    <2>3. \A f \in Whole(d, e) : f[2] <= loader.pos => f[2] <= n
        BY <1>3, <2>2
    <2>4. \A f \in Whole(d, e) : f[2] <= loader.pos \/ loader.pos < f[2]
        BY <1>3, <2>2
    <2> QED BY <1>4, <2>1, <2>3, <2>4
<1>7. facts'[d] = {f \in Whole(d, e) : f[2] <= n} /\ Elsewhere(d)
    BY <1>1, <1>2, <1>5, <1>6 DEF StoreType, Elsewhere
<1>8. StoreType'
    <2>1. facts[d] \cup Batch \in SUBSET Fact
        BY <1>2, <1>6, RecordsAreFacts
    <2> QED BY <1>1, <1>5, <2>1 DEF StoreType
<1>9. CrosswalkType'
    <2>1. created' \in [Gov -> Nat]
        <3>1. \A g \in Gov : created[g] \in Nat
            BY <1>1 DEF CrosswalkType
        <3> QED BY <3>1 DEF Flush
    <2>2. home' \in [Gov -> {"none", "own", "created"}]
        BY <1>1 DEF Flush, CrosswalkType
    <2>3. name' \in [Gov -> {"none", "placeholder", "official"}]
        BY <1>1 DEF Flush, CrosswalkType
    <2> QED BY <1>1, <1>5, <2>1, <2>2, <2>3 DEF CrosswalkType
<1>10. loader' = [loader EXCEPT !.pos = n]
    BY <1>1 DEF Flush, LoaderOK, LoaderType
<1>11. loader.pos < NRecords[d][e]
    <2>1. PICK f \in Batch : TRUE
        BY DEF Flush
    <2>2. PICK i \in Records(d, e) : loader.pos < i
        BY <2>1 DEF Batch
    <2> QED BY <1>3, <2>2 DEF Records
<1>12. n < NRecords[d][e] + BatchSize
    BY <1>3, <1>11
<1>13. loader'.pc = "records" /\ loader'.dataset = d /\ loader'.edition = e /\ loader'.pos = n
       /\ loader' \in LoaderType
    <2> HIDE DEF n
    <2> QED BY <1>1, <1>2, <1>3, <1>10 DEF LoaderOK, LoaderType
<1>14. LoaderOK'
    <2> HIDE DEF n
    <2> QED BY <1>12, <1>13 DEF LoaderOK
<1> HIDE DEF d, e, n
<1>15. LoaderProgress'
    BY <1>2, <1>4, <1>5, <1>7, <1>13 DEF LoaderProgress, Whole, Records
<1>16. \E c \in Edition : facts'[d] \subseteq Whole(d, c)
    BY <1>2, <1>7
<1>17. release'[d].status # "READY"
    BY <1>4, <1>5
<1> QED BY <1>2, <1>5, <1>7, <1>8, <1>9, <1>14, <1>15, <1>16, <1>17, ReleaseStep

\* Past the last record, the release is published with all of them.
LEMMA PublishKeepsInv == ASSUME CensusInv, Publish PROVE CensusInv'
<1>1. StoreType /\ CrosswalkType /\ LoaderOK
    BY TypeParts DEF CensusInv
<1> DEFINE d == loader.dataset
           e == loader.edition
           row == [status |-> "READY", rows |-> NRecords[d][e], raw |-> release[d].raw]
<1>2. d \in Dataset /\ e \in Edition /\ loader.pc = "records"
    BY DEF Publish, CensusInv, LoaderProgress
<1>3. loader.pos \in Nat /\ NRecords[d][e] \in Nat /\ BatchSize \in Nat \ {0}
    BY <1>1, <1>2, RecordsAreFacts, CensusAssumption DEF LoaderOK, LoaderType
<1>4. loader.pos >= NRecords[d][e]
    <2>1. SUFFICES ASSUME loader.pos < NRecords[d][e] PROVE FALSE
        BY <1>3
    <2>2. loader.pos + 1 \in Records(d, e) /\ loader.pos < loader.pos + 1
          /\ loader.pos + 1 <= loader.pos + BatchSize
        BY <1>3, <2>1 DEF Records
    <2>3. <<e, loader.pos + 1>> \in Batch
        BY <2>2 DEF Batch
    <2> QED BY <2>3 DEF Publish
<1>5. facts[d] = Whole(d, e)
    BY <1>2, <1>3, <1>4, ReadToTheEnd DEF CensusInv, LoaderProgress
<1>6. row \in ReleaseType /\ row.status = "READY" /\ row.rows = NRecords[d][e]
    BY <1>1, <1>2, <1>3 DEF StoreType, ReleaseType, Status
<1>7. release' = [release EXCEPT ![d] = row]
    BY <1>1 DEF Publish, StoreType
<1>8. UNCHANGED <<facts, registryVars, reader>>
    BY DEF Publish
<1>9. Counted(d) \in [Gov -> Nat]
    <2>1. IsFiniteSet(Records(d, e))
        BY <1>3, FS_Interval DEF Records
    <2>2. IsFiniteSet({e}) /\ IsFiniteSet(Whole(d, e))
        BY <2>1, FS_Singleton, FS_Product DEF Whole
    <2>3. ASSUME NEW g \in Gov
          PROVE  Cardinality({f \in facts[d] : KeyOf(d, f).gov = g}) \in Nat
        <3>1. {f \in facts[d] : KeyOf(d, f).gov = g} \subseteq Whole(d, e)
            BY <1>5
        <3> QED BY <2>2, <3>1, FS_Subset, FS_CardinalityType
    <2> QED BY <2>3 DEF Counted
<1>10. coverage' = [coverage EXCEPT ![d] = Counted(d)]
    BY DEF Publish
<1>11. loader' = [loader EXCEPT !.pc = "raw"]
    BY DEF Publish
<1> HIDE DEF row
<1>12. StoreType'
    <2>1. release' \in [Dataset -> ReleaseType]
        BY <1>1, <1>6, <1>7 DEF StoreType
    <2>2. coverage' \in [Dataset -> [Gov -> Nat]]
        BY <1>1, <1>9, <1>10, Zenon DEF StoreType
    <2> QED BY <1>1, <1>8, <2>1, <2>2 DEF StoreType
<1>13. CrosswalkType'
    BY <1>1, <1>8 DEF registryVars, CrosswalkType
<1>14. LoaderOK' /\ LoaderProgress'
    BY <1>1, <1>2, <1>11 DEF LoaderOK, LoaderType, LoaderProgress
<1>15. facts'[d] = Whole(d, e) /\ release'[d].rows = NRecords[d][e] /\ Elsewhere(d)
    BY <1>1, <1>2, <1>5, <1>6, <1>7, <1>8 DEF StoreType, Elsewhere
<1>16. \E c \in Edition : facts'[d] = Whole(d, c) /\ release'[d].rows = NRecords[d][c]
    BY <1>2, <1>15
<1> HIDE DEF d, e
<1> QED BY <1>2, <1>8, <1>12, <1>13, <1>14, <1>15, <1>16, ReleaseStep

\* Registering the archive changes one field of a release no one is filling.
LEMMA RegisterRawKeepsInv == ASSUME CensusInv, RegisterRaw PROVE CensusInv'
<1>1. StoreType /\ CrosswalkType /\ LoaderOK
    BY TypeParts DEF CensusInv
<1> DEFINE d == loader.dataset
           row == [release[d] EXCEPT !.raw = loader.edition]
<1>2. d \in Dataset /\ loader.edition \in Edition
    BY DEF RegisterRaw, CensusInv, LoaderProgress
<1>3. row \in ReleaseType /\ row.status = release[d].status /\ row.rows = release[d].rows
    BY <1>1, <1>2 DEF StoreType, ReleaseType
<1>4. release' = [release EXCEPT ![d] = row]
    BY <1>1, <1>2 DEF RegisterRaw, StoreType, ReleaseType
<1>5. UNCHANGED <<facts, coverage, registryVars, reader>> /\ loader' = Idle
    BY DEF RegisterRaw
<1> HIDE DEF row
<1>6. StoreType'
    BY <1>1, <1>2, <1>3, <1>4, <1>5 DEF StoreType
<1>7. CrosswalkType'
    BY <1>1, <1>5 DEF registryVars, CrosswalkType
<1>8. LoaderOK' /\ LoaderProgress'
    BY <1>5 DEF LoaderOK, LoaderType, LoaderProgress, Idle
<1>9. Elsewhere(d) /\ release'[d].status = release[d].status /\ release'[d].rows = release[d].rows
    BY <1>1, <1>2, <1>3, <1>4, <1>5 DEF StoreType, Elsewhere
<1>10. release'[d].status = "READY" =>
          \E c \in Edition : facts'[d] = Whole(d, c) /\ release'[d].rows = NRecords[d][c]
    BY <1>2, <1>5, <1>9 DEF CensusInv, ReadyIsComplete
<1>11. \E c \in Edition : facts'[d] \subseteq Whole(d, c)
    BY <1>2, <1>5 DEF CensusInv, FactsOfOneEdition
<1> HIDE DEF d
<1> QED BY <1>2, <1>5, <1>6, <1>7, <1>8, <1>9, <1>10, <1>11, ReleaseStep

\* A refused batch, and an end of the process, leave all that was committed.
LEMMA StopKeepsInv == ASSUME CensusInv, RefuseDuplicate \/ Stop PROVE CensusInv'
<1>1. UNCHANGED <<storeVars, registryVars, reader>>
    BY DEF RefuseDuplicate, Stop
<1>2. StoreType /\ CrosswalkType /\ LoaderOK /\ ReaderOK
    BY TypeParts DEF CensusInv
<1>3. StoreType' /\ CrosswalkType' /\ ReaderOK'
    BY <1>1, <1>2 DEF StoreType, CrosswalkType, ReaderOK, storeVars, registryVars
<1>4. LoaderOK' /\ LoaderProgress'
    <2>1. CASE RefuseDuplicate
        BY <1>2, <2>1 DEF RefuseDuplicate, LoaderOK, LoaderType, LoaderProgress, CensusInv
    <2>2. CASE Stop
        BY <2>2 DEF Stop, Idle, LoaderOK, LoaderType, LoaderProgress
    <2> QED BY <2>1, <2>2
<1>5. ReadyIsComplete' /\ FactsOfOneEdition' /\ AnswersOfOneEdition'
    BY <1>1 DEF CensusInv, storeVars, ReadyIsComplete, FactsOfOneEdition, AnswersOfOneEdition
<1>6. TypeOK'
    BY <1>3, <1>4 DEF TypeOK, StoreType, CrosswalkType, LoaderOK, ReaderOK, LoaderType, ReaderType, ReleaseType
<1> QED BY <1>4, <1>5, <1>6 DEF CensusInv

-----------------------------------------------------------------------------
\* Every step keeps the invariant.
LEMMA NextKeepsCensusInv == CensusInv /\ [Next]_vars => CensusInv'
<1> SUFFICES ASSUME CensusInv, [Next]_vars PROVE CensusInv'
    OBVIOUS
<1>1. CASE StartUnits \/ CommitUnits \/ PublishUnits \/ RegisterRawUnits
    BY <1>1, StartUnitsKeepsInv, CommitUnitsKeepsInv, PublishUnitsKeepsInv
<1>2. CASE \E d \in Dataset, e \in Edition : StartFinance(d, e)
    BY <1>2, StartFinanceKeepsInv
<1>3. CASE Flush \/ Publish \/ RegisterRaw
    BY <1>3, FlushKeepsInv, PublishKeepsInv, RegisterRawKeepsInv
<1>4. CASE RefuseDuplicate \/ Stop
    BY <1>4, StopKeepsInv
<1>5. CASE \E r \in Reader : \/ \E d \in Dataset, g \in Gov : SelectRelease(r, d, g)
                            \/ SelectRows(r)
    BY <1>5, SelectReleaseKeepsInv, SelectRowsKeepsInv
<1>6. CASE UNCHANGED vars
    <2>1. UNCHANGED <<release, facts, coverage, registry, created, home, name, loader, reader>>
        BY <1>6 DEF vars
    <2> QED BY <2>1 DEF CensusInv, TypeOK, LoaderProgress, ReadyIsComplete,
                        FactsOfOneEdition, AnswersOfOneEdition
<1> QED BY <1>1, <1>2, <1>3, <1>4, <1>5, <1>6 DEF Next, LoaderStep

\* The inductive invariant holds in every reachable state.
THEOREM CensusInvariant == Spec => []CensusInv
<1> QED BY InitCensusInv, NextKeepsCensusInv, PTL DEF Spec

\* Every variable always holds a value of its kind.
THEOREM CensusTypeCorrect == Spec => []TypeOK
<1>1. CensusInv => TypeOK
    BY DEF CensusInv
<1> QED BY <1>1, CensusInvariant, PTL

\* A READY release holds every record of one archive, and its row count.
THEOREM CensusReadyIsComplete == Spec => []ReadyIsComplete
<1>1. CensusInv => ReadyIsComplete
    BY DEF CensusInv
<1> QED BY <1>1, CensusInvariant, PTL

\* An answer never adds up the records of two archives.
THEOREM CensusAnswersOfOneEdition == Spec => []AnswersOfOneEdition
<1>1. CensusInv => AnswersOfOneEdition
    BY DEF CensusInv
<1> QED BY <1>1, CensusInvariant, PTL

-----------------------------------------------------------------------------
(* The registry, the crosswalk and the coverage.                           *)

\* A set of natural numbers has a least one.
LEMMA LeastNatural ==
    ASSUME NEW S \in SUBSET Nat, S # {}
    PROVE  \E m \in S : \A k \in S : m <= k
<1> DEFINE Less == {ss \in Nat \X Nat : ss[1] < ss[2]}
<1>1. IsWellFoundedOn(Less, Nat)
    BY NatLessThanWellFounded, Zenon DEF OpToRel
<1>2. PICK m \in S : \A y \in S : <<y, m>> \notin Less
    BY <1>1, WFMin
<1>3. ASSUME NEW k \in S PROVE m <= k
  <2>1. ~(k < m)
      BY <1>2
  <2> QED BY <2>1
<1> QED BY <1>3

\* A batch creates one jurisdiction for a government that is new to the crosswalk and
\* first listed in it, and none for any other.
LEMMA RowsOfGovernment ==
    ASSUME NEW from \in Nat, NEW to \in 1 .. Len(Units), NEW g \in Gov,
           \A j \in 1 .. from : home[Units[j]] # "none"
    PROVE  Rows(from, to, g) =
             IF home[g] = "none" /\ g \notin State /\ g \in Listed(from, to) THEN 1 ELSE 0
<1> DEFINE rows == {i \in NewUnits(from, to) : Units[i] = g}
           at == {i \in (from + 1) .. to : Units[i] = g}
<1>0. Len(Units) \in Nat
    BY CensusAssumption
<1>1. CASE home[g] = "none" /\ g \notin State /\ g \in Listed(from, to)
  <2>1. at \in SUBSET Nat /\ at # {}
      BY <1>0, <1>1 DEF Listed
  <2>2. PICK m \in at : \A k \in at : m <= k
    <3> HIDE DEF at
    <3> QED BY <2>1, LeastNatural
  <2>3. m \in (from + 1) .. to /\ Units[m] = g /\ m \in Nat
      BY <1>0
  <2>4. \A j \in 1 .. (m - 1) : Units[j] # g
    <3> SUFFICES ASSUME NEW j \in 1 .. (m - 1), Units[j] = g PROVE FALSE
        OBVIOUS
    <3>1. CASE j <= from
        BY <1>1, <2>3, <3>1
    <3>2. CASE j > from
      <4>1. j \in at
          BY <1>0, <2>3, <3>2
      <4> QED BY <2>2, <2>3, <4>1
    <3> QED BY <3>1, <3>2
  <2>5. m \in rows
    <3>1. g \notin Before(m)
        BY <2>4 DEF Before
    <3> QED BY <1>1, <2>3, <3>1 DEF NewUnits, IsNew
  <2>6. ASSUME NEW i \in rows PROVE i = m
    <3>1. i \in (from + 1) .. to /\ Units[i] = g /\ g \notin Before(i)
        BY DEF NewUnits
    <3>2. m <= i
        BY <2>2, <3>1
    <3>3. ~(m < i)
        BY <2>3, <3>1 DEF Before
    <3> QED BY <1>0, <2>3, <3>1, <3>2, <3>3
  <2>7. rows = {m}
      BY <2>5, <2>6
  <2>8. Cardinality({m}) = 1
      BY FS_Singleton
  <2> QED BY <1>1, <2>7, <2>8 DEF Rows
<1>2. CASE ~(home[g] = "none" /\ g \notin State /\ g \in Listed(from, to))
  <2>1. rows = {}
      BY <1>2 DEF NewUnits, IsNew, Listed
  <2>2. Cardinality({}) = 0
      BY FS_EmptySet
  <2> QED BY <1>2, <2>1, <2>2 DEF Rows
<1> QED BY <1>1, <1>2

\* What the registry says, and what the coverage says.
RegistryInv == RegistryProgress /\ CreatedOnceAsHome /\ RegistryIsNamed

\* A step that leaves the crosswalk alone keeps what it says, unless it begins a registry.
LEMMA CrosswalkKept ==
    ASSUME RegistryInv, UNCHANGED registryVars,
           loader'.pc # "units" \/ loader'.pos = 0 \/ UNCHANGED loader, TypeOK
    PROVE  RegistryInv'
    BY DEF RegistryInv, registryVars, RegistryProgress, CreatedOnceAsHome, RegistryIsNamed

\* The coverage stays honest where nothing is written.
LEMMA CoverageKept ==
    ASSUME CoverageIsHonest, UNCHANGED storeVars
    PROVE  CoverageIsHonest'
    BY DEF CoverageIsHonest, Counted, storeVars

\* A batch of the registry.
LEMMA CommitUnitsKeepsRecords ==
    ASSUME RecordsInv, CommitUnits
    PROVE  RegistryInv'
<1>1. CrosswalkType /\ LoaderOK
    BY TypeParts DEF RecordsInv, CensusInv
<1> DEFINE pos == loader.pos
<1>2. PICK to \in 1 .. Len(Units) :
          /\ to \in (pos + 1) .. Len(Units)
          /\ created' = [g \in Gov |-> created[g] + Rows(pos, to, g)]
          /\ home' = [g \in Gov |-> IF g \in Listed(pos, to) THEN Home(g) ELSE home[g]]
          /\ name' = Renamed(pos, to)
          /\ loader' = [loader EXCEPT !.pos = to]
    BY DEF CommitUnits, IsBatch
<1>3. /\ pos \in Nat /\ Len(Units) \in Nat /\ \A j \in 1 .. Len(Units) : Units[j] \in Gov
      /\ \A j \in 1 .. pos : name[Units[j]] = "official" /\ home[Units[j]] # "none"
  <2>1. pos \in Nat /\ pos <= Len(Units) /\ loader.pc = "units"
      BY <1>1 DEF LoaderOK, LoaderType, CommitUnits
  <2>2. Len(Units) \in Nat /\ \A j \in 1 .. Len(Units) : Units[j] \in Gov
      BY CensusAssumption
  <2>3. \A j \in 1 .. pos : Units[j] \in Gov /\ name[Units[j]] = "official"
      BY <2>1, <2>2 DEF RecordsInv, RegistryProgress
  <2> QED BY <2>1, <2>2, <2>3 DEF RecordsInv, RegistryProgress
<1>4. loader'.pos = to /\ registry'.status = "INGESTING"
    BY <1>1, <1>2 DEF LoaderOK, LoaderType, CommitUnits, CrosswalkType
<1>5. \A g \in Gov : Rows(pos, to, g) =
         IF home[g] = "none" /\ g \notin State /\ g \in Listed(pos, to) THEN 1 ELSE 0
  <2> HIDE DEF pos
  <2> QED BY <1>3, RowsOfGovernment
<1>6. \A g \in Gov :
         /\ created'[g] = created[g] + Rows(pos, to, g)
         /\ home'[g] = IF g \in Listed(pos, to) THEN Home(g) ELSE home[g]
         /\ name'[g] = IF g \in Listed(pos, to) THEN "official" ELSE name[g]
    BY <1>2 DEF Renamed
<1> HIDE DEF pos
<1>7. CreatedOnceAsHome'
  <2> SUFFICES ASSUME NEW g \in Gov
               PROVE  created'[g] = IF home'[g] = "created" THEN 1 ELSE 0
      BY DEF CreatedOnceAsHome
  <2>1. created[g] = (IF home[g] = "created" THEN 1 ELSE 0)
      BY DEF RecordsInv, GovernmentRecordsAgree, CreatedOnceAsHome
  <2> QED BY <1>5, <1>6, <2>1 DEF Home
<1>8. RegistryProgress'
  <2>1. \A g \in Gov : name'[g] = "official" => home'[g] # "none"
      BY <1>6 DEF RecordsInv, RegistryProgress, Home
  <2>2. ASSUME NEW j \in 1 .. to PROVE name'[Units[j]] = "official"
    <3>1. CASE j <= pos
        BY <1>3, <1>6, <3>1
    <3>2. CASE j > pos
      <4>1. j \in (pos + 1) .. to
          BY <1>3, <3>2
      <4>2. Units[j] \in Listed(pos, to)
          BY <4>1 DEF Listed
      <4> QED BY <1>3, <1>6, <4>2
    <3> QED BY <1>3, <3>1, <3>2
  <2> QED BY <1>4, <2>1, <2>2 DEF RegistryProgress
<1>9. RegistryIsNamed'
    BY <1>4 DEF RegistryIsNamed
<1> QED BY <1>7, <1>8, <1>9 DEF RegistryInv

\* The end of the registry: every government it lists has been named.
LEMMA PublishUnitsKeepsRecords ==
    ASSUME RecordsInv, PublishUnits \/ RegisterRawUnits
    PROVE  RegistryInv'
<1>1. CrosswalkType /\ LoaderOK /\ UNCHANGED <<created, home, name>>
    BY TypeParts DEF RecordsInv, CensusInv, PublishUnits, RegisterRawUnits
<1>2. loader'.pc # "units"
    BY <1>1 DEF PublishUnits, RegisterRawUnits, LoaderOK, LoaderType, Idle
<1>3. CreatedOnceAsHome' /\ RegistryProgress'
    BY <1>1, <1>2 DEF RecordsInv, GovernmentRecordsAgree, CreatedOnceAsHome, RegistryProgress
<1>4. RegistryIsNamed'
  <2>1. CASE PublishUnits
      BY <1>1, <2>1, CensusAssumption DEF PublishUnits, RecordsInv, RegistryProgress, RegistryIsNamed
  <2>2. CASE RegisterRawUnits
      BY <1>1, <2>2 DEF RegisterRawUnits, CrosswalkType, RecordsInv, GovernmentRecordsAgree,
         RegistryIsNamed
  <2> QED BY <2>1, <2>2
<1> QED BY <1>3, <1>4 DEF RegistryInv

\* A batch of facts gives an unknown government one placeholder jurisdiction.
LEMMA FlushKeepsRecords ==
    ASSUME RecordsInv, Flush
    PROVE  RegistryInv' /\ CoverageIsHonest'
<1>1. StoreType /\ CrosswalkType /\ LoaderOK /\ LoaderProgress
    BY TypeParts DEF RecordsInv, CensusInv
<1>2. \A g \in Gov :
         /\ created'[g] = IF g \in Unknown THEN created[g] + 1 ELSE created[g]
         /\ home'[g] = IF g \in Unknown THEN "created" ELSE home[g]
         /\ name'[g] = IF g \in Unknown THEN "placeholder" ELSE name[g]
         /\ g \in Unknown => home[g] = "none"
    BY DEF Flush, Unknown
<1>3. registry' = registry /\ loader'.pc = "records"
    BY <1>1 DEF Flush, LoaderOK, LoaderType
<1>4. \A g \in Gov : created[g] = (IF home[g] = "created" THEN 1 ELSE 0)
    BY DEF RecordsInv, GovernmentRecordsAgree, CreatedOnceAsHome
<1>5. CreatedOnceAsHome'
    BY <1>2, <1>4 DEF CreatedOnceAsHome
<1>6. \A g \in Gov : name[g] = "official" => name'[g] = "official" /\ home'[g] # "none"
    BY <1>2 DEF RecordsInv, RegistryProgress
<1>7. RegistryProgress'
    BY <1>2, <1>3 DEF RecordsInv, RegistryProgress
<1>8. RegistryIsNamed'
    BY <1>3, <1>6, CensusAssumption DEF RecordsInv, GovernmentRecordsAgree, RegistryIsNamed
<1>9. CoverageIsHonest'
  <2> DEFINE d == loader.dataset
  <2>1. release[d].status = "INGESTING" /\ d \in Dataset
      BY <1>1 DEF Flush, LoaderProgress
  <2>2. UNCHANGED <<release, coverage>> /\ \A o \in Dataset : o # d => facts'[o] = facts[o]
      BY <1>1 DEF Flush, StoreType
  <2> QED BY <2>1, <2>2 DEF RecordsInv, GovernmentRecordsAgree, CoverageIsHonest, Counted
<1> QED BY <1>5, <1>7, <1>8, <1>9 DEF RegistryInv

\* The other steps of a finance archive leave the crosswalk alone.
LEMMA ReleasesKeepRecords ==
    ASSUME RecordsInv, Publish \/ RegisterRaw \/ \E d \in Dataset, e \in Edition : StartFinance(d, e)
    PROVE  RegistryInv' /\ CoverageIsHonest'
<1>1. StoreType /\ LoaderOK /\ LoaderProgress
    BY TypeParts DEF RecordsInv, CensusInv
<1>2. loader'.pc # "units" /\ UNCHANGED registryVars
    BY <1>1 DEF Publish, RegisterRaw, StartFinance, LoaderOK, LoaderType, Idle
<1>3. RegistryInv'
    BY <1>2, CrosswalkKept DEF RecordsInv, CensusInv, RegistryInv, GovernmentRecordsAgree
<1>4. CASE Publish
  <2> DEFINE d == loader.dataset
  <2>1. d \in Dataset
      BY <1>1, <1>4 DEF Publish, LoaderProgress
  <2>2. /\ facts' = facts /\ release'[d].status = "READY" /\ coverage'[d] = Counted(d)
        /\ \A o \in Dataset : o # d => release'[o] = release[o] /\ coverage'[o] = coverage[o]
      BY <1>1, <1>4, <2>1 DEF Publish, StoreType
  <2>3. \A o : Counted(o)' = Counted(o)
      BY <2>2 DEF Counted
  <2> QED BY <1>3, <2>2, <2>3 DEF RecordsInv, GovernmentRecordsAgree, CoverageIsHonest
<1>5. CASE RegisterRaw
  <2>1. \A o \in Dataset : release'[o].status = release[o].status
      BY <1>1, <1>5 DEF RegisterRaw, StoreType, ReleaseType
  <2>2. UNCHANGED <<facts, coverage>>
      BY <1>5 DEF RegisterRaw
  <2> QED BY <1>3, <2>1, <2>2 DEF RecordsInv, GovernmentRecordsAgree, CoverageIsHonest, Counted
<1>6. ASSUME NEW d \in Dataset, NEW e \in Edition, StartFinance(d, e)
      PROVE  CoverageIsHonest'
  <2>1. /\ release'[d].status = "INGESTING" /\ coverage'[d] = [g \in Gov |-> 0]
        /\ \A o \in Dataset : o # d => /\ release'[o] = release[o] /\ coverage'[o] = coverage[o]
                                       /\ facts'[o] = facts[o]
      BY <1>1, <1>6 DEF StartFinance, StoreType, ReleaseType
  <2> QED BY <2>1 DEF RecordsInv, GovernmentRecordsAgree, CoverageIsHonest, Counted
<1> QED BY <1>3, <1>4, <1>5, <1>6

\* Every step keeps the registry, the crosswalk and the coverage in agreement.
LEMMA NextKeepsRecordsInv == RecordsInv /\ [Next]_vars => RecordsInv'
<1> SUFFICES ASSUME RecordsInv, [Next]_vars PROVE RecordsInv'
    OBVIOUS
<1>1. CensusInv' /\ TypeOK /\ RegistryInv /\ CoverageIsHonest
    BY NextKeepsCensusInv DEF RecordsInv, CensusInv, RegistryInv, GovernmentRecordsAgree
<1> SUFFICES RegistryInv' /\ CoverageIsHonest'
    BY <1>1 DEF RecordsInv, RegistryInv, GovernmentRecordsAgree
<1>2. CASE StartUnits
  <2>1. UNCHANGED <<storeVars, registryVars>> /\ loader'.pos = 0
      BY <1>2 DEF StartUnits, Idle
  <2> QED BY <1>1, <2>1, CrosswalkKept, CoverageKept
<1>3. CASE CommitUnits \/ PublishUnits \/ RegisterRawUnits
  <2>1. UNCHANGED storeVars
      BY <1>3 DEF CommitUnits, PublishUnits, RegisterRawUnits
  <2> QED BY <1>1, <1>3, <2>1, CommitUnitsKeepsRecords, PublishUnitsKeepsRecords, CoverageKept
<1>4. CASE Flush
    BY <1>4, FlushKeepsRecords
<1>5. CASE Publish \/ RegisterRaw \/ \E d \in Dataset, e \in Edition : StartFinance(d, e)
    BY <1>5, ReleasesKeepRecords
<1>6. CASE RefuseDuplicate \/ Stop
  <2>1. UNCHANGED <<storeVars, registryVars>> /\ loader'.pc # "units"
      BY <1>1, <1>6 DEF RefuseDuplicate, Stop, Idle, TypeOK
  <2> QED BY <1>1, <2>1, CrosswalkKept, CoverageKept
<1>7. CASE \/ \E r \in Reader : \/ \E d \in Dataset, g \in Gov : SelectRelease(r, d, g)
                                \/ SelectRows(r)
           \/ UNCHANGED vars
  <2>1. UNCHANGED <<storeVars, registryVars, loader>>
      BY <1>7 DEF SelectRelease, SelectRows, vars, storeVars, registryVars
  <2> QED BY <1>1, <2>1, CrosswalkKept, CoverageKept
<1> QED BY <1>2, <1>3, <1>4, <1>5, <1>6, <1>7 DEF Next, LoaderStep

\* What the registry, the crosswalk and the coverage say of a government agrees with its
\* facts, whichever file names it first, for all files and batch sizes and wherever
\* ingestions end (ingest_government_units_zip, ingest_finance_zip).
THEOREM CensusRecordsAgree == Spec => []GovernmentRecordsAgree
<1>1. Init => RecordsInv
  <2> SUFFICES ASSUME Init PROVE RecordsInv
      OBVIOUS
  <2>1. RegistryProgress /\ GovernmentRecordsAgree
      BY DEF Init, Idle, RegistryProgress, GovernmentRecordsAgree, CreatedOnceAsHome,
         RegistryIsNamed, CoverageIsHonest
  <2> QED BY <2>1, InitCensusInv DEF RecordsInv
<1>2. RecordsInv => GovernmentRecordsAgree
    BY DEF RecordsInv
<1> QED BY <1>1, <1>2, NextKeepsRecordsInv, PTL DEF Spec

-----------------------------------------------------------------------------
(* The refinement of ReleaseStore.                                         *)

\* What a release shows its readers.
Shown(d) == IF release[d].status = "READY" THEN facts[d] ELSE {}

\* A step that leaves the releases alone shows nothing new.
LEMMA StoreStutters == ASSUME UNCHANGED storeVars PROVE [d \in Dataset |-> Shown(d)]' = [d \in Dataset |-> Shown(d)]
    BY DEF storeVars, Shown

\* Every step withdraws a release, publishes one whole, or shows the same.
LEMMA StepImplementsStore ==
    ASSUME CensusInv, [Next]_vars
    PROVE  [Store!Next]_([d \in Dataset |-> Shown(d)])
<1> DEFINE shown == [d \in Dataset |-> Shown(d)]
<1>1. StoreType /\ LoaderOK
    BY TypeParts DEF CensusInv
<1>2. CASE UNCHANGED storeVars
    BY <1>2, StoreStutters
<1>3. CASE \E d \in Dataset, e \in Edition : StartFinance(d, e)
    <2>1. PICK d \in Dataset, e \in Edition : StartFinance(d, e)
        BY <1>3
    <2>2. release' = [release EXCEPT ![d] = [release[d] EXCEPT !.status = "INGESTING"]]
          /\ facts' = [facts EXCEPT ![d] = {}]
        BY <1>1, <2>1 DEF StartFinance, StoreType
    <2>3. \A c \in Dataset : Shown(c)' = IF c \in {d} THEN {} ELSE Shown(c)
        BY <1>1, <2>2 DEF StoreType, Shown
    <2>4. shown' = [c \in Dataset |-> IF c \in {d} THEN {} ELSE shown[c]]
        BY <2>3
    <2>5. Store!Withdraw({d})
        BY <2>4 DEF Store!Withdraw, Shown
    <2> QED BY <2>5 DEF Store!Next
<1>4. CASE Flush
    <2>1. loader.dataset \in Dataset /\ release[loader.dataset].status = "INGESTING"
        BY <1>4 DEF Flush, CensusInv, LoaderProgress
    <2>2. release' = release /\ facts' = [facts EXCEPT ![loader.dataset] = @ \cup Batch]
        BY <1>4 DEF Flush
    <2>3. \A c \in Dataset : Shown(c)' = Shown(c)
        BY <1>1, <2>1, <2>2 DEF StoreType, Shown
    <2>4. shown' = shown
        BY <2>3
    <2> QED BY <2>4
<1>5. CASE RegisterRaw
    <2>1. loader.dataset \in Dataset
        BY <1>5 DEF RegisterRaw, CensusInv, LoaderProgress
    <2>2. facts' = facts /\ release' = [release EXCEPT ![loader.dataset] =
                                           [release[loader.dataset] EXCEPT !.raw = loader.edition]]
        BY <1>1, <1>5, <2>1 DEF RegisterRaw, StoreType
    <2>3. \A c \in Dataset : release'[c].status = release[c].status
        BY <1>1, <2>1, <2>2 DEF StoreType, ReleaseType
    <2>4. \A c \in Dataset : Shown(c)' = Shown(c)
        BY <2>2, <2>3 DEF Shown
    <2>5. shown' = shown
        BY <2>4
    <2> QED BY <2>5
<1>6. CASE Publish
    <2> DEFINE d == loader.dataset
               e == loader.edition
    <2>1. d \in Dataset /\ e \in Edition /\ loader.pc = "records"
          /\ release[d].status = "INGESTING"
        BY <1>6 DEF Publish, CensusInv, LoaderProgress
    <2>2. CensusInv'
        BY <1>6, PublishKeepsInv
    <2>3. facts' = facts /\ release' = [release EXCEPT ![d] =
              [status |-> "READY", rows |-> NRecords[d][e], raw |-> release[d].raw]]
        BY <1>1, <1>6 DEF Publish, StoreType
    <2>4. release'[d].status = "READY" /\ \A c \in Dataset \ {d} : release'[c] = release[c]
        BY <1>1, <2>1, <2>3 DEF StoreType
    <2>5. PICK c \in Edition : facts'[d] = Whole(d, c)
        BY <2>1, <2>2, <2>4 DEF CensusInv, ReadyIsComplete, Whole
    <2>6. shown[d] = {} /\ shown' = [shown EXCEPT ![d] = Whole(d, c)]
        <3>1. \A b \in Dataset : Shown(b)' = IF b = d THEN Whole(d, c) ELSE Shown(b)
            BY <2>3, <2>4, <2>5 DEF Shown
        <3> QED BY <2>1, <3>1 DEF Shown
    <2>7. CASE NRecords[d][c] > 0
        <3>1. Store!Publish(d, c)
            BY <2>1, <2>6, <2>7 DEF Store!Publish, Store!Whole, Whole, Records, Shown
        <3> QED BY <2>1, <3>1 DEF Store!Next
    <2>8. CASE ~(NRecords[d][c] > 0)
        <3>1. Records(d, c) = {}
            BY <2>1, <2>8, RecordsAreFacts DEF Records
        <3>2. Whole(d, c) = {}
            BY <3>1 DEF Whole
        <3>3. shown' = shown
            BY <2>6, <3>2
        <3> QED BY <3>3
    <2> QED BY <2>7, <2>8
<1>7. Next => \/ \E d \in Dataset, e \in Edition : StartFinance(d, e)
              \/ Flush \/ RegisterRaw \/ Publish \/ UNCHANGED storeVars
    BY DEF Next, LoaderStep, StartUnits, CommitUnits, PublishUnits, RegisterRawUnits,
           RefuseDuplicate, Stop, SelectRelease, SelectRows
<1>8. UNCHANGED vars => UNCHANGED storeVars
    BY DEF vars, storeVars
<1> QED BY <1>2, <1>3, <1>4, <1>5, <1>6, <1>7, <1>8

\* The Census releases implement ReleaseStore: shown whole or not at all.
THEOREM CensusImplementsStore == Spec => ImplementsReleaseStore
<1>1. Init => Store!Init
    BY DEF Init, Store!Init
<1>2. CensusInv /\ [Next]_vars => [Store!Next]_([d \in Dataset |-> Shown(d)])
    BY StepImplementsStore
<1>3. [d \in Dataset |-> Shown(d)] = [d \in Dataset |-> IF release[d].status = "READY" THEN facts[d] ELSE {}]
    BY DEF Shown
<1> QED BY <1>1, <1>2, CensusInvariant, PTL DEF Spec, ImplementsReleaseStore, Store!Spec, Shown
=============================================================================
