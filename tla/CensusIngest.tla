---------------------------- MODULE CensusIngest ----------------------------
(***************************************************************************)
(* Ingestion of the Census government registry and finance archives        *)
(* (warehouse_v2/census.py), and the request that partitions one           *)
(* government's expenditure (warehouse_v2/census_partition.py).            *)
(*                                                                         *)
(* One loader process works through an archive in committed batches and    *)
(* can die between any two commits; the API reads the release row and the  *)
(* facts in two statements.  A fact is named by the edition of the archive *)
(* and the record it was read from.                                        *)
(***************************************************************************)
EXTENDS Naturals, Sequences, FiniteSets

CONSTANTS Dataset,     \* the finance datasets, one release each
          Edition,     \* the archives that may be given for a dataset
          Gov,         \* Census government ids
          State,       \* those of the states, which have a jurisdiction of old
          NRecords,    \* [Dataset -> [Edition -> Nat]]
          Key,         \* record i of edition e of d: [gov, code]
          BatchSize,   \* finance records inserted by one commit
          Units,       \* the registry file: governments in file order
          UnitBatch,   \* new jurisdictions inserted by one commit
          Reader,      \* API requests
          None

Records(d, e) == 1 .. NRecords[d][e]

ASSUME CensusAssumption ==
    /\ State \subseteq Gov
    /\ NRecords \in [Dataset -> [Edition -> Nat]]
    /\ \A d \in Dataset : \A e \in Edition : \A i \in Records(d, e) : Key[d][e][i].gov \in Gov
    /\ BatchSize \in Nat \ {0} /\ UnitBatch \in Nat \ {0}
    /\ Units \in Seq(Gov)
    /\ Edition # {} /\ None \notin Dataset /\ None \notin Edition

VARIABLES
    release,    \* [Dataset -> DatasetRelease row]
    facts,      \* [Dataset -> set of <<edition, record>>], committed
    coverage,   \* [Dataset -> [Gov -> record_count]]
    registry,   \* DatasetRelease row of the registry
    created,    \* [Gov -> jurisdictions created for it]
    home,       \* [Gov -> the jurisdiction its identifier points at]
    name,       \* [Gov -> the name of that jurisdiction]
    loader,     \* local variables of the running ingestion
    reader      \* [Reader -> local variables and answer of a request]

storeVars == <<release, facts, coverage>>
registryVars == <<registry, created, home, name>>
vars == <<release, facts, coverage, registry, created, home, name, loader, reader>>

---------------------------------------------------------------------------
Idle == [pc |-> "idle", dataset |-> None, edition |-> None, pos |-> 0]

Init ==
    /\ release = [d \in Dataset |-> [status |-> "ABSENT", rows |-> 0, raw |-> None]]
    /\ facts = [d \in Dataset |-> {}]
    /\ coverage = [d \in Dataset |-> [g \in Gov |-> 0]]
    /\ registry = [status |-> "ABSENT", raw |-> FALSE]
    /\ created = [g \in Gov |-> 0]
    /\ home = [g \in Gov |-> "none"]
    /\ name = [g \in Gov |-> "none"]
    /\ loader = Idle
    /\ reader = [r \in Reader |-> [pc |-> "idle", dataset |-> None, gov |-> None, rows |-> {}]]

---------------------------------------------------------------------------
(* The registry: ingest_government_units_zip.                              *)

StartUnits ==
    /\ loader.pc = "idle"
    /\ loader' = [Idle EXCEPT !.pc = "units"]
    /\ UNCHANGED <<storeVars, registryVars, reader>>

Before(i) == {Units[j] : j \in 1 .. (i - 1)}

\* The government is new to the crosswalk and has no state's jurisdiction.
IsNew(i) == home[Units[i]] = "none" /\ Units[i] \notin State

\* A faulty variant: a government listed twice is inserted twice.
NewUnitsUnseen(from, to) == {i \in (from + 1) .. to : IsNew(i)}

\* The rows of a stretch of the file that create a jurisdiction.
NewUnits(from, to) == {i \in (from + 1) .. to : IsNew(i) /\ Units[i] \notin Before(i)}

\* A batch is full when it holds UnitBatch new jurisdictions; the last one
\* takes what is left.
IsBatch(from, to) ==
    /\ to \in (from + 1) .. Len(Units)
    /\ \/ to = Len(Units) /\ Cardinality(NewUnits(from, to)) < UnitBatch
       \/ Cardinality(NewUnits(from, to)) = UnitBatch /\ to \in NewUnits(from, to)

Rows(from, to, g) == Cardinality({i \in NewUnits(from, to) : Units[i] = g})

Listed(from, to) == {Units[i] : i \in (from + 1) .. to}

\* A state is linked to the jurisdiction it has.
Home(g) ==
    IF home[g] # "none" THEN home[g] ELSE IF g \in State THEN "own" ELSE "created"

\* A government that enters the crosswalk gets the registry's name, and so
\* does one whose name is a placeholder: no other name is in use.
Renamed(from, to) ==
    [g \in Gov |-> IF g \in Listed(from, to) THEN "official" ELSE name[g]]

\* The commit that ends a batch, and with the first one the release's
\* INGESTING status.
CommitUnits ==
    /\ loader.pc = "units" /\ loader.pos < Len(Units)
    /\ \E to \in 1 .. Len(Units) :
          /\ IsBatch(loader.pos, to)
          /\ created' = [g \in Gov |-> created[g] + Rows(loader.pos, to, g)]
          /\ home' = [g \in Gov |-> IF g \in Listed(loader.pos, to) THEN Home(g) ELSE home[g]]
          /\ name' = Renamed(loader.pos, to)
          /\ loader' = [loader EXCEPT !.pos = to]
    /\ registry' = [registry EXCEPT !.status = "INGESTING"]
    /\ UNCHANGED <<storeVars, reader>>

PublishUnits ==
    /\ loader.pc = "units" /\ loader.pos = Len(Units)
    /\ registry' = [registry EXCEPT !.status = "READY"]
    /\ loader' = [loader EXCEPT !.pc = "rawUnits"]
    /\ UNCHANGED <<storeVars, created, home, name, reader>>

\* register_file of the registry's archive.
RegisterRawUnits ==
    /\ loader.pc = "rawUnits"
    /\ registry' = [registry EXCEPT !.raw = TRUE]
    /\ loader' = Idle
    /\ UNCHANGED <<storeVars, created, home, name, reader>>

---------------------------------------------------------------------------
(* A finance archive: ingest_finance_zip.                                  *)

\* Faulty variants: the release stays READY; the old facts stay.
StartFinanceReady(d, e) ==
    /\ loader.pc = "idle"
    /\ facts' = [facts EXCEPT ![d] = {}]
    /\ coverage' = [coverage EXCEPT ![d] = [g \in Gov |-> 0]]
    /\ loader' = [pc |-> "records", dataset |-> d, edition |-> e, pos |-> 0]
    /\ UNCHANGED <<release, registryVars, reader>>

StartFinanceKeepFacts(d, e) ==
    /\ loader.pc = "idle"
    /\ release' = [release EXCEPT ![d] = [@ EXCEPT !.status = "INGESTING"]]
    /\ loader' = [pc |-> "records", dataset |-> d, edition |-> e, pos |-> 0]
    /\ UNCHANGED <<facts, coverage, registryVars, reader>>

\* INGESTING and the deletion of facts and coverage in one commit.
StartFinance(d, e) ==
    /\ loader.pc = "idle"
    /\ release' = [release EXCEPT ![d] = [@ EXCEPT !.status = "INGESTING"]]
    /\ facts' = [facts EXCEPT ![d] = {}]
    /\ coverage' = [coverage EXCEPT ![d] = [g \in Gov |-> 0]]
    /\ loader' = [pc |-> "records", dataset |-> d, edition |-> e, pos |-> 0]
    /\ UNCHANGED <<registryVars, reader>>

KeyOf(d, f) == Key[d][f[1]][f[2]]

\* uq_government_finance_fact_native
Unique(d, rows) == \A f, g \in rows : KeyOf(d, f) = KeyOf(d, g) => f = g

Batch == {<<loader.edition, i>> :
            i \in {i \in Records(loader.dataset, loader.edition) :
                      loader.pos < i /\ i <= loader.pos + BatchSize}}

Unknown == {g \in Gov : home[g] = "none" /\ \E f \in Batch : KeyOf(loader.dataset, f).gov = g}

\* Faulty variants: a committed batch stays pending; empty batches count.
FlushAgain ==
    /\ loader.pc = "records"
    /\ Batch # {}
    /\ facts' = [facts EXCEPT ![loader.dataset] = @ \cup Batch]
    /\ UNCHANGED <<release, coverage, registryVars, loader, reader>>

\* One batch: its facts, and placeholder jurisdictions for its governments
\* that are not in the crosswalk, states among them, in one commit.
Flush ==
    /\ loader.pc = "records"
    /\ Batch # {}
    /\ Unique(loader.dataset, facts[loader.dataset] \cup Batch)
    /\ facts' = [facts EXCEPT ![loader.dataset] = @ \cup Batch]
    /\ created' = [g \in Gov |-> IF g \in Unknown THEN created[g] + 1 ELSE created[g]]
    /\ home' = [g \in Gov |-> IF g \in Unknown THEN "created" ELSE home[g]]
    /\ name' = [g \in Gov |-> IF g \in Unknown THEN "placeholder" ELSE name[g]]
    /\ loader' = [loader EXCEPT !.pos = @ + BatchSize]
    /\ UNCHANGED <<release, coverage, registry, reader>>

\* A second row of a government and item code: the insert fails and with it
\* the ingestion.
RefuseDuplicate ==
    /\ loader.pc = "records"
    /\ Batch # {}
    /\ ~Unique(loader.dataset, facts[loader.dataset] \cup Batch)
    /\ loader' = [loader EXCEPT !.pc = "refused"]
    /\ UNCHANGED <<storeVars, registryVars, reader>>

Counted(d) == [g \in Gov |-> Cardinality({f \in facts[d] : KeyOf(d, f).gov = g})]

\* A faulty variant: the last, short batch is forgotten.
PublishFullBatches ==
    /\ loader.pc = "records"
    /\ loader.pos + BatchSize > NRecords[loader.dataset][loader.edition]
    /\ release' = [release EXCEPT ![loader.dataset] =
                      [status |-> "READY", rows |-> NRecords[loader.dataset][loader.edition], raw |-> @.raw]]
    /\ coverage' = [coverage EXCEPT ![loader.dataset] = Counted(loader.dataset)]
    /\ loader' = [loader EXCEPT !.pc = "raw"]
    /\ UNCHANGED <<facts, registryVars, reader>>

\* Coverage, READY and the counts in one commit.
Publish ==
    /\ loader.pc = "records"
    /\ Batch = {}
    /\ release' = [release EXCEPT ![loader.dataset] =
                      [status |-> "READY", rows |-> NRecords[loader.dataset][loader.edition], raw |-> @.raw]]
    /\ coverage' = [coverage EXCEPT ![loader.dataset] = Counted(loader.dataset)]
    /\ loader' = [loader EXCEPT !.pc = "raw"]
    /\ UNCHANGED <<facts, registryVars, reader>>

\* register_file of the raw archive.
RegisterRaw ==
    /\ loader.pc = "raw"
    /\ release' = [release EXCEPT ![loader.dataset] = [@ EXCEPT !.raw = loader.edition]]
    /\ loader' = Idle
    /\ UNCHANGED <<facts, coverage, registryVars, reader>>

\* The process ends: killed, out of disk, or after a refused insert.  What
\* was not committed is gone.
Stop ==
    /\ loader.pc # "idle"
    /\ loader' = Idle
    /\ UNCHANGED <<storeVars, registryVars, reader>>

---------------------------------------------------------------------------
(* A request: load_government_expenditure_partition.                       *)

SelectRelease(r, d, g) ==
    /\ reader[r].pc = "idle"
    /\ reader' = [reader EXCEPT ![r] =
                     IF release[d].status = "READY"
                     THEN [pc |-> "rows", dataset |-> d, gov |-> g, rows |-> {}]
                     ELSE [pc |-> "idle", dataset |-> None, gov |-> None, rows |-> {}]]
    /\ UNCHANGED <<storeVars, registryVars, loader>>

RowsOf(d, g) == {f \in facts[d] : KeyOf(d, f).gov = g}

SelectRows(r) ==
    /\ reader[r].pc = "rows"
    /\ reader' = [reader EXCEPT ![r].pc = "idle",
                                ![r].rows = RowsOf(reader[r].dataset, reader[r].gov)]
    /\ UNCHANGED <<storeVars, registryVars, loader>>

---------------------------------------------------------------------------
LoaderStep ==
    \/ CommitUnits \/ PublishUnits \/ RegisterRawUnits
    \/ Flush \/ RefuseDuplicate \/ Publish \/ RegisterRaw

Next ==
    \/ StartUnits
    \/ \E d \in Dataset, e \in Edition : StartFinance(d, e)
    \/ LoaderStep \/ Stop
    \/ \E r \in Reader : \/ \E d \in Dataset, g \in Gov : SelectRelease(r, d, g)
                         \/ SelectRows(r)

Spec == Init /\ [][Next]_vars

\* A running ingestion goes on.
FairSpec == Spec /\ WF_vars(LoaderStep)
---------------------------------------------------------------------------
Status == {"ABSENT", "INGESTING", "READY"}
Fact == Edition \X Nat

TypeOK ==
    /\ release \in [Dataset -> [status : Status, rows : Nat, raw : Edition \cup {None}]]
    /\ facts \in [Dataset -> SUBSET Fact]
    /\ coverage \in [Dataset -> [Gov -> Nat]]
    /\ registry \in [status : Status, raw : BOOLEAN]
    /\ created \in [Gov -> Nat]
    /\ home \in [Gov -> {"none", "own", "created"}]
    /\ name \in [Gov -> {"none", "placeholder", "official"}]
    /\ loader \in [pc : {"idle", "units", "rawUnits", "records", "refused", "raw"},
                   dataset : Dataset \cup {None}, edition : Edition \cup {None}, pos : Nat]
    /\ loader.pc = "units" => loader.pos <= Len(Units)
    /\ loader.pc = "records" => loader.pos < NRecords[loader.dataset][loader.edition] + BatchSize
    /\ reader \in [Reader -> [pc : {"idle", "rows"}, dataset : Dataset \cup {None},
                             gov : Gov \cup {None}, rows : SUBSET Fact]]
    /\ \A r \in Reader : reader[r].pc = "rows" => reader[r].dataset \in Dataset

Whole(d, e) == {e} \X Records(d, e)

\* The ingestion under way holds what it has read so far, and nothing else,
\* in a release that is not READY; its records are those of one archive.
LoaderProgress ==
    /\ loader.pc \in {"records", "refused", "raw"} =>
          loader.dataset \in Dataset /\ loader.edition \in Edition
    /\ loader.pc = "records" =>
          /\ release[loader.dataset].status = "INGESTING"
          /\ facts[loader.dataset] = {f \in Whole(loader.dataset, loader.edition) : f[2] <= loader.pos}

\* A READY release holds every record of one archive and says how many,
\* wherever earlier ingestions stopped.
ReadyIsComplete ==
    \A d \in Dataset :
        release[d].status = "READY" =>
            \E e \in Edition : facts[d] = Whole(d, e) /\ release[d].rows = NRecords[d][e]

\* The facts of a release are records of one archive, complete or not.
FactsOfOneEdition ==
    \A d \in Dataset : \E e \in Edition : facts[d] \subseteq Whole(d, e)

\* No answer adds up the records of two archives, whatever ingestion did
\* between the request's two statements.
AnswersOfOneEdition ==
    \A r \in Reader : \A f, g \in reader[r].rows : f[1] = g[1]

\* The inductive invariant of the finance archives and their readers.
CensusInv ==
    TypeOK /\ LoaderProgress /\ ReadyIsComplete /\ FactsOfOneEdition /\ AnswersOfOneEdition

\* A jurisdiction is created for a government at most once, and never beside
\* one that its identifier leads to, whichever file names the government
\* first, however often it is listed and however often ingestion stops and
\* starts again.  The formula counts created jurisdictions only: a state that
\* a finance file names before the registry does gets one next to the
\* jurisdiction it has of old, and its identifier leads to that one for good.
CreatedOnceAsHome == \A g \in Gov : created[g] = (IF home[g] = "created" THEN 1 ELSE 0)

\* A READY registry has left no placeholder name on a government it lists.
RegistryIsNamed ==
    registry.status = "READY" => \A i \in DOMAIN Units : name[Units[i]] = "official"

\* The coverage records count the facts there are while a release is READY,
\* and no coverage is claimed while it is not.
CoverageIsHonest ==
    \A d \in Dataset :
        coverage[d] = IF release[d].status = "READY" THEN Counted(d) ELSE [g \in Gov |-> 0]

\* What the registry, the crosswalk and the coverage say of a government agree
\* with each other and with its facts, in whatever order the archives come.
GovernmentRecordsAgree == CreatedOnceAsHome /\ RegistryIsNamed /\ CoverageIsHonest

\* A government with its official name is in the crosswalk, and the registry's reader has
\* named all it has read.
RegistryProgress ==
    /\ \A g \in Gov : name[g] = "official" => home[g] # "none"
    /\ loader.pc = "units" => \A j \in 1 .. loader.pos : name[Units[j]] = "official"

\* The inductive invariant of the registry, the crosswalk and the coverage.
RecordsInv == CensusInv /\ RegistryProgress /\ GovernmentRecordsAgree

\* An ingestion that is not stopped comes to its end.
IngestionEnds == (loader.pc # "idle") ~> (loader.pc \in {"idle", "refused"})

\* What the releases promise their readers (ReleaseStore).
Store == INSTANCE ReleaseStore WITH
            Type <- Dataset, Archive <- Edition,
            NParts <- [e \in Edition |-> [d \in Dataset |-> NRecords[d][e]]],
            visible <- [d \in Dataset |-> IF release[d].status = "READY" THEN facts[d] ELSE {}]

ImplementsReleaseStore == Store!Spec
=============================================================================
