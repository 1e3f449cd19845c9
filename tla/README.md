# TaxTrace in TLA+

TaxTrace turns a household's taxes into receipts: how much of each tax pays for
which federal account, state or local function. The repository holds a tax
engine, an allocation engine, ingestion of OMB, Treasury, USAspending and Census
sources, a lake of Parquet files beside a relational database, and an API that
reads both. The modules in this directory model its own core logic; the parts
they leave to others (PostgreSQL/SQLite, DuckDB, the USAspending service, the
file system) are modelled from how the code uses them.

Paths below are relative to `src/taxtrace` in the repository unless they start
with `docs/` or `apps/`; `wh/` stands for `warehouse_v2/`.

## 1. The system

| component | state it keeps | operations | interacts with |
|---|---|---|---|
| Account lake (`wh/usaspending_lake.py`, `wh/lake.py`) | `dataset_release` row per submission type and year, `bulk_object` rows, Parquet files | materialize an archive: take releases out of READY, convert and register each member, check counts, publish | account activation (writes), federal receipt and awards (read) |
| Lake readers (`wh/federal_receipt.py`, `wh/federal_awards.py`) | none between requests | select release, select objects, check files, scan | account lake, allocation engine |
| USAspending client (`wh/usaspending_bulk.py`) | jobs at the service, retry and poll counters | submit, status, wait, agency shards of File C, cache recovery, fallback archives, combine | account activation |
| Account activation (`wh/usaspending_accounts.py`, `wh/usaspending_file_c_release.py`) | two archives on disk, the reporting agencies read so far | A/B then C: submit, wait, combine, materialize; pinned File C release | client, account lake |
| Award lake (`wh/usaspending_awards.py`, `wh/usaspending_award_lake.py`) | award archives with the request recorded beside each (sidecar), releases by dates and scope, Parquet | request, download, classify members, materialize | client, lake, award detail |
| Award detail (`wh/federal_award_detail.py`) | none between requests | two releases, their objects and files, three queries | award lake |
| Census ingestion (`wh/census.py`, `wh/census_lake.py`, `wh/census_partition.py`, `wh/census_taxonomy.py`) | government units, finance facts, release and lake object | ingest units, ingest finance in batches, materialize a partition, classify additive functions | jurisdictional receipts, readiness |
| Native CSV ingestion (`wh/native.py`) | facts, Parquet file and release of one government's ledger | register, convert, replace the facts in batches | readiness |
| Product activation (`wh/product_activation.py`, `wh/cli.py`) | readiness computed from rows and files | check, import what is missing, check again | every ingestion |
| Snapshots (`finance/snapshot.py`) | files and `source_snapshot` rows | save bytes once per content | OMB, Treasury, USAspending sources |
| Downloads (`wh/download.py`) | `.partial` file, destination | stream, then rename; keep what is there | client, Census |
| Finance sources (`finance/sources/*`) | revenue, budget and outlay facts | fetch, normalize, reconcile | allocation |
| Allocation engine (`allocation/engine.py`) | none | map taxes to pools, weight pools by outlays, round to cents, group, trace provenance | tax engine, facts, receipts |
| Jurisdictional engine (`jurisdictional/*`) | none | state and local receipts, sales tax estimate | Census facts |
| Census taxonomy (`wh/census_taxonomy.py`, `wh/census_codes.py`) | tables of codes and categories | classify an item, partition a government's rows | Census facts, jurisdictional receipts |
| Tax engine (`tax/*`) | none | brackets, FICA, credits from versioned rules | allocation |
| Search index (`search.py`, `wh/federal_search.py`) | index rows | rebuild, query | API |
| API and web (`apps/*`), bootstrap (`dev_server.py`) | sessions | requests | all readers |

### What makes each part correct

* Account lake and readers: READY means every part of one archive, registered, whole
  and counted; an answer lacks no part of the release it found READY, and if nothing was
  given meanwhile each part is that archive's own.
* USAspending client: every agency is in the archive, from a finished job, the URL the
  service gave instead of one, or a verified archive, or the archive is refused; it always ends.
* Account activation: nothing is published from an archive that lacks a component, the
  fleet leaves out no abbreviation under which an agency reports, and success means A, B
  and C once each.
* Census ingestion: READY means every record of one archive; coverage counts what is
  there; at most one jurisdiction is created for a government, the one its identifier leads to.
* Product activation: a finished run leaves in place what it was to see to, wherever
  earlier runs stopped; it neither repeats nor withdraws what is ready.
* Snapshots and downloads: a file under a final name is whole and has the bytes its record says.
* Allocation, receipts and awards: every cent of a tax arrives in a node or in an explicit
  residual; rounding does not depend on row order; detail never exceeds its account.
* Award lake: as the account lake, with release keys that tell scopes apart; the bootstrap
  keeps an archive with its own request, and nothing else gives it another one but the user.
* Native ingestion: a ledger's facts are rows of one edition; READY means all of them.
* Tax engine and jurisdictional receipts: brackets, credits and the wage base meet without
  gap, overlap or a raise that lowers the tax; receipts add up to the cent.
* Taxonomy: every dollar of the formula is in exactly one category.
* Search, explorer, API: they show what a READY release holds and label what does not add up.

### What is hard about it

* A materialization is a series of separate commits and file writes of one
  process that may die between any two of them, while requests read the same rows
  and files in three steps of their own.
* A source release is identified by year, not by content: running the initializer
  again with a different archive writes over rows and files already published.
* The USAspending service caches requests, strands jobs, drops connections after
  having accepted a job, and reports `ready` before a file can be fetched.
* An archive does not say which request it answers. For award archives the file beside it
  does, if it was written, and the command that ingests a local archive takes the user's
  word; an account archive given without a request keeps the one its release has.
* Agencies are told apart by their abbreviation, while the list of them moves.
* Money is split by shares and must be whole again to the cent at every level.
* Readiness decides what to import, from rows and files that another run left.

## 2. Modules

| module | models | used by |
|---|---|---|
| `ReleaseStore` | abstract: what a dataset release promises its readers: nothing, or every part of one archive | implemented by `AccountLake`, `CensusIngest` and `AwardLake` |
| `AccountLake` | `materialize_account_archive`, `LakeStore` and the readers `_load_file_b/_c`, step by step | `MCAccountLake`, `AccountLakeProofs` |
| `FileCFleet` | the agency shards of File C against the service's job cache | `MCFileCFleet`, `FileCFleetProofs` |
| `AccountActivation` | A/B jobs, reporting agencies page by page, pinned or sharded File C, combination and publication | `MCAccountActivation`, `AccountActivationProofs` |
| `AwardLake` | requests, sidecars, classification, scope-aware releases, and the award detail that reads them | `MCAwardLake`, `AwardLakeProofs` |
| `CensusIngest` | registry and finance ingestion in batches, and a request that reads a partition | `MCCensusIngest`, `CensusIngestProofs` |
| `NativeIngest` | one ledger's release, Parquet file and batches of facts | `MCNativeIngest`, `NativeIngestProofs` |
| `ProductActivation` | the initializer: readiness, what is skipped, imported, mirrored and left behind | `MCProductActivation`, `ProductActivationProofs` |
| `LargestRemainder` | `_reconcile_parts` and `reconcile_parts` as operators | `ReconcileLoop`, `AllocationEngine`, `AwardProjection` |
| `ReconcileLoop` | the rounding loop one cent at a time | `MCReconcileLoop`, `ReceiptProofs` |
| `AllocationEngine` | tax to pools, pools to facts, purpose nodes, as operators | `FederalReceipt` |
| `AwardProjection` | File B children and File C parts of an account, as operators | `FederalReceipt` |
| `FederalReceipt` | one request's sequence of queries, interleaved with the re-ingestion of the outlays | `MCFederalReceipt`, `ReceiptProofs` |
| `TaxEngine` | a household's federal taxes, as operators | `Formulas` |
| `LocalReceipt` | sales tax estimate, receipts of the state and the county, as operators | `Formulas` |
| `CensusTaxonomy` | formula, categories and the partition of a government's rows, as operators | `Formulas` |
| `Formulas` | one question to these engines and its answer | `MCFormulas`, `ReceiptProofs` |

The `MC*` modules give the constants that are not model values; the definitions
called faulty variants beside an action are plausible bugs, each used to show
that a property notices it.

### How they correspond to the code

**`AccountLake`.** `release`, `objects` and `files` are the `dataset_release` row,
the `bulk_object` rows and the Parquet files of each submission type; the file of
a part holds the archive it was written from, `Partial` or `None`. `Start` is the
first commit of `materialize_account_archive`, which takes the release of every
type in the archive out of READY and records the request it was given, if one was given;
without one the release keeps the request of an earlier archive, or none. `Given` are the
pairings of archives, requests and official counts that occur, `FullYear` the requests for
twelve periods and `WholeYear` the archives that hold them. `BeginCopy`, `FinishCopy`, `RegisterPart` are
one member's conversion and its own commit; `PublishType` and `RefuseCounts` the
end of a type. A request reads in the code's three steps: `SelectRelease`,
`SelectObjects`/`CheckLocal`, `Scan`. `Stop` ends the process anywhere;
`LoseLake` is the container that comes up without its volume. Left out: the raw
archive's own object, the staging files, the SQL of the aggregation, and
`account_codes` being empty, which answers without reading anything. That DuckDB's
`COPY` writes a new file in place and replaces an existing one through a temporary
file is taken from DuckDB, not from this code.

**`FileCFleet`.** Each agency has a canonical request and variants with another
column order; `job[a][c]` is what the service holds for it. The service is
external: a submission may meet a cached, stranded, finished or no job, its answer may
be lost, name no job or only a URL, and a status may not be readable. `WaitUnnamed` is what
`wait` makes of an answer that names no file: complete at once if it has a URL, whatever the
service does, else an error. `Probe`, `NextCandidate`, `Again`, `Raise`
and `Complete` are the branches of `_submit_file_c_shard`, `_submit_one` and
`_submit_file_c_agency_shards`.

**`CensusIngest`.** A fact is a pair of an archive and a record number, so that
mixtures show. `Flush` is one committed batch; `StartFinance` the commit that
deletes the earlier facts and the coverage; `Publish` the aggregation into
coverage and READY; `RefuseDuplicate` the unique constraint. `home`, `created` and
`name` are the jurisdiction a government's identifier leads to, how many were
created for it and whether it has its official name. A request selects the release
and, in another statement, the rows. Within a dataset key the unique constraint
includes the dataset release, so one dataset in the run stands for any number.

**`ProductActivation`.** One run at a time, with its options, at a program
counter; `disk`, `mirror`, `snapshot` and `account` are files and releases,
`release` and `rows` the database. The imports of the Census and of the core are one step
from INGESTING to READY: the other modules show what happens inside. Of an account type the
parts of the archive in hand, the registered objects and the files are counted, since a
readiness check wants every registered object local, left-overs of a larger archive included;
`MaxParts` bounds the parts of an archive. Requests are here always for twelve periods, and an
archive holds each of its types. Whether a source has enough rows is one Boolean: the least
counts of OMB's and Treasury's rows (`wh/product_activation.py`, 10 and 500) are not told
apart from none, and an edition of the Census archives is to scale or not. OMB's two workbooks are one
snapshot, the seed of catalog and methodology and the reconciliation at the end
of the federal core are left out (they write constants and one derived row), and
`rebuild_search_index` counts as built from OMB's rows. A response fetched again is
taken to be the same bytes.

**`AccountActivation`.** A component archive is a submission type and the agency it was
asked for; the combined ZIP is the set of components added so far and whether it was
closed, in place of the earlier file of that name. `Fail` is an exception, which leaves
the `with` block and closes the ZIP as it is; `Die` leaves it open. `ReadPage` reads one
page of an overview that moves meanwhile: agencies are listed, submit and leave it
(`Leave`). It keeps an agency by its abbreviation, as the code's dictionary does, so that
a later one takes an earlier one's place. The overview's order is by agency code, and a row
without a code or an abbreviation is refused like an agency without an identifier (`Fail`).
`run.owed` is a history: the agencies that had published when the first page was asked for,
as long as none has left since. An agency that leaves between two pages moves the others to
earlier places, where the code does not look again; nothing is said of such a reading. How one shard is obtained is `FileCFleet`'s
matter, and the conversion inside `PublishType` is `AccountLake`'s, so both are one step
here. The pinned release's entry is none, valid or invalid.

**`AwardLake`.** A Parquet file's content is the archive AND the request it was converted
under, so that a wrong sidecar shows. `IngestArchive` is the command for a local archive,
which takes any request file for any archive and reads no sidecar; `Given` are the wrong
pairings the run tries beside the right ones. `Classify`, `ReleaseKey` and `CoverageType` are the
code's functions of columns and payload; members are sets of column names. `unvouched` is a
history variable: the pairings of an archive and a request that nothing but a user vouches
for, and every pairing of an archive whose download died before its sidecar was written. `Query` fails on a missing or half-written file and on one
without the key column. Left out: staging files, row counts (no official count is
compared), the crosswalk's validators, which nothing calls; the order in which the
datasets of an archive are worked through is left open.

**`NativeIngest`.** `facts` are the committed rows, `session` what the open transaction
deleted and added: the deletion of the earlier rows is committed with whichever batch
comes first. A row has an amount, none, or one that cannot be parsed.

**`Formulas`.** Each operator is a function of the code without its texts. Wages,
thresholds and credits are whole dollars, tax amounts ten-thousandths of a dollar, in
which a rate applied to a dollar is exact; sales taxes are in cents and the yearly spending
totals of the profile in thousands of dollars. `Money` is ROUND_HALF_UP where the code
quantizes. All amounts of the instance stay below 2^31.

**`FederalReceipt` and its operators.** The request computes one pool per query
(`ComputeBasePool`), then the account bridge computes the same pools again
(`ComputeDetailPool`), then projects awards; `ReplaceOutlays` commits another
workbook between any two of them. Decimals (28 digits) are exact fractions; ids of
replaced facts are never used again, as with a PostgreSQL sequence; OMB rows are the
ACTUAL ones. `LargestRemainder` keeps the code's order of moving cents: largest
remainder first to give, smallest first to take, ties by position (by key in the
jurisdictional version). Where the code sorts the row numbers, `Place` counts the rows
that come before one and `Sorted` puts each where its count says: the same sequence,
since the sort key is a strict total order (lemma `BeforeIsTotal`). The empty list of
parts, which the code returns at once, is not among `ReconcileLoop`'s cases.

## 3. What the runs check

Runs that must pass:

| run | instance and bounds | what it shows |
|---|---|---|
| `rerun` | 2 archives with different member counts, one failing its official count, given with a full-year or a shorter request or with none; 2 types, 2 parts, 3 materializations, 1 lost volume, 1 request (530,000 states) | READY is complete and of one archive; an answer has every part of the release it found, and if nothing was given meanwhile, all of that archive's own; no scan fails while the volume is kept; the lake implements `ReleaseStore`; every materialization ends |
| `shards` | 2 agencies, one with a verified archive, 2 variants, 2 attempts, 1 poll; answers with a file name, with a URL alone, or neither (1,490,000 states) | complete or refused, responses finished or named by a URL, always ends |
| `activation` | 3 agencies, one unknown to the reference, two under one abbreviation, on pages of one; agencies appear, submit and leave; 1 stray type; activations, failures and deaths without bound (1,160,000 states) | the fleet has every abbreviation under which an agency had published, READY only from whole archives, success is exactly A, B and C, an activation ends |
| `awards` | an annual, a prime-only, an agency-limited and a part-year request, 5 archives (one without its key column, one with a stray member), two of which a user also ingests under requests they do not answer, 2 file names, 2 downloads or ingestions, 1 lost volume, 1 request (378,000 states) | releases are complete and of one key, an archive is registered under another's request only where a user named it or its sidecar was never written, a detail is of full-year requests only, implements `ReleaseStore` |
| `batches` | 4 governments (one a state), 3 archives (one revision, one with a repeated key), batches of 2, any number of ingestions and crashes, one request | READY is one whole archive, nothing mixed, registry, crosswalk and coverage agree with the facts, an ingestion ends, implements `ReleaseStore` |
| `ledgers` | 3 editions of a ledger (ending inside a batch, with one, and on a bad row), batches of 2, any number of ingestions, options and ends | a READY ledger is whole, facts are never of two editions |
| `rounding` | all splits of -5, 0, 1 and 7 over up to 3 outlays in -2..3; shares that do not add up; the unit test's case | conserves, within a cent and in order, independent of row order; the loop, its closed form and the jurisdictional engine agree |
| `reingest` | 4 tax results, 5 pools (two sharing their facts, one without a rule), 3 workbooks, 2 re-ingestions between any two queries | pools and purposes conserve, refused only for unmapped revenue, awards never exceed their account |
| `reruns` | 3 runs of the initializer with any options, ending anywhere; 1 revision, 1 lost volume, a full and a small edition, account archives of one or two budget files (10,500,000 states) | what a finished run was to see to is ready, registered or repaired, mirrors agree, idempotent when ready |
| `calculations` | wages a dollar around the boundaries of the 2026 rules below 560,000 dollars (370,000 for joint filers), four statuses, dependents; all ledgers of up to 3 rows over 9 codes and spellings, 2 years | each dollar is taxed at its rate, no raise lowers the tax, allocated taxes are the liability, receipts and partitions add up and which of their amounts are negative, the taxonomy's tables agree |

Why these bounds are enough to meet the cases: a left-over part needs an archive
with two members and one with fewer; a mixture needs two archives and a third
materialization to repair it; a refusal after a publication needs two types; two
agencies are the smallest fleet in which one follows another that left by each way
out, and one variant tried after another needs two; batches of two with three
records give a full batch, a rest and a record that repeats one of an earlier batch;
three outlays give a residual of more than one cent with ties of both signs; three
initializer runs are one that is cut short, one that repairs and one that finds
everything there. `Census` ingestions are not bounded at all: their state space is
finite. The same holds of `activation` and `ledgers`. Three agencies on pages of one are two page
breaks, so that an agency can be added before, on and after the page in hand. Two award
ingestions suffice for one archive over another's name, key or files; with three the state
space grows beyond the time of a run. The wages of `calculations` are those whose amounts fit
TLC's integers, so it meets neither the 37% bracket nor the higher bounds and the phase-out of joint
filers; theorems cover them. `ReconcileLoop`'s cases and the questions of `Formulas`
are initial states of one run each.

Two runs must each find a counterexample, to a statement of the repository:

| run | statement | what happens |
|---|---|---|
| `withdrawn` | "It skips expensive national imports that are already present" (`docs/REAL_DATA_ACTIVATION.md:44`) | a run that misses only the 2024 sample imports the READY 2022 releases again and withdraws them meanwhile |
| `stand_in` | "partial-period federal bulk releases cannot silently stand in for full-year personalization" (`docs/METHODOLOGY.md:241`) | an archive of some periods is ingested without `--request-json`, and answers under the twelve-period request an earlier archive left in the release |

Seen while modelling, explained here and not kept as runs:

Where a document or a comment says otherwise:

* `docs/REAL_DATA_ACTIVATION.md:62` "The initializer is safe to rerun": an account archive
  of fewer members leaves the earlier archive's last part registered, and readers, which
  take every PARQUET object of the release, add it in.
* `wh/federal_receipt.py:88` "File B is used only to partition an already-attributed account
  amount": the accounts are attributed a second time, and a re-ingestion in between
  gives other amounts than the published base receipt.
* `docs/REAL_DATA_ACTIVATION.md:25-30`, national readiness "requires [...] READY release metadata
  and local normalized data objects": it is decided by status and row counts
  (`wh/product_activation.py:165-179`). After a lost volume the nation is ready without a mirror on
  disk, and a mirror's object counts as there, so that no run writes it again.
* `docs/DATA_SOURCES.md:61` "every agency is still required": of two agencies that publish under
  one abbreviation the fleet has a shard for the later only (`wh/usaspending_bulk.py:353`);
  `FleetCoversReporting` is therefore about abbreviations.
* `docs/METHODOLOGY.md:247`, partitions "conserve their government-level source rows
  exactly": the release is selected READY, the next ingestion deletes the rows, and the
  partition is built from none or some. For the same reason a request can check the period of
  one account archive's release and read the next one's parts (`docs/METHODOLOGY.md:241`):
  `AnswersAreWhole` lets a part be another archive's when one was given meanwhile. `stand_in`
  shows that it can go wrong with nothing given meanwhile too.
* `docs/architecture/ADR-002-immutable-source-snapshots.md:7` "archive raw bytes by
  SHA-256": a write cut short is kept under the whole content's name and cited by
  later rows.
* `docs/METHODOLOGY.md:235` speaks of immutable content identity; `register_file`
  replaces the hash of a path that is converted again, and a new combination of an account
  archive overwrites in place the raw ZIP that a READY release registered.
* `docs/CENSUS_ADDITIVE_TAXONOMY.md:80` has repeated rows combined; the relational
  ingestion refuses them.
* `allocation/engine.py:249` says no facts matched for every pool without allocations,
  which includes pools with a zero contribution or cancelling outlays.
* `wh/usaspending_bulk.py:564` wants one File C agency job outstanding at a time; an
  agency replaced by its verified archive after a timeout leaves its job running.

Where nothing is promised, but a reader of the code should know:

* An award archive with fewer members, or without one family, leaves earlier parts of the
  same key registered (`wh/usaspending_award_lake.py:349`): a detail reads a transaction
  twice. `AwardReleaseComplete` says what bounds it, the release key.
* A member is classified by `award_id_piid` without the canonical key column
  (`wh/usaspending_award_lake.py:109`); its release becomes READY and every detail request
  of the year raises. The crosswalk's `validate_award_columns` would refuse it.
* An error while components are combined (`wh/usaspending_bulk.py:775`) leaves a ZIP that opens
  and looks complete. The activation never publishes it; the command
  `ingest-usaspending-accounts` would take it.
* The overlap check and the check for exactly A, B and C come after the releases were
  committed: a refused activation has published what it refuses.
* A native ingestion that materializes no rows, after one that failed between batches,
  makes the release READY with the first rows of an earlier edition as its facts (`wh/native.py:129`).
* `allocation/engine.py:334` sums the government base over fact ids: with a
  re-ingestion between two pools, the facts of two pools that share a base have
  different ids and the base counts twice.
* Finance imported before the registry creates a jurisdiction for a state beside the one
  that the reference data gave it (`wh/census.py:406`). `GovernmentRecordsAgree` says that no
  more than one is created and that the identifier leads to it; it does not exclude the pair.
* An account object of a larger archive whose file went with the volume stays registered; the
  type is then never ready again, however often the initializer runs
  (`wh/product_activation.py:104`). `FinishedMeansReady` names this exception.
* `ingest-usaspending-awards` takes any request file for any archive (`wh/cli.py:276`), so the
  full-year test of a detail is as good as what the user named.
* A mirror registered before `--overwrite-downloads` is never written again (`wh/product_activation.py:289`).
* `taxonomy_audit` keeps the first category of a code and could not report a second.

Hazards for which no property is claimed: two loaders of one release at once
(`wh/census.py:453`), the state's second jurisdiction (`wh/census.py:406`), a download that never ends because it has no read timeout
(`wh/download.py:39`), shares of revenue pools that are checked only at start-up
(`dev_server.py:92`).

### Fairness and deadlock

Liveness is checked for the steps of one process and for nothing else:
`WF_vars(WriterStep)`, `WF_vars(ClientStep)` and `WF_vars(LoaderStep)` say that a
running process takes its next step; crashes, losses, re-ingestions and the service
are not fair. The code is sequential there and every wait has a bound, with one
exception: `stream_download` has no read timeout, so the fairness of a download is
the server's. `FairSpec` of `AccountActivation` therefore leaves the service's jobs
unfair: what ends a wait is the bound on polls. `AwardLake`, `NativeIngest`,
`ProductActivation` and `FederalReceipt` claim no liveness; `Formulas` has none to claim.
`FileCFleet`, `ProductActivation` and `Formulas` are checked without the deadlock check: a
fleet ends, the runs of the initializer are bounded, and a question has one answer.

## 4. What is proved

All for any values of the constants under the named assumptions, which TLC evaluates in every
run: `ConstantsAssumption` (members are counted, full-year requests are requests, what is
given pairs archives with requests or none, the markers are none of them), `FleetAssumption` (positive bounds, fallback
archives of agencies), `CensusAssumption` (records belong to governments,
positive batch sizes), `LedgerAssumption` (a ledger is a sequence of rows of three
kinds, positive batch size), the two `ActivationAssumption`s (agencies are numbered by their
code and each has an abbreviation, known agencies are agencies, strays are types of components;
the editions to scale are editions, an archive may have at least one part of each type), `AwardLake`'s own `ConstantsAssumption` and `PartsAssumption` (an award request
asks for prime or sub-awards, an archive was generated for one request, a user pairs archives
with requests, no archive has more
parts of a dataset than the bound, the markers are no archive's content), `CasesAssumption` (whole
numbers, a denominator that is not zero, at least one share), `EngineAssumption` (finitely many
revenues and pools, mappings and rules are rows of these) and `ReceiptAssumption` (taxes are
amounts of zero or more, workbooks are rows of signed outlays, File B and File C have a
list of amounts, if only an empty one, for each account). The formulas have four:
`RulesAssumption` (the bounds of each schedule ascend from above zero and only the last band
has none, amounts and rates are not negative, the phase-out has an increment),
`WholePercentAssumption` (brackets tax in whole percents), `ProfileAssumption` (the estimator
has a quintile, its amounts are not negative, its units not zero) and `QuestionsAssumption`
(households have whole dollars and children, a ledger is a sequence of rows, the state's
expenses do not add up to zero, by which `_state_receipt` divides). The code checks none of
the rules and the profile: it trusts the files under `data/`, and those of 2026 are what TLC
evaluates the assumptions on. The whole percents are needed because
`_ordinary_income_tax` rounds: at a rate of half a percent a dollar more could be a cent more
or none.

* **`AccountLakeProofs`.** `LakeInv` is inductive and implies `TypeOK`,
  `ReadyReleaseComplete`, `RegisteredObjectsAreWhole` and
  `NoScanErrorWithVolume`; the lake implements `ReleaseStore`
  (`PublishesWholeArchives`). `ReadyReleaseComplete` alone is not inductive:
  publishing needs to know that every part up to the present one was registered from the
  archive in hand (`WriterProgress`), and that a type still to do is not READY; a
  scan needs the files that were checked to be whole still (`ReaderProgress`).
  `AnswersAreWhole` needs to know what a request in the middle of its steps has found
  (`RequestProgress`): every part of the release it selected was registered then, objects are
  replaced and never removed, so the keys it has collected include those parts; and if
  no materialization was started meanwhile, the release is the one it selected. It is proved
  for any archives and any number of materializations (`AnswersHoldWholeArchives`), and says
  nothing of the period: which request a release records depends on what the operator gave
  (run `stand_in`).
* **`AwardLakeProofs`.** `AwardInv`, hence `AwardReleaseComplete`, `ProvenanceHolds`,
  `DetailIsFullYear` and the implementation of `ReleaseStore`. What is registered under a
  key comes from a request with that key. That its archive was generated for that request,
  unless nothing but a user vouches for the pair, needs the sidecars to fit the archives on
  disk (`SidecarsFit`); of an archive without a sidecar nothing is vouched for; and the rows a detail has read
  are of full years because the releases it selected are (`RowsOfTheYear`).
* **`FileCFleetProofs`.** `FleetInv`: an answered shard has been asked for under every
  candidate it passed over (`ShardProgress`), and an answer by a URL alone is recorded under the
  candidate in hand like one of a finished job, from which `CoversEveryAgency` and
  `ResponsesAreFinished` follow for any number of agencies, variants, attempts and polls.
* **`CensusIngestProofs`.** `CensusInv`: what an ingestion has inserted so far is what
  it has read so far (`LoaderProgress`), the facts of a release come from one archive
  (`FactsOfOneEdition`), hence `ReadyIsComplete`, `AnswersOfOneEdition` and the
  implementation of `ReleaseStore`. `RecordsInv` adds the registry: a government with
  its official name is in the crosswalk, and the registry's reader has named all it has
  read (`RegistryProgress`); hence `GovernmentRecordsAgree`, of whose parts
  `CreatedOnceAsHome` speaks of the jurisdictions an ingestion has created and of no other.
* **`NativeIngestProofs`.** `LedgerInv`: between its batches the transaction in hand sees
  exactly the rows read so far (`SessionProgress`), and what is committed are the first
  rows of one edition (`FactsAreFirstRows`), hence `LedgerOfOneEdition`, and `ReadyLedgerIsWhole`
  for a ledger whose rows were materialized: one made READY without them keeps the facts it had. Neither is inductive alone: the facts at the last commit are those
  of the batches before it, and the count is that of the rows added.
* **`AccountActivationProofs`.** `ActivationInv`: what is waited for, downloaded and added
  to the archive in hand makes up what was asked for (`ArchiveProgress`), pinned and
  sharded File C never share a file (`FileProgress`), and what the activation has made
  is READY until the next archive is materialized (`DidProgress`); hence
  `PublishedFromWholeArchives` and `SuccessIsExactlyABC` for any number of agencies.
  `SuccessIsExactlyABC` needs all three: that A and B are in the one archive and C in the
  other follows from what was asked for, and only then do the two checks at the end leave
  exactly three types. `FleetCoversReporting` needs the pages (`PagesProgress`): an
  agency that had published when the first page was asked for and now stands on a page
  already read has been read, or one under its abbreviation has, because an agency added
  meanwhile only pushes others to later places (an agency that leaves empties `owed`). That a
  page keeps an agency of every abbreviation is that one of them is its last (`LastAgency`,
  `PagesKeepNames`).
* **`ProductActivationProofs`.** `ActivationInv`: each stage finds on disk what it needs (`InOrder`), what was imported
  and mirrored is of the archive on disk unless a run was told to overwrite it
  (`OfTheArchive`), a published type has parts, each with an object, and the objects their files
  while the volume is kept (`PartsRegistered`), what the stages before have done, Census, mirrors,
  core and accounts, stays done (`StagesDone`), and a run
  that found nothing missing has nothing to do (`NothingToDo`). Hence
  `MirrorAgrees`, `FinishedMeansReady` and the action property `IdempotentWhenReady`, for
  any editions and any number of runs that end anywhere.
* **`ReceiptProofs`, the rounding loop.** `LoopInv`: row i has its floor and one cent for each of its
  turns so far, and its turns are the rounds completed plus one if its place has come
  (`EachInTurn`). Hence, for any number of rows of either sign, `Conserves`;
  `WithinACent`, as what is left of exact shares is fewer cents than there are
  rows with a remainder; `EnginesAgree`; and `RowOrderFree`, as without ties a row keeps its
  place under any permutation. The sums rest on a small theory at the head of the module:
  induction over `0 .. n` and over the subsets of a finite set, stated for a set in place of a
  predicate and derived from the library's least-element theorem; that the
  recursive function under `SumFunction` exists and is unique; and that a sum may be taken in
  any order, is linear, bounded and invariant under a permutation.
* **`ReceiptProofs`, the federal receipt.** `ReceiptInv`: the facts in the database have ids of their
  own; each pool computed so far has the contribution of the tax and either an allocation for each
  of its eligible facts or none (`Computations`); a base receipt that was not refused has computed every
  pool of the whole tax (`BaseConserves`); an account node has the amount and the File B outlays
  it is divided by, and published awards are within it (`AccountsAreNodes`).
  It says nothing of which facts a pool has read, which is why re-ingestions between two
  queries do no harm. Hence `PoolsConserve`, `PurposeConserves`, `RefusedOnlyUnmapped` and
  `AwardsWithinAccount` for any mappings, rules, workbooks and number of re-ingestions. The
  distinct ids matter: allocations are collected in a set, and two facts alike in everything
  would become one. The steps are that rounding conserves (`PartsConserve`, which
  takes the loop's argument to the closed form), that a tax mapped by shares arrives whole
  (`MappedAmountsConserve`, `MappedTaxIsWhole`: a sum by revenue is the sum by pool, `SumExchanged`), that a
  pool's contribution arrives in its facts (`SpreadConserves`), that grouping by function, purpose or
  account keeps sums (`SumByKey`, `GroupedAmount`, `AmountByAccount`), and that a split in two with
  weights of one sign stays within the amount (`DividedInTwo`). `RefusedOnlyUnmapped` needs all of
  them: no guard of the code that compares two totals can fail except the one on unmapped tax.

* **`ReceiptProofs`, the formulas.** `FormulasInv` only says that an answer is the one its
  question has; the work is in the lemmas about the operators.
  `EachDollarAtItsRate`: two incomes a dollar apart are taken through the bands together. Up
  to the band of the dollar they are taxed alike (`TaxedAlike`), from there on nothing is left
  of either and the dollar has been taxed once at that band's rate (`DollarTaxed`); one band
  leads from these to these (`NextBand`), so that one of them holds after the last, where it
  can only be the second (`OneMoreDollar`). `MoreWagesMoreTax`: the credit
  falls as its quotient rises (`CreditFalls`), the payroll taxes rise (`PayrollTaxesRise`),
  rounding keeps the order (`MoneyIsMonotone`). `AllocatedIsTheLiability`: the income tax
  after credits is in whole cents (`BandsInCents`, `TaxAfterCredits`), so three roundings
  stand against one and the difference, a number of cents within two of them, is one at most
  (`ThreeRoundings`). `ReceiptsAddUp`: on exact shares the jurisdictional engine's single
  pass is the allocation engine's rounding (`KeyedIsParts`), whose conservation is already
  proved, and no part of an amount of zero or more is negative (`KeyedConserves`). The three
  pools of the surtax have amounts of zero or more, and a state's node is negative only if its expense and
  the state's total have opposite signs (`KeyedSign`, `StateReceiptSign`).
  `PartitionConserves`: the sum by row is the sum by code and that the sum by category
  (`CodesAddUp`, `NodesAddUp`, by `SumByKey`), a code tells its category's key and no
  two categories share one (`KeyOfItem`). `TaxonomyTablesAgree`: the tables of
  `wh/census_taxonomy.py` are expanded entry by entry (`ListsOfCategories`,
  `FunctionHasOneCategory`), so that it holds of every ledger and not only of the codes of the run.

The inductive invariants, `TypeOK` and `RegisteredObjectsAreWhole` are not repeated in
the runs; they hold by these theorems.

Only model-checked is liveness (`MaterializationEnds`, `FleetEnds`, `ActivationEnds`,
`IngestionEnds`), which needs fairness and ENABLED. Every other property of a passing run is
stated by a theorem.

## 5. What is not modelled

* Parsing of workbooks, archives and CSV, ranking of search results, labels,
  provenance texts, confidence grades: data, without an order of events.
* Two initializers or two loaders at once: the Compose stack starts one, nothing in
  the code excludes another and no document says what should happen.
* API and web application, migrations, packaging.
* The city's reference figures, which are read and shown without a calculation, and
  fixtures.
* The dataset catalog, the reconciliation of OMB with Treasury and the search index: each
  is computed and written in one transaction; the place of the index in an activation is
  part of `ProductActivation`.
* The USAspending API source (pagination and upserts of dimensions in one transaction),
  the explorer (reads of one committed year), the command lines and the bootstrap.

## 6. Plan

The order was: the lake and its readers, the fleet, the receipts, the Census, the
initializer; then the activation of account files, the award lake, native ledgers and
the pure calculations; then the proofs of all of these. What is left are the bootstrap of
fixture layers and the readers of the federal search, neither of which is modelled.
