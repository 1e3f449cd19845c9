------------------------- MODULE ProductActivation --------------------------
(***************************************************************************)
(* The product initializer (warehouse_v2/product_activation.py): one run   *)
(* of activate_product_data looks at what is there, imports what is        *)
(* missing and mirrors it, and can end anywhere; later runs find what it   *)
(* left on the volume and in the database.                                 *)
(*                                                                         *)
(* A Census import is one step from INGESTING to READY here, and a part's   *)
(* file and its object are one step: CensusIngest and AccountLake take     *)
(* them apart.                                                             *)
(***************************************************************************)
EXTENDS Naturals, Sequences

CONSTANTS Edition,       \* the archives a Census source may publish
          Full,          \* those of the validated national scale
          None, Partial, \* no file; a file cut short
          MaxParts,      \* [Account -> the members of one type an archive may have]
          MaxRuns, MaxRevisions, MaxLosses

ASSUME ActivationAssumption ==
    /\ Full \subseteq Edition
    /\ None \notin Edition /\ Partial \notin Edition /\ None # Partial
    /\ MaxParts \in [{"A", "B", "C"} -> Nat \ {0}]
    /\ MaxRuns \in Nat /\ MaxRevisions \in Nat /\ MaxLosses \in Nat

\* The Census sources in the order of import; the last two have a mirror.
Order == <<"units", "finance22", "finance24">>
Source == {"units", "finance22", "finance24"}
Finance == {"finance22", "finance24"}
Core == {"treasury", "omb"}
Account == {"A", "B", "C"}

VARIABLES
    source,    \* [Source -> the edition published now]
    disk,      \* [Source -> downloaded archive]
    release,   \* [Source -> status, and the edition of its rows]
    mirror,    \* [Finance -> the Parquet file, and its registered BulkObject]
    snapshot,  \* [Core -> the archived response: None, Partial or "whole"]
    rows,      \* [Core -> real rows are committed, as many as readiness asks for]
    index,     \* the search index was built from OMB's rows
    account,   \* [Account -> full-year release READY; parts converted for it;
               \*  objects ever registered, and those with a file: 1 .. each]
    run,       \* options and progress of the run at work
    runs, overwrote, revisions, losses

data == <<disk, release, mirror, snapshot, rows, account>>
history == <<runs, overwrote, revisions, losses>>
vars == <<source, data, index, run, history>>

---------------------------------------------------------------------------
Option == [overwrite : BOOLEAN, sample : BOOLEAN, core : BOOLEAN, accounts : BOOLEAN]

Idle == [option |-> [overwrite |-> FALSE, sample |-> FALSE, core |-> FALSE, accounts |-> FALSE],
         pc |-> "idle", k |-> 1, ready |-> FALSE]

Init ==
    /\ source \in [Source -> Full]
    /\ disk = [s \in Source |-> None]
    /\ release = [s \in Source |-> [status |-> "ABSENT", edition |-> None]]
    /\ mirror = [f \in Finance |-> [file |-> None, object |-> None]]
    /\ snapshot = [c \in Core |-> None]
    /\ rows = [c \in Core |-> FALSE]
    /\ index = FALSE
    /\ account = [t \in Account |->
                    [published |-> FALSE, parts |-> 0, objects |-> 0, files |-> 0]]
    /\ run = Idle
    /\ runs = 0 /\ overwrote = FALSE /\ revisions = 0 /\ losses = 0

---------------------------------------------------------------------------
(* Readiness.                                                              *)

\* A release counts when READY and, for the national baseline, at scale.
Ready(s) ==
    /\ release[s].status = "READY"
    /\ s \in {"units", "finance22"} => release[s].edition \in Full

NationalReady == Ready("units") /\ Ready("finance22")

CensusMissing(o) == ~NationalReady \/ (o.sample /\ ~Ready("finance24"))

\* Every registered object must be there, those of earlier archives included.
AccountReady(t) ==
    /\ account[t].published /\ account[t].objects > 0
    /\ account[t].objects <= account[t].files

SourcesReady == \A t \in Account : AccountReady(t)

Mirrored(o) == IF o.sample THEN Finance ELSE {"finance22"}

\* Whether there is nothing for a run with these options to do.
NothingMissing(o) ==
    /\ ~CensusMissing(o)
    /\ \A f \in Mirrored(o) : mirror[f].object # None
    /\ o.core => \A c \in Core : rows[c]
    /\ o.accounts => SourcesReady

---------------------------------------------------------------------------
(* A run.                                                                  *)

Working == run.pc \notin {"idle", "done", "failed"}

At(pc) == run.pc = pc
Go(pc) == run' = [run EXCEPT !.pc = pc]
GoTo(pc, k) == run' = [run EXCEPT !.pc = pc, !.k = k]

\* A faulty variant: told to overwrite, the run imports whatever is there.
StartAnew(o) ==
    /\ ~Working /\ runs < MaxRuns
    /\ runs' = runs + 1
    /\ overwrote' = (overwrote \/ o.overwrite)
    /\ run' = [option |-> o, ready |-> NothingMissing(o),
               pc |-> IF o.overwrite \/ CensusMissing(o) THEN "fetch" ELSE "mirror",
               k  |-> IF o.overwrite \/ CensusMissing(o) THEN 1 ELSE 2]
    /\ UNCHANGED <<source, data, index, revisions, losses>>

\* The readiness found first decides over the import of all Census sources.
Start(o) ==
    /\ ~Working /\ runs < MaxRuns
    /\ runs' = runs + 1
    /\ overwrote' = (overwrote \/ o.overwrite)
    /\ run' = [option |-> o, ready |-> NothingMissing(o),
               pc |-> IF CensusMissing(o) THEN "fetch" ELSE "mirror",
               k  |-> IF CensusMissing(o) THEN 1 ELSE 2]
    /\ UNCHANGED <<source, data, index, revisions, losses>>

Current == Order[run.k]
Last == IF run.option.sample THEN 3 ELSE 2

\* A faulty variant: what is on disk is fetched again.
FetchAlways ==
    /\ At("fetch")
    /\ disk' = [disk EXCEPT ![Current] = source[Current]]
    /\ Go("begin")
    /\ UNCHANGED <<source, release, mirror, snapshot, rows, account, index, history>>

\* stream_download: a file that is there is kept unless told to overwrite;
\* a new one takes its place in one step.
Fetch ==
    /\ At("fetch")
    /\ disk' = [disk EXCEPT ![Current] =
                   IF @ # None /\ ~run.option.overwrite THEN @ ELSE source[Current]]
    /\ Go("begin")
    /\ UNCHANGED <<source, release, mirror, snapshot, rows, account, index, history>>

BeginImport ==
    /\ At("begin")
    /\ release' = [release EXCEPT ![Current] = [status |-> "INGESTING", edition |-> None]]
    /\ Go("import")
    /\ UNCHANGED <<source, disk, mirror, snapshot, rows, account, index, history>>

FinishImport ==
    /\ At("import")
    /\ release' = [release EXCEPT ![Current] = [status |-> "READY", edition |-> disk[Current]]]
    /\ IF run.k < Last THEN GoTo("fetch", run.k + 1) ELSE GoTo("mirror", 2)
    /\ UNCHANGED <<source, disk, mirror, snapshot, rows, account, index, history>>

---------------------------------------------------------------------------
(* The Parquet mirror of a finance release.                                *)

NextMirror ==
    IF run.k < Last THEN GoTo("mirror", run.k + 1)
    ELSE GoTo(IF run.option.core THEN "treasury" ELSE "accounts", 1)

\* A mirror is due when none is registered, whatever one it would be.
MirrorDue(f) == release[f].status = "READY" /\ disk[f] # None /\ mirror[f].object = None

SkipMirror ==
    /\ At("mirror") /\ ~MirrorDue(Current)
    /\ NextMirror
    /\ UNCHANGED <<source, data, index, history>>

BeginMirror ==
    /\ At("mirror") /\ MirrorDue(Current)
    /\ mirror' = [mirror EXCEPT ![Current].file = Partial]
    /\ Go("copy")
    /\ UNCHANGED <<source, disk, release, snapshot, rows, account, index, history>>

FinishCopy ==
    /\ At("copy")
    /\ mirror' = [mirror EXCEPT ![Current].file = disk[Current]]
    /\ Go("register")
    /\ UNCHANGED <<source, disk, release, snapshot, rows, account, index, history>>

RegisterMirror ==
    /\ At("register")
    /\ mirror' = [mirror EXCEPT ![Current].object = mirror[Current].file]
    /\ NextMirror
    /\ UNCHANGED <<source, disk, release, snapshot, rows, account, index, history>>

---------------------------------------------------------------------------
(* The federal core: Treasury, then OMB, each in one transaction.          *)

Writing(c) == IF c = "treasury" THEN "writeTreasury" ELSE "writeOMB"
AfterCore(c) == IF c = "treasury" THEN "omb" ELSE "index"

SkipCore(c) ==
    /\ At(c) /\ rows[c]
    /\ Go(AfterCore(c))
    /\ UNCHANGED <<source, data, index, history>>

\* save_bytes writes the archived response unless its file is there.
BeginSnapshot(c) ==
    /\ At(c) /\ ~rows[c] /\ snapshot[c] = None
    /\ snapshot' = [snapshot EXCEPT ![c] = Partial]
    /\ Go(Writing(c))
    /\ UNCHANGED <<source, disk, release, mirror, rows, account, index, history>>

FinishSnapshot(c) ==
    /\ At(Writing(c))
    /\ snapshot' = [snapshot EXCEPT ![c] = "whole"]
    /\ Go(c)
    /\ UNCHANGED <<source, disk, release, mirror, rows, account, index, history>>

\* Treasury's rows come from the response, OMB's from the archived workbook:
\* cut short, it cannot be parsed and the run fails (Stop).
IngestCore(c) ==
    /\ At(c) /\ ~rows[c] /\ snapshot[c] # None
    /\ c = "omb" => snapshot[c] = "whole"
    /\ rows' = [rows EXCEPT ![c] = TRUE]
    /\ Go(AfterCore(c))
    /\ UNCHANGED <<source, disk, release, mirror, snapshot, account, index, history>>

RebuildIndex ==
    /\ At("index")
    /\ index' = rows["omb"]
    /\ Go("accounts")
    /\ UNCHANGED <<source, data, history>>

---------------------------------------------------------------------------
(* The USAspending accounts: A and B in one archive, then C.  An import     *)
(* takes what its archive holds out of READY first.                        *)

\* A faulty variant: the budget files alone decide.
SkipAccountsOfBudget ==
    /\ At("accounts") /\ (~run.option.accounts \/ AccountReady("B"))
    /\ Go("done")
    /\ UNCHANGED <<source, data, index, history>>

SkipAccounts ==
    /\ At("accounts") /\ (~run.option.accounts \/ SourcesReady)
    /\ Go("done")
    /\ UNCHANGED <<source, data, index, history>>

BeginAccounts(pc, types, next) ==
    /\ At(pc)
    /\ account' = [t \in Account |->
                     IF t \in types THEN [account[t] EXCEPT !.published = FALSE, !.parts = 0]
                     ELSE account[t]]
    /\ Go(next)
    /\ UNCHANGED <<source, disk, release, mirror, snapshot, rows, index, history>>

AtLeast(m, n) == IF m < n THEN n ELSE m

\* The types one by one, in the order of the archive's members.
ConvertPart(pc, types) ==
    /\ At(pc)
    /\ \E t \in types :
          /\ ~account[t].published /\ account[t].parts < MaxParts[t]
          /\ \A u \in types \ {t} : account[u].parts > 0 => account[u].published
          /\ LET part == account[t].parts + 1
             IN  account' = [account EXCEPT ![t] =
                     [published |-> FALSE, parts |-> part,
                      objects |-> AtLeast(account[t].objects, part),
                      files |-> AtLeast(account[t].files, part)]]
    /\ Go(pc)
    /\ UNCHANGED <<source, disk, release, mirror, snapshot, rows, index, history>>

PublishAccounts(pc, types, next) ==
    /\ At(pc)
    /\ \E t \in types :
          /\ ~account[t].published /\ account[t].parts > 0
          /\ account' = [account EXCEPT ![t].published = TRUE]
    /\ Go(IF \A t \in types : account'[t].published THEN next ELSE pc)
    /\ UNCHANGED <<source, disk, release, mirror, snapshot, rows, index, history>>

ActivateAccounts ==
    \/ run.option.accounts /\ ~SourcesReady /\ BeginAccounts("accounts", {"A", "B"}, "importAB")
    \/ ConvertPart("importAB", {"A", "B"})
    \/ PublishAccounts("importAB", {"A", "B"}, "accountsC")
    \/ BeginAccounts("accountsC", {"C"}, "importC")
    \/ ConvertPart("importC", {"C"})
    \/ PublishAccounts("importC", {"C"}, "done")

---------------------------------------------------------------------------
(* What else happens.                                                      *)

\* A failed download or import, a workbook that cannot be parsed, or the
\* end of the process: the run ends where it is.
Stop ==
    /\ Working
    /\ Go("failed")
    /\ UNCHANGED <<source, data, index, history>>

\* A source publishes another edition.
Revise(s) ==
    /\ revisions < MaxRevisions
    /\ revisions' = revisions + 1
    /\ \E e \in Edition \ {source[s]} : source' = [source EXCEPT ![s] = e]
    /\ UNCHANGED <<data, index, run, runs, overwrote, losses>>

\* The containers are created again without the data volume.
LoseVolume ==
    /\ losses < MaxLosses
    /\ losses' = losses + 1
    /\ disk' = [s \in Source |-> None]
    /\ mirror' = [f \in Finance |-> [file |-> None, object |-> mirror[f].object]]
    /\ snapshot' = [c \in Core |-> None]
    /\ account' = [t \in Account |-> [account[t] EXCEPT !.files = 0]]
    /\ run' = Idle
    /\ UNCHANGED <<source, release, rows, index, runs, overwrote, revisions>>

---------------------------------------------------------------------------
RunStep ==
    \/ Fetch \/ BeginImport \/ FinishImport
    \/ SkipMirror \/ BeginMirror \/ FinishCopy \/ RegisterMirror
    \/ \E c \in Core : SkipCore(c) \/ BeginSnapshot(c) \/ FinishSnapshot(c) \/ IngestCore(c)
    \/ RebuildIndex \/ SkipAccounts \/ ActivateAccounts

Next ==
    \/ \E o \in Option : Start(o)
    \/ RunStep \/ Stop
    \/ \E s \in Source : Revise(s)
    \/ LoseVolume

Spec == Init /\ [][Next]_vars

---------------------------------------------------------------------------

\* DATA_WAREHOUSE_V2.md:67 "SQL and Parquet row counts are required to agree":
\* they hold the same edition as long as no run was told to overwrite what
\* it had downloaded, even if the source was revised.  While the volume
\* is kept, a registered mirror is a whole file, however many copies were cut
\* short before: no run writes over it.
MirrorAgrees ==
    losses = 0 =>
        \A f \in Finance : mirror[f].object # None =>
            /\ mirror[f].file = mirror[f].object
            /\ (~overwrote /\ release[f].status = "READY") =>
                  mirror[f].object = release[f].edition

\* The release is READY with every part it was converted to, and counts as
\* ready, unless a part only an earlier, larger archive had was lost with the
\* volume: its object stays registered, and no later run brings its file back.
Repaired(t) ==
    /\ account[t].published
    /\ 0 < account[t].parts /\ account[t].parts <= account[t].files
    /\ AccountReady(t) \/ (losses > 0 /\ account[t].parts < account[t].objects)

\* REAL_DATA_ACTIVATION.md:32 "an interrupted deployment cannot skip repair":
\* wherever the runs before it stopped, a run that gets to its end has seen to
\* all its options ask for: Census releases, if the archives it has are to
\* scale, a registered mirror of each finance archive on disk, the federal
\* core with its index, and the account types.
FinishedMeansReady ==
    run.pc = "done" =>
        /\ (disk["units"] \in Full /\ disk["finance22"] \in Full) => NationalReady
        /\ run.option.sample => Ready("finance24")
        /\ \A f \in Mirrored(run.option) : disk[f] # None => mirror[f].object # None
        /\ run.option.core => (\A c \in Core : rows[c]) /\ index
        /\ run.option.accounts => \A t \in Account : Repaired(t)

\* REAL_DATA_ACTIVATION.md:38 "The supported product initializer is
\* idempotent": a run that finds nothing missing changes no data.
IdempotentWhenReady == [][(run.ready /\ losses' = losses) => UNCHANGED data]_vars

---------------------------------------------------------------------------
(* The inductive invariant behind these, proved in ProductActivationProofs. *)

CensusPcs == {"fetch", "begin", "import"}
MirrorPcs == {"mirror", "copy", "register"}
CorePcs == {"treasury", "writeTreasury", "omb", "writeOMB", "index"}
AccountPcs == {"accounts", "importAB", "accountsC", "importC"}
Pc == CensusPcs \cup MirrorPcs \cup CorePcs \cup AccountPcs \cup {"idle", "done", "failed"}

File == Edition \cup {None}

TypeOK ==
    /\ source \in [Source -> Edition]
    /\ disk \in [Source -> File]
    /\ release \in [Source -> [status : {"ABSENT", "INGESTING", "READY"}, edition : File]]
    /\ mirror \in [Finance -> [file : File \cup {Partial}, object : File]]
    /\ snapshot \in [Core -> {None, Partial, "whole"}]
    /\ rows \in [Core -> BOOLEAN] /\ index \in BOOLEAN
    /\ account \in [Account -> [published : BOOLEAN, parts : Nat, objects : Nat, files : Nat]]
    /\ run \in [option : Option, pc : Pc, k : 1 .. 3, ready : BOOLEAN]
    /\ runs \in Nat /\ overwrote \in BOOLEAN /\ revisions \in Nat /\ losses \in Nat

\* Where a run is in the order of the sources, and what lies before it there.
InOrder ==
    /\ run.option.overwrite => overwrote
    /\ run.pc \in CensusPcs => run.k <= Last
    /\ run.pc \in MirrorPcs => 2 <= run.k /\ run.k <= Last
    /\ run.pc \in CorePcs => run.option.core
    /\ run.pc \in {"begin", "import"} => disk[Current] # None
    /\ run.pc \in {"copy", "register"} =>
          disk[Current] # None /\ mirror[Current].object = None
    /\ run.pc = "register" => mirror[Current].file = disk[Current]

\* While the volume is kept, a registered mirror is a whole file; and as long
\* as nothing is downloaded anew, whatever came from an archive is of the one
\* on disk.
OfTheArchive ==
    losses = 0 =>
        /\ \A f \in Finance : mirror[f].object # None => mirror[f].file = mirror[f].object
        /\ ~overwrote =>
              /\ \A s \in Source : release[s].status = "READY" =>
                    disk[s] # None /\ release[s].edition = disk[s]
              /\ \A f \in Finance : mirror[f].object # None =>
                    disk[f] # None /\ mirror[f].object = disk[f]

\* What is published has parts, each with an object; while the volume is kept,
\* every object has its file.
PartsRegistered ==
    \A t \in Account :
        /\ account[t].parts <= account[t].objects
        /\ account[t].published => 0 < account[t].parts
        /\ losses = 0 => account[t].objects <= account[t].files

\* Imported from the archive on disk, or at scale when the run began.
Imported(s) ==
    /\ release[s].status = "READY"
    /\ release[s].edition = disk[s] \/ release[s].edition \in Full

\* What a run has seen to when it gets to a stage.
Past(pcs) == run.pc \in pcs \cup {"done"}

CensusSeen ==
    /\ run.pc \in CensusPcs =>
          (run.k > 1 => Imported("units")) /\ (run.k > 2 => Imported("finance22"))
    /\ Past(MirrorPcs \cup CorePcs \cup AccountPcs) =>
          /\ Imported("units") /\ Imported("finance22")
          /\ run.option.sample => Ready("finance24")

MirrorsSeen ==
    /\ run.pc \in MirrorPcs /\ run.k > 2 /\ disk["finance22"] # None =>
          mirror["finance22"].object # None
    /\ Past(CorePcs \cup AccountPcs) =>
          \A f \in Mirrored(run.option) : disk[f] # None => mirror[f].object # None

CoreSeen ==
    run.option.core =>
        /\ Past({"omb", "writeOMB", "index"} \cup AccountPcs) => rows["treasury"]
        /\ Past({"index"} \cup AccountPcs) => rows["omb"]
        /\ Past(AccountPcs) => index

\* The parts a run converts are on disk until it ends.
AccountsSeen ==
    /\ run.pc = "importAB" => \A t \in {"A", "B"} : account[t].parts <= account[t].files
    /\ run.pc = "importC" => account["C"].parts <= account["C"].files
    /\ run.option.accounts =>
          /\ Past({"accountsC", "importC"}) => Repaired("A") /\ Repaired("B")
          /\ Past({}) => Repaired("C")

StagesDone == CensusSeen /\ MirrorsSeen /\ CoreSeen /\ AccountsSeen

\* A run that found nothing missing skips each stage it comes to.
NothingToDo ==
    run.ready =>
        /\ NothingMissing(run.option)
        /\ run.pc \in {"mirror", "treasury", "omb", "index", "accounts", "done", "failed"}

ActivationInv ==
    TypeOK /\ InOrder /\ OfTheArchive /\ PartsRegistered /\ StagesDone /\ NothingToDo

---------------------------------------------------------------------------

\* REAL_DATA_ACTIVATION.md:44 "It skips expensive national imports that are
\* already present at validated scale".
ImportsSkipped ==
    [][~run.option.overwrite =>
          \A s \in {"units", "finance22"} : Ready(s) => release'[s].status = "READY"]_release
=============================================================================
