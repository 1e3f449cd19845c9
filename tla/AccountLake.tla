---------------------------- MODULE AccountLake -----------------------------
(***************************************************************************)
(* Materialization of a USAspending account archive into the lake, and the *)
(* readers of the result.                                                  *)
(*                                                                         *)
(* A release row, the BulkObject rows and the Parquet files are written by *)
(* separate commits of one initializer process, which can die between any  *)
(* two of them; the API reads the same rows and files meanwhile, in three  *)
(* steps of its own.  A file's content is named by the archive it was      *)
(* converted from: part p of type t is always written from the p-th member *)
(* of that type.                                                           *)
(***************************************************************************)
EXTENDS Naturals, FiniteSets

CONSTANTS Type,        \* keys of SUBMISSION_DATASETS
          Archive,     \* archives an initializer may be given for one fiscal year
          Reader,      \* API requests
          None,        \* an absent file, object or archive
          Partial,     \* a Parquet file whose COPY was cut short
          MaxParts,    \* most members of one type in an archive
          NParts,      \* [Archive -> [Type -> 0..MaxParts]]; 0: type not in it
          Request,     \* download requests that can be stored with a release
          FullYear,    \* the requests that say period 12
          WholeYear,   \* the archives that do hold all twelve periods
          Given,       \* <<archive, request or None, counted>>: how an archive may be given
          Miscounted,  \* <<archive, type>> whose rows fail the official count
          MaxRuns,     \* bound: materializations started
          MaxLosses    \* bound: times the lake volume is lost

Part == 1 .. MaxParts

ASSUME ConstantsAssumption ==
    /\ MaxParts \in Nat
    /\ NParts \in [Archive -> [Type -> 0 .. MaxParts]]
    /\ FullYear \subseteq Request /\ None \notin Request
    /\ WholeYear \subseteq Archive
    /\ Given \subseteq Archive \X (Request \cup {None}) \X BOOLEAN
    /\ Miscounted \subseteq Archive \X Type
    /\ MaxRuns \in Nat /\ MaxLosses \in Nat
    /\ None \notin Archive /\ Partial \notin Archive /\ None # Partial

VARIABLES
    release,  \* [Type -> DatasetRelease row of this fiscal year]
    objects,  \* [Type -> [Part -> content hash of the registered object]]
    files,    \* [Type -> [Part -> content of the Parquet file at that path]]
    writer,   \* the initializer's local variables
    reader,   \* [Reader -> local variables and last answer of a request]
    runs, losses

vars == <<release, objects, files, writer, reader, runs, losses>>

Source == Archive \cup {None}

TypesIn(a) == {t \in Type : NParts[a][t] > 0}

-----------------------------------------------------------------------------
Idle == [pc |-> "idle", archive |-> None, counted |-> FALSE, todo |-> {}, type |-> None,
         part |-> 1]

NoAnswer == [status |-> "NONE", rows |-> {}, source |-> None, quiet |-> FALSE]

Init ==
    /\ release = [t \in Type |-> [status |-> "ABSENT", request |-> None, source |-> None,
                                  counted |-> FALSE, listed |-> {}]]
    /\ objects = [t \in Type |-> [p \in Part |-> None]]
    /\ files = [t \in Type |-> [p \in Part |-> None]]
    /\ writer = Idle
    /\ reader = [r \in Reader |-> [pc |-> "idle", type |-> None, request |-> None,
                                   source |-> None, run |-> 0, keys |-> {},
                                   answer |-> NoAnswer]]
    /\ runs = 0
    /\ losses = 0

-----------------------------------------------------------------------------
(* The initializer: materialize_account_archive.                           *)

\* The request stored with a release: the one given, or else the one already there.
StoredRequest(t, q) == IF q = None THEN release[t].request ELSE q

\* Faulty variant of Start: the release keeps its READY status.
StartStillReady(a, q, counted) ==
    /\ writer.pc = "idle"
    /\ runs < MaxRuns
    /\ TypesIn(a) # {}
    /\ release' = [t \in Type |-> IF t \in TypesIn(a)
                                 THEN [release[t] EXCEPT !.request = StoredRequest(t, q)]
                                 ELSE release[t]]
    /\ writer' = [Idle EXCEPT !.pc = "types", !.archive = a, !.counted = counted,
                              !.todo = TypesIn(a)]
    /\ runs' = runs + 1
    /\ UNCHANGED <<objects, files, reader, losses>>

\* Every release the archive touches is taken out of READY in the one commit that
\* precedes the first write to a file.  The initializer gives an archive with its
\* request and its transport's official count, an operator with any request or none,
\* and with no count.
Start(a, q, counted) ==
    /\ writer.pc = "idle"
    /\ runs < MaxRuns
    /\ TypesIn(a) # {}
    /\ release' = [t \in Type |->
                     IF t \in TypesIn(a)
                     THEN [release[t] EXCEPT !.status = "MATERIALIZING",
                                             !.request = StoredRequest(t, q)]
                     ELSE release[t]]
    /\ writer' = [Idle EXCEPT !.pc = "types", !.archive = a, !.counted = counted,
                              !.todo = TypesIn(a)]
    /\ runs' = runs + 1
    /\ UNCHANGED <<objects, files, reader, losses>>

\* The next submission type; its raw archive is registered first.
NextType(t) ==
    /\ writer.pc = "types"
    /\ t \in writer.todo
    /\ writer' = [writer EXCEPT !.pc = "parts", !.type = t, !.part = 1]
    /\ UNCHANGED <<release, objects, files, reader, runs, losses>>

\* Faulty variant of BeginCopy: the error of a failed COPY is swallowed.
BeginCopyNoCheck ==
    /\ writer.pc = "parts"
    /\ writer.part <= NParts[writer.archive][writer.type]
    /\ files' = [files EXCEPT ![writer.type][writer.part] = Partial]
    /\ writer' = [writer EXCEPT !.pc = "register"]
    /\ UNCHANGED <<release, objects, reader, runs, losses>>

\* DuckDB's COPY writes a new file in place and replaces an existing one
\* through a temporary file.
BeginCopy ==
    /\ writer.pc = "parts"
    /\ writer.part <= NParts[writer.archive][writer.type]
    /\ files' = [files EXCEPT ![writer.type][writer.part] =
                   IF @ = None THEN Partial ELSE @]
    /\ writer' = [writer EXCEPT !.pc = "copy"]
    /\ UNCHANGED <<release, objects, reader, runs, losses>>

FinishCopy ==
    /\ writer.pc = "copy"
    /\ files' = [files EXCEPT ![writer.type][writer.part] = writer.archive]
    /\ writer' = [writer EXCEPT !.pc = "register"]
    /\ UNCHANGED <<release, objects, reader, runs, losses>>

\* register_file hashes the file it finds and upserts the row by object key.
RegisterPart ==
    /\ writer.pc = "register"
    /\ objects' = [objects EXCEPT ![writer.type][writer.part] =
                     files[writer.type][writer.part]]
    /\ writer' = [writer EXCEPT !.pc = "parts", !.part = @ + 1]
    /\ UNCHANGED <<release, files, reader, runs, losses>>

CountsAgree == writer.counted => <<writer.archive, writer.type>> \notin Miscounted

\* Faulty variant of AllPartsDone: the loop leaves out the last member.
AllPartsButOne ==
    /\ writer.pc = "parts"
    /\ writer.part >= NParts[writer.archive][writer.type]

AllPartsDone ==
    /\ writer.pc = "parts"
    /\ writer.part > NParts[writer.archive][writer.type]

\* Faulty variant of PublishType: the finished type stays in the loop.
PublishTypeAgain ==
    /\ AllPartsDone
    /\ CountsAgree
    /\ release' = [release EXCEPT ![writer.type] =
                     [status |-> "READY", request |-> @.request, source |-> writer.archive,
                      counted |-> writer.counted, listed |-> 1 .. (writer.part - 1)]]
    /\ writer' = [writer EXCEPT !.pc = "types", !.type = None, !.part = 1]
    /\ UNCHANGED <<objects, files, reader, runs, losses>>

PublishType ==
    /\ AllPartsDone
    /\ CountsAgree
    /\ release' = [release EXCEPT ![writer.type] =
                     [status |-> "READY", request |-> @.request, source |-> writer.archive,
                      counted |-> writer.counted, listed |-> 1 .. (writer.part - 1)]]
    /\ writer' = IF writer.todo = {writer.type}
                 THEN Idle
                 ELSE [writer EXCEPT !.pc = "types", !.type = None, !.part = 1,
                                     !.todo = @ \ {writer.type}]
    /\ UNCHANGED <<objects, files, reader, runs, losses>>

RefuseCounts ==
    /\ AllPartsDone
    /\ ~CountsAgree
    /\ writer' = Idle
    /\ UNCHANGED <<release, objects, files, reader, runs, losses>>

\* An exception (a malformed member, a full disk) or the death of the process.
Stop ==
    /\ writer.pc # "idle"
    /\ writer' = Idle
    /\ UNCHANGED <<release, objects, files, reader, runs, losses>>

\* The container is recreated without its lake volume; the database survives.
LoseLake ==
    /\ writer.pc = "idle"
    /\ losses < MaxLosses
    /\ files' = [t \in Type |-> [p \in Part |-> None]]
    /\ losses' = losses + 1
    /\ UNCHANGED <<release, objects, writer, reader, runs>>

-----------------------------------------------------------------------------
(* A request: _load_file_b, and _load_file_c which has the same gates.     *)

\* With the answer are kept, for the properties, the archive whose READY release the
\* request found and whether no materialization has started since it found it.
Answer(r, status, rows) ==
    reader' = [reader EXCEPT ![r] =
                 [@ EXCEPT !.pc = "idle",
                           !.answer = [status |-> status, rows |-> rows,
                                       source |-> reader[r].source,
                                       quiet |-> reader[r].run = runs]]]

\* Faulty variant of SelectRelease: the filter on the status is dropped.
SelectAnyRelease(r, t) ==
    /\ reader[r].pc = "idle"
    /\ IF release[t].source # None
       THEN reader' = [reader EXCEPT ![r] = [pc |-> "objects", type |-> t,
                          request |-> release[t].request, source |-> release[t].source,
                          run |-> runs, keys |-> {}, answer |-> NoAnswer]]
       ELSE Answer(r, "NO_READY_RELEASE", {})
    /\ UNCHANGED <<release, objects, files, writer, runs, losses>>

SelectRelease(r, t) ==
    /\ reader[r].pc = "idle"
    /\ IF release[t].status = "READY"
       THEN reader' = [reader EXCEPT ![r] = [pc |-> "objects", type |-> t,
                          request |-> release[t].request, source |-> release[t].source,
                          run |-> runs, keys |-> {}, answer |-> NoAnswer]]
       ELSE Answer(r, "NO_READY_RELEASE", {})
    /\ UNCHANGED <<release, objects, files, writer, runs, losses>>

\* Every Parquet object registered under the release, not the listed ones.
SelectObjects(r) ==
    /\ reader[r].pc = "objects"
    /\ LET keys == {p \in Part : objects[reader[r].type][p] # None}
       IN IF reader[r].request \notin FullYear
          THEN Answer(r, "PARTIAL_OR_UNKNOWN_PERIOD", {})
          ELSE IF keys = {}
               THEN Answer(r, "NO_PARQUET_OBJECTS", {})
               ELSE reader' = [reader EXCEPT ![r].pc = "local", ![r].keys = keys]
    /\ UNCHANGED <<release, objects, files, writer, runs, losses>>

CheckLocal(r) ==
    /\ reader[r].pc = "local"
    /\ IF \E p \in reader[r].keys : files[reader[r].type][p] = None
       THEN Answer(r, "OBJECTS_NOT_LOCAL", {})
       ELSE reader' = [reader EXCEPT ![r].pc = "scan"]
    /\ UNCHANGED <<release, objects, files, writer, runs, losses>>

\* DuckDB refuses a missing file or one without its footer.
Scan(r) ==
    /\ reader[r].pc = "scan"
    /\ LET found == {<<files[reader[r].type][p], p>> : p \in reader[r].keys}
       IN IF \E p \in reader[r].keys : files[reader[r].type][p] \in {None, Partial}
          THEN Answer(r, "ERROR", {})
          ELSE Answer(r, "READY", found)
    /\ UNCHANGED <<release, objects, files, writer, runs, losses>>

-----------------------------------------------------------------------------
WriterStep ==
    \/ \E t \in Type : NextType(t)
    \/ BeginCopy
    \/ FinishCopy
    \/ RegisterPart
    \/ PublishType
    \/ RefuseCounts

ReaderStep(r) ==
    \/ \E t \in Type : SelectRelease(r, t)
    \/ SelectObjects(r)
    \/ CheckLocal(r)
    \/ Scan(r)

Next ==
    \/ \E g \in Given : Start(g[1], g[2], g[3])
    \/ WriterStep
    \/ Stop
    \/ LoseLake
    \/ \E r \in Reader : ReaderStep(r)

Spec == Init /\ [][Next]_vars

\* A live initializer runs straight through: nothing it does waits for others.
FairSpec == Spec /\ WF_vars(WriterStep)

-----------------------------------------------------------------------------
ReleaseRow == [status: {"ABSENT", "MATERIALIZING", "READY"}, request: Request \cup {None},
               source: Source, counted: BOOLEAN, listed: SUBSET Part]

WriterState == [pc: {"idle", "types", "parts", "copy", "register"}, archive: Source,
                counted: BOOLEAN, todo: SUBSET Type, type: Type \cup {None}, part: Nat]

AnswerStatus == {"NONE", "NO_READY_RELEASE", "PARTIAL_OR_UNKNOWN_PERIOD",
                 "NO_PARQUET_OBJECTS", "OBJECTS_NOT_LOCAL", "ERROR", "READY"}

ReaderAnswer == [status: AnswerStatus, rows: SUBSET (Archive \X Part), source: Source,
                 quiet: BOOLEAN]

ReaderState == [pc: {"idle", "objects", "local", "scan"}, type: Type \cup {None},
                request: Request \cup {None}, source: Source, run: Nat, keys: SUBSET Part,
                answer: ReaderAnswer]

\* Every variable holds a value of its kind.
TypeOK ==
    /\ release \in [Type -> ReleaseRow]
    /\ objects \in [Type -> [Part -> Source]]
    /\ files \in [Type -> [Part -> Source \cup {Partial}]]
    /\ writer \in WriterState
    /\ reader \in [Reader -> ReaderState]
    /\ runs \in 0 .. MaxRuns
    /\ losses \in 0 .. MaxLosses

\* A READY release lists every part of the archive it names, agrees with the official
\* count it was given with, if any, and each listed part is registered with that archive's
\* hash and its file is that archive's, or is gone with the volume: whatever crashes,
\* refusals and re-runs, with whatever requests, came before (materialize_account_archive).
ReadyReleaseComplete ==
    \A t \in Type : release[t].status = "READY" =>
        LET a == release[t].source
        IN /\ a \in Archive
           /\ release[t].counted => <<a, t>> \notin Miscounted
           /\ release[t].listed = 1 .. NParts[a][t]
           /\ \A p \in release[t].listed :
                 /\ objects[t][p] = a
                 /\ files[t][p] = a \/ (losses > 0 /\ files[t][p] = None)

\* As long as the volume is kept, a registered object is a whole Parquet file: a
\* COPY cut short by a crash never hides behind a BulkObject row.
RegisteredObjectsAreWhole ==
    losses = 0 => \A t \in Type, p \in Part :
        objects[t][p] # None => files[t][p] \in Archive

\* As long as the volume is kept, no request fails inside DuckDB: the gates of
\* _load_file_b answer before a missing or half-written file is scanned.
NoScanErrorWithVolume ==
    losses = 0 => \A r \in Reader : reader[r].answer.status # "ERROR"

\* A request answered READY lacks no part of the archive whose release it found READY, and
\* unless a materialization was started meanwhile each of those parts is that archive's
\* own: withdrawals, re-runs of other archives and lost volumes between the three steps of
\* a request never give it a part of another archive's in place of one of these, nor half
\* of a release (_load_file_b, _load_file_c).
AnswersAreWhole ==
    \A r \in Reader : reader[r].answer.status = "READY" =>
        LET answer == reader[r].answer
        IN \A p \in 1 .. NParts[answer.source][reader[r].type] :
              \E a \in Archive : <<a, p>> \in answer.rows /\ (answer.quiet => a = answer.source)

\* What docs/METHODOLOGY.md:241 says of the readers: "partial-period federal bulk releases
\* cannot silently stand in for full-year personalization".  Not even when no archive is
\* given meanwhile does it hold of the code: an archive given without a request is read
\* under the request an earlier archive left in the release.
NoPartialStandIn ==
    \A r \in Reader : (reader[r].answer.status = "READY" /\ reader[r].answer.quiet) =>
        \A row \in reader[r].answer.rows : row[1] \in WholeYear

-----------------------------------------------------------------------------
(* The inductive strengthening of the invariants above.                    *)

\* What the initializer has done so far for the archive in hand.
WriterProgress ==
    /\ writer.pc # "idle" =>
          /\ writer.archive \in Archive
          /\ writer.todo \subseteq TypesIn(writer.archive)
          /\ \A t \in writer.todo : release[t].status = "MATERIALIZING"
    /\ writer.pc \in {"parts", "copy", "register"} =>
          /\ writer.type \in writer.todo
          /\ writer.part \in 1 .. NParts[writer.archive][writer.type] + 1
          /\ \A p \in 1 .. (writer.part - 1) :
                /\ objects[writer.type][p] = writer.archive
                /\ files[writer.type][p] = writer.archive
    /\ writer.pc \in {"copy", "register"} =>
          writer.part <= NParts[writer.archive][writer.type]
    /\ writer.pc = "register" => files[writer.type][writer.part] = writer.archive

\* The files a request is about to scan, while the volume is kept.
ReaderProgress ==
    \A r \in Reader :
        /\ reader[r].pc # "idle" => reader[r].type \in Type
        /\ (losses = 0 /\ reader[r].pc \in {"local", "scan"}) =>
              \A p \in reader[r].keys : files[reader[r].type][p] \in Archive

LakeInv ==
    /\ TypeOK
    /\ WriterProgress
    /\ ReadyReleaseComplete
    /\ RegisteredObjectsAreWhole
    /\ ReaderProgress
    /\ NoScanErrorWithVolume

\* What a request relies on: the parts of the archive it found stay registered, those it
\* takes include them, and while nothing is started the release stays as it found it.
RequestProgress ==
    \A r \in Reader : reader[r].pc # "idle" =>
        LET a == reader[r].source
            t == reader[r].type
        IN /\ a \in Archive
           /\ reader[r].run <= runs
           /\ \A p \in 1 .. NParts[a][t] : objects[t][p] # None
           /\ reader[r].pc \in {"local", "scan"} => 1 .. NParts[a][t] \subseteq reader[r].keys
           /\ reader[r].run = runs =>
                 release[t].status = "READY" /\ release[t].source = a

\* The inductive invariant of the requests.
RequestInv == LakeInv /\ RequestProgress /\ AnswersAreWhole

-----------------------------------------------------------------------------

\* A materialization that has started ends, in READY releases or in a refusal;
\* no state of the loop over types and parts is stuck.
MaterializationEnds == (writer.pc # "idle") ~> (writer.pc = "idle")

\* The detail a release makes visible: its listed parts, once READY and local.
Visible ==
    [t \in Type |->
       IF release[t].status = "READY" /\ \A p \in release[t].listed : files[t][p] # None
       THEN {<<files[t][p], p>> : p \in release[t].listed}
       ELSE {}]

Published == INSTANCE ReleaseStore WITH visible <- Visible

\* Crashes, re-runs and lost volumes included, a release is published whole and
\* withdrawn whole: the lake implements ReleaseStore.
PublishesWholeArchives == Published!Spec
=============================================================================
