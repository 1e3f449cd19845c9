----------------------------- MODULE AwardLake ------------------------------
(***************************************************************************)
(* USAspending award archives: a download is requested, kept beside the    *)
(* request that produced it, classified member by member, converted into   *)
(* the lake under a release key that says which awards it covers, and read *)
(* by the award detail and the federal search.                             *)
(*                                                                         *)
(* The archive does not say which request it answers: a download hangs on  *)
(* its sidecar, the ingest command on what its user says.  A file's content *)
(* is therefore named by the archive AND the request it was converted under.*)
(***************************************************************************)
EXTENDS Naturals, Sequences, FiniteSets

CONSTANTS Request,       \* payloads: [dates, agency, prime, sub]
          Archive,       \* archives the service can generate
          GeneratedFor,  \* [Archive -> Request]
          Given,         \* archives and request files a user ingests by hand
          Members,       \* [Archive -> Seq of column sets], in archive order
          Name,          \* file names the service gives
          Reader,        \* API requests for award detail
          All,           \* the agency filter that means every agency
          None, Partial,
          MaxParts,      \* most members of one dataset in an archive
          MaxRuns,       \* bound: downloads and ingestions started
          MaxLosses      \* bound: times the lake volume is lost

Prime == "Prime"  \* usaspending-file-d1-d2
Sub == "Sub"      \* usaspending-file-f
Dataset == {Prime, Sub}

ASSUME ConstantsAssumption ==
    /\ \A q \in Request : q.dates \in {"YEAR", "SLICE"} /\ (q.prime \/ q.sub)
    /\ \A q \in Request : <<q.agency, q.prime, q.sub>> # All
    /\ GeneratedFor \in [Archive -> Request]
    /\ Given \subseteq Archive \X Request
    /\ Members \in [Archive -> Seq(SUBSET STRING)]
    /\ MaxParts \in Nat /\ MaxRuns \in Nat /\ MaxLosses \in Nat
    /\ None \notin Archive \cup Request /\ None # Partial

VARIABLES
    raw,       \* [Name -> archive in the file of that name]
    sidecar,   \* [Name -> request recorded beside it]
    unvouched, \* history: pairs of an archive and a request nothing vouches for
    release,   \* [Dataset -> [Key -> DatasetRelease row]]
    objects,   \* [Place -> content hash of the registered object]
    files,     \* [Place -> content of the Parquet file]
    writer,    \* the command's local variables
    reader,    \* [Reader -> local variables and last answer]
    runs, losses

vars == <<raw, sidecar, unvouched, release, objects, files, writer, reader, runs, losses>>
lake == <<release, objects, files>>

-----------------------------------------------------------------------------
(* The members of an archive and the identity of its release.              *)

Unclassified == "?"

\* The data class and family of a member, by its columns.  A subaward marker decides
\* first: File F repeats columns of the prime award.
Classify(columns) ==
    LET subaward == "subaward_number" \in columns
        contract == columns \cap {"contract_award_unique_key", "award_id_piid"} # {}
        assistance == columns \cap {"assistance_award_unique_key", "award_id_fain"} # {}
    IN CASE subaward /\ "prime_award_piid" \in columns -> "F contract"
         [] subaward /\ "prime_award_piid" \notin columns
                     /\ "prime_award_fain" \in columns -> "F assistance"
         [] ~subaward /\ contract -> "D1"
         [] ~subaward /\ ~contract /\ assistance -> "D2"
         [] OTHER -> Unclassified

Kinds == [Prime |-> {"D1", "D2"}, Sub |-> {"F contract", "F assistance"}]

\* The key the readers look an award up by, which Classify does not require.
CanonicalKey(kind) ==
    CASE kind = "D1" -> "contract_award_unique_key"
      [] kind = "D2" -> "assistance_award_unique_key"
      [] OTHER -> "prime_award_unique_key"

\* inspect_award_archive raises on the first member it cannot place.
Inspectable(a) ==
    /\ Members[a] # <<>>
    /\ \A i \in DOMAIN Members[a] : Classify(Members[a][i]) # Unclassified

\* The members of the given kinds, appended one by one.
MembersOf(members, kinds) ==
    LET kept[i \in 0 .. Len(members)] ==
          IF i = 0 THEN <<>>
          ELSE IF Classify(members[i]) \in kinds THEN Append(kept[i - 1], members[i])
          ELSE kept[i - 1]
    IN kept[Len(members)]

\* by_dataset: the members of a dataset in archive order; the part number counts them all.
InDataset == [a \in Archive |-> [d \in Dataset |-> MembersOf(Members[a], Kinds[d])]]

Parts(a, d) == Len(InDataset[a][d])

DatasetsIn(a) == {d \in Dataset : Parts(a, d) > 0}

\* A Parquet file is named by class, family and part.
Slot == (Kinds[Prime] \cup Kinds[Sub]) \X (1 .. MaxParts)

SlotOf(a, d, p) == <<Classify(InDataset[a][d][p]), p>>

SlotsOf == [a \in Archive |-> [d \in Dataset |-> {SlotOf(a, d, p) : p \in 1 .. Parts(a, d)}]]

ScopeComplete(q) == q.agency = All

\* Faulty variant of ReleaseKey: the dates are left out of the identity.
ReleaseKeyNoDates(q) ==
    [dates |-> "YEAR",
     scope |-> IF ScopeComplete(q) THEN All ELSE <<q.agency, q.prime, q.sub>>]

\* A request for every agency shares the key of its dates, whichever award families it
\* asks for (they land in different datasets); any other has its scope digest in it.
ReleaseKey(q) ==
    [dates |-> q.dates,
     scope |-> IF ScopeComplete(q) THEN All ELSE <<q.agency, q.prime, q.sub>>]

CoverageType(q) ==
    CASE q.dates = "YEAR" /\ ScopeComplete(q) -> "FEDERAL_AWARD"
      [] q.dates = "YEAR" /\ ~ScopeComplete(q) -> "FEDERAL_AWARD_SCOPED"
      [] q.dates # "YEAR" /\ ScopeComplete(q) -> "FEDERAL_AWARD_SLICE"
      [] OTHER -> "FEDERAL_AWARD_SCOPED_SLICE"

Key == {ReleaseKey(q) : q \in Request} \cup {[dates |-> "YEAR", scope |-> All]}
YearKey == [dates |-> "YEAR", scope |-> All]
Place == Dataset \X Key \X Slot

Content == [archive : Archive, request : Request]

ASSUME PartsAssumption ==
    /\ \A a \in Archive, d \in Dataset : Parts(a, d) <= MaxParts
    /\ None \notin Content /\ Partial \notin Content

-----------------------------------------------------------------------------
Idle == [pc |-> "idle", request |-> None, name |-> None, archive |-> None,
         todo |-> {}, dataset |-> None, part |-> 1]

Quiet == [pc |-> "idle", dataset |-> None, keys |-> [d \in Dataset |-> {}],
          rows |-> {}, status |-> "NONE"]

Init ==
    /\ raw = [n \in Name |-> None]
    /\ sidecar = [n \in Name |-> None]
    /\ unvouched = {}
    /\ release = [d \in Dataset |-> [k \in Key |->
                    [status |-> "ABSENT", coverage |-> None, request |-> None,
                     source |-> None, listed |-> {}]]]
    /\ objects = [x \in Place |-> None]
    /\ files = [x \in Place |-> None]
    /\ writer = Idle
    /\ reader = [r \in Reader |-> Quiet]
    /\ runs = 0 /\ losses = 0

-----------------------------------------------------------------------------
(* request_award_archive.                                                  *)

Submit(q) ==
    /\ writer.pc = "idle" /\ runs < MaxRuns
    /\ writer' = [Idle EXCEPT !.pc = "wait", !.request = q]
    /\ runs' = runs + 1
    /\ UNCHANGED <<raw, sidecar, unvouched, lake, reader, losses>>

\* The service names the file; nothing on this side keeps it from using a name again.
JobCompletes(a, n) ==
    /\ writer.pc = "wait"
    /\ GeneratedFor[a] = writer.request
    /\ writer' = [writer EXCEPT !.pc = "download", !.archive = a, !.name = n]
    /\ UNCHANGED <<raw, sidecar, unvouched, lake, reader, runs, losses>>

\* A terminal failure, or the last of the bounded polls.
JobFails ==
    /\ writer.pc = "wait"
    /\ writer' = Idle
    /\ UNCHANGED <<raw, sidecar, unvouched, lake, reader, runs, losses>>

\* stream_download keeps a file that is already there and renames a finished one into place.
Download ==
    /\ writer.pc = "download"
    /\ raw' = [raw EXCEPT ![writer.name] = IF @ = None THEN writer.archive ELSE @]
    /\ writer' = [writer EXCEPT !.pc = "sidecar"]
    /\ UNCHANGED <<sidecar, unvouched, lake, reader, runs, losses>>

\* Faulty variant of WriteSidecar: a sidecar with another request is let stand.
WriteSidecarLax ==
    /\ writer.pc = "sidecar"
    /\ sidecar' = [sidecar EXCEPT ![writer.name] = IF @ = None THEN writer.request ELSE @]
    /\ writer' = [writer EXCEPT !.pc = "inspect", !.archive = raw[writer.name]]
    /\ UNCHANGED <<raw, unvouched, lake, reader, runs, losses>>

WriteSidecar ==
    /\ writer.pc = "sidecar"
    /\ IF sidecar[writer.name] \in {None, writer.request}
       THEN /\ sidecar' = [sidecar EXCEPT ![writer.name] = writer.request]
            /\ writer' = [writer EXCEPT !.pc = "inspect", !.archive = raw[writer.name]]
       ELSE /\ writer' = Idle
            /\ UNCHANGED sidecar
    /\ UNCHANGED <<raw, unvouched, lake, reader, runs, losses>>

\* ingest-usaspending-awards: any archive with any request file its user names.  No
\* sidecar is looked at or needed.
IngestArchive(a, q) ==
    /\ writer.pc = "idle" /\ runs < MaxRuns
    /\ <<a, q>> \in Given
    /\ writer' = [Idle EXCEPT !.pc = "inspect", !.request = q, !.archive = a]
    /\ unvouched' = IF GeneratedFor[a] = q THEN unvouched ELSE unvouched \cup {<<a, q>>}
    /\ runs' = runs + 1
    /\ UNCHANGED <<raw, sidecar, lake, reader, losses>>

-----------------------------------------------------------------------------
(* materialize_award_archive.                                              *)

Refuse ==
    /\ writer.pc = "inspect"
    /\ ~Inspectable(writer.archive)
    /\ writer' = Idle
    /\ UNCHANGED <<raw, sidecar, unvouched, lake, reader, runs, losses>>

\* Faulty variant of Withdraw: a READY release keeps its status.
WithdrawNothing ==
    /\ writer.pc = "inspect"
    /\ Inspectable(writer.archive)
    /\ writer' = [writer EXCEPT !.pc = "datasets", !.todo = DatasetsIn(writer.archive)]
    /\ UNCHANGED <<raw, sidecar, unvouched, lake, reader, runs, losses>>

\* One commit takes the release of every dataset in the archive out of READY.
Withdraw ==
    LET a == writer.archive
    IN /\ writer.pc = "inspect"
       /\ Inspectable(a)
       /\ release' = [d \in Dataset |->
              IF d \notin DatasetsIn(a) THEN release[d]
              ELSE [release[d] EXCEPT ![ReleaseKey(writer.request)] =
                      [@ EXCEPT !.status = "MATERIALIZING", !.request = writer.request,
                                !.coverage = CoverageType(writer.request)]]]
       /\ writer' = [writer EXCEPT !.pc = "datasets", !.todo = DatasetsIn(a)]
       /\ UNCHANGED <<raw, sidecar, unvouched, objects, files, reader, runs, losses>>

\* A dataset of by_dataset (the order of its keys is left open); its raw archive is registered.
NextDataset(d) ==
    /\ writer.pc = "datasets"
    /\ d \in writer.todo
    /\ writer' = [writer EXCEPT !.pc = "members", !.dataset = d, !.part = 1]
    /\ UNCHANGED <<raw, sidecar, unvouched, lake, reader, runs, losses>>

PlaceInHand ==
    <<writer.dataset, ReleaseKey(writer.request),
      SlotOf(writer.archive, writer.dataset, writer.part)>>

MemberLeft == writer.pc = "members" /\ writer.part <= Parts(writer.archive, writer.dataset)

ConvertMember ==
    /\ MemberLeft
    /\ files' = [files EXCEPT ![PlaceInHand] =
                   [archive |-> writer.archive, request |-> writer.request]]
    /\ writer' = [writer EXCEPT !.pc = "register"]
    /\ UNCHANGED <<raw, sidecar, unvouched, release, objects, reader, runs, losses>>

\* The process dies inside COPY: a new file is left half-written.
DieInCopy ==
    /\ MemberLeft
    /\ files' = [files EXCEPT ![PlaceInHand] = IF @ = None THEN Partial ELSE @]
    /\ writer' = Idle
    /\ UNCHANGED <<raw, sidecar, unvouched, release, objects, reader, runs, losses>>

RegisterMember ==
    /\ writer.pc = "register"
    /\ objects' = [objects EXCEPT ![PlaceInHand] = files[PlaceInHand]]
    /\ writer' = [writer EXCEPT !.pc = "members", !.part = @ + 1]
    /\ UNCHANGED <<raw, sidecar, unvouched, release, files, reader, runs, losses>>

\* Faulty variant of AllMembersDone: the loop leaves out the last member.
AllMembersButOne == writer.pc = "members" /\ writer.part >= Parts(writer.archive, writer.dataset)

AllMembersDone == writer.pc = "members" /\ writer.part > Parts(writer.archive, writer.dataset)

Listed == {SlotOf(writer.archive, writer.dataset, p) : p \in 1 .. (writer.part - 1)}

PublishRelease ==
    release' = [release EXCEPT ![writer.dataset][ReleaseKey(writer.request)] =
                  [@ EXCEPT !.status = "READY", !.source = writer.archive, !.listed = Listed]]

\* No official count is compared, unlike the account archives.
PublishDataset ==
    /\ AllMembersDone
    /\ PublishRelease
    /\ writer' = IF writer.todo = {writer.dataset}
                 THEN Idle
                 ELSE [writer EXCEPT !.pc = "datasets", !.todo = @ \ {writer.dataset}]
    /\ UNCHANGED <<raw, sidecar, unvouched, objects, files, reader, runs, losses>>

\* An exception or the death of the process, between any two commits.  Before the
\* sidecar of a new file it leaves an archive that any later request may claim.
Stop ==
    /\ writer.pc # "idle"
    /\ writer' = Idle
    /\ unvouched' = IF writer.pc = "sidecar" /\ sidecar[writer.name] = None
                    THEN unvouched \cup {raw[writer.name]} \X Request ELSE unvouched
    /\ UNCHANGED <<raw, sidecar, lake, reader, runs, losses>>

LoseLake ==
    /\ writer.pc = "idle" /\ losses < MaxLosses
    /\ files' = [x \in Place |-> None]
    /\ losses' = losses + 1
    /\ UNCHANGED <<raw, sidecar, unvouched, release, objects, writer, reader, runs>>

-----------------------------------------------------------------------------
(* FederalAwardDetailEngine.get; FederalSearchV2Engine loads the same way. *)

Step(r, state) ==
    /\ reader' = [reader EXCEPT ![r] = state]
    /\ UNCHANGED <<raw, sidecar, unvouched, lake, writer, runs, losses>>

\* Prime awards are loaded first, then subawards, then both are queried.
AfterLoading(r, d, slots) ==
    IF d = Prime
    THEN [reader[r] EXCEPT !.pc = "release", !.dataset = Sub, !.keys[Prime] = slots]
    ELSE [reader[r] EXCEPT !.pc = "D1", !.dataset = None, !.keys[Sub] = slots]

Ask(r) ==
    /\ reader[r].pc = "idle"
    /\ Step(r, [Quiet EXCEPT !.pc = "release", !.dataset = Prime])

SelectRelease(r) ==
    LET d == reader[r].dataset
        row == release[d][YearKey]
    IN /\ reader[r].pc = "release"
       /\ Step(r, IF row.status = "READY" /\ row.coverage = "FEDERAL_AWARD"
                  THEN [reader[r] EXCEPT !.pc = "objects"]
                  ELSE AfterLoading(r, d, {}))

\* Every registered Parquet object of the release, if each of them is on disk.
SelectObjects(r) ==
    LET d == reader[r].dataset
        slots == {s \in Slot : objects[<<d, YearKey, s>>] # None}
        local == \A s \in slots : files[<<d, YearKey, s>>] # None
    IN /\ reader[r].pc = "objects"
       /\ Step(r, AfterLoading(r, d, IF local THEN slots ELSE {}))

\* D1, D2 and File F are queries of their own, in that order.
AfterQuery == [D1 |-> "D2", D2 |-> "F", F |-> "idle"]

\* DuckDB refuses a missing or half-written file, the engine one without the canonical key.
Query(r) ==
    LET d == IF reader[r].pc = "F" THEN Sub ELSE Prime
        slots == {s \in reader[r].keys[d] : d = Sub \/ s[1] = reader[r].pc}
        At(s) == files[<<d, YearKey, s>>]
        Readable(s) == /\ At(s) \notin {None, Partial}
                       /\ CanonicalKey(s[1]) \in InDataset[At(s).archive][d][s[2]]
    IN /\ reader[r].pc \in {"D1", "D2", "F"}
       /\ Step(r, IF \A s \in slots : Readable(s)
                  THEN [reader[r] EXCEPT
                          !.pc = AfterQuery[reader[r].pc],
                          !.rows = @ \cup {<<s, At(s)>> : s \in slots},
                          !.status = IF reader[r].pc = "F" THEN "READY" ELSE @]
                  ELSE [Quiet EXCEPT !.status = "ERROR"])

-----------------------------------------------------------------------------
WriterStep ==
    \/ \E a \in Archive, n \in Name : JobCompletes(a, n)
    \/ JobFails
    \/ Download
    \/ WriteSidecar
    \/ Refuse
    \/ Withdraw
    \/ \E d \in Dataset : NextDataset(d)
    \/ ConvertMember
    \/ RegisterMember
    \/ PublishDataset

ReaderStep(r) == Ask(r) \/ SelectRelease(r) \/ SelectObjects(r) \/ Query(r)

Next ==
    \/ \E q \in Request : Submit(q)
    \/ \E a \in Archive, q \in Request : IngestArchive(a, q)
    \/ WriterStep
    \/ DieInCopy
    \/ Stop
    \/ LoseLake
    \/ \E r \in Reader : ReaderStep(r)

Spec == Init /\ [][Next]_vars

-----------------------------------------------------------------------------
\* Content is of the request its archive was generated for, or of a pair nothing
\* vouches for: the user's own, or a download that died before its sidecar.
Attributed(c) ==
    GeneratedFor[c.archive] = c.request \/ <<c.archive, c.request>> \in unvouched

\* A READY release names one archive, lists exactly its members of that dataset, and
\* each of them is registered and on disk as that archive's (or lost with the volume).
\* Any further object is left over from an archive given earlier under the SAME key:
\* archives of different scope never meet under one release (materialize_award_archive).
AwardReleaseComplete ==
    \A d \in Dataset, k \in Key :
        LET row == release[d][k]
            whole == [archive |-> row.source, request |-> row.request]
            Obj(s) == objects[<<d, k, s>>]
        IN row.status = "READY" =>
             /\ row.listed = SlotsOf[row.source][d]
             /\ ReleaseKey(row.request) = k /\ row.coverage = CoverageType(row.request)
             /\ \A s \in row.listed :
                   /\ Obj(s) = whole
                   /\ files[<<d, k, s>>] = whole \/ (losses > 0 /\ files[<<d, k, s>>] = None)
             /\ \A s \in Slot : Obj(s) # None => ReleaseKey(Obj(s).request) = k

\* An object was converted under a request of the release it is registered with, and
\* bootstrap-federal-awards never gives an archive another one's identity: under a
\* request it was not generated for, an archive is registered only when a user named
\* that request, or when its own download died before the sidecar.  (An object left
\* over from an earlier archive may be of another request than the release records
\* now, one with the same key.)
ProvenanceHolds ==
    \A x \in Place : objects[x] # None =>
        ReleaseKey(objects[x].request) = x[2] /\ Attributed(objects[x])

\* An award detail, read in six steps while archives of any dates and scope are
\* materialized, contains only rows converted under requests for the full year and
\* every agency, and generated for such a request if anything vouches for them.
DetailIsFullYear ==
    \A r \in Reader : reader[r].status = "READY" =>
        \A row \in reader[r].rows :
            /\ CoverageType(row[2].request) = "FEDERAL_AWARD"
            /\ \/ <<row[2].archive, row[2].request>> \in unvouched
               \/ CoverageType(GeneratedFor[row[2].archive]) = "FEDERAL_AWARD"

\* The detail the release of the year makes visible: its listed files, once READY and local.
Visible ==
    [d \in Dataset |->
       LET row == release[d][YearKey]
           At(s) == files[<<d, YearKey, s>>]
       IN IF row.status = "READY" /\ \A s \in row.listed : At(s) \notin {None, Partial}
          THEN {<<At(s).archive, s[2]>> : s \in row.listed}
          ELSE {}]

Published == INSTANCE ReleaseStore
             WITH Type <- Dataset, visible <- Visible,
                  NParts <- [a \in Archive |-> [d \in Dataset |-> Parts(a, d)]]

\* Whatever crashes and re-runs, the award release of a year is withdrawn whole and
\* published whole: the award lake implements ReleaseStore.
PublishesWholeAwardArchives == Published!Spec

-----------------------------------------------------------------------------
(* The inductive invariant behind these properties.                        *)

Status == {"ABSENT", "MATERIALIZING", "READY"}
Coverage == {"FEDERAL_AWARD", "FEDERAL_AWARD_SCOPED", "FEDERAL_AWARD_SLICE",
             "FEDERAL_AWARD_SCOPED_SLICE"}

ReleaseRow == [status : Status, coverage : Coverage \cup {None}, request : Request \cup {None},
               source : Archive \cup {None}, listed : SUBSET Slot]

WriterState ==
    [pc : {"idle", "wait", "download", "sidecar", "inspect", "datasets", "members", "register"},
     request : Request \cup {None}, name : Name \cup {None}, archive : Archive \cup {None},
     todo : SUBSET Dataset, dataset : Dataset \cup {None}, part : Nat]

ReaderState ==
    [pc : {"idle", "release", "objects", "D1", "D2", "F"}, dataset : Dataset \cup {None},
     keys : [Dataset -> SUBSET Slot], rows : SUBSET (Slot \X Content),
     status : {"NONE", "READY", "ERROR"}]

\* Every variable holds a value of its kind.
TypeOK ==
    /\ raw \in [Name -> Archive \cup {None}]
    /\ sidecar \in [Name -> Request \cup {None}]
    /\ unvouched \subseteq Archive \X Request
    /\ release \in [Dataset -> [Key -> ReleaseRow]]
    /\ objects \in [Place -> Content \cup {None}]
    /\ files \in [Place -> Content \cup {None, Partial}]
    /\ writer \in WriterState
    /\ reader \in [Reader -> ReaderState]
    /\ runs \in Nat /\ losses \in Nat

\* A sidecar belongs to the archive beside it; without one, nothing vouches for the
\* archive, or it is the one whose sidecar is about to be written.
Orphan(a) == \A q \in Request : <<a, q>> \in unvouched

SidecarsFit ==
    \A n \in Name :
        /\ sidecar[n] # None => /\ raw[n] # None
                                /\ Attributed([archive |-> raw[n], request |-> sidecar[n]])
        /\ raw[n] # None /\ sidecar[n] = None =>
              Orphan(raw[n]) \/ (writer.pc = "sidecar" /\ writer.name = n)

\* What the command has in hand at each of its steps.
InHand == [archive |-> writer.archive, request |-> writer.request]

\* The registered parts of the dataset in hand, up to the present one.
Registered(d, k) ==
    \A p \in 1 .. (writer.part - 1) :
        LET x == <<d, k, SlotOf(writer.archive, d, p)>>
        IN objects[x] = InHand /\ files[x] = InHand

WriterProgress ==
    /\ writer.pc # "idle" => writer.request \in Request
    /\ writer.pc \in {"download", "sidecar"} =>
          /\ writer.name \in Name /\ writer.archive \in Archive
          /\ GeneratedFor[writer.archive] = writer.request
    /\ writer.pc = "sidecar" =>
          /\ raw[writer.name] # None
          /\ sidecar[writer.name] = None =>
                Orphan(raw[writer.name]) \/ raw[writer.name] = writer.archive
    /\ writer.pc = "inspect" => writer.archive \in Archive /\ Attributed(InHand)
    /\ writer.pc \in {"datasets", "members", "register"} =>
          /\ writer.archive \in Archive /\ Attributed(InHand)
          /\ writer.todo \subseteq DatasetsIn(writer.archive)
          /\ \A d \in writer.todo :
                LET row == release[d][ReleaseKey(writer.request)]
                IN /\ row.status = "MATERIALIZING" /\ row.request = writer.request
                   /\ row.coverage = CoverageType(writer.request)
    /\ writer.pc \in {"members", "register"} =>
          /\ writer.dataset \in writer.todo
          /\ writer.part \in 1 .. (Parts(writer.archive, writer.dataset) + 1)
          /\ Registered(writer.dataset, ReleaseKey(writer.request))
    /\ writer.pc = "register" =>
          /\ writer.part <= Parts(writer.archive, writer.dataset)
          /\ files[PlaceInHand] = InHand

\* A file and an object lie under the key of the request they were converted under.
Fits(c, x) == c \in Content => Attributed(c) /\ ReleaseKey(c.request) = x[2]

PlacesFit == \A x \in Place : Fits(files[x], x) /\ Fits(objects[x], x)

\* A request holds only rows found under the key of the year.
RowsOfTheYear ==
    \A r \in Reader : \A row \in reader[r].rows :
        Attributed(row[2]) /\ ReleaseKey(row[2].request) = YearKey

AwardInv ==
    /\ TypeOK /\ SidecarsFit /\ WriterProgress /\ PlacesFit /\ RowsOfTheYear
    /\ AwardReleaseComplete
=============================================================================
