------------------------- MODULE AccountActivation --------------------------
(***************************************************************************)
(* One activation of the federal account files: Files A and B are asked    *)
(* for as two jobs and combined into one local archive, then File C comes  *)
(* as a pinned archive or as one shard per reporting agency, combined too; *)
(* each archive is materialized as soon as it is complete on disk.         *)
(*                                                                         *)
(* Jobs, agencies' publications and the process itself may fail or change  *)
(* between any two steps.  How one shard is obtained is FileCFleet's, how  *)
(* an archive is converted AccountLake's.                                  *)
(***************************************************************************)
EXTENDS Naturals, Sequences, FiniteSets

CONSTANTS NAgencies,    \* toptier agencies, in order of their code
          Abbreviation, \* [Agency -> abbreviation], two agencies may share one
          Known,        \* agencies of the account-download reference
          PageSize,     \* agencies on a page of the reporting overview
          Strays        \* <<component, type>>: a type the component may hold besides its own

Agency == 1 .. NAgencies
Type == {"A", "B", "C"}

\* A component archive, by the submission type and the agency it was asked for.
All == 0
Halves == <<<<"A", All>>, <<"B", All>>>>   \* the split of the A_B request
Pinned == <<"C", All>>
Shard(a) == <<"C", a>>

File == {"AB", "C"}      \* FY.._Split_AccountData.zip, and the archive of File C

ASSUME ActivationAssumption ==
    /\ NAgencies \in Nat \ {0} /\ Known \subseteq Agency
    /\ PageSize \in Nat \ {0} /\ DOMAIN Abbreviation = Agency
    /\ Strays \subseteq (Type \X Nat) \X Type

VARIABLES
    overview,  \* [Agency -> what the reporting overview says of it]
    manifest,  \* the pinned release of this period: "none", "valid" or "invalid"
    job,       \* [{"A", "B"} -> state of the service's job]
    disk,      \* [File -> components in the local ZIP, and whether it was closed]
    release,   \* [Type -> [status, file, parts, fleet]]
    run        \* local variables of the activation, and owed: the agencies that had published
               \* when the reading of the overview began

vars == <<overview, manifest, job, disk, release, run>>
service == <<overview, manifest, job>>

-----------------------------------------------------------------------------
NoFile == [parts |-> {}, closed |-> FALSE, exists |-> FALSE]

Idle == [pc |-> "idle", file |-> "AB", waiting |-> <<>>, responses |-> <<>>, page |-> 1,
         agencies |-> {}, owed |-> {}, todo |-> {}, did |-> {}]

Init ==
    /\ overview \in [Agency -> {"absent", "listed", "published"}]
    /\ manifest \in {"none", "valid", "invalid"}
    /\ job = [h \in {"A", "B"} |-> "none"]
    /\ disk = [f \in File |-> NoFile]
    /\ release = [t \in Type |-> [status |-> "ABSENT", file |-> "AB", parts |-> {},
                                  fleet |-> {}]]
    /\ run = Idle

-----------------------------------------------------------------------------
(* USAspending.                                                            *)

\* An agency appears on the overview, or publishes its submission of the period.
Publish(a) ==
    /\ overview[a] # "published"
    /\ overview' = [overview EXCEPT ![a] = IF @ = "absent" THEN "listed" ELSE "published"]
    /\ UNCHANGED <<manifest, job, disk, release, run>>

\* One leaves the overview, or withdraws its submission.  The rest of the list moves up, past
\* a reader who is between two pages: that reading owes nothing any more.
Leave(a) ==
    /\ overview[a] # "absent"
    /\ overview' \in {[overview EXCEPT ![a] = "absent"], [overview EXCEPT ![a] = "listed"]}
    /\ run' = [run EXCEPT !.owed = IF run.pc = "pages" THEN {} ELSE @]
    /\ UNCHANGED <<manifest, job, disk, release>>

EndJob(h) ==
    /\ job[h] = "running"
    /\ \E outcome \in {"finished", "failed"} : job' = [job EXCEPT ![h] = outcome]
    /\ UNCHANGED <<overview, manifest, disk, release, run>>

\* What a generated archive holds, by the columns of its members.
Deliveries(component) ==
    {{component[1]}} \cup {{component[1], s[2]} : s \in {x \in Strays : x[1] = component}}

-----------------------------------------------------------------------------
(* The A_B request: submit and wait.                                       *)

Start ==
    /\ run.pc \in {"idle", "done"}
    /\ run' = [Idle EXCEPT !.pc = "submit"]
    /\ UNCHANGED <<service, disk, release>>

\* The two submission types are split; the service may still have a job for each.
SubmitHalves ==
    /\ run.pc = "submit"
    /\ job' = [h \in {"A", "B"} |-> IF job[h] \in {"none", "failed"} THEN "running" ELSE job[h]]
    /\ run' = [run EXCEPT !.pc = "wait", !.waiting = Halves]
    /\ UNCHANGED <<overview, manifest, disk, release>>

\* wait waits for the components in turn; a failed one ends the activation.
WaitHalf ==
    LET h == Head(run.waiting)[1]
    IN /\ run.pc = "wait"
       /\ job[h] # "running"
       /\ run' = IF job[h] = "failed" THEN Idle
                 ELSE [run EXCEPT !.responses = Append(@, Head(run.waiting)),
                                  !.waiting = Tail(@),
                                  !.pc = IF Len(run.waiting) = 1 THEN "open" ELSE "wait"]
       /\ UNCHANGED <<service, disk, release>>

\* Faulty variant of WaitTimeout: the polls are not counted.
WaitForEver == FALSE /\ UNCHANGED vars

\* TimeoutError after max_polls.
WaitTimeout ==
    /\ run.pc = "wait"
    /\ job[Head(run.waiting)[1]] = "running"
    /\ run' = Idle
    /\ UNCHANGED <<service, disk, release>>

-----------------------------------------------------------------------------
(* download_completed and _combine_split_archives.                         *)

\* The combined archive is written in place of the earlier one.
OpenArchive ==
    /\ run.pc = "open"
    /\ disk' = [disk EXCEPT ![run.file] = [parts |-> {}, closed |-> FALSE, exists |-> TRUE]]
    /\ run' = [run EXCEPT !.pc = "combine"]
    /\ UNCHANGED <<service, release>>

\* Faulty variant of AddComponent: a component that cannot be downloaded is skipped.
AddComponentLenient ==
    /\ run.pc = "combine" /\ run.responses # <<>>
    /\ \/ UNCHANGED disk
       \/ \E types \in Deliveries(Head(run.responses)) :
             disk' = [disk EXCEPT ![run.file].parts =
                        @ \cup {<<Head(run.responses), types>>}]
    /\ run' = [run EXCEPT !.responses = Tail(@)]
    /\ UNCHANGED <<service, release>>

AddComponent ==
    /\ run.pc = "combine" /\ run.responses # <<>>
    /\ \E types \in Deliveries(Head(run.responses)) :
          disk' = [disk EXCEPT ![run.file].parts = @ \cup {<<Head(run.responses), types>>}]
    /\ run' = [run EXCEPT !.responses = Tail(@)]
    /\ UNCHANGED <<service, release>>

CloseArchive ==
    /\ run.pc = "combine" /\ run.responses = <<>>
    /\ disk' = [disk EXCEPT ![run.file].closed = TRUE]
    /\ run' = [run EXCEPT !.pc = "withdraw", !.owed = {}]
    /\ UNCHANGED <<service, release>>

-----------------------------------------------------------------------------
(* materialize_account_archive, as AccountLake has it in detail.           *)

TypesIn(f) == UNION {p[2] : p \in disk[f].parts}

Withdraw ==
    /\ run.pc = "withdraw"
    /\ release' = [t \in Type |-> IF t \in TypesIn(run.file)
                                 THEN [release[t] EXCEPT !.status = "MATERIALIZING"]
                                 ELSE release[t]]
    /\ run' = [run EXCEPT !.pc = "publish", !.todo = TypesIn(run.file)]
    /\ UNCHANGED <<service, disk>>

PublishType(t) ==
    /\ run.pc = "publish" /\ t \in run.todo
    /\ release' = [release EXCEPT ![t] = [status |-> "READY", file |-> run.file,
                                          fleet |-> run.agencies,
                                          parts |-> disk[run.file].parts]]
    /\ run' = [run EXCEPT !.todo = @ \ {t}, !.did = @ \cup {<<t, run.file>>}]
    /\ UNCHANGED <<service, disk>>

\* Faulty variant of Overlapping: a type materialized twice is not noticed.
OverlappingUnnoticed == FALSE

\* The types of this archive that an earlier archive of the activation had too.
Overlapping == run.file = "C" /\ TypesIn("C") \cap TypesIn("AB") # {}

\* Both checks come after the releases were committed.
Materialized ==
    /\ run.pc = "publish" /\ run.todo = {}
    /\ run' = CASE Overlapping -> Idle
                [] ~Overlapping /\ run.file = "AB" ->
                       [run EXCEPT !.pc = "submitC", !.file = "C"]
                [] ~Overlapping /\ run.file = "C" ->
                       IF TypesIn("AB") \cup TypesIn("C") = Type
                       THEN [run EXCEPT !.pc = "done"] ELSE Idle
    /\ UNCHANGED <<service, disk, release>>

-----------------------------------------------------------------------------
(* The C request: a pinned release, or a shard of every reporting agency.  *)

\* verified_product_file_c_release; an entry that fails its validation is an error.
SubmitC ==
    /\ run.pc = "submitC"
    /\ run' = CASE manifest = "valid" -> [run EXCEPT !.pc = "pinned"]
                [] manifest = "invalid" -> Idle
                [] manifest = "none" ->
                       [run EXCEPT !.pc = "pages", !.page = 1,
                                   !.owed = {a \in Agency : overview[a] = "published"}]
    /\ UNCHANGED <<service, disk, release>>

\* The pinned archive is downloaded as it is, and kept if it is there already.
DownloadPinned ==
    /\ run.pc = "pinned"
    /\ \E types \in Deliveries(Pinned) :
          disk' = [disk EXCEPT !["C"] =
                     IF @.exists THEN @
                     ELSE [parts |-> {<<Pinned, types>>}, closed |-> TRUE, exists |-> TRUE]]
    /\ run' = [run EXCEPT !.pc = "withdraw"]
    /\ UNCHANGED <<service, release>>

Listing == {a \in Agency : overview[a] # "absent"}
Rank(a) == Cardinality({b \in Listing : b <= a})
OnPage(p) == {a \in Listing : Rank(a) > (p - 1) * PageSize /\ Rank(a) <= p * PageSize}

\* Faulty variant of HasNext: only one page is read.
HasNextNever(p) == FALSE

HasNext(p) == Cardinality(Listing) > p * PageSize

SameName(a, b) == Abbreviation[a] = Abbreviation[b]

\* The agencies of a page that published in the period; of those that share an
\* abbreviation the last one takes the place of the others.
Kept(p) ==
    LET reporting == {a \in OnPage(p) : overview[a] = "published"}
    IN {a \in reporting : \A b \in reporting : SameName(a, b) => b <= a}

\* Agencies are kept by abbreviation, and those of a later page replace those of the
\* earlier ones.
KeepPage(read, page) == {a \in read : \A b \in page : ~SameName(a, b)} \cup page

\* One page of the overview, which may have changed since the one before.
ReadPage ==
    /\ run.pc = "pages"
    /\ run' = [run EXCEPT !.agencies = KeepPage(@, Kept(run.page)),
                          !.page = @ + 1,
                          !.pc = IF HasNext(run.page) THEN "pages" ELSE "join"]
    /\ UNCHANGED <<service, disk, release>>

\* No reporting agency may be missing from the account-download reference.
JoinReference ==
    /\ run.pc = "join"
    /\ run' = IF run.agencies = {} \/ ~(run.agencies \subseteq Known)
              THEN Idle
              ELSE [run EXCEPT !.pc = "shards", !.todo = run.agencies]
    /\ UNCHANGED <<service, disk, release>>

\* The shard of the next agency finishes, or the verified archive stands in for it.
NextShard ==
    /\ run.pc = "shards"
    /\ \E a \in run.todo :
          /\ \A b \in run.todo : a <= b
          /\ run' = [run EXCEPT !.todo = @ \ {a}, !.responses = Append(@, Shard(a)),
                                !.pc = IF run.todo = {a} THEN "open" ELSE "shards"]
    /\ UNCHANGED <<service, disk, release>>

-----------------------------------------------------------------------------
(* Failure.                                                                *)

Running == run.pc \notin {"idle", "done"}

\* An exception: a refused request, a lost connection, a full disk, a wrong row count.
\* Leaving the with block closes a ZIP that lacks the components not yet added.
Fail ==
    /\ Running
    /\ run' = Idle
    /\ disk' = IF run.pc = "combine" THEN [disk EXCEPT ![run.file].closed = TRUE] ELSE disk
    /\ UNCHANGED <<service, release>>

\* The process dies: the ZIP in hand stays without a directory.
Die ==
    /\ Running
    /\ run' = Idle
    /\ UNCHANGED <<service, disk, release>>

ClientStep ==
    \/ SubmitHalves \/ WaitHalf \/ WaitTimeout
    \/ OpenArchive \/ AddComponent \/ CloseArchive
    \/ Withdraw \/ Materialized
    \/ \E t \in Type : PublishType(t)
    \/ SubmitC \/ DownloadPinned \/ ReadPage \/ JoinReference \/ NextShard

Next ==
    \/ Start
    \/ ClientStep
    \/ Fail
    \/ Die
    \/ \E h \in {"A", "B"} : EndJob(h)
    \/ \E a \in Agency : Publish(a) \/ Leave(a)

Spec == Init /\ [][Next]_vars

\* The client is one thread that sleeps and polls; the service owes it nothing.
FairSpec == Spec /\ WF_vars(ClientStep)

-----------------------------------------------------------------------------
Components(parts) == {p[1] : p \in parts}

\* The fleet of a run has a shard under the abbreviation of every agency that had
\* published when File C was asked for, though the overview is read page by page while
\* agencies are added to it, submit, and take each other's place under a shared
\* abbreviation; and each of its agencies has an identifier ("refusing incomplete File C
\* coverage").
FleetCoversReporting ==
    run.pc \in {"shards", "open", "combine"} /\ run.file = "C" =>
        /\ \A a \in run.owed : \E b \in run.agencies : SameName(a, b)
        /\ run.agencies \subseteq Known

\* No release is READY from an archive that lacks a component: a combination cut short
\* by an error leaves a ZIP that opens and looks complete, one cut short by a crash
\* stays on disk, and neither reaches the lake through an activation.
PublishedFromWholeArchives ==
    \A t \in Type : release[t].status = "READY" =>
        LET from == Components(release[t].parts)
        IN IF release[t].file = "AB"
           THEN from = {Halves[1], Halves[2]}
           ELSE from \in {{Pinned}, {Shard(a) : a \in release[t].fleet}}

\* An activation that returns has itself made exactly A and B from the one archive and
\* C from the other, and left all three READY, whatever strays an archive holds or
\* earlier runs left behind ("refusing overlapping source grains").
SuccessIsExactlyABC ==
    run.pc = "done" =>
        /\ run.did = {<<"A", "AB">>, <<"B", "AB">>, <<"C", "C">>}
        /\ \A t \in Type : release[t].status = "READY" /\ <<t, release[t].file>> \in run.did

\* An activation ends, whether or not the service ever finishes a job.
ActivationEnds == Running ~> ~Running
=============================================================================
