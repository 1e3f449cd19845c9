----------------------------- MODULE FileCFleet -----------------------------
(***************************************************************************)
(* Generation of File C at USAspending, one agency shard after another.    *)
(*                                                                         *)
(* The service answers a repeated request with the job it already has for  *)
(* it, unless that job failed; a job may run, finish, fail or be stranded  *)
(* for ever.  Requests are retried, so one whose answer is lost may have   *)
(* created a job.  The client reads the status of the job it is given,     *)
(* leaves stale ones behind by asking for the same columns in another      *)
(* order, and falls back on a verified archive for some agencies.          *)
(***************************************************************************)
EXTENDS Naturals

CONSTANTS NAgencies,    \* agencies that reported in the period
          Fallback,     \* those of VERIFIED_FILE_C_ARCHIVE_FALLBACKS
          Variants,     \* FILE_C_CACHE_BUST_VARIANTS
          MaxAttempts,  \* TRANSIENT_HTTP_ATTEMPTS
          MaxPolls      \* max_polls of wait

Agency == 1 .. NAgencies

Candidate == 0 .. Variants   \* 0: the canonical request

ASSUME FleetAssumption ==
    /\ NAgencies \in Nat \ {0}
    /\ Fallback \subseteq Agency
    /\ Variants \in Nat \ {0}
    /\ MaxAttempts \in Nat \ {0}
    /\ MaxPolls \in Nat \ {0}

VARIABLES
    job,        \* [Agency -> [Candidate -> state of the service's job for that request]]
    asked,      \* <<agency, candidate>> the service has received from this fleet
    pc,         \* where the client is in _submit_file_c_shard or wait
    agency,     \* the shard in hand
    candidate,  \* candidate_index
    attempt,    \* attempt of the request in hand, from 1
    polls,      \* polls made by wait
    bypassed,   \* stale_cached_jobs of the shard in hand
    completed   \* [Agency -> completed_responses of the shard]

vars == <<job, asked, pc, agency, candidate, attempt, polls, bypassed, completed>>

Missing == [kind |-> "missing", candidate |-> 0, bypassed |-> {}]

Active == {"running", "stale"}

\* The service still remembers the requests of earlier activations.
Init ==
    /\ job \in [Agency -> [Candidate -> {"none", "running", "stale", "finished", "failed"}]]
    /\ asked = {}
    /\ pc = "submit"
    /\ agency = 1
    /\ candidate = 0
    /\ attempt = 1
    /\ polls = 0
    /\ bypassed = {}
    /\ completed = [a \in Agency |-> Missing]

-----------------------------------------------------------------------------
(* The service.                                                            *)

\* The cache: a request gets its earlier job back unless that one failed.
Receive ==
    /\ job' = [job EXCEPT ![agency][candidate] = IF @ \in {"none", "failed"} THEN "running" ELSE @]
    /\ asked' = asked \cup {<<agency, candidate>>}

Age(a, c) ==
    /\ job[a][c] = "running"
    /\ job' = [job EXCEPT ![a][c] = "stale"]
    /\ UNCHANGED <<asked, pc, agency, candidate, attempt, polls, bypassed, completed>>

End(a, c) ==
    /\ job[a][c] \in Active
    /\ \E outcome \in {"finished", "failed"} : job' = [job EXCEPT ![a][c] = outcome]
    /\ UNCHANGED <<asked, pc, agency, candidate, attempt, polls, bypassed, completed>>

-----------------------------------------------------------------------------
(* How a shard is left.                                                    *)

\* On to the next agency, or the synthetic job that holds every response.
Complete(response) ==
    /\ completed' = [completed EXCEPT ![agency] = response]
    /\ pc' = IF agency = NAgencies THEN "done" ELSE "submit"
    /\ agency' = IF agency = NAgencies THEN agency ELSE agency + 1
    /\ candidate' = 0 /\ attempt' = 1 /\ polls' = 0 /\ bypassed' = {}

\* By kind: an archive whose job was seen finished, or one named by a URL alone.
Received(kind) == [kind |-> kind, candidate |-> candidate, bypassed |-> bypassed]

Generated == Received("generated")

\* Faulty variant of Raise: a shard that failed is left out.
RaiseLeavesOut ==
    IF agency \in Fallback \/ agency < NAgencies
    THEN Complete([kind |-> IF agency \in Fallback THEN "fallback" ELSE "missing",
                   candidate |-> 0, bypassed |-> {}])
    ELSE /\ pc' = "refused"
         /\ UNCHANGED <<agency, candidate, attempt, polls, bypassed, completed>>

\* An HTTPError, RuntimeError or TimeoutError out of _submit_file_c_shard.
Raise ==
    IF agency \in Fallback
    THEN Complete([kind |-> "fallback", candidate |-> 0, bypassed |-> {}])
    ELSE /\ pc' = "refused"
         /\ UNCHANGED <<agency, candidate, attempt, polls, bypassed, completed>>

\* continue: the next equivalent request, or TimeoutError after the last.
NextCandidate ==
    IF candidate = Variants
    THEN Raise
    ELSE /\ candidate' = candidate + 1
         /\ bypassed' = bypassed \cup {candidate}
         /\ pc' = "submit" /\ attempt' = 1
         /\ UNCHANGED <<agency, polls, completed>>

Goto(label) ==
    /\ pc' = label /\ attempt' = 1 /\ polls' = 0
    /\ UNCHANGED <<agency, candidate, bypassed, completed>>

AgainUncounted == UNCHANGED <<pc, agency, candidate, attempt, polls, bypassed, completed>>

\* A dropped connection, a 429 or a 5xx: again, unless that was the last attempt.
Again ==
    /\ attempt < MaxAttempts
    /\ attempt' = attempt + 1
    /\ UNCHANGED <<pc, agency, candidate, polls, bypassed, completed>>

-----------------------------------------------------------------------------
(* The client.                                                             *)

\* wait on a response without a file name: with a URL alone it is complete, whatever its
\* job does, and with neither it raises.
WaitUnnamed == Complete(Received("direct")) \/ Raise

\* A response with a file name is probed, or polled at once for want of a status_url.
PostAnswered ==
    /\ pc = "submit"
    /\ Receive
    /\ Goto("probe") \/ Goto("wait") \/ WaitUnnamed

\* The answer is lost; the service may have received the request.
PostLost ==
    /\ pc = "submit"
    /\ Receive \/ UNCHANGED <<job, asked>>
    /\ Again \/ (attempt = MaxAttempts /\ Raise)

\* A status code that is not retried.
PostRejected ==
    /\ pc = "submit"
    /\ Raise
    /\ UNCHANGED <<job, asked>>

\* Faulty variant of Probe: a job that is not failed counts as finished.
ProbeReadyIsFinished ==
    /\ pc = "probe"
    /\ LET state == job[agency][candidate]
       IN CASE state = "stale" -> NextCandidate
            [] state = "failed" -> Raise
            [] OTHER -> Complete(Generated)
    /\ UNCHANGED <<job, asked>>

Probe ==
    /\ pc = "probe"
    /\ LET state == job[agency][candidate]
       IN CASE state = "stale" -> NextCandidate
            [] state = "finished" -> Complete(Generated)
            [] state = "failed" -> Raise
            [] state = "running" -> Goto("wait")
    /\ UNCHANGED <<job, asked>>

\* The status cannot be read: only the canonical request is given up for that.
ProbeUnavailable ==
    /\ pc = "probe"
    /\ IF candidate = 0 THEN NextCandidate ELSE Goto("wait")
    /\ UNCHANGED <<job, asked>>

Poll ==
    /\ pc = "wait"
    /\ polls < MaxPolls
    /\ LET state == job[agency][candidate]
       IN CASE state = "finished" -> Complete(Generated)
            [] state = "failed" -> Raise
            [] OTHER -> /\ polls' = polls + 1 /\ attempt' = 1
                        /\ UNCHANGED <<pc, agency, candidate, bypassed, completed>>
    /\ UNCHANGED <<job, asked>>

PollTimeout ==
    /\ pc = "wait"
    /\ polls = MaxPolls
    /\ Raise
    /\ UNCHANGED <<job, asked>>

PollUnavailable ==
    /\ pc = "wait"
    /\ polls < MaxPolls
    /\ Raise
    /\ UNCHANGED <<job, asked>>

\* A lost answer to a status request.
StatusLost ==
    /\ pc \in {"probe", "wait"}
    /\ pc = "wait" => polls < MaxPolls
    /\ Again
    /\ UNCHANGED <<job, asked>>

\* A body that is not JSON, or the death of the process.
Abort ==
    /\ pc \in {"submit", "probe", "wait"}
    /\ pc' = "refused"
    /\ UNCHANGED <<job, asked, agency, candidate, attempt, polls, bypassed, completed>>

ClientStep ==
    \/ PostAnswered \/ PostLost \/ PostRejected
    \/ Probe \/ ProbeUnavailable
    \/ Poll \/ PollTimeout \/ PollUnavailable
    \/ StatusLost

Next ==
    \/ ClientStep
    \/ Abort
    \/ \E a \in Agency, c \in Candidate : Age(a, c) \/ End(a, c)

Spec == Init /\ [][Next]_vars

\* The client goes on by itself; the service promises nothing.
FairSpec == Spec /\ WF_vars(ClientStep)
-----------------------------------------------------------------------------
Response == [kind: {"missing", "generated", "direct", "fallback"}, candidate: Candidate,
             bypassed: SUBSET Candidate]

\* Every variable holds a value of its kind.
TypeOK ==
    /\ job \in [Agency -> [Candidate -> {"none", "running", "stale", "finished", "failed"}]]
    /\ asked \subseteq Agency \X Candidate
    /\ pc \in {"submit", "probe", "wait", "done", "refused"}
    /\ agency \in Agency
    /\ candidate \in Candidate
    /\ attempt \in 1 .. MaxAttempts
    /\ polls \in 0 .. MaxPolls
    /\ bypassed \subseteq Candidate
    /\ completed \in [Agency -> Response]

Covered == {a \in Agency : completed[a].kind # "missing"}

\* The fleet is declared finished exactly when it holds a response of every agency
\* ("Every agency must still succeed"); until then it holds those before the shard
\* in hand, and no later agency has been asked for (_submit_file_c_agency_shards).
CoversEveryAgency ==
    /\ IF pc = "done" THEN Covered = Agency ELSE Covered = 1 .. (agency - 1)
    /\ \A req \in asked : req[1] <= agency

\* A response is the archive of a job that the service finished, or the URL it gave in
\* place of a file name to poll, under the request it is recorded with, or a verified
\* archive of an agency that has one; a request of a later candidate was made only after
\* the service had received every earlier one (_submit_file_c_shard, wait,
\* VERIFIED_FILE_C_ARCHIVE_FALLBACKS).
ResponsesAreFinished ==
    \A a \in Covered :
        \/ /\ completed[a].kind \in {"generated", "direct"}
           /\ completed[a].kind = "generated" => job[a][completed[a].candidate] = "finished"
           /\ completed[a].bypassed = 0 .. (completed[a].candidate - 1)
           /\ \A c \in 0 .. completed[a].candidate : <<a, c>> \in asked
        \/ completed[a].kind = "fallback" /\ a \in Fallback

\* Whatever the service does or fails to do, the fleet ends: every wait, retry and
\* list of candidates is bounded.
FleetEnds == <>(pc \in {"done", "refused"})

-----------------------------------------------------------------------------
\* The inductive strengthening: what the client knows about the shard in hand.
ShardProgress ==
    /\ bypassed = IF pc = "done" THEN {} ELSE 0 .. (candidate - 1)
    /\ \A c \in bypassed : <<agency, c>> \in asked
    /\ pc \in {"probe", "wait"} => /\ <<agency, candidate>> \in asked
                                   /\ job[agency][candidate] # "none"

FleetInv ==
    /\ TypeOK
    /\ CoversEveryAgency
    /\ ResponsesAreFinished
    /\ ShardProgress
=============================================================================
