-------------------------- MODULE FileCFleetProofs ---------------------------
(***************************************************************************)
(* The File C fleet covers every agency or is refused, for every number of *)
(* agencies, variants, attempts and polls.  FleetInv is inductive.  What a *)
(* step does to the service (Served) is kept apart from how it leaves the  *)
(* shard in hand, so that each way out is proved once.                     *)
(***************************************************************************)
EXTENDS FileCFleet, TLAPS

JobState == {"none", "running", "stale", "finished", "failed"}

\* What a step of the client may do to the service.
Served ==
    /\ job' \in [Agency -> [Candidate -> JobState]]
    /\ \A a \in Agency : a # agency => job'[a] = job[a]
    /\ \A c \in Candidate : job[agency][c] # "none" => job'[agency][c] # "none"
    /\ asked \subseteq asked'
    /\ asked' \subseteq asked \cup {<<agency, candidate>>}

InHand == pc \in {"submit", "probe", "wait"}

\* Receiving a request changes the job of that request alone.
LEMMA ReceiveServes == ASSUME FleetInv, Receive PROVE Served
<1> USE FleetAssumption DEF FleetInv, TypeOK
<1>1. job' = [job EXCEPT ![agency][candidate] =
                IF job[agency][candidate] \in {"none", "failed"} THEN "running"
                ELSE job[agency][candidate]]
    BY DEF Receive
<1> DEFINE s == IF job[agency][candidate] \in {"none", "failed"} THEN "running"
                ELSE job[agency][candidate]
<1>2. s \in JobState /\ s # "none"
    BY DEF JobState
<1> HIDE DEF s
<1>3. job' = [job EXCEPT ![agency][candidate] = s]
    BY <1>1 DEF s
<1>4. job \in [Agency -> [Candidate -> JobState]]
    BY DEF JobState
<1>5. job' \in [Agency -> [Candidate -> JobState]]
    BY <1>2, <1>3, <1>4
<1>6. \A a \in Agency : a # agency => job'[a] = job[a]
    BY <1>3, <1>4
<1>7. \A c \in Candidate : job[agency][c] # "none" => job'[agency][c] # "none"
    BY <1>2, <1>3, <1>4
<1> QED BY <1>5, <1>6, <1>7 DEF Served, Receive

\* A step that leaves the service alone.
LEMMA IdleServes == ASSUME FleetInv, UNCHANGED <<job, asked>> PROVE Served
    BY DEF FleetInv, TypeOK, Served, JobState

\* The initial state satisfies the invariant.
LEMMA InitFleetInv == Init => FleetInv
<1> SUFFICES ASSUME Init PROVE FleetInv
    OBVIOUS
<1> USE FleetAssumption DEF Init, Agency, Candidate
<1>1. TypeOK
    BY DEF TypeOK, Response, Missing
<1>2. CoversEveryAgency
    BY DEF CoversEveryAgency, Covered, Missing
<1>3. ResponsesAreFinished
    BY DEF ResponsesAreFinished, Covered, Missing
<1>4. ShardProgress
    BY DEF ShardProgress
<1> QED BY <1>1, <1>2, <1>3, <1>4 DEF FleetInv

-----------------------------------------------------------------------------
(* The ways out of a shard.                                                *)

\* What a response must say of the shard it answers.
Answers(response) ==
    /\ response \in Response
    /\ \/ /\ response.kind \in {"generated", "direct"}
          /\ response.kind = "generated" => job'[agency][response.candidate] = "finished"
          /\ response.bypassed = 0 .. (response.candidate - 1)
          /\ \A c \in 0 .. response.candidate : <<agency, c>> \in asked'
       \/ response.kind = "fallback" /\ agency \in Fallback

\* Completing a shard with a response that answers it keeps the invariant.
LEMMA CompleteKeepsInv ==
    ASSUME FleetInv, Served, InHand, NEW response, Answers(response), Complete(response)
    PROVE  FleetInv'
<1> USE FleetAssumption DEF Agency
<1>0. /\ agency \in 1 .. NAgencies /\ NAgencies \in Nat
      /\ completed \in [Agency -> Response] /\ response \in Response
      /\ response.kind # "missing"
      /\ Covered = 1 .. (agency - 1)
    BY DEF FleetInv, TypeOK, CoversEveryAgency, InHand, Answers
<1>1. /\ completed' \in [Agency -> Response]
      /\ completed'[agency] = response
      /\ \A a \in Agency : a # agency => completed'[a] = completed[a]
    BY <1>0 DEF Complete
<1>2. Covered' = Covered \cup {agency}
    BY <1>0, <1>1 DEF Covered
<1>3. TypeOK'
  <2>1. asked' \subseteq Agency \X Candidate
      BY DEF FleetInv, TypeOK, Served
  <2>2. job' \in [Agency -> [Candidate -> JobState]]
      BY DEF Served
  <2>3. /\ candidate' \in Candidate /\ attempt' \in 1 .. MaxAttempts
        /\ polls' \in 0 .. MaxPolls /\ bypassed' \subseteq Candidate
        /\ agency' \in Agency
        /\ pc' \in {"submit", "probe", "wait", "done", "refused"}
      BY <1>0 DEF Complete, Candidate
  <2> QED BY <1>1, <2>1, <2>2, <2>3 DEF TypeOK, JobState
<1>4. CoversEveryAgency'
  <2>1. IF pc' = "done" THEN Covered' = Agency ELSE Covered' = 1 .. (agency' - 1)
      BY <1>0, <1>2 DEF Complete
  <2>2. \A req \in asked' : req[1] <= agency'
    <3>1. \A req \in asked : req[1] <= agency /\ req[1] \in 1 .. NAgencies
        BY DEF FleetInv, TypeOK, CoversEveryAgency
    <3>2. agency <= agency' /\ agency' \in Nat
        BY <1>0 DEF Complete
    <3> QED BY <1>0, <3>1, <3>2 DEF Served
  <2> QED BY <2>1, <2>2 DEF CoversEveryAgency
<1>5. ResponsesAreFinished'
  <2> SUFFICES ASSUME NEW a \in Covered'
               PROVE  \/ /\ completed'[a].kind \in {"generated", "direct"}
                         /\ completed'[a].kind = "generated" =>
                               job'[a][completed'[a].candidate] = "finished"
                         /\ completed'[a].bypassed = 0 .. (completed'[a].candidate - 1)
                         /\ \A c \in 0 .. completed'[a].candidate : <<a, c>> \in asked'
                      \/ completed'[a].kind = "fallback" /\ a \in Fallback
      BY DEF ResponsesAreFinished
  <2>1. CASE a = agency
      BY <1>1, <2>1 DEF Answers
  <2>2. CASE a # agency
    <3>1. a \in Covered /\ a \in Agency
        BY <1>2, <2>2 DEF Covered
    <3>2. completed'[a] = completed[a] /\ job'[a] = job[a] /\ asked \subseteq asked'
        BY <1>1, <2>2, <3>1 DEF Served
    <3> QED BY <3>1, <3>2 DEF FleetInv, ResponsesAreFinished
  <2> QED BY <2>1, <2>2
<1>6. ShardProgress'
    BY DEF ShardProgress, Complete
<1> QED BY <1>3, <1>4, <1>5, <1>6 DEF FleetInv

\* A step that leaves the responses alone and stays in the shard.
LEMMA StayKeepsInv ==
    ASSUME FleetInv, Served, InHand,
           completed' = completed, agency' = agency,
           candidate' \in Candidate, attempt' \in 1 .. MaxAttempts, polls' \in 0 .. MaxPolls,
           pc' \in {"submit", "probe", "wait", "refused"},
           bypassed' = 0 .. (candidate' - 1),
           \A c \in bypassed' : <<agency, c>> \in asked',
           pc' \in {"probe", "wait"} =>
               <<agency, candidate'>> \in asked' /\ job'[agency][candidate'] # "none"
    PROVE  FleetInv'
<1> USE FleetAssumption DEF FleetInv
<1>1. TypeOK'
  <2>1. asked' \subseteq Agency \X Candidate
      BY DEF TypeOK, Served
  <2>2. bypassed' \subseteq Candidate
      BY DEF Candidate
  <2> QED BY <2>1, <2>2 DEF TypeOK, Served, JobState
<1>2. Covered' = Covered
    BY DEF Covered
<1>3. CoversEveryAgency'
  <2>1. \A req \in asked' : req[1] <= agency'
    <3>1. agency \in Nat
        BY DEF TypeOK, Agency
    <3> QED BY <3>1 DEF CoversEveryAgency, Served
  <2> QED BY <1>2, <2>1 DEF CoversEveryAgency, InHand
<1>4. ResponsesAreFinished'
  <2>1. \A a \in Covered : a \in Agency /\ a # agency
      BY DEF CoversEveryAgency, InHand, Agency, TypeOK
  <2>2. \A a \in Covered : job'[a] = job[a]
      BY <2>1 DEF Served
  <2> QED BY <1>2, <2>2 DEF ResponsesAreFinished, Served
<1>5. ShardProgress'
    BY DEF ShardProgress
<1> QED BY <1>1, <1>3, <1>4, <1>5
\* An error refuses the fleet or takes the agency's verified archive.
LEMMA RaiseKeepsInv ==
    ASSUME FleetInv, Served, InHand, Raise
    PROVE  FleetInv'
<1>1. CASE agency \in Fallback
  <2> DEFINE response == [kind |-> "fallback", candidate |-> 0, bypassed |-> {}]
  <2>1. Answers(response)
      BY <1>1, FleetAssumption DEF Answers, Response, Candidate
  <2>2. Complete(response)
      BY <1>1 DEF Raise
  <2> QED BY <2>1, <2>2, CompleteKeepsInv
<1>2. CASE agency \notin Fallback
  <2>1. /\ pc' = "refused"
        /\ UNCHANGED <<agency, candidate, attempt, polls, bypassed, completed>>
      BY <1>2 DEF Raise
  <2>2. /\ bypassed = 0 .. (candidate - 1)
        /\ \A c \in bypassed : <<agency, c>> \in asked'
      BY DEF FleetInv, ShardProgress, InHand, Served
  <2> QED BY <2>1, <2>2, StayKeepsInv DEF FleetInv, TypeOK
<1> QED BY <1>1, <1>2

\* The next candidate follows one that the service has received.
LEMMA NextCandidateKeepsInv ==
    ASSUME FleetInv, UNCHANGED <<job, asked>>, pc = "probe", NextCandidate
    PROVE  FleetInv'
<1>0. Served /\ InHand
    BY IdleServes DEF InHand
<1>1. CASE candidate = Variants
    BY <1>0, <1>1, RaiseKeepsInv DEF NextCandidate
<1>2. CASE candidate # Variants
  <2>1. /\ candidate' = candidate + 1 /\ bypassed' = bypassed \cup {candidate}
        /\ pc' = "submit" /\ attempt' = 1
        /\ UNCHANGED <<agency, polls, completed>>
      BY <1>2 DEF NextCandidate
  <2>2. /\ candidate \in Nat /\ candidate' \in Candidate /\ polls \in 0 .. MaxPolls
        /\ 1 \in 1 .. MaxAttempts
      BY <1>2, <2>1, FleetAssumption DEF FleetInv, TypeOK, Candidate
  <2>3. /\ bypassed = 0 .. (candidate - 1) /\ <<agency, candidate>> \in asked
        /\ \A c \in bypassed : <<agency, c>> \in asked
      BY DEF FleetInv, ShardProgress
  <2>4. bypassed' = 0 .. (candidate' - 1)
      BY <2>1, <2>2, <2>3
  <2> QED BY <1>0, <2>1, <2>2, <2>3, <2>4, StayKeepsInv
<1> QED BY <1>1, <1>2

\* A request received can be probed or waited for.
LEMMA GotoKeepsInv ==
    ASSUME FleetInv, Served, InHand, NEW label \in {"probe", "wait"}, Goto(label),
           <<agency, candidate>> \in asked', job'[agency][candidate] # "none"
    PROVE  FleetInv'
<1>1. /\ pc' = label /\ attempt' = 1 /\ polls' = 0
      /\ UNCHANGED <<agency, candidate, bypassed, completed>>
    BY DEF Goto
<1>2. /\ candidate \in Candidate /\ 1 \in 1 .. MaxAttempts /\ 0 \in 0 .. MaxPolls
    BY FleetAssumption DEF FleetInv, TypeOK
<1>3. /\ bypassed = 0 .. (candidate - 1)
      /\ \A c \in bypassed : <<agency, c>> \in asked'
    BY DEF FleetInv, ShardProgress, InHand, Served
<1> QED BY <1>1, <1>2, <1>3, StayKeepsInv

\* A retry only counts.
LEMMA AgainKeepsInv ==
    ASSUME FleetInv, Served, InHand, Again
    PROVE  FleetInv'
<1>1. /\ attempt' = attempt + 1 /\ attempt < MaxAttempts
      /\ UNCHANGED <<pc, agency, candidate, polls, bypassed, completed>>
    BY DEF Again
<1>2. /\ candidate \in Candidate /\ polls \in 0 .. MaxPolls
      /\ attempt' \in 1 .. MaxAttempts
    BY <1>1, FleetAssumption DEF FleetInv, TypeOK
<1>3. /\ bypassed = 0 .. (candidate - 1)
      /\ \A c \in bypassed : <<agency, c>> \in asked'
      /\ pc \in {"probe", "wait"} =>
            <<agency, candidate>> \in asked' /\ job'[agency][candidate] # "none"
    BY <1>2 DEF FleetInv, ShardProgress, InHand, Served
<1> QED BY <1>1, <1>2, <1>3, StayKeepsInv DEF InHand

-----------------------------------------------------------------------------
(* The actions.                                                            *)

\* A finished job under the request in hand answers the shard, and so does a URL.
LEMMA ReceivedAnswers ==
    ASSUME FleetInv, Served, InHand, <<agency, candidate>> \in asked',
           NEW kind \in {"generated", "direct"},
           kind = "generated" => job'[agency][candidate] = "finished"
    PROVE  Answers(Received(kind))
<1>1. candidate \in Candidate /\ bypassed \subseteq Candidate
    BY DEF FleetInv, TypeOK
<1>2. /\ bypassed = 0 .. (candidate - 1)
      /\ \A c \in bypassed : <<agency, c>> \in asked'
    BY DEF FleetInv, ShardProgress, InHand, Served
<1>3. \A c \in 0 .. candidate : c \in bypassed \/ c = candidate
    BY <1>1, <1>2, FleetAssumption DEF Candidate
<1> QED BY <1>1, <1>2, <1>3 DEF Answers, Received, Response

\* The job seen finished by a look at its status.
LEMMA GeneratedAnswers ==
    ASSUME FleetInv, UNCHANGED <<job, asked>>, pc \in {"probe", "wait"},
           job[agency][candidate] = "finished"
    PROVE  Answers(Generated)
<1>1. Served /\ InHand /\ <<agency, candidate>> \in asked'
    BY IdleServes DEF InHand, FleetInv, ShardProgress
<1> QED BY <1>1, ReceivedAnswers DEF Generated

\* Submitting a request, received or not.
LEMMA PostKeepsInv ==
    ASSUME FleetInv, PostAnswered \/ PostLost \/ PostRejected
    PROVE  FleetInv'
<1>0. InHand
    BY DEF InHand, PostAnswered, PostLost, PostRejected
<1>1. CASE PostAnswered
  <2>1. Served /\ <<agency, candidate>> \in asked'
      BY <1>1, ReceiveServes DEF PostAnswered, Receive
  <2>2. job'[agency][candidate] # "none"
      BY <1>1 DEF PostAnswered, Receive, FleetInv, TypeOK
  <2>3. Answers(Received("direct"))
      BY <1>0, <2>1, ReceivedAnswers
  <2> QED BY <1>0, <1>1, <2>1, <2>2, <2>3, GotoKeepsInv, RaiseKeepsInv, CompleteKeepsInv
          DEF PostAnswered, WaitUnnamed
<1>2. CASE PostLost
  <2>1. Served
      BY <1>2, ReceiveServes, IdleServes DEF PostLost
  <2> QED BY <1>0, <1>2, <2>1, AgainKeepsInv, RaiseKeepsInv DEF PostLost
<1>3. CASE PostRejected
    BY <1>0, <1>3, IdleServes, RaiseKeepsInv DEF PostRejected
<1> QED BY <1>1, <1>2, <1>3

\* The one look at the status before waiting.
LEMMA ProbeKeepsInv ==
    ASSUME FleetInv, Probe \/ ProbeUnavailable
    PROVE  FleetInv'
<1>0. /\ pc = "probe" /\ UNCHANGED <<job, asked>> /\ Served /\ InHand
      /\ job[agency][candidate] \in {"running", "stale", "finished", "failed"}
      /\ <<agency, candidate>> \in asked'
  <2>1. pc = "probe" /\ UNCHANGED <<job, asked>>
      BY DEF Probe, ProbeUnavailable
  <2> QED BY <2>1, IdleServes DEF InHand, FleetInv, TypeOK, ShardProgress
<1>1. CASE NextCandidate
    BY <1>0, <1>1, NextCandidateKeepsInv
<1>2. CASE Raise
    BY <1>0, <1>2, RaiseKeepsInv
<1>3. CASE Goto("wait")
    BY <1>0, <1>3, GotoKeepsInv
<1>4. CASE Complete(Generated) /\ job[agency][candidate] = "finished"
    BY <1>0, <1>4, GeneratedAnswers, CompleteKeepsInv
<1> QED BY <1>0, <1>1, <1>2, <1>3, <1>4 DEF Probe, ProbeUnavailable

\* A poll of wait, its last one, and one that cannot be read.
LEMMA PollKeepsInv ==
    ASSUME FleetInv, Poll \/ PollTimeout \/ PollUnavailable
    PROVE  FleetInv'
<1>0. pc = "wait" /\ UNCHANGED <<job, asked>> /\ Served /\ InHand
  <2>1. pc = "wait" /\ UNCHANGED <<job, asked>>
      BY DEF Poll, PollTimeout, PollUnavailable
  <2> QED BY <2>1, IdleServes DEF InHand
<1>1. CASE Raise
    BY <1>0, <1>1, RaiseKeepsInv
<1>2. CASE Complete(Generated) /\ job[agency][candidate] = "finished"
    BY <1>0, <1>2, GeneratedAnswers, CompleteKeepsInv
<1>3. CASE /\ polls < MaxPolls /\ polls' = polls + 1 /\ attempt' = 1
           /\ UNCHANGED <<pc, agency, candidate, bypassed, completed>>
  <2>1. /\ candidate \in Candidate /\ 1 \in 1 .. MaxAttempts /\ polls' \in 0 .. MaxPolls
      BY <1>3, FleetAssumption DEF FleetInv, TypeOK
  <2>2. /\ bypassed = 0 .. (candidate - 1)
        /\ \A c \in bypassed : <<agency, c>> \in asked
        /\ <<agency, candidate>> \in asked /\ job[agency][candidate] # "none"
      BY <1>0 DEF FleetInv, ShardProgress
  <2> QED BY <1>0, <1>3, <2>1, <2>2, StayKeepsInv
<1> QED BY <1>1, <1>2, <1>3 DEF Poll, PollTimeout, PollUnavailable

\* A status request sent again, and the end of the process.
LEMMA OtherClientStepsKeepInv ==
    ASSUME FleetInv, StatusLost \/ Abort
    PROVE  FleetInv'
<1>0. Served /\ InHand
    BY IdleServes DEF StatusLost, Abort, InHand
<1>1. CASE StatusLost
    BY <1>0, <1>1, AgainKeepsInv DEF StatusLost
<1>2. CASE Abort
  <2>1. /\ bypassed = 0 .. (candidate - 1)
        /\ \A c \in bypassed : <<agency, c>> \in asked
      BY <1>0 DEF FleetInv, ShardProgress, InHand
  <2> QED BY <1>0, <1>2, <2>1, StayKeepsInv DEF Abort, FleetInv, TypeOK
<1> QED BY <1>1, <1>2

\* The service never takes back a finished job.
LEMMA ServiceStepKeepsInv ==
    ASSUME FleetInv, NEW a \in Agency, NEW c \in Candidate, Age(a, c) \/ End(a, c)
    PROVE  FleetInv'
<1>1. /\ UNCHANGED <<asked, pc, agency, candidate, attempt, polls, bypassed, completed>>
      /\ job[a][c] \in Active
      /\ \E s \in {"stale", "finished", "failed"} : job' = [job EXCEPT ![a][c] = s]
    BY DEF Age, End, Active
<1>2. PICK s \in {"stale", "finished", "failed"} : job' = [job EXCEPT ![a][c] = s]
    BY <1>1
<1>3. job \in [Agency -> [Candidate -> JobState]]
    BY DEF FleetInv, TypeOK, JobState
<1>4. /\ job' \in [Agency -> [Candidate -> JobState]]
      /\ \A b \in Agency, d \in Candidate :
            /\ job[b][d] = "finished" => job'[b][d] = "finished"
            /\ job[b][d] # "none" => job'[b][d] # "none"
    BY <1>1, <1>2, <1>3 DEF JobState, Active
<1>5. TypeOK'
    BY <1>1, <1>4 DEF FleetInv, TypeOK, JobState
<1>6. CoversEveryAgency' /\ Covered' = Covered
    BY <1>1 DEF FleetInv, CoversEveryAgency, Covered
<1>7. ResponsesAreFinished'
  <2>1. \A b \in Covered : b \in Agency /\ completed[b].candidate \in Candidate
      BY DEF Covered, FleetInv, TypeOK, Response
  <2> QED BY <1>1, <1>4, <1>6, <2>1 DEF FleetInv, ResponsesAreFinished
<1>8. ShardProgress'
  <2>1. agency \in Agency /\ candidate \in Candidate
      BY DEF FleetInv, TypeOK
  <2> QED BY <1>1, <1>4, <2>1 DEF FleetInv, ShardProgress
<1> QED BY <1>5, <1>6, <1>7, <1>8 DEF FleetInv

\* Every step of the client and of the service keeps FleetInv.
LEMMA StepKeepsInv == FleetInv /\ [Next]_vars => FleetInv'
<1> SUFFICES ASSUME FleetInv, [Next]_vars PROVE FleetInv'
    OBVIOUS
<1>1. CASE ClientStep \/ Abort
    BY <1>1, PostKeepsInv, ProbeKeepsInv, PollKeepsInv, OtherClientStepsKeepInv DEF ClientStep
<1>2. CASE \E a \in Agency, c \in Candidate : Age(a, c) \/ End(a, c)
    BY <1>2, ServiceStepKeepsInv
<1>3. CASE UNCHANGED vars
    BY <1>3 DEF vars, FleetInv, TypeOK, CoversEveryAgency, Covered, ResponsesAreFinished,
       ShardProgress
<1> QED BY <1>1, <1>2, <1>3 DEF Next

\* FleetInv holds in every reachable state.
THEOREM FleetInvariant == Spec => []FleetInv
    BY InitFleetInv, StepKeepsInv, PTL DEF Spec

\* A File C job is declared finished only with a response of every agency, and no
\* agency is asked for before those ahead of it are settled.
THEOREM FleetCoversEveryAgency == Spec => []CoversEveryAgency
<1>1. FleetInv => CoversEveryAgency
    BY DEF FleetInv
<1> QED BY <1>1, FleetInvariant, PTL

\* Every response is a finished job's archive, a URL given in place of a job to poll, or a
\* verified archive, and names the requests that were left behind for it.
THEOREM FleetResponsesAreFinished == Spec => []ResponsesAreFinished
<1>1. FleetInv => ResponsesAreFinished
    BY DEF FleetInv
<1> QED BY <1>1, FleetInvariant, PTL
=============================================================================
