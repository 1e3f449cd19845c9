-------------------------- MODULE AccountLakeProofs -------------------------
(***************************************************************************)
(* The account lake is correct for every set of archives, types, parts and *)
(* readers, every number of re-runs and every number of lost volumes.      *)
(* LakeInv (in AccountLake) is inductive; the invariants are conjuncts of  *)
(* it, and the refinement of ReleaseStore follows from it step by step.    *)
(***************************************************************************)
EXTENDS AccountLake, TLAPS

\* An archive is neither of the sentinels, and its members fit the paths.
LEMMA ArchiveFacts ==
    ASSUME NEW a \in Archive
    PROVE  /\ a # None /\ a # Partial
           /\ \A t \in Type : NParts[a][t] \in 0 .. MaxParts
    BY ConstantsAssumption

\* The initial state satisfies the inductive invariant.
LEMMA InitLakeInv == Init => LakeInv
<1> SUFFICES ASSUME Init PROVE LakeInv
    OBVIOUS
<1> USE ConstantsAssumption DEF Init
<1>1. TypeOK
    BY DEF TypeOK, ReleaseRow, Source, WriterState, Idle, ReaderState, ReaderAnswer, NoAnswer,
           AnswerStatus
<1>2. WriterProgress
    BY DEF WriterProgress, Idle
<1>3. ReadyReleaseComplete /\ RegisteredObjectsAreWhole
    BY DEF ReadyReleaseComplete, RegisteredObjectsAreWhole
<1>4. ReaderProgress /\ NoScanErrorWithVolume
    BY DEF ReaderProgress, NoScanErrorWithVolume, NoAnswer
<1> QED BY <1>1, <1>2, <1>3, <1>4 DEF LakeInv

\* Starting a materialization: the releases it touches leave READY.
LEMMA StartKeepsInv ==
    ASSUME LakeInv, NEW a \in Archive, NEW q \in Request \cup {None}, NEW counted \in BOOLEAN,
           Start(a, q, counted)
    PROVE  LakeInv'
<1>1. /\ release \in [Type -> ReleaseRow] /\ writer \in WriterState
      /\ runs \in 0 .. MaxRuns /\ MaxRuns \in Nat
    BY ConstantsAssumption DEF LakeInv, TypeOK
<1>2. ASSUME NEW t \in Type
      PROVE  /\ release'[t] \in ReleaseRow
             /\ t \in TypesIn(a) => release'[t].status = "MATERIALIZING"
             /\ t \notin TypesIn(a) => release'[t] = release[t]
  <2>1. CASE t \in TypesIn(a)
    <3> DEFINE stored == StoredRequest(t, q)
    <3>1. stored \in Request \cup {None} /\ release[t] \in ReleaseRow
        BY <1>1 DEF StoredRequest, ReleaseRow
    <3>2. release'[t] = [release[t] EXCEPT !.status = "MATERIALIZING", !.request = stored]
        BY <2>1 DEF Start
    <3> HIDE DEF stored
    <3> QED BY <2>1, <3>1, <3>2 DEF ReleaseRow
  <2>2. CASE t \notin TypesIn(a)
      BY <1>1, <2>2 DEF Start
  <2> QED BY <2>1, <2>2
<1>3. TypeOK'
  <2>1. release' \in [Type -> ReleaseRow]
    <3>1. release' = [t \in Type |-> release'[t]]
        BY Zenon DEF Start
    <3> QED BY <1>2, <3>1
  <2>2. writer' \in WriterState
      BY DEF Start, WriterState, Idle, Source, TypesIn
  <2>3. runs' \in 0 .. MaxRuns
    <3>1. runs < MaxRuns /\ runs' = runs + 1
        BY DEF Start
    <3> QED BY <1>1, <3>1
  <2>4. UNCHANGED <<objects, files, reader, losses>>
      BY DEF Start
  <2> QED BY <2>1, <2>2, <2>3, <2>4 DEF LakeInv, TypeOK
<1>4. WriterProgress'
  <2>1. /\ writer'.pc = "types" /\ writer'.archive = a /\ writer'.todo = TypesIn(a)
        /\ TypesIn(a) \subseteq Type
      BY DEF Start, Idle, TypesIn
  <2> QED BY <1>2, <2>1 DEF WriterProgress
<1>5. ReadyReleaseComplete'
  <2>1. \A t \in Type : release'[t].status = "READY" => release'[t] = release[t]
      BY <1>2
  <2>2. UNCHANGED <<objects, files, losses>>
      BY DEF Start
  <2> QED BY <2>1, <2>2 DEF LakeInv, ReadyReleaseComplete
<1>6. RegisteredObjectsAreWhole' /\ ReaderProgress' /\ NoScanErrorWithVolume'
    BY DEF LakeInv, Start, RegisteredObjectsAreWhole, ReaderProgress, NoScanErrorWithVolume
<1> QED BY <1>3, <1>4, <1>5, <1>6 DEF LakeInv

\* Turning to the next submission type changes only the loop's position.
LEMMA NextTypeKeepsInv ==
    ASSUME LakeInv, NEW t \in Type, NextType(t)
    PROVE  LakeInv'
<1> USE ConstantsAssumption DEF LakeInv, TypeOK, NextType
<1>1. TypeOK'
  <2>1. writer' \in WriterState
      BY DEF WriterState
  <2> QED BY <2>1
<1>2. WriterProgress'
    BY DEF WriterProgress, WriterState, TypesIn, ReleaseRow, Part, Source
<1>3. ReadyReleaseComplete'
    BY DEF ReadyReleaseComplete, WriterProgress, ReleaseRow, WriterState, TypesIn, Part
<1>4. RegisteredObjectsAreWhole'
    BY DEF RegisteredObjectsAreWhole, WriterProgress, WriterState, TypesIn, Part, Source
<1>5. ReaderProgress' /\ NoScanErrorWithVolume'
    BY DEF ReaderProgress, NoScanErrorWithVolume, WriterProgress, ReaderState, WriterState, TypesIn, Part
<1> QED BY <1>1, <1>2, <1>3, <1>4, <1>5

\* A COPY under way damages only a path no object is registered for.
LEMMA BeginCopyKeepsInv ==
    ASSUME LakeInv, BeginCopy
    PROVE  LakeInv'
<1> USE ConstantsAssumption DEF LakeInv, TypeOK, BeginCopy
<1>1. TypeOK'
  <2>1. writer' \in WriterState
      BY DEF WriterState
  <2>2. files' \in [Type -> [Part -> Source \cup {Partial}]]
      BY DEF WriterState, Source, Part
  <2> QED BY <2>1, <2>2
<1>2. WriterProgress'
    BY DEF WriterProgress, WriterState, TypesIn, ReleaseRow, Part, Source
<1>3. ReadyReleaseComplete'
    BY DEF ReadyReleaseComplete, WriterProgress, ReleaseRow, WriterState, TypesIn, Part
<1>4. RegisteredObjectsAreWhole'
    BY DEF RegisteredObjectsAreWhole, WriterProgress, WriterState, TypesIn, Part, Source
<1>5. ReaderProgress' /\ NoScanErrorWithVolume'
    BY DEF ReaderProgress, NoScanErrorWithVolume, WriterProgress, ReaderState, WriterState, TypesIn, Part
<1> QED BY <1>1, <1>2, <1>3, <1>4, <1>5

\* A finished COPY leaves the archive's own member at its path.
LEMMA FinishCopyKeepsInv ==
    ASSUME LakeInv, FinishCopy
    PROVE  LakeInv'
<1> USE ConstantsAssumption DEF LakeInv, TypeOK, FinishCopy
<1>1. TypeOK'
    BY DEF ReleaseRow, WriterState, Source, Part
<1>2. WriterProgress'
    BY DEF WriterProgress, WriterState, TypesIn, ReleaseRow, Part, Source
<1>3. ReadyReleaseComplete'
    BY DEF ReadyReleaseComplete, WriterProgress, ReleaseRow, WriterState, TypesIn, Part
<1>4. RegisteredObjectsAreWhole'
    BY DEF RegisteredObjectsAreWhole, WriterProgress, WriterState, TypesIn, Part, Source
<1>5. ReaderProgress' /\ NoScanErrorWithVolume'
    BY DEF ReaderProgress, NoScanErrorWithVolume, WriterProgress, ReaderState, WriterState, TypesIn, Part
<1> QED BY <1>1, <1>2, <1>3, <1>4, <1>5

\* A registered object carries the hash of the file just written.
LEMMA RegisterPartKeepsInv ==
    ASSUME LakeInv, RegisterPart
    PROVE  LakeInv'
<1> USE ConstantsAssumption DEF LakeInv, TypeOK, RegisterPart
<1>1. TypeOK'
  <2>1. /\ writer.type \in Type /\ writer.part \in Part
        /\ files[writer.type][writer.part] = writer.archive
        /\ writer.archive \in Archive
      BY DEF WriterProgress, WriterState, TypesIn, Part
  <2>2. objects' \in [Type -> [Part -> Source]]
    <3>1. writer.archive \in Source
        BY <2>1 DEF Source
    <3>2. objects' = [objects EXCEPT ![writer.type][writer.part] = writer.archive]
        BY <2>1
    <3>3. objects \in [Type -> [Part -> Source]]
        OBVIOUS
    <3> HIDE DEF LakeInv, TypeOK, RegisterPart
    <3> QED BY <2>1, <3>1, <3>2, <3>3
  <2>3. writer' \in WriterState
    <3> DEFINE n == writer.part + 1
    <3>1. writer \in WriterState
        OBVIOUS
    <3>2. n \in Nat
        BY <3>1 DEF WriterState
    <3>3. writer' = [writer EXCEPT !.pc = "parts", !.part = n]
        OBVIOUS
    <3> HIDE DEF LakeInv, TypeOK, RegisterPart, n
    <3> QED BY <3>1, <3>2, <3>3 DEF WriterState
  <2> QED BY <2>2, <2>3
<1>2. WriterProgress'
    BY DEF WriterProgress, WriterState, TypesIn, ReleaseRow, Part, Source
<1>3. ReadyReleaseComplete'
    BY DEF ReadyReleaseComplete, WriterProgress, ReleaseRow, WriterState, TypesIn, Part
<1>4. RegisteredObjectsAreWhole'
    BY DEF RegisteredObjectsAreWhole, WriterProgress, WriterState, TypesIn, Part, Source
<1>5. ReaderProgress' /\ NoScanErrorWithVolume'
    BY DEF ReaderProgress, NoScanErrorWithVolume, WriterProgress, ReaderState, WriterState, TypesIn, Part
<1> QED BY <1>1, <1>2, <1>3, <1>4, <1>5

\* A release becomes READY only behind its last part.
LEMMA PublishTypeKeepsInv ==
    ASSUME LakeInv, PublishType
    PROVE  LakeInv'
<1> USE ConstantsAssumption DEF LakeInv, TypeOK, PublishType, AllPartsDone, CountsAgree, Idle
<1> DEFINE a == writer.archive
           d == writer.type
<1>0. /\ a \in Archive /\ d \in Type /\ d \in writer.todo
      /\ NParts[a][d] \in 0 .. MaxParts
      /\ writer.part = NParts[a][d] + 1
      /\ writer.counted \in BOOLEAN
      /\ writer.counted => <<a, d>> \notin Miscounted
      /\ \A p \in 1 .. NParts[a][d] : objects[d][p] = a /\ files[d][p] = a
    BY DEF WriterProgress, WriterState, TypesIn
<1>1. TypeOK'
  <2>1. release' \in [Type -> ReleaseRow]
    <3>1. 1 .. (writer.part - 1) \in SUBSET Part
        BY <1>0 DEF Part
    <3> QED BY <1>0, <3>1 DEF ReleaseRow, Source
  <2>2. writer' \in WriterState
      BY <1>0 DEF WriterState, Source
  <2> QED BY <2>1, <2>2
<1>2. WriterProgress'
    BY DEF WriterProgress, WriterState, TypesIn, ReleaseRow, Part, Source
<1>3. ReadyReleaseComplete'
  <2> SUFFICES ASSUME NEW t \in Type, release'[t].status = "READY"
               PROVE  LET b == release'[t].source
                      IN /\ b \in Archive
                         /\ release'[t].counted => <<b, t>> \notin Miscounted
                         /\ release'[t].listed = 1 .. NParts[b][t]
                         /\ \A p \in release'[t].listed :
                               /\ objects'[t][p] = b
                               /\ files'[t][p] = b \/ (losses' > 0 /\ files'[t][p] = None)
      BY DEF ReadyReleaseComplete
  <2>1. CASE t = d
    <3>1. release'[t] = [status |-> "READY", request |-> release[d].request, source |-> a,
                         counted |-> writer.counted, listed |-> 1 .. NParts[a][d]]
      <4>1. writer.part - 1 = NParts[a][d]
          BY <1>0
      <4> QED BY <1>0, <2>1, <4>1
    <3>2. objects' = objects /\ files' = files
        OBVIOUS
    <3> HIDE DEF LakeInv, TypeOK, PublishType, a, d
    <3> QED BY <1>0, <2>1, <3>1, <3>2
  <2>2. CASE t # d
    <3>1. release'[t] = release[t]
        BY <2>2 DEF ReleaseRow
    <3>2. /\ objects' = objects /\ files' = files /\ losses' = losses
          /\ ReadyReleaseComplete /\ release'[t].status = "READY"
        OBVIOUS
    <3> HIDE DEF LakeInv, TypeOK, PublishType, a, d
    <3> QED BY <3>1, <3>2 DEF ReadyReleaseComplete
  <2> QED BY <2>1, <2>2
<1>4. RegisteredObjectsAreWhole'
    BY DEF RegisteredObjectsAreWhole, WriterProgress, WriterState, TypesIn, Part, Source
<1>5. ReaderProgress' /\ NoScanErrorWithVolume'
    BY DEF ReaderProgress, NoScanErrorWithVolume, WriterProgress, ReaderState, WriterState, TypesIn, Part
<1> QED BY <1>1, <1>2, <1>3, <1>4, <1>5

\* A refused count, an exception or the death of the process changes no row and
\* no file: it only forgets what was in hand.
LEMMA StopKeepsInv ==
    ASSUME LakeInv, RefuseCounts \/ Stop
    PROVE  LakeInv'
<1> USE ConstantsAssumption DEF LakeInv, TypeOK, RefuseCounts, Stop, Idle
<1>1. /\ writer' = Idle
      /\ UNCHANGED <<release, objects, files, reader, runs, losses>>
    OBVIOUS
<1>2. TypeOK'
    BY <1>1 DEF WriterState, Source
<1>3. WriterProgress'
    BY <1>1 DEF WriterProgress
<1>4. ReadyReleaseComplete' /\ RegisteredObjectsAreWhole'
    BY <1>1 DEF ReadyReleaseComplete, RegisteredObjectsAreWhole
<1>5. ReaderProgress' /\ NoScanErrorWithVolume'
    BY <1>1 DEF ReaderProgress, NoScanErrorWithVolume
<1> QED BY <1>2, <1>3, <1>4, <1>5

\* A lost volume empties every path at once, and no COPY is under way.
LEMMA LoseLakeKeepsInv ==
    ASSUME LakeInv, LoseLake
    PROVE  LakeInv'
<1> USE ConstantsAssumption DEF LakeInv, TypeOK, LoseLake
<1>1. TypeOK'
    BY DEF Source
<1>2. WriterProgress'
    BY DEF WriterProgress
<1>3. ReadyReleaseComplete'
    BY DEF ReadyReleaseComplete, ReleaseRow, Part
<1>4. RegisteredObjectsAreWhole' /\ ReaderProgress' /\ NoScanErrorWithVolume'
    BY DEF RegisteredObjectsAreWhole, ReaderProgress, NoScanErrorWithVolume
<1> QED BY <1>1, <1>2, <1>3, <1>4

\* What a request may do to its own row without disturbing the invariant.
LEMMA ReaderRowKeepsInv ==
    ASSUME LakeInv, NEW r \in Reader, NEW row \in ReaderState,
           reader' = [reader EXCEPT ![r] = row],
           UNCHANGED <<release, objects, files, writer, runs, losses>>,
           row.pc # "idle" => row.type \in Type,
           losses = 0 /\ row.pc \in {"local", "scan"} =>
               \A p \in row.keys : files[row.type][p] \in Archive,
           losses = 0 => row.answer.status # "ERROR"
    PROVE  LakeInv'
<1> USE DEF LakeInv
<1>1. TypeOK'
    BY DEF TypeOK
<1>2. WriterProgress' /\ ReadyReleaseComplete' /\ RegisteredObjectsAreWhole'
    BY DEF WriterProgress, ReadyReleaseComplete, RegisteredObjectsAreWhole
<1>3. \A q \in Reader : reader'[q] = IF q = r THEN row ELSE reader[q]
    BY DEF TypeOK
<1>4. ReaderProgress' /\ NoScanErrorWithVolume'
    BY <1>3 DEF ReaderProgress, NoScanErrorWithVolume
<1> QED BY <1>1, <1>2, <1>4

\* An answer that is not an error leaves the invariant alone, and so does an
\* error once the volume has been lost.
LEMMA AnswerKeepsInv ==
    ASSUME LakeInv, NEW r \in Reader, NEW status \in AnswerStatus,
           NEW rows \in SUBSET (Archive \X Part), Answer(r, status, rows),
           UNCHANGED <<release, objects, files, writer, runs, losses>>,
           losses = 0 => status # "ERROR"
    PROVE  LakeInv'
<1> DEFINE answer == [status |-> status, rows |-> rows, source |-> reader[r].source,
                      quiet |-> reader[r].run = runs]
           row == [reader[r] EXCEPT !.pc = "idle", !.answer = answer]
<1>1. reader \in [Reader -> ReaderState]
    BY DEF LakeInv, TypeOK
<1>2. row \in ReaderState
  <2>1. answer \in ReaderAnswer
      BY <1>1 DEF ReaderState, ReaderAnswer
  <2> HIDE DEF answer
  <2> QED BY <1>1, <2>1 DEF ReaderState
<1>3. reader' = [reader EXCEPT ![r] = row]
    BY <1>1, Zenon DEF Answer
<1>4. row.pc = "idle" /\ row.answer.status = status
    BY <1>1 DEF ReaderState
<1> HIDE DEF row
<1> QED BY <1>2, <1>3, <1>4, ReaderRowKeepsInv

\* A request goes on only from a READY release.
LEMMA SelectReleaseKeepsInv ==
    ASSUME LakeInv, NEW r \in Reader, NEW t \in Type, SelectRelease(r, t)
    PROVE  LakeInv'
<1>1. CASE release[t].status = "READY"
  <2> DEFINE row == [pc |-> "objects", type |-> t, request |-> release[t].request,
                     source |-> release[t].source, run |-> runs, keys |-> {},
                     answer |-> NoAnswer]
  <2>1. row \in ReaderState
    <3>1. NoAnswer \in ReaderAnswer
        BY DEF NoAnswer, ReaderAnswer, AnswerStatus, Source
    <3>2. release[t] \in ReleaseRow /\ runs \in Nat
        BY ConstantsAssumption DEF LakeInv, TypeOK
    <3> QED BY <3>1, <3>2 DEF ReleaseRow, ReaderState
  <2>2. reader' = [reader EXCEPT ![r] = row]
      BY <1>1 DEF SelectRelease
  <2>3. row.answer.status # "ERROR"
      BY DEF NoAnswer
  <2> HIDE DEF row
  <2>4. row.pc = "objects" /\ row.type = t
      BY DEF row
  <2> QED BY <2>1, <2>2, <2>3, <2>4, ReaderRowKeepsInv DEF SelectRelease
<1>2. CASE release[t].status # "READY"
  <2>1. Answer(r, "NO_READY_RELEASE", {})
      BY <1>2 DEF SelectRelease
  <2> QED BY <2>1, AnswerKeepsInv DEF SelectRelease, AnswerStatus
<1> QED BY <1>1, <1>2

\* The keys a request takes are registered objects, and so whole files.
LEMMA SelectObjectsKeepsInv ==
    ASSUME LakeInv, NEW r \in Reader, SelectObjects(r)
    PROVE  LakeInv'
<1> DEFINE keys == {p \in Part : objects[reader[r].type][p] # None}
           row == [reader[r] EXCEPT !.pc = "local", !.keys = keys]
<1>1. reader \in [Reader -> ReaderState] /\ reader[r].pc = "objects" /\ reader[r].type \in Type
    BY DEF LakeInv, TypeOK, ReaderProgress, SelectObjects
<1>2. CASE reader' = [reader EXCEPT ![r].pc = "local", ![r].keys = keys]
  <2>1. reader' = [reader EXCEPT ![r] = row]
      BY <1>2
  <2>2. row \in ReaderState
      BY <1>1 DEF ReaderState
  <2>3. /\ row.type = reader[r].type /\ row.keys = keys
        /\ row.answer = reader[r].answer
      BY <1>1 DEF ReaderState
  <2>4. losses = 0 => \A p \in keys : files[reader[r].type][p] \in Archive
      BY <1>1 DEF LakeInv, RegisteredObjectsAreWhole
  <2>5. losses = 0 => row.answer.status # "ERROR"
      BY <2>3 DEF LakeInv, NoScanErrorWithVolume
  <2> HIDE DEF row, keys
  <2> QED BY <1>1, <2>1, <2>2, <2>3, <2>4, <2>5, ReaderRowKeepsInv DEF SelectObjects
<1>3. CASE Answer(r, "PARTIAL_OR_UNKNOWN_PERIOD", {})
    BY <1>3, AnswerKeepsInv DEF SelectObjects, AnswerStatus
<1>4. CASE Answer(r, "NO_PARQUET_OBJECTS", {})
    BY <1>4, AnswerKeepsInv DEF SelectObjects, AnswerStatus
<1> QED BY <1>2, <1>3, <1>4 DEF SelectObjects

\* The local check keeps the keys it has found on disk.
LEMMA CheckLocalKeepsInv ==
    ASSUME LakeInv, NEW r \in Reader, CheckLocal(r)
    PROVE  LakeInv'
<1> DEFINE row == [reader[r] EXCEPT !.pc = "scan"]
<1>1. reader \in [Reader -> ReaderState] /\ reader[r].pc = "local" /\ reader[r].type \in Type
    BY DEF LakeInv, TypeOK, ReaderProgress, CheckLocal
<1>2. CASE reader' = [reader EXCEPT ![r].pc = "scan"]
  <2>1. reader' = [reader EXCEPT ![r] = row]
      BY <1>1, <1>2
  <2>2. /\ row \in ReaderState
        /\ row.type = reader[r].type /\ row.keys = reader[r].keys
        /\ row.answer = reader[r].answer
      BY <1>1 DEF ReaderState
  <2>3. losses = 0 => /\ \A p \in reader[r].keys : files[reader[r].type][p] \in Archive
                      /\ reader[r].answer.status # "ERROR"
      BY <1>1 DEF LakeInv, ReaderProgress, NoScanErrorWithVolume
  <2> HIDE DEF row
  <2> QED BY <1>1, <2>1, <2>2, <2>3, ReaderRowKeepsInv DEF CheckLocal
<1>3. CASE Answer(r, "OBJECTS_NOT_LOCAL", {})
    BY <1>3, AnswerKeepsInv DEF CheckLocal, AnswerStatus
<1> QED BY <1>2, <1>3 DEF CheckLocal

\* While the volume is kept every file scanned is some archive's.
LEMMA ScanKeepsInv ==
    ASSUME LakeInv, NEW r \in Reader, Scan(r)
    PROVE  LakeInv'
<1> DEFINE t == reader[r].type
           found == {<<files[t][p], p>> : p \in reader[r].keys}
           broken == \E p \in reader[r].keys : files[t][p] \in {None, Partial}
<1>1. /\ reader \in [Reader -> ReaderState] /\ reader[r].pc = "scan" /\ t \in Type
      /\ reader[r].keys \subseteq Part
      /\ files \in [Type -> [Part -> Archive \cup {None, Partial}]]
    BY DEF LakeInv, TypeOK, ReaderProgress, Scan, ReaderState, Source
<1>2. CASE broken
  <2>1. Answer(r, "ERROR", {})
      BY <1>2 DEF Scan
  <2>2. losses # 0
      BY <1>1, <1>2, ConstantsAssumption DEF LakeInv, ReaderProgress
  <2> QED BY <2>1, <2>2, AnswerKeepsInv DEF Scan, AnswerStatus
<1>3. CASE ~broken
  <2>1. Answer(r, "READY", found)
      BY <1>3 DEF Scan
  <2>2. found \in SUBSET (Archive \X Part)
      BY <1>1, <1>3
  <2> QED BY <2>1, <2>2, AnswerKeepsInv DEF Scan, AnswerStatus
<1> QED BY <1>2, <1>3

\* Every step of the initializer, of a request and of the volume keeps LakeInv.
LEMMA StepKeepsInv == LakeInv /\ [Next]_vars => LakeInv'
<1> SUFFICES ASSUME LakeInv, [Next]_vars PROVE LakeInv'
    OBVIOUS
<1>1. CASE \E g \in Given : Start(g[1], g[2], g[3])
  <2>1. PICK g \in Given : Start(g[1], g[2], g[3])
      BY <1>1
  <2>2. g[1] \in Archive /\ g[2] \in Request \cup {None} /\ g[3] \in BOOLEAN
      BY ConstantsAssumption
  <2> QED BY <2>1, <2>2, StartKeepsInv
<1>2. CASE WriterStep
    BY <1>2, NextTypeKeepsInv, BeginCopyKeepsInv, FinishCopyKeepsInv, RegisterPartKeepsInv,
       PublishTypeKeepsInv, StopKeepsInv DEF WriterStep
<1>3. CASE Stop
    BY <1>3, StopKeepsInv
<1>4. CASE LoseLake
    BY <1>4, LoseLakeKeepsInv
<1>5. CASE \E r \in Reader : ReaderStep(r)
    BY <1>5, SelectReleaseKeepsInv, SelectObjectsKeepsInv, CheckLocalKeepsInv, ScanKeepsInv
       DEF ReaderStep
<1>6. CASE UNCHANGED vars
    BY <1>6 DEF vars, LakeInv, TypeOK, WriterProgress, ReadyReleaseComplete,
       RegisteredObjectsAreWhole, ReaderProgress, NoScanErrorWithVolume
<1> QED BY <1>1, <1>2, <1>3, <1>4, <1>5, <1>6 DEF Next

\* LakeInv holds in every reachable state.
THEOREM LakeInvariant == Spec => []LakeInv
    BY InitLakeInv, StepKeepsInv, PTL DEF Spec

\* Every variable always holds a value of its kind.
THEOREM TypeCorrect == Spec => []TypeOK
<1>1. LakeInv => TypeOK
    BY DEF LakeInv
<1> QED BY <1>1, LakeInvariant, PTL

\* A READY release is complete, for every sequence of crashes, refusals, re-runs
\* and lost volumes (materialize_account_archive's two commits per release).
THEOREM ReadyIsComplete == Spec => []ReadyReleaseComplete
<1>1. LakeInv => ReadyReleaseComplete
    BY DEF LakeInv
<1> QED BY <1>1, LakeInvariant, PTL

\* No BulkObject row ever names a file cut short (csv_to_parquet before
\* register_file).
THEOREM RegisteredIsWhole == Spec => []RegisteredObjectsAreWhole
<1>1. LakeInv => RegisteredObjectsAreWhole
    BY DEF LakeInv
<1> QED BY <1>1, LakeInvariant, PTL

\* Any number of concurrent requests never fail inside DuckDB while the volume is
\* kept (_load_file_b).
THEOREM RequestsNeverFail == Spec => []NoScanErrorWithVolume
<1>1. LakeInv => NoScanErrorWithVolume
    BY DEF LakeInv
<1> QED BY <1>1, LakeInvariant, PTL
-----------------------------------------------------------------------------
(* The requests.                                                           *)

\* The steps that are no request's own: what is started is not what a request found, and
\* what a request found READY no other step touches.
LEMMA RequestsKept ==
    ASSUME RequestInv, UNCHANGED reader, runs' \in Nat,
           \A t \in Type, p \in Part : objects[t][p] # None => objects'[t][p] # None,
           \/ runs' = runs + 1
           \/ /\ runs' = runs
              /\ \A t \in Type : release[t].status = "READY" => release'[t] = release[t]
    PROVE  RequestProgress' /\ AnswersAreWhole'
<1>1. AnswersAreWhole'
    BY DEF RequestInv, AnswersAreWhole
<1>2. ASSUME NEW r \in Reader, reader[r].pc # "idle"
      PROVE  LET a == reader[r].source
                 t == reader[r].type
             IN /\ a \in Archive
                /\ reader[r].run <= runs'
                /\ \A p \in 1 .. NParts[a][t] : objects'[t][p] # None
                /\ reader[r].pc \in {"local", "scan"} => 1 .. NParts[a][t] \subseteq reader[r].keys
                /\ reader[r].run = runs' => release'[t].status = "READY" /\ release'[t].source = a
  <2> DEFINE a == reader[r].source
             t == reader[r].type
  <2>1. /\ t \in Type /\ a \in Archive
        /\ reader[r].run <= runs /\ reader[r].run \in Nat /\ runs \in Nat
        /\ \A p \in 1 .. NParts[a][t] : objects[t][p] # None
        /\ reader[r].pc \in {"local", "scan"} => 1 .. NParts[a][t] \subseteq reader[r].keys
        /\ reader[r].run = runs => release[t].status = "READY" /\ release[t].source = a
      BY <1>2, ConstantsAssumption
         DEF RequestInv, LakeInv, TypeOK, ReaderState, ReaderProgress, RequestProgress
  <2>2. \A p \in 1 .. NParts[a][t] : p \in Part
      BY <2>1, ArchiveFacts, ConstantsAssumption DEF Part
  <2> HIDE DEF a, t
  <2>3. \A p \in 1 .. NParts[a][t] : objects'[t][p] # None
      BY <2>1, <2>2
  <2>4. reader[r].run <= runs'
      BY <2>1
  <2>5. reader[r].run = runs' => release'[t].status = "READY" /\ release'[t].source = a
      BY <2>1
  <2> QED BY <2>1, <2>3, <2>4, <2>5 DEF a, t
<1> QED BY <1>1, <1>2 DEF RequestProgress

\* The part in hand gains an object, and none loses its own.
LEMMA RegisterPartKeepsRequests ==
    ASSUME RequestInv, RegisterPart
    PROVE  RequestProgress' /\ AnswersAreWhole'
<1> DEFINE a == writer.archive
           d == writer.type
           n == writer.part
<1>1. /\ d \in Type /\ n \in Part /\ a # None /\ files[d][n] = a
    BY ConstantsAssumption, ArchiveFacts
       DEF RequestInv, LakeInv, TypeOK, WriterProgress, WriterState, TypesIn, RegisterPart, Part
<1>2. objects \in [Type -> [Part -> Source]] /\ runs \in Nat
    BY ConstantsAssumption DEF RequestInv, LakeInv, TypeOK
<1>3. objects' = [objects EXCEPT ![d][n] = a] /\ runs' = runs /\ release' = release
    BY <1>1 DEF RegisterPart
<1> HIDE DEF a, d, n
<1>4. \A t \in Type, p \in Part : objects[t][p] # None => objects'[t][p] # None
    BY <1>1, <1>2, <1>3
<1> QED BY <1>2, <1>3, <1>4, RequestsKept DEF RegisterPart

\* A type is published only out of a release that is not READY.
LEMMA PublishTypeKeepsRequests ==
    ASSUME RequestInv, PublishType
    PROVE  RequestProgress' /\ AnswersAreWhole'
<1>1. writer.type \in Type /\ release[writer.type].status = "MATERIALIZING"
    BY DEF RequestInv, LakeInv, WriterProgress, TypesIn, PublishType, AllPartsDone
<1>2. \A t \in Type : release[t].status = "READY" => release'[t] = release[t]
    BY <1>1 DEF RequestInv, LakeInv, TypeOK, PublishType
<1>3. runs \in Nat
    BY ConstantsAssumption DEF RequestInv, LakeInv, TypeOK
<1> QED BY <1>2, <1>3, RequestsKept DEF PublishType

\* What a request may do to its own row.
LEMMA RowKeepsRequests ==
    ASSUME RequestInv, NEW r \in Reader, NEW row,
           reader' = [reader EXCEPT ![r] = row], UNCHANGED <<release, objects, runs>>,
           row.pc # "idle" =>
              /\ row.source \in Archive
              /\ row.run <= runs
              /\ \A p \in 1 .. NParts[row.source][row.type] : objects[row.type][p] # None
              /\ row.pc \in {"local", "scan"} =>
                    1 .. NParts[row.source][row.type] \subseteq row.keys
              /\ row.run = runs =>
                    release[row.type].status = "READY" /\ release[row.type].source = row.source,
           row.answer.status = "READY" =>
              \A p \in 1 .. NParts[row.answer.source][row.type] :
                 \E a \in Archive : /\ <<a, p>> \in row.answer.rows
                                    /\ row.answer.quiet => a = row.answer.source
    PROVE  RequestProgress' /\ AnswersAreWhole'
<1>1. \A q \in Reader : reader'[q] = IF q = r THEN row ELSE reader[q]
    BY DEF RequestInv, LakeInv, TypeOK
<1>2. RequestProgress'
    BY <1>1 DEF RequestInv, RequestProgress
<1>3. AnswersAreWhole'
  <2> DEFINE Complete(x) ==
                x.answer.status = "READY" =>
                   \A p \in 1 .. NParts[x.answer.source][x.type] :
                      \E a \in Archive : /\ <<a, p>> \in x.answer.rows
                                         /\ x.answer.quiet => a = x.answer.source
  <2>1. \A q \in Reader : Complete(reader[q])
      BY Zenon DEF RequestInv, AnswersAreWhole
  <2>2. Complete(row)
      OBVIOUS
  <2>3. (\A q \in Reader : Complete(reader'[q])) => AnswersAreWhole'
      BY Zenon DEF AnswersAreWhole
  <2> HIDE DEF Complete
  <2>4. ASSUME NEW q \in Reader PROVE Complete(reader'[q])
    <3>1. CASE q = r
        BY <1>1, <2>2, <3>1
    <3>2. CASE q # r
        BY <1>1, <2>1, <3>2
    <3> QED BY <3>1, <3>2
  <2> QED BY <2>3, <2>4
<1> QED BY <1>2, <1>3

\* An answer that lacks nothing, or one that is not READY.
LEMMA AnswerKeepsRequests ==
    ASSUME RequestInv, NEW r \in Reader, NEW status, NEW rows, Answer(r, status, rows),
           UNCHANGED <<release, objects, runs>>,
           status = "READY" =>
              \A p \in 1 .. NParts[reader[r].source][reader[r].type] :
                 \E a \in Archive : /\ <<a, p>> \in rows
                                    /\ reader[r].run = runs => a = reader[r].source
    PROVE  RequestProgress' /\ AnswersAreWhole'
<1> DEFINE answer == [status |-> status, rows |-> rows, source |-> reader[r].source,
                      quiet |-> reader[r].run = runs]
           row == [reader[r] EXCEPT !.pc = "idle", !.answer = answer]
<1>1. reader[r] \in ReaderState
    BY DEF RequestInv, LakeInv, TypeOK
<1>2. reader' = [reader EXCEPT ![r] = row]
    BY Zenon DEF Answer
<1>3. /\ row.pc = "idle" /\ row.answer = answer /\ row.type = reader[r].type
    BY <1>1 DEF ReaderState
<1>4. /\ answer.status = status /\ answer.rows = rows /\ answer.source = reader[r].source
      /\ answer.quiet <=> reader[r].run = runs
    OBVIOUS
<1> HIDE DEF row, answer
<1>5. row.answer.status = "READY" =>
         \A p \in 1 .. NParts[row.answer.source][row.type] :
            \E a \in Archive : /\ <<a, p>> \in row.answer.rows
                               /\ row.answer.quiet => a = row.answer.source
    BY <1>3, <1>4
<1> QED BY <1>2, <1>3, <1>5, RowKeepsRequests

\* A READY release is of an archive all of whose parts are registered.
LEMMA SelectReleaseKeepsRequests ==
    ASSUME RequestInv, NEW r \in Reader, NEW t \in Type, SelectRelease(r, t)
    PROVE  RequestProgress' /\ AnswersAreWhole'
<1>0. UNCHANGED <<release, objects, runs>>
    BY DEF SelectRelease
<1>1. CASE release[t].status = "READY"
  <2> DEFINE a == release[t].source
             row == [pc |-> "objects", type |-> t, request |-> release[t].request, source |-> a,
                     run |-> runs, keys |-> {}, answer |-> NoAnswer]
  <2>1. reader' = [reader EXCEPT ![r] = row]
      BY <1>1 DEF SelectRelease
  <2>2. /\ a \in Archive /\ a # None /\ \A p \in 1 .. NParts[a][t] : objects[t][p] # None
      BY <1>1, ArchiveFacts DEF RequestInv, LakeInv, ReadyReleaseComplete
  <2>3. /\ row.pc = "objects" /\ row.type = t /\ row.source = a /\ row.run = runs
        /\ row.answer.status = "NONE"
      BY DEF NoAnswer
  <2>4. release[t].source = a /\ runs <= runs
      BY ConstantsAssumption DEF RequestInv, LakeInv, TypeOK
  <2> HIDE DEF row, a
  <2> QED BY <1>0, <1>1, <2>1, <2>2, <2>3, <2>4, RowKeepsRequests
<1>2. CASE release[t].status # "READY"
  <2>1. Answer(r, "NO_READY_RELEASE", {})
      BY <1>2 DEF SelectRelease
  <2> QED BY <1>0, <2>1, AnswerKeepsRequests
<1> QED BY <1>1, <1>2

\* The objects taken include every part of the archive found.
LEMMA SelectObjectsKeepsRequests ==
    ASSUME RequestInv, NEW r \in Reader, SelectObjects(r)
    PROVE  RequestProgress' /\ AnswersAreWhole'
<1> DEFINE t == reader[r].type
           a == reader[r].source
           keys == {p \in Part : objects[t][p] # None}
           row == [reader[r] EXCEPT !.pc = "local", !.keys = keys]
<1>0. UNCHANGED <<release, objects, runs>>
    BY DEF SelectObjects
<1>1. /\ reader[r] \in ReaderState /\ reader[r].pc = "objects" /\ t \in Type /\ a \in Archive
      /\ \A p \in 1 .. NParts[a][t] : objects[t][p] # None
      /\ reader[r].run <= runs
      /\ reader[r].run = runs => release[t].status = "READY" /\ release[t].source = a
    BY DEF RequestInv, LakeInv, TypeOK, ReaderProgress, RequestProgress, SelectObjects
<1>2. 1 .. NParts[a][t] \subseteq keys
  <2>1. NParts[a][t] \in 0 .. MaxParts
      BY <1>1, ArchiveFacts
  <2> QED BY <1>1, <2>1, ConstantsAssumption DEF Part
<1>3. CASE reader' = [reader EXCEPT ![r].pc = "local", ![r].keys = keys]
  <2>1. reader' = [reader EXCEPT ![r] = row]
      BY <1>3
  <2>2. /\ row.pc = "local" /\ row.type = t /\ row.source = a /\ row.run = reader[r].run
        /\ row.keys = keys /\ row.answer = reader[r].answer
      BY <1>1 DEF ReaderState
  <2>3. reader[r].answer.status = "READY" =>
            \A p \in 1 .. NParts[reader[r].answer.source][t] :
               \E b \in Archive : /\ <<b, p>> \in reader[r].answer.rows
                                  /\ reader[r].answer.quiet => b = reader[r].answer.source
      BY DEF RequestInv, AnswersAreWhole
  <2> HIDE DEF row, keys, a, t
  <2>4. /\ row.source \in Archive /\ row.run <= runs
        /\ \A p \in 1 .. NParts[row.source][row.type] : objects[row.type][p] # None
        /\ 1 .. NParts[row.source][row.type] \subseteq row.keys
        /\ row.run = runs =>
              release[row.type].status = "READY" /\ release[row.type].source = row.source
      BY <1>1, <1>2, <2>2
  <2>5. row.answer.status = "READY" =>
            \A p \in 1 .. NParts[row.answer.source][row.type] :
               \E b \in Archive : /\ <<b, p>> \in row.answer.rows
                                  /\ row.answer.quiet => b = row.answer.source
      BY <2>2, <2>3
  <2> QED BY <1>0, <2>1, <2>4, <2>5, RowKeepsRequests
<1>4. CASE \E status \in {"PARTIAL_OR_UNKNOWN_PERIOD", "NO_PARQUET_OBJECTS"} : Answer(r, status, {})
    BY <1>0, <1>4, AnswerKeepsRequests
<1> QED BY <1>3, <1>4 DEF SelectObjects

\* The local check changes no key.
LEMMA CheckLocalKeepsRequests ==
    ASSUME RequestInv, NEW r \in Reader, CheckLocal(r)
    PROVE  RequestProgress' /\ AnswersAreWhole'
<1> DEFINE row == [reader[r] EXCEPT !.pc = "scan"]
<1>0. UNCHANGED <<release, objects, runs>>
    BY DEF CheckLocal
<1>1. reader[r] \in ReaderState /\ reader[r].pc = "local"
    BY DEF RequestInv, LakeInv, TypeOK, CheckLocal
<1>2. CASE reader' = [reader EXCEPT ![r].pc = "scan"]
  <2>1. reader' = [reader EXCEPT ![r] = row]
      BY <1>2
  <2>2. /\ row.pc = "scan" /\ row.type = reader[r].type /\ row.source = reader[r].source
        /\ row.run = reader[r].run /\ row.keys = reader[r].keys
        /\ row.answer = reader[r].answer
      BY <1>1 DEF ReaderState
  <2> HIDE DEF row
  <2>3. /\ row.source \in Archive /\ row.run <= runs
        /\ \A p \in 1 .. NParts[row.source][row.type] : objects[row.type][p] # None
        /\ 1 .. NParts[row.source][row.type] \subseteq row.keys
        /\ row.run = runs =>
              release[row.type].status = "READY" /\ release[row.type].source = row.source
      BY <1>1, <2>2 DEF RequestInv, RequestProgress
  <2>4. row.answer.status = "READY" =>
            \A p \in 1 .. NParts[row.answer.source][row.type] :
               \E b \in Archive : /\ <<b, p>> \in row.answer.rows
                                  /\ row.answer.quiet => b = row.answer.source
      BY <2>2 DEF RequestInv, AnswersAreWhole
  <2> QED BY <1>0, <2>1, <2>3, <2>4, RowKeepsRequests
<1>3. CASE Answer(r, "OBJECTS_NOT_LOCAL", {})
    BY <1>0, <1>3, AnswerKeepsRequests
<1> QED BY <1>2, <1>3 DEF CheckLocal

\* Each file scanned is some archive's whole file, and the found archive's while its
\* release stays as it was found.
LEMMA ScanKeepsRequests ==
    ASSUME RequestInv, NEW r \in Reader, Scan(r)
    PROVE  RequestProgress' /\ AnswersAreWhole'
<1> DEFINE t == reader[r].type
           a == reader[r].source
           found == {<<files[t][p], p>> : p \in reader[r].keys}
           broken == \E p \in reader[r].keys : files[t][p] \in {None, Partial}
<1>0. UNCHANGED <<release, objects, runs>>
    BY DEF Scan
<1>1. /\ t \in Type /\ a \in Archive
      /\ 1 .. NParts[a][t] \subseteq reader[r].keys /\ reader[r].keys \subseteq Part
      /\ files \in [Type -> [Part -> Archive \cup {None, Partial}]]
      /\ reader[r].run = runs => release[t].status = "READY" /\ release[t].source = a
    BY DEF RequestInv, LakeInv, TypeOK, ReaderState, ReaderProgress, RequestProgress, Scan, Source
<1>2. CASE Answer(r, "ERROR", {})
    BY <1>0, <1>2, AnswerKeepsRequests
<1>3. CASE Answer(r, "READY", found) /\ ~broken
  <2>1. \A p \in 1 .. NParts[a][t] : files[t][p] \in Archive /\ <<files[t][p], p>> \in found
      BY <1>1, <1>3
  <2>2. ASSUME reader[r].run = runs, NEW p \in 1 .. NParts[a][t]
        PROVE  files[t][p] = a
    <3>1. files[t][p] = a \/ files[t][p] = None
        BY <1>1, <2>2 DEF RequestInv, LakeInv, ReadyReleaseComplete
    <3> QED BY <2>1, <3>1, ConstantsAssumption
  <2>3. \A p \in 1 .. NParts[a][t] :
           \E b \in Archive : <<b, p>> \in found /\ (reader[r].run = runs => b = a)
      BY <2>1, <2>2
  <2> HIDE DEF found, broken
  <2> QED BY <1>0, <1>3, <2>3, AnswerKeepsRequests
<1> QED BY <1>2, <1>3 DEF Scan

\* Every step keeps what a request relies on.
LEMMA StepKeepsRequests == RequestInv /\ [Next]_vars => RequestInv'
<1> SUFFICES ASSUME RequestInv, [Next]_vars
             PROVE  RequestProgress' /\ AnswersAreWhole'
    BY StepKeepsInv DEF RequestInv
<1>0. runs \in Nat
    BY ConstantsAssumption DEF RequestInv, LakeInv, TypeOK
<1>1. CASE RegisterPart
    BY <1>1, RegisterPartKeepsRequests
<1>2. CASE PublishType
    BY <1>2, PublishTypeKeepsRequests
<1>3. CASE \E r \in Reader : ReaderStep(r)
    BY <1>3, SelectReleaseKeepsRequests, SelectObjectsKeepsRequests, CheckLocalKeepsRequests,
       ScanKeepsRequests DEF ReaderStep
<1>4. CASE \E g \in Given : Start(g[1], g[2], g[3])
  <2>1. UNCHANGED <<objects, reader>> /\ runs' = runs + 1
      BY <1>4 DEF Start
  <2> QED BY <1>0, <2>1, RequestsKept
<1>5. CASE \/ WriterStep /\ ~RegisterPart /\ ~PublishType
           \/ Stop \/ LoseLake \/ UNCHANGED vars
  <2>1. UNCHANGED <<release, objects, reader, runs>>
      BY <1>5 DEF WriterStep, NextType, BeginCopy, FinishCopy, RefuseCounts, Stop, LoseLake, vars
  <2> QED BY <1>0, <2>1, RequestsKept
<1> QED BY <1>1, <1>2, <1>3, <1>4, <1>5 DEF Next

\* An answer READY lacks no part of the archive it found, and unless a materialization was
\* started meanwhile those parts are that archive's, for any archives, requests, re-runs,
\* crashes and losses between the three steps (_load_file_b, _load_file_c).
THEOREM AnswersHoldWholeArchives == Spec => []AnswersAreWhole
<1>1. Init => RequestInv
  <2> SUFFICES ASSUME Init PROVE RequestInv
      OBVIOUS
  <2>1. RequestProgress /\ AnswersAreWhole
      BY DEF Init, RequestProgress, AnswersAreWhole, NoAnswer
  <2> QED BY <2>1, InitLakeInv DEF RequestInv
<1>2. RequestInv => AnswersAreWhole
    BY DEF RequestInv
<1>3. RequestInv /\ [Next]_vars => RequestInv'
    BY StepKeepsRequests
<1> QED BY <1>1, <1>2, <1>3, PTL DEF Spec

-----------------------------------------------------------------------------
(* The refinement: the lake implements ReleaseStore.                       *)

\* Nothing is visible at first.
LEMMA InitPublished == Init => Published!Init
    BY DEF Init, Published!Init, Visible

\* What a request can see depends on the release rows and the files alone, and
\* only on the files of READY releases.
LEMMA SameVisible ==
    ASSUME release' = release,
           \A t \in Type : release[t].status = "READY" => files'[t] = files[t]
    PROVE  Visible' = Visible
    BY DEF Visible

\* A COPY writes below a release that is not READY.
LEMMA CopyIsHidden ==
    ASSUME LakeInv, BeginCopy \/ FinishCopy
    PROVE  Visible' = Visible
<1>1. writer.type \in Type /\ release[writer.type].status = "MATERIALIZING"
    BY DEF LakeInv, WriterProgress, TypesIn, BeginCopy, FinishCopy
<1>2. files \in [Type -> [Part -> Source \cup {Partial}]]
    BY DEF LakeInv, TypeOK
<1>3. release' = release
    BY DEF BeginCopy, FinishCopy
<1>4. ASSUME NEW t \in Type, t # writer.type
      PROVE  files'[t] = files[t]
  <2>1. CASE BeginCopy
      BY <1>2, <1>4, <2>1 DEF BeginCopy
  <2>2. CASE FinishCopy
      BY <1>2, <1>4, <2>2 DEF FinishCopy
  <2> QED BY <2>1, <2>2
<1> QED BY <1>1, <1>3, <1>4, SameVisible

\* Starting a materialization withdraws exactly the types of its archive.
LEMMA StartWithdraws ==
    ASSUME LakeInv, NEW a, NEW q, NEW counted, Start(a, q, counted)
    PROVE  Published!Next
<1>0. release \in [Type -> ReleaseRow]
    BY DEF LakeInv, TypeOK
<1>1. TypesIn(a) \in SUBSET Type
    BY DEF TypesIn
<1>2. \A t \in Type : /\ t \in TypesIn(a) => release'[t].status = "MATERIALIZING"
                      /\ t \notin TypesIn(a) => release'[t] = release[t]
    BY <1>0 DEF Start, ReleaseRow
<1>3. files' = files
    BY DEF Start
<1>4. Published!Withdraw(TypesIn(a))
    BY <1>2, <1>3 DEF Published!Withdraw, Visible
<1> QED BY <1>1, <1>4 DEF Published!Next

\* Publishing a type shows every part of the archive in hand, of a type that
\* showed nothing.
LEMMA PublishTypePublishes ==
    ASSUME LakeInv, PublishType
    PROVE  Published!Next
<1> DEFINE a == writer.archive
           d == writer.type
<1>1. /\ a \in Archive /\ d \in Type
      /\ NParts[a][d] > 0 /\ NParts[a][d] \in Nat
      /\ writer.part - 1 = NParts[a][d]
      /\ release[d].status = "MATERIALIZING"
      /\ \A p \in 1 .. NParts[a][d] : files[d][p] = a
    BY ConstantsAssumption DEF LakeInv, TypeOK, WriterProgress, WriterState, TypesIn,
       PublishType, AllPartsDone
<1>2. /\ files' = files
      /\ release'[d].status = "READY" /\ release'[d].listed = 1 .. NParts[a][d]
      /\ \A t \in Type : t # d => release'[t] = release[t]
    BY <1>1 DEF LakeInv, TypeOK, PublishType
<1>3. Visible[d] = {}
    BY <1>1 DEF Visible
<1> HIDE DEF a, d
<1>4. \A p \in 1 .. NParts[a][d] : files[d][p] # None
    BY <1>1, ArchiveFacts
<1>5. Visible'[d] = {<<files[d][p], p>> : p \in 1 .. NParts[a][d]}
    BY <1>1, <1>2, <1>4 DEF Visible
<1>6. {<<files[d][p], p>> : p \in 1 .. NParts[a][d]} = Published!Whole(a, d)
    BY <1>1 DEF Published!Whole
<1>7. Visible' = [Visible EXCEPT ![d] = Published!Whole(a, d)]
    BY <1>1, <1>2, <1>5, <1>6 DEF Visible
<1> QED BY <1>1, <1>3, <1>7 DEF Published!Next, Published!Publish

\* A lost volume withdraws every release at once.
LEMMA LoseLakeWithdraws ==
    ASSUME LakeInv, LoseLake
    PROVE  Published!Next
<1>1. \A t \in Type : Visible'[t] = {}
  <2> SUFFICES ASSUME NEW t \in Type, release[t].status = "READY"
               PROVE  Visible'[t] = {}
      BY DEF Visible, LoseLake
  <2>1. release[t].listed \subseteq Part
      BY DEF LakeInv, TypeOK, ReleaseRow
  <2>2. /\ release' = release
        /\ \A p \in Part : files'[t][p] = None
      BY DEF LoseLake
  <2>3. CASE release[t].listed = {}
      BY <2>2, <2>3 DEF Visible
  <2>4. CASE release[t].listed # {}
      BY <2>1, <2>2, <2>4 DEF Visible
  <2> QED BY <2>3, <2>4
<1>2. Published!Withdraw(Type)
    BY <1>1 DEF Published!Withdraw, Visible
<1> QED BY <1>2 DEF Published!Next

\* Every step of the lake is a step of ReleaseStore or shows nothing new.
LEMMA StepPublished == LakeInv /\ [Next]_vars => [Published!Next]_Visible
<1> SUFFICES ASSUME LakeInv, [Next]_vars PROVE [Published!Next]_Visible
    OBVIOUS
<1>1. CASE \E g \in Given : Start(g[1], g[2], g[3])
    BY <1>1, StartWithdraws
<1>2. CASE PublishType
    BY <1>2, PublishTypePublishes
<1>3. CASE LoseLake
    BY <1>3, LoseLakeWithdraws
<1>4. CASE BeginCopy \/ FinishCopy
    BY <1>4, CopyIsHidden
<1>5. CASE UNCHANGED <<release, files>>
    BY <1>5, SameVisible
<1>6. CASE \/ \E t \in Type : NextType(t)
           \/ RegisterPart \/ RefuseCounts \/ Stop
           \/ \E r \in Reader : ReaderStep(r)
           \/ UNCHANGED vars
  <2>1. UNCHANGED <<release, files>>
      BY <1>6 DEF NextType, RegisterPart, RefuseCounts, Stop, ReaderStep, SelectRelease,
         SelectObjects, CheckLocal, Scan, vars
  <2> QED BY <1>5, <2>1
<1> QED BY <1>1, <1>2, <1>3, <1>4, <1>6 DEF Next, WriterStep

\* The lake implements ReleaseStore: crashes, refusals, re-runs and lost volumes
\* included, a release is shown whole or not at all (materialize_account_archive,
\* usaspending_lake.py).
THEOREM LakeImplementsReleaseStore == Spec => PublishesWholeArchives
    BY InitPublished, StepPublished, LakeInvariant, PTL
       DEF Spec, PublishesWholeArchives, Published!Spec
=============================================================================
