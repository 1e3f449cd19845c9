--------------------------- MODULE AwardLakeProofs --------------------------
(***************************************************************************)
(* The award lake is correct for every set of requests, archives and file  *)
(* names, every order of their members, and every number of downloads,     *)
(* ingestions and lost volumes.  AwardInv (in AwardLake) is inductive; the *)
(* invariants follow from it, and so does the refinement of ReleaseStore.  *)
(***************************************************************************)
EXTENDS AwardLake, WellFoundedInduction, TLAPS

-----------------------------------------------------------------------------
(* The members of an archive: a function defined by recursion over the     *)
(* archive's order, which induction on positions shows to be well defined. *)

\* The natural numbers are well founded: every non-empty set of them has a least one.
LEMMA LeastNatural ==
    ASSUME NEW S \in SUBSET Nat, S # {}
    PROVE  \E m \in S : \A k \in S : m <= k
<1> DEFINE Less == {ss \in Nat \X Nat : ss[1] < ss[2]}
<1>1. IsWellFoundedOn(Less, Nat)
    BY NatLessThanWellFounded, Zenon DEF OpToRel
<1>2. PICK m \in S : \A y \in S : <<y, m>> \notin Less
    BY <1>1, WFMin
<1>3. ASSUME NEW k \in S PROVE m <= k
  <2>1. ~(k < m)
      BY <1>2
  <2> QED BY <2>1
<1> QED BY <1>3

\* Induction over 0 .. n, for a set in place of a predicate.
LEMMA Induction ==
    ASSUME NEW n \in Nat, NEW S, 0 \in S,
           \A i \in 1 .. n : i - 1 \in S => i \in S
    PROVE  0 .. n \subseteq S
<1> DEFINE D == (0 .. n) \ S
<1> SUFFICES ASSUME D # {} PROVE FALSE
    OBVIOUS
<1>0. D \in SUBSET Nat
    OBVIOUS
<1>1. PICK m \in D : \A k \in D : m <= k
  <2> HIDE DEF D
  <2> QED BY <1>0, LeastNatural
<1>2. m \in 1 .. n /\ m - 1 \in 0 .. n
    OBVIOUS
<1>3. m - 1 \in S
    BY <1>1, <1>2
<1> QED BY <1>2, <1>3

\* The functions on 0 .. n that start at base and go on by step.
StepFunction(n, T) == [(1 .. n) \X T -> T]
Recursive(n, T, base, step) ==
    {g \in [0 .. n -> T] :
        \A i \in 0 .. n : g[i] = IF i = 0 THEN base ELSE step[<<i, g[i - 1]>>]}

\* A function may be defined by recursion over 0 .. n.
LEMMA Recursion ==
    ASSUME NEW n \in Nat, NEW T, NEW base \in T, NEW step \in StepFunction(n, T)
    PROVE  Recursive(n, T, base, step) # {}
<1> USE DEF StepFunction
<1> DEFINE Defines(g, m) ==
              \A i \in 0 .. m : g[i] = IF i = 0 THEN base ELSE step[<<i, g[i - 1]>>]
           S == {m \in 0 .. n : \E g \in [0 .. m -> T] : Defines(g, m)}
<1>1. 0 \in S
  <2> DEFINE h == [i \in 0 .. 0 |-> base]
  <2>1. h \in [0 .. 0 -> T] /\ \A i \in 0 .. 0 : i = 0 /\ h[i] = base
      OBVIOUS
  <2> HIDE DEF h
  <2> QED BY <2>1
<1>2. ASSUME NEW m \in 1 .. n, m - 1 \in S
      PROVE  m \in S
  <2>1. PICK g \in [0 .. (m - 1) -> T] : Defines(g, m - 1)
      BY <1>2
  <2>2. step[<<m, g[m - 1]>>] \in T
      BY <2>1
  <2> DEFINE h == [i \in 0 .. m |-> IF i = m THEN step[<<m, g[m - 1]>>] ELSE g[i]]
  <2>3. h \in [0 .. m -> T]
      BY <2>1, <2>2
  <2>4. ASSUME NEW i \in 0 .. m
        PROVE  h[i] = IF i = 0 THEN base ELSE step[<<i, h[i - 1]>>]
    <3>1. CASE i = m
      <4>1. h[i - 1] = g[m - 1] /\ i # 0
          BY <3>1
      <4> QED BY <3>1, <4>1
    <3>2. CASE i # m
      <4>1. i \in 0 .. (m - 1) /\ h[i] = g[i] /\ (i # 0 => h[i - 1] = g[i - 1])
          BY <3>2
      <4> QED BY <2>1, <4>1
    <3> QED BY <3>1, <3>2
  <2> HIDE DEF h
  <2> QED BY <2>3, <2>4
<1> HIDE DEF S
<1>3. n \in S
    BY <1>1, <1>2, Induction
<1> QED BY <1>3 DEF S, Recursive

\* The members of the given kinds are members, each of one of these kinds
\* (materialize_award_archive: by_dataset).
LEMMA MembersOfKinds ==
    ASSUME NEW C, NEW members \in Seq(C), NEW kinds
    PROVE  MembersOf(members, kinds) \in Seq({c \in C : Classify(c) \in kinds})
<1> DEFINE n == Len(members)
           T == Seq({c \in C : Classify(c) \in kinds})
           Rest(i, g) == IF Classify(members[i]) \in kinds
                         THEN Append(g, members[i]) ELSE g
           empty == <<>>
           step == [x \in (1 .. n) \X T |-> Rest(x[1], x[2])]
           Kept(g) == g = [i \in 0 .. n |-> IF i = 0 THEN empty ELSE Rest(i, g[i - 1])]
<1>1. n \in Nat
    OBVIOUS
<1>2. \A i \in 1 .. n, t \in T : Rest(i, t) \in T
    OBVIOUS
<1>3. step \in StepFunction(n, T)
    BY <1>2 DEF StepFunction
<1>4. \A i \in 1 .. n, t \in T : step[<<i, t>>] = Rest(i, t)
    OBVIOUS
<1>5. empty \in T
    OBVIOUS
<1> HIDE DEF n, T, Rest, step, empty
<1>6. PICK g : g \in Recursive(n, T, empty, step)
    BY <1>1, <1>3, <1>5, Recursion
<1>7. Kept(g)
  <2>1. \A i \in 0 .. n : i # 0 => i \in 1 .. n /\ i - 1 \in 0 .. n
      BY <1>1
  <2>2. \A i \in 0 .. n : g[i] = IF i = 0 THEN empty ELSE Rest(i, g[i - 1])
      BY <1>4, <1>6, <2>1 DEF Recursive
  <2> QED BY <1>6, <2>2 DEF Recursive
<1> DEFINE k == CHOOSE h : Kept(h)
<1>8. Kept(k)
    BY <1>7
<1> HIDE DEF k
<1>9. \A i \in 0 .. n : k[i] = IF i = 0 THEN empty ELSE Rest(i, k[i - 1])
    BY <1>8
<1>10. 0 .. n \subseteq {i \in 0 .. n : k[i] \in T}
  <2> DEFINE S == {i \in 0 .. n : k[i] \in T}
  <2>1. 0 \in S
      BY <1>1, <1>5, <1>9
  <2>2. \A i \in 1 .. n : i - 1 \in S => i \in S
      BY <1>1, <1>2, <1>9
  <2> HIDE DEF S
  <2> QED BY <1>1, <2>1, <2>2, Induction DEF S
<1>11. MembersOf(members, kinds) = k[n]
    BY DEF MembersOf, k, Rest, n, empty
<1> QED BY <1>1, <1>10, <1>11 DEF T
-----------------------------------------------------------------------------
(* Facts about the constants.                                              *)

\* The key of a request is a release key, and only full years of every agency share
\* the key of the year (award_release_identity).
LEMMA KeyFacts ==
    ASSUME NEW q \in Request
    PROVE  /\ ReleaseKey(q) \in Key /\ CoverageType(q) \in Coverage
           /\ ReleaseKey(q) = YearKey => CoverageType(q) = "FEDERAL_AWARD"
<1>1. ReleaseKey(q) \in Key
    BY DEF Key
<1>2. CoverageType(q) \in Coverage
    BY DEF CoverageType, Coverage
<1>3. ASSUME ReleaseKey(q) = YearKey PROVE CoverageType(q) = "FEDERAL_AWARD"
  <2>1. ReleaseKey(q).dates = YearKey.dates /\ ReleaseKey(q).scope = YearKey.scope
      BY <1>3
  <2>2. q.dates = "YEAR"
      BY <2>1 DEF ReleaseKey, YearKey
  <2>3. ScopeComplete(q)
      BY <2>1, ConstantsAssumption DEF ReleaseKey, YearKey
  <2> QED BY <2>2, <2>3 DEF CoverageType
<1> QED BY <1>1, <1>2, <1>3

\* The members of a dataset are counted, and each has a slot of its own.
LEMMA SlotFacts ==
    ASSUME NEW a \in Archive, NEW d \in Dataset
    PROVE  /\ Parts(a, d) \in Nat
           /\ \A p \in 1 .. Parts(a, d) : SlotOf(a, d, p) \in Slot /\ SlotOf(a, d, p)[2] = p
           /\ SlotsOf[a][d] = {SlotOf(a, d, p) : p \in 1 .. Parts(a, d)}
           /\ SlotsOf[a][d] \subseteq Slot
<1> DEFINE C == SUBSET STRING
           of == {c \in C : Classify(c) \in Kinds[d]}
<1>1. Members[a] \in Seq(C)
    BY ConstantsAssumption
<1>2. InDataset[a][d] = MembersOf(Members[a], Kinds[d])
    BY DEF InDataset
<1>3. InDataset[a][d] \in Seq(of)
  <2> HIDE DEF C
  <2> QED BY <1>1, <1>2, MembersOfKinds
<1>4. /\ Parts(a, d) \in Nat
      /\ \A p \in 1 .. Parts(a, d) : Classify(InDataset[a][d][p]) \in Kinds[d]
  <2> DEFINE inD == InDataset[a][d]
  <2>1. Len(inD) \in Nat /\ \A p \in 1 .. Len(inD) : inD[p] \in of
    <3> HIDE DEF inD, of
    <3> QED BY <1>3 DEF inD
  <2> HIDE DEF inD
  <2> QED BY <2>1 DEF Parts, inD
<1>5. Parts(a, d) <= MaxParts
    BY PartsAssumption
<1>6. Kinds[d] \subseteq Kinds[Prime] \cup Kinds[Sub]
    BY DEF Dataset
<1>7. ASSUME NEW p \in 1 .. Parts(a, d)
      PROVE  SlotOf(a, d, p) \in Slot /\ SlotOf(a, d, p)[2] = p
  <2>1. p \in 1 .. MaxParts
      BY <1>4, <1>5, <1>7, ConstantsAssumption
  <2> HIDE DEF Kinds
  <2> QED BY <1>4, <1>6, <2>1 DEF SlotOf, Slot
<1>8. SlotsOf[a][d] = {SlotOf(a, d, p) : p \in 1 .. Parts(a, d)}
    BY DEF SlotsOf
<1> QED BY <1>4, <1>7, <1>8

\* The place of a member's Parquet file is a place of the lake.
LEMMA PlaceFacts ==
    ASSUME NEW a \in Archive, NEW d \in Dataset, NEW q \in Request,
           NEW p \in 1 .. Parts(a, d)
    PROVE  <<d, ReleaseKey(q), SlotOf(a, d, p)>> \in Place
    BY KeyFacts, SlotFacts DEF Place
-----------------------------------------------------------------------------
(* The inductive invariant, step by step.                                  *)

\* What was attributed stays so: no pair is ever vouched for again.
LEMMA AttributedStays ==
    ASSUME unvouched \subseteq unvouched', NEW c, Attributed(c)
    PROVE  Attributed(c)'
    BY DEF Attributed

\* The lake's part of the invariant is kept by whoever leaves the lake alone.
LEMMA LakeKept ==
    ASSUME AwardInv, UNCHANGED <<release, objects, files, losses>>, unvouched \subseteq unvouched'
    PROVE  PlacesFit' /\ AwardReleaseComplete'
<1>1. PlacesFit'
    BY AttributedStays DEF AwardInv, PlacesFit, Fits
<1>2. AwardReleaseComplete'
    BY DEF AwardInv, AwardReleaseComplete
<1> QED BY <1>1, <1>2

\* So are the rows of the requests.
LEMMA RowsKept ==
    ASSUME AwardInv, UNCHANGED reader, unvouched \subseteq unvouched'
    PROVE  RowsOfTheYear'
    BY AttributedStays DEF AwardInv, RowsOfTheYear

\* The initial state satisfies the inductive invariant.
LEMMA InitAwardInv == Init => AwardInv
<1> SUFFICES ASSUME Init PROVE AwardInv
    OBVIOUS
<1> USE ConstantsAssumption, PartsAssumption DEF Init
<1>1. TypeOK
    BY DEF TypeOK, ReleaseRow, Status, WriterState, Idle, ReaderState, Quiet
<1>2. SidecarsFit /\ WriterProgress /\ RowsOfTheYear
    BY DEF SidecarsFit, WriterProgress, Idle, RowsOfTheYear, Quiet
<1>3. PlacesFit /\ AwardReleaseComplete
    BY DEF PlacesFit, Fits, AwardReleaseComplete
<1> QED BY <1>1, <1>2, <1>3 DEF AwardInv

\* A request is submitted.
LEMMA SubmitKeepsInv ==
    ASSUME AwardInv, NEW q \in Request, Submit(q)
    PROVE  AwardInv'
<1> USE DEF Submit, lake
<1>0. writer' \in WriterState
    BY DEF WriterState, Idle
<1>1. TypeOK'
    BY <1>0 DEF AwardInv, TypeOK
<1>2. SidecarsFit'
    BY DEF AwardInv, SidecarsFit, Orphan, Idle, Attributed
<1>3. WriterProgress'
  <2>1. writer'.pc = "wait" /\ writer'.request = q
      BY DEF Idle
  <2> QED BY <2>1 DEF WriterProgress
<1>4. PlacesFit' /\ AwardReleaseComplete' /\ RowsOfTheYear'
    BY LakeKept, RowsKept
<1> QED BY <1>1, <1>2, <1>3, <1>4 DEF AwardInv

\* An archive is ingested with the request its user names: from then on that pair is
\* the user's word, unless it is the archive's own.
LEMMA IngestArchiveKeepsInv ==
    ASSUME AwardInv, NEW a \in Archive, NEW q \in Request, IngestArchive(a, q)
    PROVE  AwardInv'
<1> USE DEF IngestArchive, lake
<1>1. /\ writer'.pc = "inspect" /\ writer'.request = q /\ writer'.archive = a
      /\ writer' \in WriterState
    BY DEF Idle, WriterState
<1>2. unvouched \subseteq unvouched' /\ unvouched' \subseteq Archive \X Request
    BY DEF AwardInv, TypeOK
<1>3. TypeOK'
    BY <1>1, <1>2 DEF AwardInv, TypeOK
<1>4. SidecarsFit'
    BY <1>1, <1>2 DEF AwardInv, SidecarsFit, Orphan, Attributed
<1>5. WriterProgress'
    BY <1>1 DEF WriterProgress, InHand, Attributed
<1>6. PlacesFit' /\ AwardReleaseComplete' /\ RowsOfTheYear'
    BY <1>2, LakeKept, RowsKept
<1> QED BY <1>3, <1>4, <1>5, <1>6 DEF AwardInv

\* The service finishes the job, under a name of its own choice.
LEMMA JobCompletesKeepsInv ==
    ASSUME AwardInv, NEW a \in Archive, NEW n \in Name, JobCompletes(a, n)
    PROVE  AwardInv'
<1> USE DEF JobCompletes, lake
<1>1. /\ writer'.pc = "download" /\ writer'.request = writer.request /\ writer'.name = n
      /\ writer'.archive = a /\ writer' \in WriterState
    BY DEF AwardInv, TypeOK, WriterState
<1>2. TypeOK'
    BY <1>1 DEF AwardInv, TypeOK
<1>3. SidecarsFit'
    BY <1>1 DEF AwardInv, SidecarsFit, Orphan, Attributed
<1>4. writer.request \in Request
    BY DEF AwardInv, WriterProgress
<1>5. WriterProgress'
    BY <1>1, <1>4 DEF WriterProgress
<1>6. PlacesFit' /\ AwardReleaseComplete' /\ RowsOfTheYear'
    BY LakeKept, RowsKept
<1> QED BY <1>2, <1>3, <1>5, <1>6 DEF AwardInv

\* The service fails the job.
LEMMA JobFailsKeepsInv ==
    ASSUME AwardInv, JobFails
    PROVE  AwardInv'
<1> USE DEF JobFails, lake
<1>1. writer'.pc = "idle" /\ writer' \in WriterState
    BY DEF Idle, WriterState
<1>2. TypeOK' /\ SidecarsFit'
    BY <1>1 DEF AwardInv, TypeOK, SidecarsFit, Orphan, Attributed
<1>3. WriterProgress'
    BY <1>1 DEF WriterProgress
<1>4. PlacesFit' /\ AwardReleaseComplete' /\ RowsOfTheYear'
    BY LakeKept, RowsKept
<1> QED BY <1>2, <1>3, <1>4 DEF AwardInv

\* A download leaves the file that is there, orphaned or described by its sidecar.
LEMMA DownloadKeepsInv ==
    ASSUME AwardInv, Download
    PROVE  AwardInv'
<1> USE ConstantsAssumption DEF Download, lake
<1>1. writer.name \in Name /\ writer.archive \in Archive /\ writer.archive # None
    BY DEF AwardInv, WriterProgress
<1>2. TypeOK'
    BY <1>1 DEF AwardInv, TypeOK, WriterState
<1>3. /\ \A n \in Name : raw[n] # None => raw'[n] = raw[n]
      /\ \A n \in Name : n # writer.name => raw'[n] = raw[n]
      /\ raw'[writer.name] = IF raw[writer.name] = None THEN writer.archive ELSE raw[writer.name]
      /\ writer'.pc = "sidecar" /\ writer'.name = writer.name
      /\ writer'.request = writer.request /\ writer'.archive = writer.archive
    BY <1>1 DEF AwardInv, TypeOK, WriterState
<1>4. SidecarsFit'
  <2>1. SidecarsFit /\ UNCHANGED <<sidecar, unvouched>> /\ writer.pc = "download"
      BY DEF AwardInv
  <2> HIDE DEF Download
  <2>2. ASSUME NEW n \in Name, sidecar'[n] # None
        PROVE  raw'[n] # None /\ Attributed([archive |-> raw[n], request |-> sidecar[n]])'
      BY <1>3, <2>1, <2>2 DEF SidecarsFit, Attributed
  <2>3. ASSUME NEW n \in Name, raw'[n] # None, sidecar'[n] = None
        PROVE  Orphan(raw[n])' \/ n = writer.name
      BY <1>3, <2>1, <2>3 DEF SidecarsFit, Orphan
  <2> QED BY <1>3, <2>2, <2>3 DEF SidecarsFit
<1>5. WriterProgress'
  <2>1. /\ writer.request \in Request /\ GeneratedFor[writer.archive] = writer.request
        /\ raw'[writer.name] # None
      BY <1>1, <1>3 DEF AwardInv, WriterProgress
  <2>2. sidecar'[writer.name] = None =>
            \/ \A q \in Request : <<raw'[writer.name], q>> \in unvouched'
            \/ raw'[writer.name] = writer.archive
    <3>1. writer.pc = "download" /\ UNCHANGED <<sidecar, unvouched>>
        OBVIOUS
    <3>2. SidecarsFit
        BY DEF AwardInv
    <3> HIDE DEF Download
    <3> QED BY <1>1, <1>3, <3>1, <3>2 DEF SidecarsFit, Orphan
  <2> QED BY <1>1, <1>3, <2>1, <2>2 DEF WriterProgress, Orphan
<1>6. PlacesFit' /\ AwardReleaseComplete' /\ RowsOfTheYear'
    BY LakeKept, RowsKept
<1> QED BY <1>2, <1>4, <1>5, <1>6 DEF AwardInv

\* A sidecar is written beside the archive the request produced, or beside an orphan;
\* one with another request is refused (write_request_sidecar).
LEMMA WriteSidecarKeepsInv ==
    ASSUME AwardInv, WriteSidecar
    PROVE  AwardInv'
<1> USE ConstantsAssumption DEF WriteSidecar, lake
<1>1. /\ writer.name \in Name /\ writer.archive \in Archive /\ writer.request \in Request
      /\ GeneratedFor[writer.archive] = writer.request
      /\ raw[writer.name] # None
      /\ sidecar[writer.name] = None => Orphan(raw[writer.name]) \/ raw[writer.name] = writer.archive
      /\ raw[writer.name] \in Archive
    BY DEF AwardInv, TypeOK, WriterProgress
<1>2. PlacesFit' /\ AwardReleaseComplete' /\ RowsOfTheYear'
    BY LakeKept, RowsKept
<1>3. CASE sidecar[writer.name] \in {None, writer.request}
  <2>1. /\ sidecar'[writer.name] = writer.request
        /\ \A n \in Name : n # writer.name => sidecar'[n] = sidecar[n]
        /\ writer'.pc = "inspect" /\ writer'.name = writer.name
        /\ writer'.request = writer.request /\ writer'.archive = raw[writer.name]
      BY <1>1, <1>3 DEF AwardInv, TypeOK, WriterState
  <2>5. Attributed([archive |-> raw[writer.name], request |-> writer.request])
      BY <1>1, <1>3 DEF AwardInv, SidecarsFit, Orphan, Attributed
  <2>2. TypeOK'
      BY <1>1, <1>3 DEF AwardInv, TypeOK, WriterState
  <2>3. SidecarsFit'
      BY <1>1, <1>3, <2>1, <2>5 DEF AwardInv, SidecarsFit, Orphan, Attributed
  <2>4. WriterProgress'
      BY <1>1, <2>1, <2>5 DEF WriterProgress, InHand, Attributed
  <2> QED BY <1>2, <2>2, <2>3, <2>4 DEF AwardInv
<1>4. CASE sidecar[writer.name] \notin {None, writer.request}
  <2>1. TypeOK'
      BY <1>4 DEF AwardInv, TypeOK, WriterState, Idle
  <2>2. SidecarsFit' /\ WriterProgress'
    <3>1. /\ SidecarsFit /\ writer' = Idle /\ UNCHANGED <<raw, sidecar, unvouched>>
          /\ sidecar[writer.name] # None
        BY <1>4 DEF AwardInv
    <3> HIDE DEF WriteSidecar
    <3>2. ASSUME NEW n \in Name, sidecar[n] # None
          PROVE  raw[n] # None /\ Attributed([archive |-> raw[n], request |-> sidecar[n]])'
        BY <3>1, <3>2 DEF SidecarsFit, Attributed
    <3>3. ASSUME NEW n \in Name, raw[n] # None, sidecar[n] = None
          PROVE  Orphan(raw[n])'
        BY <3>1, <3>3 DEF SidecarsFit, Orphan
    <3>4. WriterProgress'
        BY <3>1 DEF WriterProgress, Idle
    <3> QED BY <3>1, <3>2, <3>3, <3>4 DEF SidecarsFit
  <2> QED BY <1>2, <2>1, <2>2 DEF AwardInv
<1> QED BY <1>3, <1>4

\* A refused archive, an error or the death of the command: what was downloaded without
\* its sidecar is vouched for by nothing.
LEMMA StopKeepsInv ==
    ASSUME AwardInv, Refuse \/ Stop
    PROVE  AwardInv'
<1> USE ConstantsAssumption DEF Refuse, Stop, lake
<1>1. /\ writer' = Idle /\ unvouched \subseteq unvouched'
      /\ UNCHANGED <<raw, sidecar, release, objects, files, reader, runs, losses>>
    OBVIOUS
<1>2. unvouched' \subseteq Archive \X Request
    BY DEF AwardInv, TypeOK, WriterState, WriterProgress
<1>3. TypeOK'
    BY <1>1, <1>2 DEF AwardInv, TypeOK, WriterState, Idle
<1>4. SidecarsFit'
  <2>1. ASSUME NEW n \in Name, raw[n] # None, sidecar[n] = None
        PROVE  Orphan(raw[n])'
      BY <2>1 DEF AwardInv, SidecarsFit, Orphan
  <2>2. ASSUME NEW n \in Name, sidecar[n] # None
        PROVE  raw[n] # None /\ Attributed([archive |-> raw[n], request |-> sidecar[n]])'
      BY <1>1, <2>2 DEF AwardInv, SidecarsFit, Orphan, Attributed
  <2> QED BY <1>1, <2>1, <2>2 DEF SidecarsFit, Orphan
<1>5. WriterProgress'
    BY <1>1 DEF WriterProgress, Idle
<1>6. PlacesFit' /\ AwardReleaseComplete' /\ RowsOfTheYear'
    BY <1>1, LakeKept, RowsKept
<1> QED BY <1>3, <1>4, <1>5, <1>6 DEF AwardInv

\* A READY release is complete as long as its row, its objects and its files stay.
LEMMA CompleteStays ==
    ASSUME AwardInv,
           \A d \in Dataset, k \in Key : release'[d][k].status = "READY" =>
               /\ release'[d][k] = release[d][k]
               /\ \A s \in Slot : /\ objects'[<<d, k, s>>] = objects[<<d, k, s>>]
                                  /\ files'[<<d, k, s>>] = files[<<d, k, s>>],
           losses' = losses
    PROVE  AwardReleaseComplete'
<1> SUFFICES ASSUME NEW d \in Dataset, NEW k \in Key, release'[d][k].status = "READY"
             PROVE  LET row == release'[d][k]
                        whole == [archive |-> row.source, request |-> row.request]
                        Obj(s) == objects'[<<d, k, s>>]
                    IN /\ row.listed = SlotsOf[row.source][d]
                       /\ ReleaseKey(row.request) = k /\ row.coverage = CoverageType(row.request)
                       /\ \A s \in row.listed :
                             /\ Obj(s) = whole
                             /\ \/ files'[<<d, k, s>>] = whole
                                \/ losses' > 0 /\ files'[<<d, k, s>>] = None
                       /\ \A s \in Slot : Obj(s) # None => ReleaseKey(Obj(s).request) = k
    BY DEF AwardReleaseComplete
<1>1. release[d][k] \in ReleaseRow
    BY DEF AwardInv, TypeOK
<1>2. release[d][k].listed \subseteq Slot
    BY <1>1 DEF ReleaseRow
<1> QED BY <1>2 DEF AwardInv, AwardReleaseComplete

\* One commit takes every release the archive has members for out of READY.
LEMMA WithdrawKeepsInv ==
    ASSUME AwardInv, Withdraw
    PROVE  AwardInv'
<1> DEFINE a == writer.archive
           q == writer.request
<1>1. q \in Request /\ writer.pc = "inspect"
    BY DEF AwardInv, WriterProgress, Withdraw
<1>2. a \in Archive /\ Attributed([archive |-> a, request |-> q])
    BY <1>1 DEF AwardInv, WriterProgress, InHand
<1>3. /\ writer'.pc = "datasets" /\ writer'.archive = a /\ writer'.todo = DatasetsIn(a)
      /\ writer'.request = q /\ writer' \in WriterState
    BY <1>1, <1>2 DEF AwardInv, TypeOK, WriterState, Withdraw, DatasetsIn
<1>4. \A d \in Dataset : release[d] \in [Key -> ReleaseRow]
    BY DEF AwardInv, TypeOK
<1>5. ASSUME NEW d \in Dataset, NEW k \in Key
      PROVE  /\ d \notin DatasetsIn(a) \/ k # ReleaseKey(q) => release'[d][k] = release[d][k]
             /\ d \in DatasetsIn(a) /\ k = ReleaseKey(q) =>
                   /\ release'[d][k].status = "MATERIALIZING"
                   /\ release'[d][k].request = q
                   /\ release'[d][k].coverage = CoverageType(q)
             /\ release'[d][k] \in ReleaseRow
  <2>1. CASE d \notin DatasetsIn(a)
    <3>1. release'[d] = release[d]
        BY <2>1 DEF Withdraw
    <3> QED BY <1>4, <2>1, <3>1
  <2>2. CASE d \in DatasetsIn(a)
    <3> DEFINE row == [release[d][ReleaseKey(q)] EXCEPT !.status = "MATERIALIZING",
                          !.request = q, !.coverage = CoverageType(q)]
    <3>1. release'[d] = [release[d] EXCEPT ![ReleaseKey(q)] = row]
        BY <2>2 DEF Withdraw
    <3>2. ReleaseKey(q) \in Key /\ CoverageType(q) \in Coverage
        BY <1>1, KeyFacts
    <3>3. release[d][ReleaseKey(q)] \in ReleaseRow
        BY <1>4, <3>2
    <3>4. /\ row \in ReleaseRow /\ row.status = "MATERIALIZING" /\ row.request = q
          /\ row.coverage = CoverageType(q)
        BY <1>1, <3>2, <3>3 DEF ReleaseRow, Status
    <3> HIDE DEF row
    <3> QED BY <1>4, <2>2, <3>1, <3>2, <3>4
  <2> QED BY <2>1, <2>2
<1>6. UNCHANGED <<raw, sidecar, unvouched, objects, files, reader, runs, losses>>
    BY DEF Withdraw
<1>7. release' \in [Dataset -> [Key -> ReleaseRow]]
  <2>1. \A d \in Dataset : release'[d] = IF d \notin DatasetsIn(a) THEN release[d]
            ELSE [release[d] EXCEPT ![ReleaseKey(q)] =
                    [@ EXCEPT !.status = "MATERIALIZING", !.request = q,
                              !.coverage = CoverageType(q)]]
      BY DEF Withdraw
  <2>2. \A d \in Dataset : release'[d] \in [Key -> ReleaseRow]
    <3> SUFFICES ASSUME NEW d \in Dataset PROVE release'[d] \in [Key -> ReleaseRow]
        OBVIOUS
    <3>1. release[d] \in [Key -> ReleaseRow] /\ \A k \in Key : release'[d][k] \in ReleaseRow
        BY <1>4, <1>5
    <3>2. CASE d \in DatasetsIn(a)
      <4> DEFINE row == [release[d][ReleaseKey(q)] EXCEPT !.status = "MATERIALIZING",
                            !.request = q, !.coverage = CoverageType(q)]
      <4>1. release'[d] = [release[d] EXCEPT ![ReleaseKey(q)] = row]
          BY <2>1, <3>2
      <4> HIDE DEF row
      <4> QED BY <3>1, <4>1
    <3> QED BY <2>1, <3>1, <3>2
  <2>3. release' = [d \in Dataset |-> release'[d]]
      BY DEF Withdraw
  <2> QED BY <2>2, <2>3
<1> HIDE DEF a, q
<1>8. TypeOK'
    BY <1>3, <1>6, <1>7 DEF AwardInv, TypeOK
<1>9. SidecarsFit'
    BY <1>1, <1>3, <1>6 DEF AwardInv, SidecarsFit, Orphan, Attributed
<1>10. WriterProgress'
  <2>1. \A d \in DatasetsIn(a) : d \in Dataset
      BY DEF DatasetsIn
  <2>2. ReleaseKey(q) \in Key
      BY <1>1, KeyFacts
  <2>3. Attributed(InHand)'
      BY <1>2, <1>3, <1>6 DEF Attributed, InHand
  <2> QED BY <1>1, <1>2, <1>3, <1>5, <2>1, <2>2, <2>3 DEF WriterProgress
<1>11. PlacesFit' /\ RowsOfTheYear'
    BY <1>6 DEF AwardInv, PlacesFit, Fits, RowsOfTheYear, Attributed
<1>12. AwardReleaseComplete'
    BY <1>5, <1>6, CompleteStays
<1> QED BY <1>8, <1>9, <1>10, <1>11, <1>12 DEF AwardInv

\* Turning to the next dataset changes only the loop's position.
LEMMA NextDatasetKeepsInv ==
    ASSUME AwardInv, NEW d \in Dataset, NextDataset(d)
    PROVE  AwardInv'
<1> USE DEF NextDataset, lake
<1>1. /\ writer'.pc = "members" /\ writer'.dataset = d /\ writer'.part = 1
      /\ writer'.archive = writer.archive /\ writer'.request = writer.request
      /\ writer'.todo = writer.todo /\ writer' \in WriterState
    BY DEF AwardInv, TypeOK, WriterState
<1>2. TypeOK' /\ SidecarsFit'
    BY <1>1 DEF AwardInv, TypeOK, SidecarsFit, Orphan, Attributed
<1>3. WriterProgress'
  <2>1. /\ writer.archive \in Archive /\ Attributed(InHand) /\ writer.request \in Request
        /\ writer.todo \subseteq DatasetsIn(writer.archive) /\ d \in writer.todo
        /\ \A e \in writer.todo :
              LET row == release[e][ReleaseKey(writer.request)]
              IN /\ row.status = "MATERIALIZING" /\ row.request = writer.request
                 /\ row.coverage = CoverageType(writer.request)
      BY DEF AwardInv, WriterProgress
  <2>2. 1 \in 1 .. (Parts(writer.archive, d) + 1)
      BY <2>1, SlotFacts
  <2>3. Attributed(InHand)' /\ Registered(d, ReleaseKey(writer.request))'
      BY <1>1, <2>1 DEF Attributed, InHand, Registered
  <2> QED BY <1>1, <2>1, <2>2, <2>3 DEF WriterProgress
<1>4. PlacesFit' /\ AwardReleaseComplete' /\ RowsOfTheYear'
    BY LakeKept, RowsKept
<1> QED BY <1>2, <1>3, <1>4 DEF AwardInv

\* What the command has in hand while it converts: a place of its own, under a release
\* that is not READY.
LEMMA HandFacts ==
    ASSUME AwardInv, writer.pc \in {"members", "register"}
    PROVE  /\ writer.archive \in Archive /\ writer.request \in Request
           /\ writer.dataset \in writer.todo /\ writer.dataset \in Dataset
           /\ Attributed(InHand) /\ InHand \in Content
           /\ InHand.request = writer.request
           /\ release[writer.dataset][ReleaseKey(writer.request)].status = "MATERIALIZING"
           /\ Parts(writer.archive, writer.dataset) \in Nat
           /\ writer.part \in 1 .. (Parts(writer.archive, writer.dataset) + 1)
           /\ writer.part <= Parts(writer.archive, writer.dataset) =>
                 PlaceInHand \in Place
<1>1. /\ writer.archive \in Archive /\ writer.request \in Request
      /\ writer.dataset \in writer.todo /\ writer.todo \subseteq DatasetsIn(writer.archive)
      /\ Attributed(InHand)
      /\ release[writer.dataset][ReleaseKey(writer.request)].status = "MATERIALIZING"
      /\ writer.part \in 1 .. (Parts(writer.archive, writer.dataset) + 1)
    BY DEF AwardInv, WriterProgress
<1>2. writer.dataset \in Dataset
    BY <1>1 DEF DatasetsIn
<1>3. Parts(writer.archive, writer.dataset) \in Nat
    BY <1>1, <1>2, SlotFacts
<1>4. writer.part <= Parts(writer.archive, writer.dataset) => PlaceInHand \in Place
    BY <1>1, <1>2, <1>3, PlaceFacts DEF PlaceInHand
<1> QED BY <1>1, <1>2, <1>3, <1>4 DEF InHand, Content

\* Other parts of the dataset in hand lie at other places.
LEMMA OtherParts ==
    ASSUME AwardInv, writer.pc \in {"members", "register"},
           writer.part <= Parts(writer.archive, writer.dataset),
           NEW p \in 1 .. (writer.part - 1)
    PROVE  /\ <<writer.dataset, ReleaseKey(writer.request),
                SlotOf(writer.archive, writer.dataset, p)>> \in Place
           /\ <<writer.dataset, ReleaseKey(writer.request),
                SlotOf(writer.archive, writer.dataset, p)>> # PlaceInHand
<1> DEFINE a == writer.archive
           d == writer.dataset
<1>1. /\ a \in Archive /\ d \in Dataset /\ writer.request \in Request
      /\ Parts(a, d) \in Nat /\ writer.part \in 1 .. Parts(a, d)
    BY HandFacts
<1>2. p \in 1 .. Parts(a, d) /\ p # writer.part
    BY <1>1
<1>3. SlotOf(a, d, p)[2] = p /\ SlotOf(a, d, writer.part)[2] = writer.part
    BY <1>1, <1>2, SlotFacts
<1>4. SlotOf(a, d, p) # SlotOf(a, d, writer.part)
    BY <1>2, <1>3
<1> QED BY <1>1, <1>2, <1>4, PlaceFacts DEF PlaceInHand

\* A file changed at the place in hand, to the archive's own content or to a stump.
LEMMA FileInHandKeepsInv ==
    ASSUME AwardInv, MemberLeft, NEW content \in {InHand, files[PlaceInHand], Partial},
           files' = [files EXCEPT ![PlaceInHand] = content],
           UNCHANGED <<raw, sidecar, unvouched, release, objects, reader, runs, losses>>,
           \/ writer' = Idle
           \/ writer' = [writer EXCEPT !.pc = "register"] /\ content = InHand
    PROVE  AwardInv'
<1> DEFINE x == PlaceInHand
           k == ReleaseKey(writer.request)
<1>1. /\ writer.pc = "members" /\ writer.part <= Parts(writer.archive, writer.dataset)
      /\ x \in Place /\ InHand \in Content /\ Attributed(InHand)
      /\ writer.dataset \in Dataset /\ k \in Key
      /\ release[writer.dataset][k].status = "MATERIALIZING"
    BY HandFacts, KeyFacts DEF MemberLeft
<1>2. files \in [Place -> Content \cup {None, Partial}]
    BY DEF AwardInv, TypeOK
<1>3. /\ files' \in [Place -> Content \cup {None, Partial}]
      /\ files'[x] = content /\ \A y \in Place : y # x => files'[y] = files[y]
    BY <1>1, <1>2
<1>4. writer' \in WriterState
    BY DEF AwardInv, TypeOK, WriterState, Idle
<1>5. TypeOK'
    BY <1>3, <1>4 DEF AwardInv, TypeOK
<1>6. SidecarsFit'
    BY <1>1 DEF AwardInv, SidecarsFit, Orphan, Attributed, Idle
<1>7. \A c : Attributed(c)' <=> Attributed(c)
    BY DEF Attributed
<1>8. PlacesFit'
  <2>1. Fits(content, x)
      BY <1>1, <1>2, PartsAssumption DEF Fits, AwardInv, PlacesFit, PlaceInHand, InHand
  <2> HIDE DEF x
  <2> QED BY <1>3, <1>7, <2>1 DEF Fits, AwardInv, PlacesFit
<1>9. RowsOfTheYear'
    BY RowsKept
<1>10. AwardReleaseComplete'
  <2>1. ASSUME NEW d \in Dataset, NEW kk \in Key, release[d][kk].status = "READY",
               NEW s \in Slot
        PROVE  files'[<<d, kk, s>>] = files[<<d, kk, s>>]
    <3>1. <<d, kk, s>> \in Place /\ <<d, kk, s>> # x
        BY <1>1, <2>1 DEF Place, PlaceInHand
    <3> HIDE DEF x
    <3> QED BY <1>3, <3>1
  <2> QED BY <2>1, CompleteStays
<1>11. WriterProgress'
  <2>1. CASE writer' = Idle
      BY <2>1 DEF WriterProgress, Idle
  <2>2. CASE writer' = [writer EXCEPT !.pc = "register"] /\ content = InHand
    <3>1. writer \in WriterState /\ WriterProgress
        BY DEF AwardInv, TypeOK
    <3>2. /\ writer'.pc = "register" /\ writer'.archive = writer.archive
          /\ writer'.request = writer.request /\ writer'.todo = writer.todo
          /\ writer'.dataset = writer.dataset /\ writer'.part = writer.part
        BY <2>2, <3>1 DEF WriterState
    <3>3. InHand' = InHand /\ PlaceInHand' = PlaceInHand
        BY <3>2 DEF InHand, PlaceInHand
    <3>4. Registered(writer.dataset, k)'
      <4>1. ASSUME NEW p \in 1 .. (writer.part - 1)
            PROVE  LET y == <<writer.dataset, k, SlotOf(writer.archive, writer.dataset, p)>>
                   IN objects'[y] = InHand /\ files'[y] = InHand
        <5> DEFINE y == <<writer.dataset, k, SlotOf(writer.archive, writer.dataset, p)>>
        <5>1. y \in Place /\ y # x
            BY <1>1, OtherParts
        <5>2. objects[y] = InHand /\ files[y] = InHand
            BY <1>1, <3>1 DEF WriterProgress, Registered
        <5> HIDE DEF x, y
        <5>3. objects'[y] = InHand /\ files'[y] = InHand
            BY <1>3, <5>1, <5>2
        <5> QED BY <5>3 DEF y
      <4> QED BY <3>2, <3>3, <4>1 DEF Registered
    <3>5. files'[PlaceInHand] = InHand
        BY <1>3, <2>2
    <3> HIDE DEF x
    <3> QED BY <1>1, <1>7, <3>1, <3>2, <3>3, <3>4, <3>5 DEF WriterProgress
  <2> QED BY <2>1, <2>2
<1> QED BY <1>5, <1>6, <1>8, <1>9, <1>10, <1>11 DEF AwardInv

\* A COPY that finishes, and one that dies with the process.
LEMMA ConvertKeepsInv ==
    ASSUME AwardInv, ConvertMember \/ DieInCopy
    PROVE  AwardInv'
<1>1. CASE ConvertMember
    BY <1>1, FileInHandKeepsInv DEF ConvertMember, InHand
<1>2. CASE DieInCopy
    BY <1>2, FileInHandKeepsInv DEF DieInCopy
<1> QED BY <1>1, <1>2

\* A registered object carries the hash of the file just written.
LEMMA RegisterMemberKeepsInv ==
    ASSUME AwardInv, RegisterMember
    PROVE  AwardInv'
<1> DEFINE x == PlaceInHand
           k == ReleaseKey(writer.request)
           d == writer.dataset
           a == writer.archive
<1>1. writer.pc = "register" /\ WriterProgress /\ writer \in WriterState
    BY DEF RegisterMember, AwardInv, TypeOK
<1>2. /\ writer.part <= Parts(a, d) /\ files[x] = InHand
    BY <1>1 DEF WriterProgress
<1>3. /\ x \in Place /\ InHand \in Content /\ Attributed(InHand) /\ d \in Dataset
      /\ k \in Key /\ release[d][k].status = "MATERIALIZING"
      /\ Parts(a, d) \in Nat /\ writer.part \in 1 .. Parts(a, d)
      /\ InHand.request = writer.request
    BY <1>1, <1>2, HandFacts, KeyFacts
<1>4. objects \in [Place -> Content \cup {None}]
    BY DEF AwardInv, TypeOK
<1>5. /\ objects' \in [Place -> Content \cup {None}]
      /\ objects'[x] = InHand /\ \A y \in Place : y # x => objects'[y] = objects[y]
    BY <1>2, <1>3, <1>4 DEF RegisterMember
<1>6. UNCHANGED <<raw, sidecar, unvouched, release, files, reader, runs, losses>>
    BY DEF RegisterMember
<1>7. /\ writer'.pc = "members" /\ writer'.archive = a /\ writer'.request = writer.request
      /\ writer'.todo = writer.todo /\ writer'.dataset = d /\ writer'.part = writer.part + 1
      /\ writer' \in WriterState
  <2> DEFINE n == writer.part + 1
  <2>1. n \in Nat
      BY <1>1 DEF WriterState
  <2>2. writer' = [writer EXCEPT !.pc = "members", !.part = n]
      BY DEF RegisterMember
  <2> HIDE DEF n
  <2>3. /\ writer'.pc = "members" /\ writer'.archive = a /\ writer'.request = writer.request
        /\ writer'.todo = writer.todo /\ writer'.dataset = d /\ writer'.part = n
        /\ writer' \in WriterState
      BY <1>1, <2>1, <2>2 DEF WriterState
  <2> QED BY <2>3 DEF n
<1>8. TypeOK' /\ SidecarsFit'
    BY <1>1, <1>5, <1>6, <1>7 DEF AwardInv, TypeOK, SidecarsFit, Orphan, Attributed
<1>9. \A c : Attributed(c)' <=> Attributed(c)
    BY <1>6 DEF Attributed
<1>10. PlacesFit'
  <2>1. Fits(InHand, x)
      BY <1>3 DEF Fits, PlaceInHand, InHand
  <2> HIDE DEF x
  <2> QED BY <1>5, <1>6, <1>9, <2>1 DEF Fits, AwardInv, PlacesFit
<1>11. RowsOfTheYear'
    BY <1>6, RowsKept
<1>12. AwardReleaseComplete'
  <2>1. ASSUME NEW e \in Dataset, NEW kk \in Key, release[e][kk].status = "READY",
               NEW s \in Slot
        PROVE  objects'[<<e, kk, s>>] = objects[<<e, kk, s>>]
    <3>1. <<e, kk, s>> \in Place /\ <<e, kk, s>> # x
        BY <1>3, <2>1 DEF Place, PlaceInHand
    <3> HIDE DEF x
    <3> QED BY <1>5, <3>1
  <2> QED BY <1>6, <2>1, CompleteStays
<1>13. WriterProgress'
  <2>1. InHand' = InHand
      BY <1>7 DEF InHand
  <2>2. Registered(d, k)'
    <3>1. ASSUME NEW p \in 1 .. writer.part
          PROVE  LET y == <<d, k, SlotOf(a, d, p)>>
                 IN objects'[y] = InHand /\ files'[y] = InHand
      <4> DEFINE y == <<d, k, SlotOf(a, d, p)>>
      <4>1. CASE p = writer.part
          BY <1>2, <1>5, <1>6, <4>1 DEF PlaceInHand
      <4>2. CASE p # writer.part
        <5>1. p \in 1 .. (writer.part - 1)
            BY <1>3, <4>2
        <5>2. y \in Place /\ y # x
            BY <1>1, <1>2, <5>1, OtherParts
        <5>3. objects[y] = InHand /\ files[y] = InHand
            BY <1>1, <5>1 DEF WriterProgress, Registered
        <5> HIDE DEF x, y
        <5>4. objects'[y] = InHand /\ files'[y] = InHand
            BY <1>5, <1>6, <5>2, <5>3
        <5> QED BY <5>4 DEF y
      <4> QED BY <4>1, <4>2
    <3>2. writer'.part - 1 = writer.part
        BY <1>3, <1>7
    <3> QED BY <1>7, <2>1, <3>1, <3>2 DEF Registered
  <2>3. writer'.part \in 1 .. (Parts(a, d) + 1)
      BY <1>3, <1>7
  <2> HIDE DEF x
  <2> QED BY <1>1, <1>3, <1>6, <1>7, <1>9, <2>1, <2>2, <2>3 DEF WriterProgress
<1> QED BY <1>8, <1>10, <1>11, <1>12, <1>13 DEF AwardInv

\* The row of a published dataset.
LEMMA PublishedRow ==
    ASSUME AwardInv, PublishDataset
    PROVE  LET d == writer.dataset
               k == ReleaseKey(writer.request)
           IN /\ d \in Dataset /\ k \in Key
              /\ release' \in [Dataset -> [Key -> ReleaseRow]]
              /\ \A e \in Dataset, kk \in Key :
                    e # d \/ kk # k => release'[e][kk] = release[e][kk]
              /\ release'[d][k].status = "READY"
              /\ release'[d][k].request = writer.request
              /\ release'[d][k].coverage = CoverageType(writer.request)
              /\ release'[d][k].source = writer.archive
              /\ release'[d][k].listed = SlotsOf[writer.archive][d]
              /\ writer.part = Parts(writer.archive, d) + 1
<1> DEFINE d == writer.dataset
           k == ReleaseKey(writer.request)
           row == [release[d][k] EXCEPT !.status = "READY", !.source = writer.archive,
                                        !.listed = Listed]
<1>1. writer.pc = "members" /\ WriterProgress /\ writer.part > Parts(writer.archive, d)
    BY DEF PublishDataset, AllMembersDone, AwardInv
<1>2. /\ d \in Dataset /\ k \in Key /\ writer.archive \in Archive /\ d \in writer.todo
      /\ Parts(writer.archive, d) \in Nat
      /\ writer.part = Parts(writer.archive, d) + 1
    BY <1>1, HandFacts, KeyFacts
<1>3. Listed = SlotsOf[writer.archive][d] /\ Listed \subseteq Slot
  <2>1. writer.part - 1 = Parts(writer.archive, d)
      BY <1>2
  <2> QED BY <1>2, <2>1, SlotFacts DEF Listed
<1>4. release \in [Dataset -> [Key -> ReleaseRow]]
    BY DEF AwardInv, TypeOK
<1>5. release[d][k].request = writer.request /\ release[d][k].coverage = CoverageType(writer.request)
    BY <1>1, <1>2 DEF WriterProgress
<1>6. /\ row \in ReleaseRow /\ row.status = "READY" /\ row.source = writer.archive
      /\ row.listed = Listed /\ row.request = release[d][k].request
      /\ row.coverage = release[d][k].coverage
  <2> DEFINE src == writer.archive
             lst == Listed
             old == release[d][k]
  <2>1. old \in ReleaseRow
      BY <1>2, <1>4
  <2>2. src \in Archive /\ lst \in SUBSET Slot
      BY <1>2, <1>3
  <2>3. row = [old EXCEPT !.status = "READY", !.source = src, !.listed = lst]
      OBVIOUS
  <2> HIDE DEF row, src, lst, old, d, k
  <2>4. /\ row \in ReleaseRow /\ row.status = "READY" /\ row.source = src
        /\ row.listed = lst /\ row.request = old.request /\ row.coverage = old.coverage
      BY <2>1, <2>2, <2>3 DEF ReleaseRow, Status
  <2> QED BY <2>4 DEF src, lst, old
<1>7. release' = [release EXCEPT ![d][k] = row]
    BY DEF PublishDataset, PublishRelease
<1> HIDE DEF row, d, k
<1>8. /\ release' \in [Dataset -> [Key -> ReleaseRow]] /\ release'[d][k] = row
      /\ \A e \in Dataset, kk \in Key : e # d \/ kk # k => release'[e][kk] = release[e][kk]
    BY <1>2, <1>4, <1>6, <1>7
<1> QED BY <1>2, <1>3, <1>5, <1>6, <1>8 DEF d, k

\* A release becomes READY only behind its last member.
LEMMA PublishDatasetKeepsInv ==
    ASSUME AwardInv, PublishDataset
    PROVE  AwardInv'
<1> DEFINE d == writer.dataset
           k == ReleaseKey(writer.request)
           a == writer.archive
<1>1. writer.pc = "members" /\ WriterProgress /\ writer \in WriterState
    BY DEF PublishDataset, AllMembersDone, AwardInv, TypeOK
<1>2. /\ UNCHANGED <<raw, sidecar, unvouched, objects, files, reader, runs, losses>>
      /\ writer' = IF writer.todo = {d} THEN Idle
                   ELSE [writer EXCEPT !.pc = "datasets", !.todo = @ \ {d}]
    BY DEF PublishDataset
<1>3. writer' \in WriterState /\ writer'.pc \in {"idle", "datasets"}
    BY <1>1, <1>2 DEF WriterState, Idle
<1>4. TypeOK' /\ SidecarsFit'
    BY <1>1, <1>2, <1>3, PublishedRow DEF AwardInv, TypeOK, SidecarsFit, Orphan, Attributed
<1>5. \A c : Attributed(c)' <=> Attributed(c)
    BY <1>2 DEF Attributed
<1>6. PlacesFit'
    BY <1>2, <1>5 DEF Fits, AwardInv, PlacesFit
<1>7. RowsOfTheYear'
    BY <1>2, RowsKept
<1>8. WriterProgress'
  <2>1. CASE writer.todo = {d}
      BY <1>2, <2>1 DEF WriterProgress, Idle
  <2>2. CASE writer.todo # {d}
    <3>1. /\ writer'.pc = "datasets" /\ writer'.archive = a
          /\ writer'.request = writer.request /\ writer'.todo = writer.todo \ {d}
        BY <1>1, <1>2, <2>2 DEF WriterState
    <3>2. \A e \in writer.todo \ {d} : release'[e][k] = release[e][k]
        BY <1>1, PublishedRow DEF WriterState
    <3>3. InHand' = InHand
        BY <3>1 DEF InHand
    <3> QED BY <1>1, <1>5, <3>1, <3>2, <3>3 DEF WriterProgress
  <2> QED BY <2>1, <2>2
<1>9. AwardReleaseComplete'
  <2> SUFFICES ASSUME NEW e \in Dataset, NEW kk \in Key, release'[e][kk].status = "READY"
               PROVE  LET row == release'[e][kk]
                          whole == [archive |-> row.source, request |-> row.request]
                          Obj(s) == objects[<<e, kk, s>>]
                      IN /\ row.listed = SlotsOf[row.source][e]
                         /\ ReleaseKey(row.request) = kk
                         /\ row.coverage = CoverageType(row.request)
                         /\ \A s \in row.listed :
                               /\ Obj(s) = whole
                               /\ \/ files[<<e, kk, s>>] = whole
                                  \/ losses > 0 /\ files[<<e, kk, s>>] = None
                         /\ \A s \in Slot : Obj(s) # None => ReleaseKey(Obj(s).request) = kk
      BY <1>2, ZenonT(40) DEF AwardReleaseComplete
  <2>1. CASE e # d \/ kk # k
    <3>1. release'[e][kk] = release[e][kk]
        BY <2>1, PublishedRow
    <3> QED BY <3>1 DEF AwardInv, AwardReleaseComplete
  <2>2. CASE e = d /\ kk = k
    <3>1. /\ d \in Dataset /\ k \in Key /\ a \in Archive
          /\ release'[d][k].request = writer.request
          /\ release'[d][k].coverage = CoverageType(writer.request)
          /\ release'[d][k].source = a
          /\ release'[d][k].listed = SlotsOf[a][d]
          /\ writer.part - 1 = Parts(a, d)
      <4>1. Parts(a, d) \in Nat /\ a \in Archive
          BY <1>1, HandFacts
      <4>2. writer.part = Parts(a, d) + 1
          BY PublishedRow
      <4>3. writer.part - 1 = Parts(a, d)
          BY <4>1, <4>2
      <4> QED BY <4>1, <4>3, PublishedRow
    <3>2. \A s \in SlotsOf[a][d] : objects[<<d, k, s>>] = InHand /\ files[<<d, k, s>>] = InHand
        BY <1>1, <3>1, SlotFacts DEF WriterProgress, Registered
    <3>3. ASSUME NEW s \in Slot, objects[<<d, k, s>>] # None
          PROVE  ReleaseKey(objects[<<d, k, s>>].request) = k
      <4>1. <<d, k, s>> \in Place
          BY <3>1 DEF Place
      <4>2. objects[<<d, k, s>>] \in Content
          BY <3>3, <4>1 DEF AwardInv, TypeOK
      <4> QED BY <4>1, <4>2 DEF AwardInv, PlacesFit, Fits
    <3> QED BY <2>2, <3>1, <3>2, <3>3 DEF InHand
  <2> QED BY <2>1, <2>2
<1> QED BY <1>4, <1>6, <1>7, <1>8, <1>9 DEF AwardInv

\* A lost volume empties every place at once, and no command is at work.
LEMMA LoseLakeKeepsInv ==
    ASSUME AwardInv, LoseLake
    PROVE  AwardInv'
<1> USE ConstantsAssumption, PartsAssumption DEF LoseLake
<1>1. TypeOK' /\ SidecarsFit' /\ WriterProgress'
    BY DEF AwardInv, TypeOK, SidecarsFit, Orphan, Attributed, WriterProgress
<1>2. PlacesFit' /\ RowsOfTheYear'
    BY RowsKept DEF AwardInv, PlacesFit, Fits, Attributed
<1>3. AwardReleaseComplete'
  <2>1. losses' > 0
      BY DEF AwardInv, TypeOK
  <2>2. ASSUME NEW d \in Dataset, NEW k \in Key, NEW s \in release[d][k].listed
        PROVE  files'[<<d, k, s>>] = None
    <3>1. release[d][k].listed \subseteq Slot
        BY DEF AwardInv, TypeOK, ReleaseRow
    <3> QED BY <3>1 DEF Place
  <2> QED BY <2>1, <2>2 DEF AwardInv, AwardReleaseComplete
<1> QED BY <1>1, <1>2, <1>3 DEF AwardInv
-----------------------------------------------------------------------------
(* The readers.                                                            *)

\* A request's step keeps the invariant if its new state is well formed and holds rows
\* of the year only.
LEMMA StepKeepsReaders ==
    ASSUME AwardInv, NEW r \in Reader, NEW state \in ReaderState, Step(r, state),
           \A row \in state.rows : Attributed(row[2]) /\ ReleaseKey(row[2].request) = YearKey
    PROVE  AwardInv'
<1> USE DEF Step, lake
<1>1. TypeOK'
    BY DEF AwardInv, TypeOK
<1>2. SidecarsFit' /\ WriterProgress'
    BY DEF AwardInv, SidecarsFit, Orphan, Attributed, WriterProgress, InHand, Registered, PlaceInHand
<1>3. PlacesFit' /\ AwardReleaseComplete'
    BY LakeKept
<1>4. RowsOfTheYear'
  <2>1. reader \in [Reader -> ReaderState]
      BY DEF AwardInv, TypeOK
  <2>2. \A o \in Reader : reader'[o] = IF o = r THEN state ELSE reader[o]
      BY <2>1
  <2> QED BY <2>2 DEF AwardInv, RowsOfTheYear, Attributed
<1> QED BY <1>1, <1>2, <1>3, <1>4 DEF AwardInv

\* Loading a dataset's keys changes neither the rows nor the kind of a request's state.
LEMMA AfterLoadingFacts ==
    ASSUME AwardInv, NEW r \in Reader, NEW d, NEW slots \in SUBSET Slot
    PROVE  /\ AfterLoading(r, d, slots) \in ReaderState
           /\ AfterLoading(r, d, slots).rows = reader[r].rows
<1>1. reader[r] \in ReaderState
    BY DEF AwardInv, TypeOK
<1>2. Prime \in Dataset /\ Sub \in Dataset
    BY DEF Dataset
<1> QED BY <1>1, <1>2 DEF AfterLoading, ReaderState

\* A request begins.
LEMMA AskKeepsInv ==
    ASSUME AwardInv, NEW r \in Reader, Ask(r)
    PROVE  AwardInv'
<1> DEFINE state == [Quiet EXCEPT !.pc = "release", !.dataset = Prime]
<1>1. state \in ReaderState /\ state.rows = {}
    BY DEF Quiet, ReaderState, Dataset
<1>2. Step(r, state)
    BY DEF Ask
<1> HIDE DEF state
<1> QED BY <1>1, <1>2, StepKeepsReaders

\* It looks for the release of the year, and then for its objects.
LEMMA SelectKeepsInv ==
    ASSUME AwardInv, NEW r \in Reader, SelectRelease(r) \/ SelectObjects(r)
    PROVE  AwardInv'
<1> DEFINE d == reader[r].dataset
           objectsNext == [reader[r] EXCEPT !.pc = "objects"]
           Loaded(state) == \E slots \in SUBSET Slot : state = AfterLoading(r, d, slots)
<1>1. PICK state : Step(r, state) /\ (state = objectsNext \/ Loaded(state))
  <2>1. CASE SelectRelease(r)
    <3>1. Step(r, objectsNext) \/ Step(r, AfterLoading(r, d, {}))
        BY <2>1 DEF SelectRelease
    <3>2. Loaded(AfterLoading(r, d, {}))
        OBVIOUS
    <3> QED BY <3>1, <3>2
  <2>2. CASE SelectObjects(r)
    <3>1. PICK slots \in SUBSET Slot : Step(r, AfterLoading(r, d, slots))
        BY <2>2 DEF SelectObjects
    <3> QED BY <3>1
  <2> QED BY <2>1, <2>2
<1>2. reader[r] \in ReaderState
    BY DEF AwardInv, TypeOK
<1>3. state \in ReaderState /\ state.rows = reader[r].rows
  <2>1. CASE state = objectsNext
      BY <1>2, <2>1 DEF ReaderState
  <2>2. CASE Loaded(state)
      BY <2>2, AfterLoadingFacts
  <2> QED BY <1>1, <2>1, <2>2
<1>4. \A row \in state.rows : Attributed(row[2]) /\ ReleaseKey(row[2].request) = YearKey
    BY <1>3 DEF AwardInv, RowsOfTheYear
<1> QED BY <1>1, <1>3, <1>4, StepKeepsReaders

\* A query adds what it found under the key of the year, or the request fails.
LEMMA QueryKeepsInv ==
    ASSUME AwardInv, NEW r \in Reader, Query(r)
    PROVE  AwardInv'
<1> DEFINE d == IF reader[r].pc = "F" THEN Sub ELSE Prime
           slots == {s \in reader[r].keys[d] : d = Sub \/ s[1] = reader[r].pc}
           At(s) == files[<<d, YearKey, s>>]
           found == {<<s, At(s)>> : s \in slots}
           full == [reader[r] EXCEPT
                      !.pc = AfterQuery[reader[r].pc],
                      !.rows = @ \cup found,
                      !.status = IF reader[r].pc = "F" THEN "READY" ELSE @]
           error == [Quiet EXCEPT !.status = "ERROR"]
<1>1. reader[r] \in ReaderState /\ reader[r].pc \in {"D1", "D2", "F"} /\ d \in Dataset
    BY DEF AwardInv, TypeOK, Query, Dataset
<1>2. slots \subseteq Slot /\ YearKey \in Key
    BY <1>1 DEF ReaderState, Key, YearKey
<1>3. CASE Step(r, error)
  <2>1. error \in ReaderState /\ error.rows = {}
      BY DEF Quiet, ReaderState
  <2> HIDE DEF error
  <2> QED BY <1>3, <2>1, StepKeepsReaders
<1>4. CASE Step(r, full) /\ \A s \in slots : At(s) \notin {None, Partial}
  <2>1. \A s \in slots : <<d, YearKey, s>> \in Place
      BY <1>1, <1>2 DEF Place
  <2>2. \A s \in slots : At(s) \in Content
      BY <1>4, <2>1 DEF AwardInv, TypeOK
  <2>3. \A s \in slots : Attributed(At(s)) /\ ReleaseKey(At(s).request) = YearKey
      BY <2>1, <2>2 DEF AwardInv, PlacesFit, Fits
  <2> HIDE DEF slots, At, d
  <2>4. found \subseteq Slot \X Content
      BY <1>2, <2>2
  <2>5. \A row \in found : Attributed(row[2]) /\ ReleaseKey(row[2].request) = YearKey
      BY <2>3
  <2> HIDE DEF found
  <2>6. full \in ReaderState /\ full.rows = reader[r].rows \cup found
    <3>1. AfterQuery[reader[r].pc] \in {"D2", "F", "idle"}
        BY <1>1 DEF AfterQuery
    <3> QED BY <1>1, <2>4, <3>1 DEF ReaderState
  <2> HIDE DEF full
  <2>7. \A row \in full.rows : Attributed(row[2]) /\ ReleaseKey(row[2].request) = YearKey
      BY <2>5, <2>6 DEF AwardInv, RowsOfTheYear
  <2> QED BY <1>4, <2>6, <2>7, StepKeepsReaders
<1>5. Step(r, error) \/ (Step(r, full) /\ \A s \in slots : At(s) \notin {None, Partial})
    BY DEF Query
<1> QED BY <1>3, <1>4, <1>5

\* Every step of the system keeps the inductive invariant.
LEMMA StepKeepsInv == AwardInv /\ [Next]_vars => AwardInv'
<1> SUFFICES ASSUME AwardInv, [Next]_vars PROVE AwardInv'
    OBVIOUS
<1>1. CASE \E q \in Request : Submit(q)
    BY <1>1, SubmitKeepsInv
<1>2. CASE \E a \in Archive, q \in Request : IngestArchive(a, q)
    BY <1>2, IngestArchiveKeepsInv
<1>3. CASE WriterStep
    BY <1>3, JobCompletesKeepsInv, JobFailsKeepsInv, DownloadKeepsInv, WriteSidecarKeepsInv,
       StopKeepsInv, WithdrawKeepsInv, NextDatasetKeepsInv, ConvertKeepsInv,
       RegisterMemberKeepsInv, PublishDatasetKeepsInv DEF WriterStep
<1>4. CASE DieInCopy \/ Stop \/ LoseLake
    BY <1>4, ConvertKeepsInv, StopKeepsInv, LoseLakeKeepsInv
<1>5. CASE \E r \in Reader : ReaderStep(r)
    BY <1>5, AskKeepsInv, SelectKeepsInv, QueryKeepsInv DEF ReaderStep
<1>6. CASE UNCHANGED vars
  <2> USE <1>6 DEF vars
  <2>1. TypeOK' /\ SidecarsFit' /\ WriterProgress'
      BY DEF AwardInv, TypeOK, SidecarsFit, Orphan, Attributed, WriterProgress, InHand, Registered,
             PlaceInHand
  <2>2. PlacesFit' /\ AwardReleaseComplete' /\ RowsOfTheYear'
      BY LakeKept, RowsKept
  <2> QED BY <2>1, <2>2 DEF AwardInv
<1> QED BY <1>1, <1>2, <1>3, <1>4, <1>5, <1>6 DEF Next
\* The inductive invariant holds of every behaviour.
THEOREM AwardInvariant == Spec => []AwardInv
    BY InitAwardInv, StepKeepsInv, PTL DEF Spec

\* Every variable of the award lake stays in its type.
THEOREM AwardTypes == Spec => []TypeOK
<1>1. AwardInv => TypeOK
    BY DEF AwardInv
<1> QED BY <1>1, AwardInvariant, PTL

\* A READY award release lists every member of one archive, registered and on disk, and
\* holds no object of another scope (materialize_award_archive).
THEOREM AwardReleasesAreComplete == Spec => []AwardReleaseComplete
<1>1. AwardInv => AwardReleaseComplete
    BY DEF AwardInv
<1> QED BY <1>1, AwardInvariant, PTL

\* Every registered object was converted under a request of its release's key, and of
\* an archive generated for that request, unless a user paired the two or the download
\* died before its sidecar (request_award_archive, write_request_sidecar).
THEOREM ObjectsHaveProvenance == Spec => []ProvenanceHolds
<1>1. ASSUME AwardInv PROVE ProvenanceHolds
  <2> SUFFICES ASSUME NEW x \in Place, objects[x] # None
               PROVE  ReleaseKey(objects[x].request) = x[2] /\ Attributed(objects[x])
      BY DEF ProvenanceHolds
  <2>1. objects[x] \in Content
      BY <1>1 DEF AwardInv, TypeOK
  <2> QED BY <1>1, <2>1 DEF AwardInv, PlacesFit, Fits
<1> QED BY <1>1, AwardInvariant, PTL

\* A finished award detail holds only rows converted under requests for the full year and
\* every agency, however materializations interleave with it (FederalAwardDetailEngine.get).
THEOREM DetailsAreFullYear == Spec => []DetailIsFullYear
<1>1. ASSUME AwardInv PROVE DetailIsFullYear
  <2> SUFFICES ASSUME NEW r \in Reader, NEW row \in reader[r].rows
               PROVE  /\ CoverageType(row[2].request) = "FEDERAL_AWARD"
                      /\ \/ <<row[2].archive, row[2].request>> \in unvouched
                         \/ CoverageType(GeneratedFor[row[2].archive]) = "FEDERAL_AWARD"
      BY DEF DetailIsFullYear
  <2>1. Attributed(row[2]) /\ ReleaseKey(row[2].request) = YearKey
      BY <1>1 DEF AwardInv, RowsOfTheYear
  <2>2. row[2] \in Content
      BY <1>1 DEF AwardInv, TypeOK, ReaderState
  <2>3. row[2].request \in Request /\ CoverageType(row[2].request) = "FEDERAL_AWARD"
      BY <2>1, <2>2, KeyFacts DEF Content
  <2> QED BY <2>1, <2>3 DEF Attributed
<1> QED BY <1>1, AwardInvariant, PTL
-----------------------------------------------------------------------------
(* The refinement: the award lake implements ReleaseStore.                 *)

\* Nothing is visible at first.
LEMMA InitPublished == Init => Published!Init
    BY DEF Init, Published!Init, Visible, Key, YearKey

\* What the year's readers can see depends on the release rows and on the files below
\* READY releases.
LEMMA SameVisible ==
    ASSUME \A d \in Dataset : release'[d][YearKey] = release[d][YearKey],
           \A d \in Dataset, s \in Slot :
              release[d][YearKey].status = "READY" /\ s \in release[d][YearKey].listed =>
                 files'[<<d, YearKey, s>>] = files[<<d, YearKey, s>>],
           AwardInv
    PROVE  Visible' = Visible
<1>1. \A d \in Dataset : release[d][YearKey].listed \subseteq Slot
    BY DEF AwardInv, TypeOK, ReleaseRow, Key, YearKey
<1> SUFFICES ASSUME NEW d \in Dataset PROVE Visible'[d] = Visible[d]
    BY DEF Visible
<1> DEFINE row == release[d][YearKey]
           At(s) == files[<<d, YearKey, s>>]
           Now(s) == files'[<<d, YearKey, s>>]
<1>2. row.listed \subseteq Slot /\ release'[d][YearKey] = row
    BY <1>1
<1>3. row.status = "READY" => \A s \in row.listed : Now(s) = At(s)
    BY <1>2
<1>4. /\ Visible[d] = IF row.status = "READY" /\ \A s \in row.listed : At(s) \notin {None, Partial}
                      THEN {<<At(s).archive, s[2]>> : s \in row.listed} ELSE {}
      /\ Visible'[d] = IF row.status = "READY" /\ \A s \in row.listed : Now(s) \notin {None, Partial}
                       THEN {<<Now(s).archive, s[2]>> : s \in row.listed} ELSE {}
    BY <1>2 DEF Visible
<1> HIDE DEF row, At, Now
<1> QED BY <1>3, <1>4

\* A COPY writes below a release that is not READY.
LEMMA CopyIsHidden ==
    ASSUME AwardInv, ConvertMember \/ DieInCopy
    PROVE  Visible' = Visible
<1> DEFINE x == PlaceInHand
<1>1. /\ x \in Place /\ x[1] = writer.dataset /\ x[2] = ReleaseKey(writer.request)
      /\ release[x[1]][x[2]].status = "MATERIALIZING"
    BY HandFacts DEF PlaceInHand, ConvertMember, DieInCopy, MemberLeft
<1>2. release' = release /\ \E c : files' = [files EXCEPT ![x] = c]
    BY DEF ConvertMember, DieInCopy
<1>3. files \in [Place -> Content \cup {None, Partial}]
    BY DEF AwardInv, TypeOK
<1> HIDE DEF x
<1>4. ASSUME NEW d \in Dataset, NEW s \in Slot, release[d][YearKey].status = "READY"
      PROVE  files'[<<d, YearKey, s>>] = files[<<d, YearKey, s>>]
  <2>1. <<d, YearKey, s>> \in Place /\ <<d, YearKey, s>> # x
      BY <1>1, <1>4 DEF Place, Key, YearKey
  <2> QED BY <1>2, <1>3, <2>1
<1> QED BY <1>2, <1>4, SameVisible

\* Withdrawing the year's release withdraws the datasets of the archive; any other
\* release shows nothing of it.
LEMMA WithdrawWithdraws ==
    ASSUME AwardInv, Withdraw
    PROVE  [Published!Next]_Visible
<1> DEFINE a == writer.archive
           k == ReleaseKey(writer.request)
           types == IF k = YearKey THEN DatasetsIn(a) ELSE {}
<1>1. release \in [Dataset -> [Key -> ReleaseRow]] /\ k \in Key /\ YearKey \in Key
  <2>1. writer.request \in Request
      BY DEF AwardInv, WriterProgress, Withdraw
  <2> QED BY <2>1, KeyFacts DEF AwardInv, TypeOK, Key, YearKey
<1>2. files' = files
    BY DEF Withdraw
<1>3. \A d \in Dataset :
         /\ d \in types => release'[d][YearKey].status = "MATERIALIZING"
         /\ d \notin types => release'[d][YearKey] = release[d][YearKey]
  <2> SUFFICES ASSUME NEW d \in Dataset
               PROVE  /\ d \in types => release'[d][YearKey].status = "MATERIALIZING"
                      /\ d \notin types => release'[d][YearKey] = release[d][YearKey]
      OBVIOUS
  <2> DEFINE old == release[d]
  <2>1. release'[d] = IF d \notin DatasetsIn(a) THEN old
                      ELSE [old EXCEPT ![k] =
                              [@ EXCEPT !.status = "MATERIALIZING", !.request = writer.request,
                                        !.coverage = CoverageType(writer.request)]]
      BY DEF Withdraw
  <2>2. old \in [Key -> ReleaseRow] /\ old[k] \in ReleaseRow
      BY <1>1
  <2> HIDE DEF old, k, a
  <2>3. CASE d \notin DatasetsIn(a)
      BY <2>1, <2>3 DEF old
  <2>4. CASE d \in DatasetsIn(a) /\ k = YearKey
      BY <1>1, <2>1, <2>2, <2>4 DEF old, ReleaseRow
  <2>5. CASE d \in DatasetsIn(a) /\ k # YearKey
      BY <1>1, <2>1, <2>2, <2>5 DEF old
  <2> QED BY <2>3, <2>4, <2>5
<1>4. types \in SUBSET Dataset
    BY DEF DatasetsIn
<1> HIDE DEF types
<1>5. Published!Withdraw(types)
    BY <1>2, <1>3 DEF Published!Withdraw, Visible
<1> QED BY <1>4, <1>5 DEF Published!Next

\* Publishing the year's release of a dataset shows every member of the archive in hand;
\* publishing another release shows nothing.
LEMMA PublishPublishes ==
    ASSUME AwardInv, PublishDataset
    PROVE  [Published!Next]_Visible
<1> DEFINE a == writer.archive
           d == writer.dataset
           k == ReleaseKey(writer.request)
<1>1. /\ writer.pc = "members" /\ WriterProgress /\ files' = files
      /\ YearKey \in Key
    BY DEF PublishDataset, AllMembersDone, AwardInv, Key, YearKey
<1>2. /\ a \in Archive /\ d \in Dataset /\ d \in DatasetsIn(a) /\ InHand \in Content
      /\ InHand.archive = a
      /\ release[d][k].status = "MATERIALIZING" /\ Parts(a, d) \in Nat
    BY <1>1, HandFacts DEF WriterProgress, InHand
<1>3. CASE k # YearKey
  <2>1. \A e \in Dataset : release'[e][YearKey] = release[e][YearKey]
      BY <1>1, <1>3, PublishedRow
  <2> QED BY <1>1, <2>1, SameVisible
<1>4. CASE k = YearKey
  <2>1. /\ \A e \in Dataset : e # d => release'[e][YearKey] = release[e][YearKey]
        /\ release'[d][YearKey].status = "READY"
        /\ release'[d][YearKey].listed = SlotsOf[a][d]
        /\ writer.part = Parts(a, d) + 1
      BY <1>1, <1>4, PublishedRow
  <2>2. Visible[d] = {}
      BY <1>2, <1>4 DEF Visible
  <2>3. writer.part - 1 = Parts(a, d)
      BY <1>2, <2>1
  <2>4. \A s \in SlotsOf[a][d] : files'[<<d, YearKey, s>>] = InHand
      BY <1>1, <1>2, <1>4, <2>3, SlotFacts DEF WriterProgress, Registered
  <2>5. InHand \notin {None, Partial}
      BY <1>2, PartsAssumption
  <2>6. Visible'[d] = {<<a, s[2]>> : s \in SlotsOf[a][d]}
    <3> DEFINE listed == SlotsOf[a][d]
               Now(s) == files'[<<d, YearKey, s>>]
    <3>1. \A s \in listed : Now(s) = InHand
        BY <2>4
    <3>2. Visible'[d] =
            IF \A s \in listed : Now(s) \notin {None, Partial}
            THEN {<<Now(s).archive, s[2]>> : s \in listed} ELSE {}
        BY <1>2, <2>1 DEF Visible
    <3>3. {<<Now(s).archive, s[2]>> : s \in listed} = {<<a, s[2]>> : s \in listed}
      <4> HIDE DEF Now, listed, a
      <4> QED BY <1>2, <3>1
    <3> HIDE DEF Now, listed
    <3>4. Visible'[d] = {<<a, s[2]>> : s \in listed}
        BY <2>5, <3>1, <3>2, <3>3
    <3> QED BY <3>4 DEF listed
  <2>7. {<<a, s[2]>> : s \in SlotsOf[a][d]} = Published!Whole(a, d)
    <3>1. Published!Whole(a, d) = {a} \X (1 .. Parts(a, d))
        BY <1>2 DEF Published!Whole
    <3>2. SlotsOf[a][d] = {SlotOf(a, d, p) : p \in 1 .. Parts(a, d)}
        BY <1>2, SlotFacts
    <3>3. \A p \in 1 .. Parts(a, d) : SlotOf(a, d, p)[2] = p
        BY <1>2, SlotFacts
    <3> HIDE DEF a, d
    <3> QED BY <3>1, <3>2, <3>3
  <2>8. Visible' = [Visible EXCEPT ![d] = Published!Whole(a, d)]
    <3> HIDE DEF a, d, k
    <3>1. \A e \in Dataset : e # d => Visible'[e] = Visible[e]
        BY <1>1, <2>1 DEF Visible
    <3> QED BY <1>2, <2>6, <2>7, <3>1 DEF Visible
  <2>9. Published!Publish(d, a)
      BY <1>2, <2>2, <2>8 DEF Published!Publish, DatasetsIn
  <2> QED BY <1>2, <2>9 DEF Published!Next
<1> QED BY <1>3, <1>4

\* A lost volume withdraws every release at once.
LEMMA LoseLakeWithdraws ==
    ASSUME AwardInv, LoseLake
    PROVE  [Published!Next]_Visible
<1>1. ASSUME NEW d \in Dataset PROVE Visible'[d] = {}
  <2>1. release[d][YearKey].listed \subseteq Slot /\ YearKey \in Key
      BY DEF AwardInv, TypeOK, ReleaseRow, Key, YearKey
  <2>2. /\ release' = release
        /\ \A s \in release[d][YearKey].listed : files'[<<d, YearKey, s>>] = None
      BY <2>1 DEF LoseLake, Place
  <2>3. CASE release[d][YearKey].listed = {}
      BY <2>2, <2>3 DEF Visible
  <2>4. CASE release[d][YearKey].listed # {}
      BY <2>2, <2>4 DEF Visible
  <2> QED BY <2>3, <2>4
<1>2. Published!Withdraw(Dataset)
    BY <1>1 DEF Published!Withdraw, Visible
<1> QED BY <1>2 DEF Published!Next

\* Every step of the award lake is a step of ReleaseStore or shows nothing new.
LEMMA StepPublished == AwardInv /\ [Next]_vars => [Published!Next]_Visible
<1> SUFFICES ASSUME AwardInv, [Next]_vars PROVE [Published!Next]_Visible
    OBVIOUS
<1>1. CASE Withdraw
    BY <1>1, WithdrawWithdraws
<1>2. CASE PublishDataset
    BY <1>2, PublishPublishes
<1>3. CASE LoseLake
    BY <1>3, LoseLakeWithdraws
<1>4. CASE ConvertMember \/ DieInCopy
    BY <1>4, CopyIsHidden
<1>5. CASE UNCHANGED <<release, files>>
    BY <1>5, SameVisible
<1>6. CASE WriterStep
  <2>1. CASE Withdraw \/ PublishDataset \/ ConvertMember
      BY <1>1, <1>2, <1>4, <2>1
  <2>2. CASE ~(Withdraw \/ PublishDataset \/ ConvertMember)
    <3>1. UNCHANGED <<release, files>>
        BY <1>6, <2>2 DEF WriterStep, JobCompletes, JobFails, Download, WriteSidecar, Refuse,
           NextDataset, RegisterMember, lake
    <3> QED BY <1>5, <3>1
  <2> QED BY <2>1, <2>2
<1>7. CASE \/ \E q \in Request : Submit(q)
           \/ \E a \in Archive, q \in Request : IngestArchive(a, q)
           \/ Stop
           \/ \E r \in Reader : ReaderStep(r)
           \/ UNCHANGED vars
  <2>1. UNCHANGED <<release, files>>
      BY <1>7 DEF Submit, IngestArchive, Stop, ReaderStep, Ask, SelectRelease, SelectObjects,
         Query, Step, lake, vars
  <2> QED BY <1>5, <2>1
<1> QED BY <1>3, <1>4, <1>6, <1>7 DEF Next

\* The award lake implements ReleaseStore: crashes, re-runs, archives of any scope and
\* lost volumes included, the detail of the year is shown whole or not at all.
THEOREM AwardLakeImplementsReleaseStore == Spec => PublishesWholeAwardArchives
    BY InitPublished, StepPublished, AwardInvariant, PTL
       DEF Spec, PublishesWholeAwardArchives, Published!Spec
=============================================================================
