---------------------- MODULE AccountActivationProofs -----------------------
(***************************************************************************)
(* Nothing is published from an archive that lacks a component, and an     *)
(* activation that succeeds has made exactly A, B and C, for any number of *)
(* agencies, any stray types and any failure between two steps.            *)
(*                                                                         *)
(* ActivationInv is inductive.  Its heart is ArchiveProgress: what is in   *)
(* the archive in hand and what is still to be added make up what was      *)
(* asked for.                                                              *)
(***************************************************************************)
EXTENDS AccountActivation, SequenceTheorems, FiniteSetTheorems, WellFoundedInduction, TLAPS

Component == Type \X Nat
Part == Component \X SUBSET Type

Pc == {"idle", "submit", "wait", "open", "combine", "withdraw", "publish", "submitC",
       "pinned", "pages", "join", "shards", "done"}

DiskType == [parts : SUBSET Part, closed : BOOLEAN, exists : BOOLEAN]
ReleaseType == [status : {"ABSENT", "MATERIALIZING", "READY"}, file : File,
                parts : SUBSET Part, fleet : SUBSET Agency]
RunType == [pc : Pc, file : File, waiting : Seq(Component), responses : Seq(Component),
            page : Nat, agencies : SUBSET Agency, owed : SUBSET Agency,
            todo : SUBSET (Type \cup Agency), did : SUBSET (Type \X File)]

TypeOK ==
    /\ manifest \in {"none", "valid", "invalid"}
    /\ disk \in [File -> DiskType]
    /\ release \in [Type -> ReleaseType]
    /\ run \in RunType

\* The components in a sequence.
In(s) == {s[i] : i \in 1 .. Len(s)}

\* What the archive of the file in hand is to hold.
Wanted == IF run.file = "AB" THEN {Halves[1], Halves[2]} ELSE {Shard(a) : a \in run.agencies}
Held(f) == Components(disk[f].parts)

\* A component is of a type that its part of the archive delivers.
PartsDeliver == \A f \in File : \A p \in disk[f].parts : p[1][1] \in p[2]

\* What is waited for, downloaded and added makes up what was asked for.
ArchiveProgress ==
    /\ run.pc = "wait" => run.waiting # <<>> /\ In(run.responses) \cup In(run.waiting) = Wanted
    /\ run.pc = "shards" => /\ run.todo # {} /\ run.todo \subseteq run.agencies
                            /\ In(run.responses) = {Shard(a) : a \in run.agencies \ run.todo}
    /\ run.pc = "open" => In(run.responses) = Wanted
    /\ run.pc = "combine" => Held(run.file) \cup In(run.responses) = Wanted
    /\ run.pc \in {"withdraw", "publish"} =>
          \/ Held(run.file) = Wanted
          \/ run.file = "C" /\ Held("C") = {Pinned}
    /\ run.pc \notin {"wait", "shards", "open", "combine"} => run.responses = <<>>
    /\ run.pc \in {"shards", "open", "combine"} /\ run.file = "C" => run.agencies # {}
    /\ run.pc \in {"withdraw", "publish"} /\ run.file = "C" => Held("C") # {}

\* Which archive each part of the activation has in hand, and the pinned file, which is
\* never mixed with shards.
FileProgress ==
    /\ run.pc \in {"submit", "wait"} => run.file = "AB"
    /\ run.pc \in {"submitC", "pinned", "pages", "join", "shards"} => run.file = "C"
    /\ run.pc = "pinned" => manifest = "valid"
    /\ manifest = "valid" =>
          /\ run.pc \notin {"pages", "join", "shards"}
          /\ run.pc \in {"open", "combine"} => run.file = "AB"
          /\ disk["C"].exists => Held("C") = {Pinned}

Published(S, f) == \A t \in S : release[t].status = "READY" /\ release[t].file = f

\* What the activation has made so far, and that it is READY still.
DidProgress ==
    /\ run.file = "AB" /\ run.pc \in {"submit", "wait", "open", "combine", "withdraw"} =>
          run.did = {}
    /\ run.file = "AB" /\ run.pc = "publish" =>
          /\ run.todo \subseteq TypesIn("AB")
          /\ run.did = (TypesIn("AB") \ run.todo) \X {"AB"}
          /\ Published(TypesIn("AB") \ run.todo, "AB")
    /\ run.file = "C" /\ run.pc \notin {"idle", "done"} =>
          Held("AB") = {Halves[1], Halves[2]}
    /\ run.file = "C" /\ run.pc \notin {"idle", "done", "publish"} =>
          /\ run.did = TypesIn("AB") \X {"AB"}
          /\ Published(TypesIn("AB"), "AB")
    /\ run.file = "C" /\ run.pc = "publish" =>
          /\ run.todo \subseteq TypesIn("C")
          /\ run.did = (TypesIn("AB") \X {"AB"}) \cup ((TypesIn("C") \ run.todo) \X {"C"})
          /\ Published(TypesIn("AB") \ TypesIn("C"), "AB")
          /\ Published(TypesIn("C") \ run.todo, "C")

ActivationInv ==
    /\ TypeOK
    /\ PartsDeliver
    /\ ArchiveProgress
    /\ FileProgress
    /\ DidProgress
    /\ PublishedFromWholeArchives
    /\ SuccessIsExactlyABC

-----------------------------------------------------------------------------
(* Sequences of components, and what a component delivers.                 *)

\* The empty sequence has no components.
LEMMA InEmpty == In(<<>>) = {}
    BY DEF In

\* Appending a component adds it and nothing else.
LEMMA InAppend ==
    ASSUME NEW s \in Seq(Component), NEW c \in Component
    PROVE  /\ Append(s, c) \in Seq(Component)
           /\ In(Append(s, c)) = In(s) \cup {c}
<1>1. Len(s) \in Nat
    BY LenProperties
<1>2. /\ Append(s, c) \in Seq(Component) /\ Len(Append(s, c)) = Len(s) + 1
      /\ \A i \in 1 .. Len(s) : Append(s, c)[i] = s[i]
      /\ Append(s, c)[Len(s) + 1] = c
    BY AppendProperties
<1>3. 1 .. (Len(s) + 1) = (1 .. Len(s)) \cup {Len(s) + 1}
    BY <1>1
<1> QED BY <1>2, <1>3 DEF In

\* Taking the first component off leaves the others; the last one leaves none.
LEMMA InTail ==
    ASSUME NEW s \in Seq(Component), s # <<>>
    PROVE  /\ Head(s) \in Component
           /\ Tail(s) \in Seq(Component)
           /\ In(s) = {Head(s)} \cup In(Tail(s))
           /\ Len(s) = 1 <=> Tail(s) = <<>>
<1>1. Len(s) \in Nat \ {0} /\ Head(s) = s[1]
    BY EmptySeq
<1>2. /\ Head(s) \in Component /\ Tail(s) \in Seq(Component)
      /\ Len(Tail(s)) = Len(s) - 1
      /\ \A i \in 1 .. Len(Tail(s)) : Tail(s)[i] = s[i + 1]
    BY HeadTailProperties
<1>3. In(s) = {s[1]} \cup {s[i + 1] : i \in 1 .. (Len(s) - 1)}
    <2>1. ASSUME NEW i \in 1 .. Len(s), i # 1
          PROVE  \E j \in 1 .. (Len(s) - 1) : s[i] = s[j + 1]
        <3>1. i - 1 \in 1 .. (Len(s) - 1) /\ (i - 1) + 1 = i
            BY <1>1, <2>1
        <3> QED BY <3>1
    <2>2. \A j \in 1 .. (Len(s) - 1) : j + 1 \in 1 .. Len(s)
        BY <1>1
    <2>3. 1 \in 1 .. Len(s)
        BY <1>1
    <2> QED BY <2>1, <2>2, <2>3 DEF In
<1>4. In(Tail(s)) = {s[i + 1] : i \in 1 .. (Len(s) - 1)}
    BY <1>2 DEF In
<1>5. Len(s) = 1 <=> Tail(s) = <<>>
    <2>1. Tail(s) = <<>> <=> Len(Tail(s)) = 0
        BY <1>2, EmptySeq
    <2> QED BY <1>1, <1>2, <2>1
<1> QED BY <1>1, <1>2, <1>3, <1>4, <1>5

\* An archive that was delivered has its own type among its types.
LEMMA Delivered ==
    ASSUME NEW c \in Component, NEW ts \in Deliveries(c)
    PROVE  ts \in SUBSET Type /\ c[1] \in ts
<1>1. c[1] \in Type /\ \A s \in Strays : s[2] \in Type
    BY ActivationAssumption DEF Component
<1> QED BY <1>1 DEF Deliveries

\* The components that are asked for.
LEMMA AskedComponents ==
    /\ Halves[1] = <<"A", 0>> /\ Halves[2] = <<"B", 0>>
    /\ Halves \in Seq(Component) /\ Len(Halves) = 2 /\ In(Halves) = {Halves[1], Halves[2]}
    /\ Pinned \in Component /\ Pinned[1] = "C"
    /\ \A a \in Agency : Shard(a) \in Component /\ Shard(a)[1] = "C"
<1>1. \A a \in Agency : a \in Nat
    BY ActivationAssumption DEF Agency
<1>2. Halves \in Seq(Component) /\ Len(Halves) = 2
    BY DEF Halves, Component, Type, All
<1>3. In(Halves) = {Halves[1], Halves[2]}
    BY <1>2 DEF In
<1> QED BY <1>1, <1>2, <1>3 DEF Halves, Component, Type, All, Pinned, Shard

-----------------------------------------------------------------------------
\* The initial state satisfies the invariant.
LEMMA InitActivationInv == Init => ActivationInv
<1> SUFFICES ASSUME Init PROVE ActivationInv
    OBVIOUS
<1> USE DEF Init, NoFile, Idle
<1>1. TypeOK
    BY DEF TypeOK, DiskType, ReleaseType, RunType, Pc, File, Type, Component
<1>2. PartsDeliver /\ PublishedFromWholeArchives /\ SuccessIsExactlyABC
    BY DEF PartsDeliver, PublishedFromWholeArchives, SuccessIsExactlyABC, Type, File
<1>3. ArchiveProgress /\ FileProgress /\ DidProgress
    BY DEF ArchiveProgress, FileProgress, DidProgress, File
<1> QED BY <1>1, <1>2, <1>3 DEF ActivationInv

\* Closing an archive leaves its parts alone.
LEMMA ClosedArchive ==
    ASSUME NEW f \in File, TypeOK
    PROVE  [disk[f] EXCEPT !.closed = TRUE] \in DiskType
<1>1. disk[f] \in DiskType
    BY DEF TypeOK
<1> QED BY <1>1 DEF DiskType

\* An agency that leaves the overview changes nothing else but what the reading owes.
LEMMA LeaveKeeps ==
    ASSUME TypeOK, NEW a \in Agency, Leave(a)
    PROVE  /\ run' \in RunType /\ UNCHANGED <<manifest, job, disk, release>>
           /\ run'.pc = run.pc /\ run'.file = run.file /\ run'.waiting = run.waiting
           /\ run'.responses = run.responses /\ run'.agencies = run.agencies
           /\ run'.todo = run.todo /\ run'.did = run.did
           /\ run'.owed = IF run.pc = "pages" THEN {} ELSE run.owed
<1> DEFINE owed == IF run.pc = "pages" THEN {} ELSE run.owed
<1>1. run \in RunType
    BY DEF TypeOK
<1>2. owed \in SUBSET Agency
    BY <1>1 DEF RunType
<1>3. run' = [run EXCEPT !.owed = owed] /\ UNCHANGED <<manifest, job, disk, release>>
    BY DEF Leave
<1> HIDE DEF owed
<1>4. /\ run' \in RunType
      /\ run'.pc = run.pc /\ run'.file = run.file /\ run'.waiting = run.waiting
      /\ run'.responses = run.responses /\ run'.agencies = run.agencies
      /\ run'.todo = run.todo /\ run'.did = run.did /\ run'.owed = owed
    BY <1>1, <1>2, <1>3 DEF RunType
<1> QED BY <1>3, <1>4 DEF owed

\* The type invariant is kept.
LEMMA TypeStep == TypeOK /\ ArchiveProgress /\ [Next]_vars => TypeOK'
<1> SUFFICES ASSUME TypeOK, ArchiveProgress, [Next]_vars PROVE TypeOK'
    OBVIOUS
<1> USE DEF TypeOK, DiskType, ReleaseType, RunType, Pc, service
<1>0. Idle \in RunType
    BY DEF Idle, File
<1>1. CASE Start
    <2>1. run' = [Idle EXCEPT !.pc = "submit"]
        BY <1>1 DEF Start
    <2>2. run' \in RunType
        BY <1>0, <2>1
    <2> QED BY <2>2, <1>1 DEF Start
<1>2. CASE Fail \/ Die \/ WaitTimeout
    <2>1. run' = Idle /\ release' = release
        BY <1>2 DEF Fail, Die, WaitTimeout
    <2>2. UNCHANGED service
        BY <1>2 DEF Fail, Die, WaitTimeout
    <2>3. disk' \in [File -> DiskType]
        <3>1. CASE disk' = disk
            BY <3>1
        <3>2. CASE disk' # disk
            <4>1. disk' = [disk EXCEPT ![run.file].closed = TRUE]
                BY <1>2, <3>2 DEF Fail, Die, WaitTimeout
            <4>2. [disk[run.file] EXCEPT !.closed = TRUE] \in DiskType
                BY ClosedArchive
            <4> QED BY <4>1, <4>2
        <3> QED BY <3>1, <3>2
    <2> QED BY <1>0, <2>1, <2>2, <2>3
<1>3. CASE SubmitHalves
    BY <1>3, AskedComponents DEF SubmitHalves
<1>4. CASE WaitHalf
    <2>1. run.waiting # <<>>
        BY <1>4 DEF WaitHalf, ArchiveProgress
    <2>2. Head(run.waiting) \in Component /\ Tail(run.waiting) \in Seq(Component)
        BY <2>1, InTail
    <2>3. Append(run.responses, Head(run.waiting)) \in Seq(Component)
        BY <2>2, InAppend
    <2>4. run' \in RunType
        <3>1. CASE job[Head(run.waiting)[1]] = "failed"
            BY <1>0, <1>4, <3>1 DEF WaitHalf
        <3>2. CASE job[Head(run.waiting)[1]] # "failed"
            BY <1>4, <2>2, <2>3, <3>2 DEF WaitHalf
        <3> QED BY <3>1, <3>2
    <2> QED BY <2>4, <1>4 DEF WaitHalf
<1>5. CASE OpenArchive
    BY <1>5 DEF OpenArchive
<1>6. CASE AddComponent
    <2>1. run.responses # <<>>
        BY <1>6 DEF AddComponent
    <2>2. Head(run.responses) \in Component /\ Tail(run.responses) \in Seq(Component)
        BY <2>1, InTail
    <2>3. PICK ts \in Deliveries(Head(run.responses)) :
             disk' = [disk EXCEPT ![run.file].parts = @ \cup {<<Head(run.responses), ts>>}]
        BY <1>6 DEF AddComponent
    <2>4. <<Head(run.responses), ts>> \in Part
        BY <2>2, Delivered DEF Part
    <2>5. disk' \in [File -> DiskType]
        <3> DEFINE parts == disk[run.file].parts \cup {<<Head(run.responses), ts>>}
        <3>1. parts \in SUBSET Part
            BY <2>4
        <3>2. disk' = [disk EXCEPT ![run.file].parts = parts]
            BY <2>3
        <3> HIDE DEF parts
        <3>3. [disk[run.file] EXCEPT !.parts = parts] \in DiskType
            BY <3>1, SMTT(40)
        <3> QED BY <3>2, <3>3
    <2>6. run' \in RunType
        BY <2>2, <1>6 DEF AddComponent
    <2> QED BY <2>5, <2>6, <1>6 DEF AddComponent
<1>7. CASE CloseArchive
    <2>1. [disk[run.file] EXCEPT !.closed = TRUE] \in DiskType
        BY ClosedArchive
    <2>2. disk' \in [File -> DiskType]
        BY <2>1, <1>7 DEF CloseArchive
    <2>3. run' \in RunType
        BY <1>7 DEF CloseArchive
    <2> QED BY <2>2, <2>3, <1>7 DEF CloseArchive
<1>8. CASE Withdraw
    <2>1. TypesIn(run.file) \subseteq Type
        BY DEF TypesIn, Part
    <2>2. run' = [run EXCEPT !.pc = "publish", !.todo = TypesIn(run.file)]
        BY <1>8 DEF Withdraw
    <2>3. run' \in RunType
        BY <2>1, <2>2
    <2>4. release' \in [Type -> ReleaseType]
        <3>1. \A t \in Type : release[t] \in ReleaseType
            OBVIOUS
        <3>2. \A row \in ReleaseType : [row EXCEPT !.status = "MATERIALIZING"] \in ReleaseType
            BY DEF ReleaseType
        <3> HIDE DEF TypeOK, ReleaseType
        <3> QED BY <3>1, <3>2, <1>8 DEF Withdraw
    <2> QED BY <2>3, <2>4, <1>8 DEF Withdraw
<1>9. ASSUME NEW t \in Type, PublishType(t) PROVE TypeOK'
    <2>1. release' \in [Type -> ReleaseType]
        BY <1>9 DEF PublishType
    <2>2. run' = [run EXCEPT !.todo = run.todo \ {t}, !.did = run.did \cup {<<t, run.file>>}]
        BY <1>9 DEF PublishType
    <2>3. run.todo \ {t} \in SUBSET (Type \cup Agency)
        OBVIOUS
    <2>4. run.did \cup {<<t, run.file>>} \in SUBSET (Type \X File)
        OBVIOUS
    <2>5. run' \in RunType
        BY <2>2, <2>3, <2>4
    <2> QED BY <2>1, <2>5, <1>9 DEF PublishType
<1>10. CASE Materialized
    <2>1. run' \in RunType
        BY <1>0, <1>10 DEF Materialized, File
    <2> QED BY <2>1, <1>10 DEF Materialized
<1>11. CASE SubmitC
    <2> DEFINE owed == {a \in Agency : overview[a] = "published"}
    <2>1. owed \in SUBSET Agency
        OBVIOUS
    <2> HIDE DEF owed
    <2>2. \/ run' = [run EXCEPT !.pc = "pinned"] \/ run' = Idle
          \/ run' = [run EXCEPT !.pc = "pages", !.page = 1, !.owed = owed]
        BY <1>11 DEF SubmitC, owed
    <2>3. run' \in RunType
        <3>1. CASE run' = [run EXCEPT !.pc = "pinned"]
            BY <3>1
        <3>2. CASE run' = [run EXCEPT !.pc = "pages", !.page = 1, !.owed = owed]
            BY <2>1, <3>2
        <3> QED BY <1>0, <2>2, <3>1, <3>2
    <2> QED BY <2>3, <1>11 DEF SubmitC
<1>12. CASE DownloadPinned
    <2>1. PICK ts \in Deliveries(Pinned) :
             disk' = [disk EXCEPT !["C"] =
                        IF @.exists THEN @
                        ELSE [parts |-> {<<Pinned, ts>>}, closed |-> TRUE, exists |-> TRUE]]
        BY <1>12 DEF DownloadPinned
    <2>2. <<Pinned, ts>> \in Part
        BY AskedComponents, Delivered DEF Part
    <2>3. disk' \in [File -> DiskType]
        BY <2>1, <2>2
    <2> QED BY <2>3, <1>12 DEF DownloadPinned
<1>13. CASE ReadPage
    <2> DEFINE agencies == KeepPage(run.agencies, Kept(run.page))
               pc == IF HasNext(run.page) THEN "pages" ELSE "join"
    <2>1. agencies \in SUBSET Agency /\ pc \in Pc
        BY DEF KeepPage, Kept, OnPage, Listing
    <2>2. run' = [run EXCEPT !.agencies = agencies, !.page = run.page + 1, !.pc = pc]
        BY <1>13 DEF ReadPage
    <2> HIDE DEF agencies, pc
    <2>3. run.page + 1 \in Nat
        OBVIOUS
    <2>4. run' \in RunType
        BY <2>1, <2>2, <2>3
    <2> QED BY <2>4, <1>13 DEF ReadPage
<1>14. CASE JoinReference
    <2>1. run' \in RunType
        BY <1>0, <1>14 DEF JoinReference
    <2> QED BY <2>1, <1>14 DEF JoinReference
<1>15. CASE NextShard
    <2>1. PICK a \in run.todo :
             run' = [run EXCEPT !.todo = run.todo \ {a}, !.responses = Append(run.responses, Shard(a)),
                                !.pc = IF run.todo = {a} THEN "open" ELSE "shards"]
        BY <1>15 DEF NextShard
    <2>2. a \in Agency
        BY <1>15 DEF NextShard, ArchiveProgress
    <2>3. Append(run.responses, Shard(a)) \in Seq(Component)
        BY <2>2, AskedComponents, InAppend
    <2>4. run' \in RunType
        <3> DEFINE pc == IF run.todo = {a} THEN "open" ELSE "shards"
                   responses == Append(run.responses, Shard(a))
        <3>1. pc \in Pc /\ responses \in Seq(Component) /\ run.todo \ {a} \in SUBSET (Type \cup Agency)
            BY <2>3
        <3>2. run' = [run EXCEPT !.todo = run.todo \ {a}, !.responses = responses, !.pc = pc]
            BY <2>1
        <3> HIDE DEF pc, responses
        <3> QED BY <3>1, <3>2
    <2> QED BY <2>4, <1>15 DEF NextShard
<1>16. CASE \/ UNCHANGED vars
            \/ \E h \in {"A", "B"} : EndJob(h)
            \/ \E a \in Agency : Publish(a)
    BY <1>16 DEF vars, EndJob, Publish
<1>17. ASSUME NEW a \in Agency, Leave(a) PROVE TypeOK'
    BY <1>17, LeaveKeeps
<1> QED
    BY <1>1, <1>2, <1>3, <1>4, <1>5, <1>6, <1>7, <1>8, <1>9, <1>10, <1>11, <1>12, <1>13,
       <1>14, <1>15, <1>16, <1>17 DEF Next, ClientStep

-----------------------------------------------------------------------------
(* The archives on disk.                                                   *)

\* Four steps touch the archives: one empties the file in hand, one adds a component,
\* one brings the pinned archive, and one closes what is there.
LEMMA DiskStep ==
    ASSUME TypeOK, [Next]_vars
    PROVE  \/ OpenArchive \/ AddComponent \/ DownloadPinned
           \/ \A f \in File : disk'[f].parts = disk[f].parts /\ disk'[f].exists = disk[f].exists
<1> USE DEF TypeOK, DiskType
<1>1. CASE CloseArchive \/ Fail
    BY <1>1 DEF CloseArchive, Fail
<1>2. CASE disk' = disk
    BY <1>2
<1> QED
    BY <1>1, <1>2 DEF Next, ClientStep, vars, Start, Die, EndJob, Publish, Leave, SubmitHalves,
       WaitHalf, WaitTimeout, Withdraw, Materialized, PublishType, SubmitC, ReadPage, JoinReference,
       NextShard

\* The same parts hold the same components and types.
LEMMA SameParts ==
    ASSUME NEW f \in File, disk'[f].parts = disk[f].parts
    PROVE  Held(f)' = Held(f) /\ TypesIn(f)' = TypesIn(f)
    BY DEF Held, Components, TypesIn

\* A file that is opened anew holds nothing; the other one is left alone.
LEMMA OpenedArchive ==
    ASSUME TypeOK, OpenArchive
    PROVE  /\ disk'[run.file].parts = {} /\ Components(disk'[run.file].parts) = {}
           /\ \A f \in File \ {run.file} : disk'[f] = disk[f]
    BY DEF TypeOK, RunType, OpenArchive, Components

\* A part more is a component more.
LEMMA OnePartMore ==
    ASSUME NEW S, NEW c, NEW ts
    PROVE  Components(S \cup {<<c, ts>>}) = Components(S) \cup {c}
<1>1. <<c, ts>>[1] = c
    OBVIOUS
<1>2. \A x : x \in Components(S \cup {<<c, ts>>}) <=> x \in Components(S) \/ x = c
    <2>1. \A x : x \in Components(S \cup {<<c, ts>>}) <=>
                    \E p \in S \cup {<<c, ts>>} : x = p[1]
        BY DEF Components
    <2>2. \A x : x \in Components(S) <=> \E p \in S : x = p[1]
        BY DEF Components
    <2> QED BY <1>1, <2>1, <2>2
<1> QED BY <1>2

\* A component joins the file in hand with its own type among its types.
LEMMA AddedComponent ==
    ASSUME TypeOK, AddComponent
    PROVE  /\ run.responses # <<>> /\ Head(run.responses) \in Component
           /\ \E ts \in SUBSET Type :
                 /\ Head(run.responses)[1] \in ts
                 /\ disk'[run.file].parts = disk[run.file].parts \cup {<<Head(run.responses), ts>>}
           /\ Components(disk'[run.file].parts) =
                 Components(disk[run.file].parts) \cup {Head(run.responses)}
           /\ \A f \in File \ {run.file} : disk'[f] = disk[f]
<1>1. run.responses # <<>> /\ Head(run.responses) \in Component
    BY InTail DEF AddComponent, TypeOK, RunType
<1>2. PICK ts \in Deliveries(Head(run.responses)) :
         disk' = [disk EXCEPT ![run.file].parts = @ \cup {<<Head(run.responses), ts>>}]
    BY DEF AddComponent
<1>3. ts \in SUBSET Type /\ Head(run.responses)[1] \in ts
    BY <1>1, Delivered
<1>4. /\ disk'[run.file].parts = disk[run.file].parts \cup {<<Head(run.responses), ts>>}
      /\ \A f \in File \ {run.file} : disk'[f] = disk[f]
    BY <1>2 DEF TypeOK, DiskType, RunType
<1>5. Components(disk'[run.file].parts) =
         Components(disk[run.file].parts) \cup {Head(run.responses)}
    <2>1. Components(disk[run.file].parts \cup {<<Head(run.responses), ts>>}) =
             Components(disk[run.file].parts) \cup {Head(run.responses)}
        BY OnePartMore
    <2> QED BY <1>4, <2>1
<1> QED BY <1>1, <1>3, <1>4, <1>5

\* The pinned archive is there afterwards, the one of before or a new one.
LEMMA DownloadedPinned ==
    ASSUME TypeOK, DownloadPinned
    PROVE  /\ disk'["AB"] = disk["AB"]
           /\ disk["C"].exists => disk'["C"] = disk["C"]
           /\ ~disk["C"].exists =>
                 \E ts \in SUBSET Type : "C" \in ts /\ disk'["C"].parts = {<<Pinned, ts>>}
           /\ ~disk["C"].exists => Components(disk'["C"].parts) = {Pinned}
<1>1. PICK ts \in Deliveries(Pinned) :
         disk' = [disk EXCEPT !["C"] =
                    IF @.exists THEN @
                    ELSE [parts |-> {<<Pinned, ts>>}, closed |-> TRUE, exists |-> TRUE]]
    BY DEF DownloadPinned
<1>2. ts \in SUBSET Type /\ "C" \in ts
    BY AskedComponents, Delivered
<1>3. /\ disk'["AB"] = disk["AB"]
      /\ disk["C"].exists => disk'["C"] = disk["C"]
      /\ ~disk["C"].exists => disk'["C"].parts = {<<Pinned, ts>>}
    BY <1>1 DEF TypeOK, File
<1>4. disk'["C"].parts = {<<Pinned, ts>>} => Components(disk'["C"].parts) = {Pinned}
    BY DEF Components
<1> QED BY <1>2, <1>3, <1>4

\* Every part still delivers the type it was asked for.
LEMMA PartsStep == TypeOK /\ PartsDeliver /\ [Next]_vars => PartsDeliver'
<1> SUFFICES ASSUME TypeOK, PartsDeliver, [Next]_vars,
                    NEW f \in File, NEW p \in disk'[f].parts
             PROVE  p[1][1] \in p[2]
    BY DEF PartsDeliver
<1>1. CASE disk'[f].parts = disk[f].parts
    BY <1>1 DEF PartsDeliver
<1>2. CASE OpenArchive
    BY <1>1, <1>2, OpenedArchive
<1>3. CASE AddComponent
    <2>1. CASE f = run.file
        BY <1>3, <2>1, AddedComponent DEF PartsDeliver
    <2>2. CASE f # run.file
        BY <1>1, <1>3, <2>2, AddedComponent
    <2> QED BY <2>1, <2>2
<1>4. CASE DownloadPinned
    <2>1. CASE f = "C" /\ ~disk["C"].exists
        BY <1>4, <2>1, DownloadedPinned, AskedComponents
    <2>2. CASE f = "AB" \/ disk["C"].exists
        BY <1>1, <1>4, <2>2, DownloadedPinned DEF File
    <2> QED BY <2>1, <2>2 DEF File
<1> QED BY <1>1, <1>2, <1>3, <1>4, DiskStep

-----------------------------------------------------------------------------
\* Shards and a pinned file never meet, and each part of the activation has its file.
LEMMA FileStep ==
    TypeOK /\ ArchiveProgress /\ FileProgress /\ [Next]_vars => FileProgress'
<1> SUFFICES ASSUME TypeOK, ArchiveProgress, FileProgress, [Next]_vars PROVE FileProgress'
    OBVIOUS
<1> DEFINE Where ==
        /\ run.pc \in {"submit", "wait"} => run.file = "AB"
        /\ run.pc \in {"submitC", "pinned", "pages", "join", "shards"} => run.file = "C"
        /\ run.pc = "pinned" => manifest = "valid"
        /\ manifest = "valid" => /\ run.pc \notin {"pages", "join", "shards"}
                                 /\ run.pc \in {"open", "combine"} => run.file = "AB"
    PinnedKept == manifest = "valid" /\ disk["C"].exists => Held("C") = {Pinned}
<1>1. Where /\ PinnedKept
    BY DEF FileProgress
<1>2. manifest' = manifest
    BY DEF Next, ClientStep, vars, service, Start, Fail, Die, EndJob, Publish, Leave, SubmitHalves,
       WaitHalf, WaitTimeout, OpenArchive, AddComponent, CloseArchive, Withdraw, Materialized,
       PublishType, SubmitC, DownloadPinned, ReadPage, JoinReference, NextShard
<1>3. Where'
    <2> USE DEF TypeOK, RunType, File
    <2> HIDE DEF PinnedKept
    <2>1. CASE Start \/ Fail \/ Die \/ WaitTimeout
        BY <2>1, <1>2 DEF Start, Fail, Die, WaitTimeout, Idle
    <2>2. CASE SubmitHalves
        BY <2>2, <1>1, <1>2 DEF SubmitHalves
    <2>3. CASE WaitHalf
        BY <2>3, <1>1, <1>2 DEF WaitHalf, Idle
    <2>4. CASE OpenArchive \/ AddComponent
        BY <2>4, <1>1, <1>2 DEF OpenArchive, AddComponent
    <2>5. CASE CloseArchive \/ Withdraw
        BY <2>5, <1>1, <1>2 DEF CloseArchive, Withdraw
    <2>6. CASE \E t \in Type : PublishType(t)
        BY <2>6, <1>1, <1>2 DEF PublishType
    <2>7. CASE Materialized
        BY <2>7, <1>1, <1>2 DEF Materialized, Idle
    <2>8. CASE SubmitC
        BY <2>8, <1>1, <1>2 DEF SubmitC, Idle
    <2>9. CASE DownloadPinned
        BY <2>9, <1>1, <1>2 DEF DownloadPinned
    <2>10. CASE ReadPage
        BY <2>10, <1>1, <1>2 DEF ReadPage
    <2>11. CASE JoinReference
        BY <2>11, <1>1, <1>2 DEF JoinReference, Idle
    <2>12. CASE NextShard
        BY <2>12, <1>1, <1>2 DEF NextShard
    <2>13. CASE run' = run
        BY <2>13, <1>1, <1>2
    <2>14. ASSUME NEW a \in Agency, Leave(a) PROVE Where'
        BY <2>14, <1>1, <1>2, LeaveKeeps
    <2> QED
        BY <2>1, <2>2, <2>3, <2>4, <2>5, <2>6, <2>7, <2>8, <2>9, <2>10, <2>11, <2>12, <2>13, <2>14
        DEF Next, ClientStep, vars, EndJob, Publish
<1>4. PinnedKept'
    <2> SUFFICES ASSUME manifest = "valid", disk'["C"].exists PROVE Held("C")' = {Pinned}
        BY <1>2
    <2>1. CASE disk'["C"].parts = disk["C"].parts /\ disk'["C"].exists = disk["C"].exists
        BY <2>1, <1>1, SameParts DEF File
    <2>2. CASE OpenArchive \/ AddComponent
        <3>1. run.file = "AB"
            BY <2>2, <1>1 DEF OpenArchive, AddComponent
        <3>2. disk'["C"] = disk["C"]
            BY <3>1, <2>2, OpenedArchive, AddedComponent DEF File
        <3> QED BY <2>1, <3>2
    <2>3. CASE DownloadPinned
        BY <2>1, <2>3, DownloadedPinned DEF Held
    <2> QED BY <2>1, <2>2, <2>3, DiskStep DEF File
<1> HIDE DEF Where, PinnedKept
<1>5. Where' /\ PinnedKept' => FileProgress'
    BY DEF Where, PinnedKept, FileProgress
<1> QED BY <1>3, <1>4, <1>5

-----------------------------------------------------------------------------
\* What is waited for, downloaded and added still makes up what was asked for.
LEMMA ArchiveStep ==
    TypeOK /\ ArchiveProgress /\ FileProgress /\ [Next]_vars => ArchiveProgress'
<1> SUFFICES ASSUME TypeOK, ArchiveProgress, FileProgress, [Next]_vars PROVE ArchiveProgress'
    OBVIOUS
<1>0. run \in RunType /\ run.file \in File
    BY DEF TypeOK, RunType
<1>1. CASE Start
    BY <1>1 DEF Start, Idle, ArchiveProgress
<1>2. CASE run' = Idle
    BY <1>2 DEF Idle, ArchiveProgress
<1>3. CASE SubmitHalves
    <2>1. run' = [run EXCEPT !.pc = "wait", !.waiting = Halves] /\ run.file = "AB" /\ run.responses = <<>>
        BY <1>3 DEF SubmitHalves, FileProgress, ArchiveProgress
    <2>2. run'.pc = "wait" /\ run'.waiting = Halves /\ run'.file = "AB" /\ run'.responses = <<>>
        BY <1>0, <2>1 DEF RunType
    <2>3. In(run'.responses) \cup In(run'.waiting) = {Halves[1], Halves[2]}
        BY <2>2, InEmpty, AskedComponents
    <2>4. Wanted' = {Halves[1], Halves[2]}
        BY <2>2 DEF Wanted
    <2>5. Halves # <<>>
        BY AskedComponents
    <2> QED BY <2>2, <2>3, <2>4, <2>5 DEF ArchiveProgress
<1>4. CASE WaitHalf /\ run' # Idle
    <2>1. /\ run.pc = "wait" /\ run.waiting # <<>>
          /\ In(run.responses) \cup In(run.waiting) = Wanted
        BY <1>4 DEF WaitHalf, ArchiveProgress
    <2>2. run.file = "AB"
        BY <2>1 DEF FileProgress
    <2>3. run' = [run EXCEPT !.responses = Append(run.responses, Head(run.waiting)),
                             !.waiting = Tail(run.waiting),
                             !.pc = IF Len(run.waiting) = 1 THEN "open" ELSE "wait"]
        BY <1>4 DEF WaitHalf
    <2>4. /\ run'.responses = Append(run.responses, Head(run.waiting))
          /\ run'.waiting = Tail(run.waiting) /\ run'.file = "AB"
          /\ run'.pc = IF Len(run.waiting) = 1 THEN "open" ELSE "wait"
        BY <1>0, <2>2, <2>3 DEF RunType
    <2>5. /\ run.waiting \in Seq(Component) /\ run.responses \in Seq(Component)
        BY <1>0 DEF RunType
    <2>6. /\ Head(run.waiting) \in Component
          /\ In(run.waiting) = {Head(run.waiting)} \cup In(Tail(run.waiting))
          /\ Len(run.waiting) = 1 <=> Tail(run.waiting) = <<>>
        BY <2>1, <2>5, InTail
    <2>7. In(run'.responses) = In(run.responses) \cup {Head(run.waiting)}
        BY <2>4, <2>5, <2>6, InAppend
    <2>8. Wanted' = Wanted
        BY <2>2, <2>4 DEF Wanted
    <2>9. In(run'.responses) \cup In(run'.waiting) = Wanted'
        BY <2>1, <2>4, <2>6, <2>7, <2>8
    <2>10. CASE Len(run.waiting) = 1
        <3>1. In(run'.waiting) = {}
            BY <2>4, <2>6, <2>10, InEmpty
        <3> QED BY <2>4, <2>9, <2>10, <3>1 DEF ArchiveProgress
    <2>11. CASE Len(run.waiting) # 1
        BY <2>4, <2>6, <2>9, <2>11 DEF ArchiveProgress
    <2> QED BY <2>10, <2>11
<1>5. CASE OpenArchive
    <2>1. run' = [run EXCEPT !.pc = "combine"] /\ In(run.responses) = Wanted
        BY <1>5 DEF OpenArchive, ArchiveProgress
    <2>2. /\ run'.pc = "combine" /\ run'.file = run.file /\ run'.responses = run.responses
          /\ run'.agencies = run.agencies
        BY <1>0, <2>1 DEF RunType
    <2>3. Held(run.file)' = {} /\ Wanted' = Wanted
        BY <1>5, <2>2, OpenedArchive DEF Held, Wanted
    <2>4. run'.file = "C" => run'.agencies # {}
        BY <1>5, <2>2 DEF OpenArchive, ArchiveProgress
    <2> QED BY <2>1, <2>2, <2>3, <2>4 DEF ArchiveProgress
<1>6. CASE AddComponent
    <2>1. run' = [run EXCEPT !.responses = Tail(run.responses)] /\ run.pc = "combine"
        BY <1>6 DEF AddComponent
    <2>2. /\ run'.pc = "combine" /\ run'.file = run.file /\ run'.responses = Tail(run.responses)
          /\ run'.agencies = run.agencies
        BY <1>0, <2>1 DEF RunType
    <2>3. run.responses # <<>> /\ In(run.responses) = {Head(run.responses)} \cup In(Tail(run.responses))
        BY <1>0, <1>6, AddedComponent, InTail DEF RunType
    <2>4. Held(run.file)' = Held(run.file) \cup {Head(run.responses)} /\ Wanted' = Wanted
        BY <1>6, <2>2, AddedComponent DEF Held, Wanted
    <2>5. /\ Held(run.file) \cup In(run.responses) = Wanted
          /\ run'.file = "C" => run'.agencies # {}
        BY <2>1, <2>2 DEF ArchiveProgress
    <2> QED BY <2>2, <2>3, <2>4, <2>5 DEF ArchiveProgress
<1>7. CASE CloseArchive
    <2>1. /\ run' = [run EXCEPT !.pc = "withdraw", !.owed = {}] /\ run.pc = "combine"
          /\ run.responses = <<>>
        BY <1>7 DEF CloseArchive
    <2>2. /\ run'.pc = "withdraw" /\ run'.file = run.file /\ run'.responses = <<>>
          /\ run'.agencies = run.agencies
        BY <1>0, <2>1 DEF RunType
    <2>3. \A f \in File : disk'[f].parts = disk[f].parts
        BY <1>7, DiskStep DEF CloseArchive, OpenArchive, AddComponent, DownloadPinned
    <2>4. Held(run.file)' = Held(run.file) /\ Wanted' = Wanted
        BY <1>0, <2>2, <2>3, SameParts DEF Wanted
    <2>5. Held(run.file) = Wanted /\ (run.file = "C" => run.agencies # {})
        BY <2>1, InEmpty DEF ArchiveProgress
    <2>6. run.file = "C" => Wanted # {}
        BY <2>5 DEF Wanted
    <2> QED BY <2>2, <2>4, <2>5, <2>6 DEF ArchiveProgress
<1>8. CASE Withdraw \/ \E t \in Type : PublishType(t)
    <2>1. /\ run'.pc = "publish" /\ run.pc \in {"withdraw", "publish"} /\ run'.file = run.file
          /\ run'.responses = run.responses /\ run'.agencies = run.agencies /\ disk' = disk
        BY <1>0, <1>8 DEF Withdraw, PublishType, RunType
    <2>2. Wanted' = Wanted /\ \A f \in File : Held(f)' = Held(f)
        BY <2>1 DEF Wanted, Held
    <2> QED BY <1>0, <2>1, <2>2 DEF ArchiveProgress, File
<1>9. CASE (Materialized \/ SubmitC \/ ReadPage) /\ run' # Idle
    <2>1. /\ run'.pc \in {"submitC", "done", "pinned", "pages", "join"}
          /\ run'.responses = run.responses /\ run.responses = <<>>
        BY <1>0, <1>9 DEF Materialized, SubmitC, ReadPage, RunType, File, ArchiveProgress, TypeOK
    <2> QED BY <2>1 DEF ArchiveProgress
<1>10. CASE DownloadPinned
    <2>1. /\ run'.pc = "withdraw" /\ run'.file = "C" /\ run'.responses = <<>>
          /\ manifest = "valid"
        BY <1>0, <1>10 DEF DownloadPinned, RunType, ArchiveProgress, FileProgress
    <2>2. Held("C")' = {Pinned}
        BY <1>10, <2>1, DownloadedPinned DEF Held, FileProgress
    <2> QED BY <2>1, <2>2 DEF ArchiveProgress
<1>11. CASE JoinReference /\ run' # Idle
    <2>1. /\ run'.pc = "shards" /\ run'.todo = run.agencies /\ run'.agencies = run.agencies
          /\ run'.responses = <<>> /\ run.agencies # {}
        BY <1>0, <1>11 DEF JoinReference, RunType, ArchiveProgress
    <2>2. In(run'.responses) = {Shard(a) : a \in run'.agencies \ run'.todo}
        BY <2>1, InEmpty
    <2> QED BY <2>1, <2>2 DEF ArchiveProgress
<1>12. CASE NextShard
    <2>1. PICK a \in run.todo :
             run' = [run EXCEPT !.todo = run.todo \ {a}, !.responses = Append(run.responses, Shard(a)),
                                !.pc = IF run.todo = {a} THEN "open" ELSE "shards"]
        BY <1>12 DEF NextShard
    <2>2. /\ run'.todo = run.todo \ {a} /\ run'.responses = Append(run.responses, Shard(a))
          /\ run'.pc = IF run.todo = {a} THEN "open" ELSE "shards"
          /\ run'.agencies = run.agencies /\ run'.file = run.file
        BY <1>0, <2>1 DEF RunType
    <2>3. /\ run.todo \subseteq run.agencies /\ run.file = "C" /\ run.agencies # {}
          /\ In(run.responses) = {Shard(b) : b \in run.agencies \ run.todo}
        BY <1>12 DEF NextShard, ArchiveProgress, FileProgress
    <2>4. Shard(a) \in Component
        BY <1>0, <2>3, AskedComponents DEF RunType
    <2>5. In(run'.responses) = In(run.responses) \cup {Shard(a)}
        BY <1>0, <2>2, <2>4, InAppend DEF RunType
    <2>6. In(run'.responses) = {Shard(b) : b \in run'.agencies \ run'.todo}
        BY <2>2, <2>3, <2>5
    <2>7. CASE run.todo = {a}
        <3>1. run'.todo = {} /\ run'.pc = "open"
            BY <2>2, <2>7
        <3>2. Wanted' = {Shard(b) : b \in run'.agencies}
            BY <2>2, <2>3 DEF Wanted
        <3> QED BY <2>2, <2>3, <2>6, <3>1, <3>2 DEF ArchiveProgress
    <2>8. CASE run.todo # {a}
        <3>1. run'.todo # {} /\ run'.todo \subseteq run'.agencies /\ run'.pc = "shards"
            BY <2>2, <2>3, <2>8
        <3> QED BY <2>2, <2>3, <2>6, <3>1 DEF ArchiveProgress
    <2> QED BY <2>7, <2>8
<1>13. CASE run' = run /\ disk' = disk
    BY <1>13 DEF ArchiveProgress, Wanted, Held
<1>14. ASSUME NEW a \in Agency, Leave(a) PROVE ArchiveProgress'
    <2>1. Wanted' = Wanted /\ Held("AB")' = Held("AB") /\ Held("C")' = Held("C")
        BY <1>14, LeaveKeeps DEF Wanted, Held
    <2> QED BY <1>0, <1>14, <2>1, LeaveKeeps DEF ArchiveProgress, File
<1> QED
    BY <1>1, <1>2, <1>3, <1>4, <1>5, <1>6, <1>7, <1>8, <1>9, <1>10, <1>11, <1>12, <1>13, <1>14
    DEF Next, ClientStep, vars, EndJob, Publish, Fail, Die, WaitTimeout

-----------------------------------------------------------------------------
(* What the activation has made.                                           *)

\* Materialization of the file in hand keeps the account of what has been made.
LEMMA DidWhilePublishing ==
    ASSUME TypeOK, ArchiveProgress, FileProgress, DidProgress,
           Withdraw \/ (\E t \in Type : PublishType(t)) \/ (Materialized /\ run' # Idle)
    PROVE  DidProgress'
<1>0. run \in RunType /\ run.file \in {"AB", "C"} /\ release \in [Type -> ReleaseType]
    BY DEF TypeOK, RunType, File
<1>1. /\ disk' = disk
      /\ TypesIn("AB")' = TypesIn("AB") /\ TypesIn("C")' = TypesIn("C") /\ Held("AB")' = Held("AB")
    BY DEF Withdraw, PublishType, Materialized, TypesIn, Held
<1>2. TypesIn("AB") \subseteq Type /\ TypesIn("C") \subseteq Type
    BY DEF TypesIn, TypeOK, DiskType, Part, File
<1>3. CASE Withdraw
    <2>1. /\ run'.pc = "publish" /\ run'.file = run.file /\ run'.did = run.did
          /\ run'.todo = TypesIn(run.file)
        BY <1>0, <1>3 DEF Withdraw, RunType
    <2>2. \A t \in Type \ TypesIn(run.file) : release'[t] = release[t]
        BY <1>0, <1>3 DEF Withdraw
    <2>3. CASE run.file = "AB"
        BY <1>1, <1>3, <2>1, <2>3 DEF DidProgress, Published, Withdraw
    <2>4. CASE run.file = "C"
        BY <1>1, <1>2, <1>3, <2>1, <2>2, <2>4 DEF DidProgress, Published, Withdraw
    <2> QED BY <1>0, <2>3, <2>4
<1>4. ASSUME NEW t \in Type, PublishType(t) PROVE DidProgress'
    <2>1. /\ run.pc = "publish" /\ t \in run.todo
          /\ run'.pc = "publish" /\ run'.file = run.file /\ run'.todo = run.todo \ {t}
          /\ run'.did = run.did \cup {<<t, run.file>>}
        BY <1>0, <1>4 DEF PublishType, RunType
    <2>2. /\ release'[t].status = "READY" /\ release'[t].file = run.file
          /\ \A u \in Type \ {t} : release'[u] = release[u]
        BY <1>0, <1>4 DEF PublishType
    <2>3. CASE run.file = "AB"
        <3>1. /\ run.todo \subseteq TypesIn("AB")
              /\ run.did = (TypesIn("AB") \ run.todo) \X {"AB"}
              /\ Published(TypesIn("AB") \ run.todo, "AB")
            BY <2>1, <2>3 DEF DidProgress
        <3>2. /\ run'.todo \subseteq TypesIn("AB")
              /\ run'.did = (TypesIn("AB") \ run'.todo) \X {"AB"}
            BY <2>1, <2>3, <3>1
        <3>3. Published(TypesIn("AB") \ run.todo, "AB")'
            BY <1>1, <1>2, <2>1, <2>2, <2>3, <3>1 DEF Published
        <3> QED BY <1>1, <2>1, <2>3, <3>2, <3>3 DEF DidProgress
    <2>4. CASE run.file = "C"
        <3>1. /\ run.todo \subseteq TypesIn("C") /\ Held("AB") = {Halves[1], Halves[2]}
              /\ run.did = (TypesIn("AB") \X {"AB"}) \cup ((TypesIn("C") \ run.todo) \X {"C"})
              /\ Published(TypesIn("AB") \ TypesIn("C"), "AB")
              /\ Published(TypesIn("C") \ run.todo, "C")
            BY <2>1, <2>4 DEF DidProgress
        <3>2. /\ run'.todo \subseteq TypesIn("C")
              /\ run'.did = (TypesIn("AB") \X {"AB"}) \cup ((TypesIn("C") \ run'.todo) \X {"C"})
            BY <2>1, <2>4, <3>1
        <3>3. Published(TypesIn("AB") \ TypesIn("C"), "AB")'
            BY <1>1, <1>2, <2>1, <2>2, <3>1 DEF Published
        <3>4. Published(TypesIn("C") \ run.todo, "C")'
            BY <1>1, <1>2, <2>1, <2>2, <2>4, <3>1 DEF Published
        <3> QED BY <1>1, <2>1, <2>4, <3>1, <3>2, <3>3, <3>4 DEF DidProgress
    <2> QED BY <1>0, <2>3, <2>4
<1>5. CASE Materialized /\ run' # Idle
    <2>1. CASE run.file = "AB"
        <3>1. /\ run.pc = "publish" /\ run.todo = {} /\ release' = release
              /\ run'.pc = "submitC" /\ run'.file = "C" /\ run'.did = run.did
            BY <1>0, <1>5, <2>1 DEF Materialized, Overlapping, RunType
        <3>2. Held("AB") = {Halves[1], Halves[2]}
            BY <3>1, <2>1 DEF ArchiveProgress, Wanted
        <3>3. run.did = TypesIn("AB") \X {"AB"} /\ Published(TypesIn("AB"), "AB")
            BY <3>1, <2>1 DEF DidProgress
        <3> QED BY <1>1, <3>1, <3>2, <3>3 DEF DidProgress, Published
    <2>2. CASE run.file = "C"
        <3>1. run'.pc = "done" /\ run'.file = "C"
            BY <1>0, <1>5, <2>2 DEF Materialized, RunType
        <3> QED BY <3>1 DEF DidProgress
    <2> QED BY <1>0, <2>1, <2>2
<1> QED BY <1>3, <1>4, <1>5

\* So does every other step: what is made stays READY until File C is materialized.
LEMMA DidStep ==
    TypeOK /\ ArchiveProgress /\ FileProgress /\ DidProgress /\ [Next]_vars => DidProgress'
<1> SUFFICES ASSUME TypeOK, ArchiveProgress, FileProgress, DidProgress, [Next]_vars
             PROVE  DidProgress'
    OBVIOUS
<1>0. run \in RunType /\ run.file \in {"AB", "C"}
    BY DEF TypeOK, RunType, File
<1>1. CASE Withdraw \/ (\E t \in Type : PublishType(t)) \/ (Materialized /\ run' # Idle)
    BY <1>1, DidWhilePublishing
<1>2. CASE run' = Idle \/ Start
    BY <1>2 DEF Idle, Start, DidProgress
<1>3. CASE /\ run'.file = run.file /\ run'.did = run.did /\ release' = release
           /\ disk'["AB"].parts = disk["AB"].parts
           /\ run.pc \notin {"idle", "done", "publish"} /\ run'.pc \notin {"idle", "done", "publish"}
    <2>1. Held("AB")' = Held("AB") /\ TypesIn("AB")' = TypesIn("AB")
        BY <1>3, SameParts DEF File
    <2>2. run'.file = "AB" /\ run'.pc \in {"submit", "wait", "open", "combine", "withdraw"} =>
             run.pc \in {"submit", "wait", "open", "combine", "withdraw"}
        BY <1>0, <1>3 DEF FileProgress, RunType, Pc
    <2> QED BY <1>3, <2>1, <2>2 DEF DidProgress, Published
<1>4. CASE run' = run /\ disk' = disk /\ release' = release
    BY <1>4 DEF DidProgress, Published, Held, TypesIn
<1>5. CASE SubmitHalves \/ (WaitHalf /\ run' # Idle)
    BY <1>0, <1>3, <1>5 DEF SubmitHalves, WaitHalf, RunType
<1>6. CASE OpenArchive \/ AddComponent
    <2>1. CASE run.file = "C"
        <3>1. disk'["AB"] = disk["AB"]
            BY <1>6, <2>1, OpenedArchive, AddedComponent DEF File
        <3> QED BY <1>0, <1>3, <1>6, <3>1 DEF OpenArchive, AddComponent, RunType
    <2>2. CASE run.file = "AB"
        <3>1. run'.file = "AB" /\ run'.pc = "combine" /\ run'.did = run.did
            BY <1>0, <1>6, <2>2 DEF OpenArchive, AddComponent, RunType
        <3>2. run.did = {}
            BY <1>6, <2>2 DEF OpenArchive, AddComponent, DidProgress
        <3> QED BY <3>1, <3>2 DEF DidProgress
    <2> QED BY <1>0, <2>1, <2>2
<1>7. CASE CloseArchive
    <2>1. disk'["AB"].parts = disk["AB"].parts
        BY <1>7, DiskStep DEF CloseArchive, OpenArchive, AddComponent, DownloadPinned, File
    <2> QED BY <1>0, <1>3, <1>7, <2>1 DEF CloseArchive, RunType
<1>8. CASE DownloadPinned
    BY <1>0, <1>3, <1>8, DownloadedPinned DEF DownloadPinned, RunType
<1>9. CASE (SubmitC \/ JoinReference) /\ run' # Idle
    BY <1>0, <1>3, <1>9 DEF SubmitC, JoinReference, RunType, TypeOK
<1>10. CASE ReadPage \/ NextShard
    BY <1>0, <1>3, <1>10 DEF ReadPage, NextShard, RunType
<1>11. ASSUME NEW a \in Agency, Leave(a) PROVE DidProgress'
    <2>1. /\ UNCHANGED <<disk, release>> /\ run'.pc = run.pc /\ run'.file = run.file
          /\ run'.todo = run.todo /\ run'.did = run.did
        BY <1>11, LeaveKeeps
    <2> QED BY <2>1 DEF DidProgress, Published, Held, TypesIn
<1> QED
    BY <1>1, <1>2, <1>4, <1>5, <1>6, <1>7, <1>8, <1>9, <1>10, <1>11
    DEF Next, ClientStep, vars, EndJob, Publish, Fail, Die, WaitTimeout

-----------------------------------------------------------------------------
\* A type is published from an archive that holds what was asked for.
LEMMA PublishedStep ==
    TypeOK /\ ArchiveProgress /\ PublishedFromWholeArchives /\ [Next]_vars
        => PublishedFromWholeArchives'
<1> SUFFICES ASSUME TypeOK, ArchiveProgress, PublishedFromWholeArchives, [Next]_vars,
                    NEW t \in Type, release'[t].status = "READY"
             PROVE  LET from == Components(release'[t].parts)
                    IN IF release'[t].file = "AB"
                       THEN from = {Halves[1], Halves[2]}
                       ELSE from \in {{Pinned}, {Shard(a) : a \in release'[t].fleet}}
    BY DEF PublishedFromWholeArchives
<1>1. CASE release'[t] = release[t]
    BY <1>1 DEF PublishedFromWholeArchives
<1>2. CASE Withdraw
    <2>1. release'[t] = release[t] \/ release'[t].status = "MATERIALIZING"
        BY <1>2 DEF Withdraw, TypeOK, ReleaseType
    <2> QED BY <1>1, <2>1
<1>3. ASSUME NEW u \in Type, PublishType(u), u = t
      PROVE  LET from == Components(release'[t].parts)
             IN IF release'[t].file = "AB"
                THEN from = {Halves[1], Halves[2]}
                ELSE from \in {{Pinned}, {Shard(a) : a \in release'[t].fleet}}
    <2>1. /\ release'[t].file = run.file /\ release'[t].fleet = run.agencies
          /\ release'[t].parts = disk[run.file].parts
        BY <1>3 DEF PublishType, TypeOK
    <2>2. Held(run.file) = Wanted \/ (run.file = "C" /\ Held("C") = {Pinned})
        BY <1>3 DEF PublishType, ArchiveProgress
    <2>3. Components(release'[t].parts) = Held(run.file)
        BY <2>1 DEF Held
    <2>4. CASE run.file = "AB"
        BY <2>1, <2>2, <2>3, <2>4 DEF Wanted
    <2>5. CASE run.file # "AB"
        BY <2>1, <2>2, <2>3, <2>5 DEF Wanted
    <2> QED BY <2>4, <2>5
<1>4. ASSUME NEW u \in Type, PublishType(u), u # t PROVE release'[t] = release[t]
    BY <1>4 DEF PublishType, TypeOK
<1> QED
    BY <1>1, <1>2, <1>3, <1>4
    DEF Next, ClientStep, vars, Start, Fail, Die, EndJob, Publish, Leave, SubmitHalves,
       WaitHalf, WaitTimeout, OpenArchive, AddComponent, CloseArchive, Materialized, SubmitC,
       DownloadPinned, ReadPage, JoinReference, NextShard

\* An archive has the type of every component it holds.
LEMMA TypesOfArchives ==
    ASSUME TypeOK, PartsDeliver, NEW f \in File, NEW c \in Held(f)
    PROVE  c[1] \in TypesIn(f)
<1>1. PICK p \in disk[f].parts : c = p[1]
    BY DEF Held, Components
<1>2. p[1][1] \in p[2]
    BY DEF PartsDeliver
<1> QED BY <1>1, <1>2 DEF TypesIn

\* An activation succeeds only when A, B and C do not overlap and are all there.
LEMMA SuccessStep == ActivationInv /\ [Next]_vars => SuccessIsExactlyABC'
<1> SUFFICES ASSUME ActivationInv, [Next]_vars, run'.pc = "done" PROVE SuccessIsExactlyABC'
    BY DEF SuccessIsExactlyABC
<1>0. TypeOK /\ run \in RunType /\ run.file \in {"AB", "C"}
    BY DEF ActivationInv, TypeOK, RunType, File
<1>1. CASE UNCHANGED <<run, release>>
    BY <1>1 DEF ActivationInv, SuccessIsExactlyABC
<1>2. CASE Materialized
    <2>1. /\ run.file = "C" /\ run.pc = "publish" /\ run.todo = {} /\ release' = release
          /\ TypesIn("C") \cap TypesIn("AB") = {}
          /\ TypesIn("AB") \cup TypesIn("C") = Type
          /\ run'.did = run.did
        BY <1>0, <1>2 DEF Materialized, Overlapping, Idle, RunType
    <2>2. /\ Held("AB") = {Halves[1], Halves[2]}
          /\ run.did = (TypesIn("AB") \X {"AB"}) \cup (TypesIn("C") \X {"C"})
          /\ Published(TypesIn("AB"), "AB") /\ Published(TypesIn("C"), "C")
        BY <2>1 DEF ActivationInv, DidProgress, Published
    <2>3. "C" \in TypesIn("C")
        <3>1. /\ Held("C") # {}
              /\ Held("C") = {Pinned} \/ Held("C") = {Shard(a) : a \in run.agencies}
            BY <2>1 DEF ActivationInv, ArchiveProgress, Wanted
        <3>2. PICK c \in Held("C") : TRUE
            BY <3>1
        <3>3. c[1] = "C"
            BY <1>0, <3>1, AskedComponents DEF RunType
        <3> QED BY <3>3, TypesOfArchives DEF ActivationInv, File
    <2>4. {"A", "B"} \subseteq TypesIn("AB")
        <3>1. Halves[1][1] \in TypesIn("AB") /\ Halves[2][1] \in TypesIn("AB")
            BY <2>2, TypesOfArchives DEF ActivationInv, File
        <3> QED BY <3>1, AskedComponents
    <2>5. TypesIn("AB") = {"A", "B"} /\ TypesIn("C") = {"C"}
        BY <2>1, <2>3, <2>4 DEF Type
    <2>6. run'.did = {<<"A", "AB">>, <<"B", "AB">>, <<"C", "C">>}
        BY <2>1, <2>2, <2>5
    <2>7. \A t \in Type : release[t].status = "READY" /\ <<t, release[t].file>> \in run.did
        BY <2>2, <2>5 DEF Published, Type
    <2> QED BY <2>1, <2>6, <2>7 DEF SuccessIsExactlyABC
<1>3. CASE run' = Idle
    BY <1>3 DEF Idle
<1>4. CASE Start \/ SubmitHalves
    BY <1>0, <1>4 DEF Start, SubmitHalves, Idle, RunType
<1>5. CASE WaitHalf
    BY <1>0, <1>3, <1>5 DEF WaitHalf, RunType
<1>6. CASE OpenArchive \/ AddComponent \/ CloseArchive \/ Withdraw
    BY <1>0, <1>6 DEF OpenArchive, AddComponent, CloseArchive, Withdraw, RunType
<1>7. CASE \E t \in Type : PublishType(t)
    BY <1>0, <1>7 DEF PublishType, RunType
<1>8. CASE SubmitC \/ JoinReference
    BY <1>0, <1>3, <1>8 DEF SubmitC, JoinReference, RunType, TypeOK
<1>9. CASE DownloadPinned \/ ReadPage \/ NextShard
    BY <1>0, <1>9 DEF DownloadPinned, ReadPage, NextShard, RunType
<1>10. ASSUME NEW a \in Agency, Leave(a) PROVE SuccessIsExactlyABC'
    BY <1>0, <1>10, LeaveKeeps DEF ActivationInv, SuccessIsExactlyABC
<1> QED
    BY <1>1, <1>2, <1>3, <1>4, <1>5, <1>6, <1>7, <1>8, <1>9, <1>10
    DEF Next, ClientStep, vars, EndJob, Publish, Fail, Die, WaitTimeout

-----------------------------------------------------------------------------
\* The invariant is inductive.
LEMMA ActivationInvStep == ActivationInv /\ [Next]_vars => ActivationInv'
<1> SUFFICES ASSUME ActivationInv, [Next]_vars PROVE ActivationInv'
    OBVIOUS
<1>1. TypeOK' /\ PartsDeliver'
    BY TypeStep, PartsStep DEF ActivationInv
<1>2. ArchiveProgress' /\ FileProgress' /\ DidProgress'
    BY ArchiveStep, FileStep, DidStep DEF ActivationInv
<1>3. PublishedFromWholeArchives' /\ SuccessIsExactlyABC'
    BY PublishedStep, SuccessStep DEF ActivationInv
<1> QED BY <1>1, <1>2, <1>3 DEF ActivationInv

\* Every reachable state satisfies the invariant.
THEOREM ActivationInvHolds == Spec => []ActivationInv
<1>1. Init => ActivationInv
    BY InitActivationInv
<1>2. ActivationInv /\ [Next]_vars => ActivationInv'
    BY ActivationInvStep
<1> QED BY <1>1, <1>2, PTL DEF Spec

\* No release is READY from an archive that lacks a component, for any number of
\* agencies and wherever combinations were cut short (_combine_split_archives).
THEOREM ReleasesFromWholeArchives == Spec => []PublishedFromWholeArchives
<1>1. ActivationInv => PublishedFromWholeArchives
    BY DEF ActivationInv
<1> QED BY <1>1, ActivationInvHolds, PTL

\* An activation that succeeds has made exactly A, B and C and left them READY, for any
\* stray types in the archives (activate_federal_account_files).
THEOREM ActivationsMakeExactlyABC == Spec => []SuccessIsExactlyABC
<1>1. ActivationInv => SuccessIsExactlyABC
    BY DEF ActivationInv
<1> QED BY <1>1, ActivationInvHolds, PTL
-----------------------------------------------------------------------------
(* The pages of the reporting overview.                                    *)

Overview == overview \in [Agency -> {"absent", "listed", "published"}]

\* An agency read so far has the abbreviation of a.
Named(a) == \E b \in run.agencies : SameName(a, b)

\* Whoever had published when File C was asked for shares an abbreviation with an agency
\* read so far, or is on a page still to be read; after the last page nobody is left.
PagesProgress ==
    /\ run.pc = "pages" =>
          /\ run.page \in Nat \ {0}
          /\ \A a \in run.owed : /\ overview[a] = "published"
                                 /\ Rank(a) <= (run.page - 1) * PageSize => Named(a)
    /\ run.pc = "join" => \A a \in run.owed : Named(a)

FleetInv == TypeOK /\ Overview /\ PagesProgress /\ FleetCoversReporting

\* Agencies are numbered, and there are finitely many.
LEMMA AgencyFacts ==
    /\ Agency \subseteq Nat /\ IsFiniteSet(Agency)
    /\ PageSize \in Nat \ {0}
<1>1. IsFiniteSet(1 .. NAgencies)
    BY ActivationAssumption, FS_Interval
<1> QED BY <1>1, ActivationAssumption DEF Agency

\* An agency's place in a list that has grown is no earlier than before.
LEMMA PlaceInGrownList ==
    ASSUME NEW L \in SUBSET Agency, NEW M \in SUBSET Agency, L \subseteq M, NEW a
    PROVE  /\ Cardinality({b \in L : b <= a}) \in Nat
           /\ Cardinality({b \in M : b <= a}) \in Nat
           /\ Cardinality({b \in L : b <= a}) <= Cardinality({b \in M : b <= a})
<1> DEFINE l == {b \in L : b <= a}
           m == {b \in M : b <= a}
<1>1. m \in SUBSET Agency /\ l \in SUBSET m
    OBVIOUS
<1>2. IsFiniteSet(m)
    BY <1>1, AgencyFacts, FS_Subset
<1>3. IsFiniteSet(l) /\ Cardinality(l) <= Cardinality(m)
    BY <1>1, <1>2, FS_Subset
<1> QED BY <1>2, <1>3, FS_CardinalityType

\* It is within the list.
LEMMA PlaceInList ==
    ASSUME NEW L \in SUBSET Agency, NEW a
    PROVE  /\ Cardinality(L) \in Nat
           /\ Cardinality({b \in L : b <= a}) <= Cardinality(L)
<1>1. IsFiniteSet(L)
    BY AgencyFacts, FS_Subset
<1>2. {b \in L : b <= a} \in SUBSET L
    OBVIOUS
<1> QED BY <1>1, <1>2, FS_Subset, FS_CardinalityType

\* While nobody leaves the overview grows, and so do the ranks of its agencies.
LEMMA OverviewGrows ==
    ASSUME Overview, [Next]_vars, \A a \in Agency : ~Leave(a)
    PROVE  /\ Overview'
           /\ \A a \in Agency : overview[a] = "published" => overview'[a] = "published"
           /\ \A a : Rank(a) \in Nat /\ Rank(a)' \in Nat /\ Rank(a) <= Rank(a)'
<1>1. Overview' /\ \A a \in Agency : /\ overview[a] = "published" => overview'[a] = "published"
                                     /\ overview[a] # "absent" => overview'[a] # "absent"
  <2>1. CASE overview' = overview
      BY <2>1 DEF Overview
  <2>2. CASE \E a \in Agency : Publish(a)
      BY <2>2 DEF Overview, Publish
  <2> QED BY <2>1, <2>2
      DEF Next, ClientStep, vars, service, Start, Fail, Die, EndJob, SubmitHalves, WaitHalf,
          WaitTimeout, OpenArchive, AddComponent, CloseArchive, Withdraw, PublishType,
          Materialized, SubmitC, DownloadPinned, ReadPage, JoinReference, NextShard
<1>2. Listing \in SUBSET Agency /\ Listing' \in SUBSET Agency /\ Listing \subseteq Listing'
    BY <1>1 DEF Listing
<1>3. \A a : /\ Cardinality({b \in Listing : b <= a}) \in Nat
             /\ Cardinality({b \in Listing' : b <= a}) \in Nat
             /\ Cardinality({b \in Listing : b <= a}) <= Cardinality({b \in Listing' : b <= a})
    BY <1>2, PlaceInGrownList
<1> QED BY <1>1, <1>3 DEF Rank

\* Of finitely many agencies one comes last.
LEMMA LastAgency ==
    ASSUME NEW S \in SUBSET Agency, S # {}
    PROVE  \E m \in S : \A k \in S : k <= m
<1> DEFINE Less == {ss \in Nat \X Nat : ss[1] < ss[2]}
           T == {NAgencies - a : a \in S}
<1>0. S \subseteq 1 .. NAgencies /\ NAgencies \in Nat
    BY ActivationAssumption DEF Agency
<1>1. IsWellFoundedOn(Less, Nat)
    BY NatLessThanWellFounded, Zenon DEF OpToRel
<1>2. T \subseteq Nat /\ T # {}
    BY <1>0
<1>3. \E t \in T : \A u \in T : <<u, t>> \notin Less
  <2> HIDE DEF T, Less
  <2> QED BY <1>1, <1>2, WFMin
<1>4. PICK m \in S : \A u \in T : <<u, NAgencies - m>> \notin Less
    BY <1>3
<1>5. ASSUME NEW k \in S PROVE k <= m
  <2> DEFINE u == NAgencies - k
             t == NAgencies - m
  <2>1. u \in T /\ u \in Nat /\ t \in Nat
      BY <1>0
  <2>2. <<u, t>> \notin Less
      BY <1>4, <2>1
  <2>3. ~(u < t)
      BY <2>1, <2>2
  <2> QED BY <1>0, <2>3
<1> QED BY <1>5

\* Who is named by the agencies read so far stays so when a page is kept, and so is
\* everyone who published on that page.
LEMMA PagesKeepNames ==
    ASSUME NEW read \in SUBSET Agency, NEW p,
           NEW a, \/ \E b \in read : SameName(a, b)
                  \/ a \in OnPage(p) /\ overview[a] = "published"
    PROVE  \E b \in KeepPage(read, Kept(p)) : SameName(a, b)
<1>1. CASE a \in OnPage(p) /\ overview[a] = "published"
  <2> DEFINE same == {b \in OnPage(p) : overview[b] = "published" /\ SameName(a, b)}
  <2>1. same \in SUBSET Agency /\ a \in same
      BY <1>1 DEF OnPage, Listing, SameName
  <2>2. PICK m \in same : \A k \in same : k <= m
    <3> HIDE DEF same
    <3> QED BY <2>1, LastAgency
  <2>3. m \in Kept(p) /\ SameName(a, m)
      BY <2>2 DEF Kept, SameName
  <2> QED BY <2>3 DEF KeepPage
<1>2. CASE \E b \in read : SameName(a, b)
  <2>1. PICK b \in read : SameName(a, b)
      BY <1>2
  <2>2. CASE \E c \in Kept(p) : SameName(b, c)
      BY <2>1, <2>2 DEF KeepPage, SameName
  <2>3. CASE ~\E c \in Kept(p) : SameName(b, c)
      BY <2>1, <2>3 DEF KeepPage
  <2> QED BY <2>2, <2>3
<1> QED BY <1>1, <1>2

\* Reading a page leaves out nobody ranked up to its end; the last page reaches the end
\* of the list.
LEMMA ReadPageCovers ==
    ASSUME FleetInv, ReadPage
    PROVE  PagesProgress'
<1>1. /\ run.pc = "pages" /\ run.page \in Nat \ {0} /\ run \in RunType /\ overview' = overview
      /\ run.owed \subseteq Agency
    BY DEF FleetInv, PagesProgress, ReadPage, TypeOK, RunType, service
<1> DEFINE lo == (run.page - 1) * PageSize
           hi == run.page * PageSize
           pc == IF HasNext(run.page) THEN "pages" ELSE "join"
<1>2. /\ run'.pc = pc /\ run'.page = run.page + 1 /\ run'.owed = run.owed
      /\ run'.agencies = KeepPage(run.agencies, Kept(run.page))
    BY <1>1 DEF ReadPage, RunType
<1>3. lo \in Nat /\ hi \in Nat /\ (run'.page - 1) * PageSize = hi
  <2>1. run'.page - 1 = run.page /\ run.page - 1 \in Nat /\ run.page \in Nat
      BY <1>1, <1>2
  <2> QED BY <2>1, AgencyFacts
<1>4. Listing \in SUBSET Agency
    BY DEF Listing
<1>5. \A a : Rank(a) \in Nat
    BY <1>4, PlaceInGrownList DEF Rank
<1>6. ASSUME NEW a \in run.owed, Rank(a) <= hi
      PROVE  Named(a)'
  <2>0. run.agencies \in SUBSET Agency
      BY <1>1 DEF RunType
  <2>1. overview[a] = "published" /\ (Rank(a) <= lo => Named(a))
      BY <1>1 DEF FleetInv, PagesProgress
  <2>2. a \in Listing
      BY <1>1, <2>1 DEF Listing
  <2>3. CASE Rank(a) <= lo
      BY <1>2, <2>0, <2>1, <2>3, PagesKeepNames DEF Named, SameName
  <2>4. CASE ~(Rank(a) <= lo)
    <3>1. a \in OnPage(run.page)
        BY <1>3, <1>5, <1>6, <2>2, <2>4 DEF OnPage
    <3> QED BY <1>2, <2>0, <2>1, <3>1, PagesKeepNames DEF Named, SameName
  <2> QED BY <2>3, <2>4
<1>7. \A a : Rank(a)' = Rank(a)
    BY <1>1 DEF Rank, Listing
<1>8. ASSUME pc = "join", NEW a \in run.owed PROVE Named(a)'
  <2>1. ~(Cardinality(Listing) > hi)
      BY <1>8 DEF HasNext
  <2>2. Rank(a) <= Cardinality(Listing) /\ Cardinality(Listing) \in Nat
      BY <1>4, PlaceInList DEF Rank
  <2>3. Rank(a) <= hi
      BY <1>3, <1>5, <2>1, <2>2
  <2> QED BY <1>6, <2>3
<1>9. run'.page \in Nat \ {0}
    BY <1>1, <1>2
<1>10. \A a \in run.owed : overview'[a] = "published"
    BY <1>1 DEF FleetInv, PagesProgress
<1> HIDE DEF hi, lo, pc
<1> QED BY <1>1, <1>2, <1>3, <1>6, <1>7, <1>8, <1>9, <1>10 DEF PagesProgress

\* Every step keeps the pages and the fleet in agreement.
LEMMA FleetInvStep ==
    ASSUME ActivationInv, FleetInv, [Next]_vars
    PROVE  FleetInv'
<1>1. TypeOK' /\ run \in RunType
    BY TypeStep DEF ActivationInv, TypeOK
<1>0. Overview'
  <2>1. CASE \E a \in Agency : Leave(a)
      BY <2>1 DEF FleetInv, Overview, Leave
  <2>2. CASE \A a \in Agency : ~Leave(a)
      BY <2>2, OverviewGrows DEF FleetInv
  <2> QED BY <2>1, <2>2
<1>10. ASSUME \A a \in Agency : ~Leave(a)
       PROVE  /\ \A a \in Agency : overview[a] = "published" => overview'[a] = "published"
              /\ \A a : Rank(a) \in Nat /\ Rank(a)' \in Nat /\ Rank(a) <= Rank(a)'
    BY <1>10, OverviewGrows DEF FleetInv
<1> SUFFICES PagesProgress' /\ FleetCoversReporting'
    BY <1>0, <1>1 DEF FleetInv
<1>2. CASE \E a \in Agency : Leave(a)
  <2>1. PICK a \in Agency : Leave(a)
      BY <1>2
  <2>2. /\ run'.pc = run.pc /\ run'.file = run.file /\ run'.agencies = run.agencies
        /\ run'.owed = IF run.pc = "pages" THEN {} ELSE run.owed
        /\ run'.page = run.page
    <3>1. /\ run'.pc = run.pc /\ run'.file = run.file /\ run'.agencies = run.agencies
          /\ run'.owed = IF run.pc = "pages" THEN {} ELSE run.owed
        BY <1>1, <2>1, LeaveKeeps DEF FleetInv
    <3>2. run'.page = run.page
        BY <1>1, <2>1 DEF Leave, RunType
    <3> QED BY <3>1, <3>2
  <2> QED BY <2>2 DEF FleetInv, PagesProgress, FleetCoversReporting, Named, SameName
<1>3. CASE UNCHANGED run /\ \A a \in Agency : ~Leave(a)
  <2>1. ASSUME run.pc = "pages", NEW a \in run.owed
        PROVE  /\ overview'[a] = "published"
               /\ Rank(a)' <= (run.page - 1) * PageSize => Named(a)
    <3>1. /\ a \in Agency /\ overview[a] = "published"
          /\ Rank(a) <= (run.page - 1) * PageSize => Named(a)
        BY <1>1, <2>1 DEF FleetInv, PagesProgress, RunType
    <3> DEFINE lo == (run.page - 1) * PageSize
    <3>2. lo \in Nat
      <4>1. run.page - 1 \in Nat
          BY <2>1 DEF FleetInv, PagesProgress
      <4> QED BY <4>1, AgencyFacts
    <3> HIDE DEF lo
    <3>3. Rank(a)' <= lo => Rank(a) <= lo
        BY <1>3, <1>10, <3>2
    <3> QED BY <1>3, <1>10, <3>1, <3>3 DEF lo
  <2> QED BY <1>3, <2>1 DEF FleetInv, PagesProgress, FleetCoversReporting, Named, SameName
<1>4. CASE ReadPage
  <2>1. run'.pc \in {"pages", "join"}
      BY <1>1, <1>4 DEF ReadPage, RunType
  <2> QED BY <1>4, <2>1, ReadPageCovers DEF FleetCoversReporting
<1>5. CASE SubmitC
  <2>1. CASE run'.pc = "pages"
    <3> DEFINE owed == {a \in Agency : overview[a] = "published"}
    <3>1. run' = [run EXCEPT !.pc = "pages", !.page = 1, !.owed = owed] /\ overview' = overview
        BY <1>1, <1>5, <2>1 DEF SubmitC, Idle, RunType, TypeOK, FleetInv, service
    <3>2. run'.page = 1 /\ run'.owed = owed
        BY <1>1, <3>1 DEF RunType
    <3>3. ASSUME NEW a \in owed PROVE ~(Rank(a)' <= (1 - 1) * PageSize)
      <4>1. a \in {b \in Listing : b <= a} /\ a \in Agency
          BY AgencyFacts DEF Listing
      <4>2. IsFiniteSet({b \in Listing : b <= a})
        <5>1. {b \in Listing : b <= a} \in SUBSET Agency
            BY DEF Listing
        <5> QED BY <5>1, AgencyFacts, FS_Subset
      <4>3. Rank(a) # 0
          BY <4>1, <4>2, FS_EmptySet DEF Rank
      <4>4. (1 - 1) * PageSize = 0
          BY AgencyFacts
      <4>5. Rank(a)' = Rank(a) /\ Rank(a) \in Nat
        <5>1. Rank(a)' = Rank(a)
            BY <3>1 DEF Rank, Listing
        <5>2. Rank(a) \in Nat
            BY <4>2, FS_CardinalityType DEF Rank
        <5> QED BY <5>1, <5>2
      <4> QED BY <4>3, <4>4, <4>5
    <3> QED BY <2>1, <3>1, <3>2, <3>3 DEF PagesProgress, FleetCoversReporting
  <2>2. CASE run'.pc # "pages"
    <3>1. run'.pc \in {"pinned", "idle"}
        BY <1>1, <1>5, <2>2 DEF SubmitC, Idle, RunType, TypeOK, FleetInv
    <3> QED BY <3>1 DEF PagesProgress, FleetCoversReporting
  <2> QED BY <2>1, <2>2
<1>6. CASE JoinReference
  <2>1. CASE run' = Idle
      BY <2>1 DEF PagesProgress, FleetCoversReporting, Idle
  <2>2. CASE run' # Idle
    <3>1. run.pc = "join" /\ run.agencies \subseteq Known
          /\ run' = [run EXCEPT !.pc = "shards", !.todo = run.agencies]
        BY <1>6, <2>2 DEF JoinReference
    <3>2. run'.pc = "shards" /\ run'.agencies = run.agencies /\ run'.owed = run.owed
        BY <1>1, <3>1 DEF RunType
    <3> QED BY <3>1, <3>2 DEF FleetInv, PagesProgress, FleetCoversReporting, Named, SameName
  <2> QED BY <2>1, <2>2
<1>7. CASE NextShard \/ OpenArchive \/ AddComponent \/ CloseArchive
  <2>1. /\ run'.pc \in {"shards", "open", "combine", "withdraw"} /\ run'.file = run.file
        /\ run'.agencies = run.agencies /\ run'.owed \in {run.owed, {}}
        /\ run.pc \in {"shards", "open", "combine"}
      BY <1>1, <1>7 DEF NextShard, OpenArchive, AddComponent, CloseArchive, RunType
  <2> QED BY <2>1 DEF FleetInv, PagesProgress, FleetCoversReporting, Named, SameName
<1>8. CASE SubmitHalves \/ WaitHalf
  <2>1. run'.file = "AB" \/ run' = Idle
      BY <1>1, <1>8 DEF SubmitHalves, WaitHalf, RunType, ActivationInv, FileProgress
  <2>2. run'.pc \in {"wait", "open", "idle"}
    <3>1. CASE SubmitHalves
        BY <1>1, <3>1 DEF SubmitHalves, RunType
    <3>2. CASE WaitHalf
      <4> DEFINE responses == Append(run.responses, Head(run.waiting))
                 pc == IF Len(run.waiting) = 1 THEN "open" ELSE "wait"
      <4>1. \/ run' = Idle
            \/ run' = [run EXCEPT !.responses = responses, !.waiting = Tail(run.waiting), !.pc = pc]
          BY <3>2 DEF WaitHalf
      <4>2. pc \in {"wait", "open"}
          OBVIOUS
      <4> HIDE DEF responses, pc
      <4>3. CASE run' = Idle
          BY <4>3 DEF Idle
      <4>4. CASE run' # Idle
          BY <1>1, <4>1, <4>2, <4>4 DEF RunType
      <4> QED BY <4>3, <4>4
    <3> QED BY <1>8, <3>1, <3>2
  <2> QED BY <2>1, <2>2 DEF PagesProgress, FleetCoversReporting, Idle
<1>9. CASE Start \/ WaitTimeout \/ Fail \/ Die \/ Withdraw \/ Materialized \/ DownloadPinned
           \/ \E t \in Type : PublishType(t)
  <2>1. run'.pc \notin {"pages", "join", "shards", "open", "combine"}
    <3>1. CASE Start \/ WaitTimeout \/ Fail \/ Die
        BY <1>1, <3>1 DEF Start, WaitTimeout, Fail, Die, Idle, RunType
    <3>2. CASE Withdraw \/ DownloadPinned
        BY <1>1, <3>2 DEF Withdraw, DownloadPinned, RunType
    <3>3. CASE \E t \in Type : PublishType(t)
      <4>1. run'.pc = run.pc /\ run.pc = "publish"
          BY <1>1, <3>3 DEF PublishType, RunType
      <4> QED BY <4>1
    <3>4. CASE Materialized
      <4>1. \/ run' = Idle
            \/ run' = [run EXCEPT !.pc = "submitC", !.file = "C"]
            \/ run' = [run EXCEPT !.pc = "done"]
          BY <1>1, <3>4 DEF Materialized, RunType, File
      <4>2. CASE run' = Idle
          BY <4>2 DEF Idle
      <4>3. CASE run' # Idle
          BY <1>1, <4>1, <4>3 DEF RunType
      <4> QED BY <4>2, <4>3
    <3> QED BY <1>9, <3>1, <3>2, <3>3, <3>4
  <2> QED BY <2>1 DEF PagesProgress, FleetCoversReporting
<1> QED BY <1>2, <1>3, <1>4, <1>5, <1>6, <1>7, <1>8, <1>9
    DEF Next, ClientStep, vars, EndJob, Publish

\* The fleet has a shard under the abbreviation of every agency that had published when
\* File C was asked for, for any number of agencies, any abbreviations and page size and
\* any order in which agencies are added while the pages are read; a reading between
\* whose pages an agency left owes nothing (reporting_agencies,
\* _submit_file_c_agency_shards).
THEOREM FleetsCoverReporting == Spec => []FleetCoversReporting
<1>1. Init => FleetInv
  <2> SUFFICES ASSUME Init PROVE FleetInv
      OBVIOUS
  <2>1. TypeOK
      BY InitActivationInv DEF ActivationInv
  <2> QED BY <2>1 DEF Init, FleetInv, Overview, PagesProgress, FleetCoversReporting, Idle
<1>2. ActivationInv /\ FleetInv /\ [Next]_vars => FleetInv'
    BY FleetInvStep
<1>3. FleetInv => FleetCoversReporting
    BY DEF FleetInv
<1> QED BY <1>1, <1>2, <1>3, ActivationInvHolds, PTL DEF Spec
=============================================================================
