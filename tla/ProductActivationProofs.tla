---------------------- MODULE ProductActivationProofs -----------------------
(***************************************************************************)
(* What ProductActivation keeps for every set of editions and every number *)
(* of runs, revisions and lost volumes: ActivationInv is inductive.        *)
(***************************************************************************)
EXTENDS ProductActivation, TLAPS

---------------------------------------------------------------------------
(* The order of the sources.                                               *)

LEMMA OrderOfSources ==
    /\ Order[1] = "units" /\ Order[2] = "finance22" /\ Order[3] = "finance24"
    /\ \A k \in 1 .. 3 : Order[k] \in Source
    /\ \A k \in 2 .. 3 : Order[k] \in Finance
    /\ \A j, k \in 1 .. 3 : Order[j] = Order[k] => j = k
BY DEF Order, Source, Finance

\* The step every action of a run ends with.
LEMMA GoKeepsTheRest ==
    ASSUME TypeOK, NEW pc \in Pc, Go(pc)
    PROVE  /\ run' \in [option : Option, pc : Pc, k : 1 .. 3, ready : BOOLEAN]
           /\ run'.pc = pc /\ run'.k = run.k
           /\ run'.option = run.option /\ run'.ready = run.ready
BY DEF TypeOK, Go

LEMMA GoToKeepsTheRest ==
    ASSUME TypeOK, NEW pc \in Pc, NEW k \in 1 .. 3, GoTo(pc, k)
    PROVE  /\ run' \in [option : Option, pc : Pc, k : 1 .. 3, ready : BOOLEAN]
           /\ run'.pc = pc /\ run'.k = k
           /\ run'.option = run.option /\ run'.ready = run.ready
BY DEF TypeOK, GoTo

\* Where a run goes from a mirror: to the next one, or past the mirrors.
LEMMA NextMirrorGoes ==
    ASSUME TypeOK, NextMirror, run.k <= Last
    PROVE  /\ run' \in [option : Option, pc : Pc, k : 1 .. 3, ready : BOOLEAN]
           /\ run'.option = run.option /\ run'.ready = run.ready
           /\ \/ run.k < Last /\ run'.pc = "mirror" /\ run'.k = run.k + 1
              \/ run.option.core /\ run'.pc = "treasury"
              \/ ~run.option.core /\ run'.pc = "accounts"
<1>1. Last \in {2, 3} /\ run.k \in 1 .. 3
  BY DEF TypeOK, Last
<1>2. CASE run.k < Last
  <2>1. run.k + 1 \in 1 .. 3 /\ GoTo("mirror", run.k + 1)
    BY <1>1, <1>2 DEF NextMirror
  <2> QED
    BY <2>1, <1>2, GoToKeepsTheRest DEF Pc, MirrorPcs
<1>3. CASE ~(run.k < Last) /\ run.option.core
  <2>1. GoTo("treasury", 1)
    BY <1>3 DEF NextMirror
  <2> QED
    BY <2>1, <1>3, GoToKeepsTheRest DEF Pc, CorePcs
<1>4. CASE ~(run.k < Last) /\ ~run.option.core
  <2>1. GoTo("accounts", 1)
    BY <1>4 DEF NextMirror
  <2> QED
    BY <2>1, <1>4, GoToKeepsTheRest DEF Pc, AccountPcs
<1> QED
  BY <1>2, <1>3, <1>4

LEMMA IdleRun ==
    /\ Idle \in [option : Option, pc : Pc, k : 1 .. 3, ready : BOOLEAN]
    /\ Idle.pc = "idle" /\ ~Idle.ready /\ ~Idle.option.overwrite
BY DEF Idle, Option, Pc

---------------------------------------------------------------------------
(* Types.                                                                  *)

LEMMA PcsOfWork ==
    /\ \A pc \in {"fetch", "begin", "import", "mirror", "copy", "register", "treasury",
                  "writeTreasury", "omb", "writeOMB", "index", "accounts", "importAB",
                  "accountsC", "importC", "idle", "done", "failed"} : pc \in Pc
    /\ \A c \in Core : c \in Pc /\ Writing(c) \in Pc /\ AfterCore(c) \in Pc
BY DEF Pc, CensusPcs, MirrorPcs, CorePcs, AccountPcs, Core, Writing, AfterCore

\* The actions that leave data and history alone.
LEMMA ControlKeepsTypes ==
    ASSUME TypeOK, UNCHANGED <<source, data, history>>, index' \in BOOLEAN,
           run' \in [option : Option, pc : Pc, k : 1 .. 3, ready : BOOLEAN]
    PROVE  TypeOK'
BY DEF TypeOK, data, history, File

LEMMA InitTypeOK == Init => TypeOK
<1> SUFFICES ASSUME Init PROVE TypeOK
  OBVIOUS
<1>1. \A s \in Source : [status |-> "ABSENT", edition |-> None]
                        \in [status : {"ABSENT", "INGESTING", "READY"}, edition : File]
  BY DEF File
<1>2. \A f \in Finance : [file |-> None, object |-> None]
                         \in [file : File \cup {Partial}, object : File]
  BY DEF File
<1>3. account \in [Account -> [published : BOOLEAN, parts : Nat, objects : Nat, files : Nat]]
  BY DEF Init
<1> QED
  BY <1>1, <1>2, <1>3, IdleRun, ActivationAssumption DEF Init, TypeOK, File

LEMMA StartKeepsTypes ==
    ASSUME TypeOK, NEW o \in Option, Start(o)
    PROVE  TypeOK'
<1>1. NothingMissing(o) \in BOOLEAN
  BY DEF NothingMissing
<1>2. (IF CensusMissing(o) THEN "fetch" ELSE "mirror") \in Pc
      /\ (IF CensusMissing(o) THEN 1 ELSE 2) \in 1 .. 3
  BY PcsOfWork
<1>3. run' \in [option : Option, pc : Pc, k : 1 .. 3, ready : BOOLEAN]
  BY <1>1, <1>2 DEF Start
<1>4. o.overwrite \in BOOLEAN /\ runs' \in Nat
  BY DEF Option, Start, TypeOK
<1> QED
  BY <1>3, <1>4 DEF Start, TypeOK, data, File

LEMMA CensusKeepsTypes ==
    ASSUME TypeOK, Fetch \/ BeginImport \/ FinishImport
    PROVE  TypeOK'
<1>0. Current \in Source /\ run.k \in 1 .. 3 /\ Last \in {2, 3}
  BY OrderOfSources DEF TypeOK, Current, Last
<1>1. CASE Fetch
  <2>1. source[Current] \in File
    BY <1>0 DEF TypeOK, File
  <2>2. disk' \in [Source -> File]
    BY <2>1, <1>0, <1>1 DEF Fetch, TypeOK
  <2> QED
    BY <2>2, <1>1, GoKeepsTheRest, PcsOfWork DEF Fetch, TypeOK, history
<1>2. CASE BeginImport
  <2>1. release' \in [Source -> [status : {"ABSENT", "INGESTING", "READY"}, edition : File]]
    BY <1>0, <1>2 DEF BeginImport, TypeOK, File
  <2> QED
    BY <2>1, <1>2, GoKeepsTheRest, PcsOfWork DEF BeginImport, TypeOK, history
<1>3. CASE FinishImport
  <2>1. release' \in [Source -> [status : {"ABSENT", "INGESTING", "READY"}, edition : File]]
    BY <1>0, <1>3 DEF FinishImport, TypeOK
  <2>2. CASE run.k < Last
    <3>1. run.k + 1 \in 1 .. 3
      BY <1>0, <2>2
    <3> QED
      BY <3>1, <2>1, <2>2, <1>3, GoToKeepsTheRest, PcsOfWork DEF FinishImport, TypeOK, history
  <2>3. CASE ~(run.k < Last)
    BY <2>1, <2>3, <1>3, GoToKeepsTheRest, PcsOfWork DEF FinishImport, TypeOK, history
  <2> QED
    BY <2>2, <2>3
<1> QED
  BY <1>1, <1>2, <1>3

LEMMA MirrorKeepsTypes ==
    ASSUME TypeOK, InOrder, SkipMirror \/ BeginMirror \/ FinishCopy \/ RegisterMirror
    PROVE  TypeOK'
<1>0. /\ Current \in Finance /\ run.k <= Last
      /\ At("register") => mirror[Current].file = disk[Current]
  <2>1. run.pc \in MirrorPcs
    BY DEF SkipMirror, BeginMirror, FinishCopy, RegisterMirror, At, MirrorPcs
  <2> QED
    BY <2>1, OrderOfSources DEF TypeOK, InOrder, Current, Last, At
<1>1. CASE SkipMirror
  BY <1>0, <1>1, NextMirrorGoes, ControlKeepsTypes DEF SkipMirror, TypeOK
<1>2. CASE BeginMirror
  <2>1. mirror' \in [Finance -> [file : File \cup {Partial}, object : File]]
    BY <1>0, <1>2 DEF BeginMirror, TypeOK
  <2> QED
    BY <2>1, <1>2, GoKeepsTheRest, PcsOfWork DEF BeginMirror, TypeOK, history
<1>3. CASE FinishCopy
  <2>1. disk[Current] \in File
    BY <1>0 DEF TypeOK, Source, Finance
  <2>2. mirror' \in [Finance -> [file : File \cup {Partial}, object : File]]
    BY <2>1, <1>0, <1>3 DEF FinishCopy, TypeOK
  <2> QED
    BY <2>2, <1>3, GoKeepsTheRest, PcsOfWork DEF FinishCopy, TypeOK, history
<1>4. CASE RegisterMirror
  <2>1. mirror[Current].file \in File
    BY <1>0, <1>4 DEF RegisterMirror, TypeOK, Source, Finance
  <2>2. mirror' \in [Finance -> [file : File \cup {Partial}, object : File]]
    BY <2>1, <1>0, <1>4 DEF RegisterMirror, TypeOK
  <2> QED
    BY <2>2, <1>0, <1>4, NextMirrorGoes DEF RegisterMirror, TypeOK, history
<1> QED
  BY <1>1, <1>2, <1>3, <1>4

LEMMA CoreKeepsTypes ==
    ASSUME TypeOK, NEW c \in Core,
           SkipCore(c) \/ BeginSnapshot(c) \/ FinishSnapshot(c) \/ IngestCore(c)
    PROVE  TypeOK'
<1>1. CASE SkipCore(c)
  BY <1>1, GoKeepsTheRest, ControlKeepsTypes, PcsOfWork DEF SkipCore, TypeOK
<1>2. CASE BeginSnapshot(c)
  BY <1>2, GoKeepsTheRest, PcsOfWork DEF BeginSnapshot, TypeOK, history
<1>3. CASE FinishSnapshot(c)
  BY <1>3, GoKeepsTheRest, PcsOfWork DEF FinishSnapshot, TypeOK, history
<1>4. CASE IngestCore(c)
  BY <1>4, GoKeepsTheRest, PcsOfWork DEF IngestCore, TypeOK, history
<1> QED
  BY <1>1, <1>2, <1>3, <1>4

\* What one step on the accounts does: types are withdrawn, a part of one type
\* is converted, or one type is published.
LEMMA AccountParts ==
    ASSUME TypeOK, NEW pc \in Pc, NEW types \in SUBSET Account, NEW next \in Pc,
           \/ BeginAccounts(pc, types, next)
           \/ ConvertPart(pc, types)
           \/ PublishAccounts(pc, types, next)
    PROVE  /\ account' \in [Account -> [published : BOOLEAN, parts : Nat, objects : Nat, files : Nat]]
           /\ \E goes \in Pc : Go(goes)
           /\ \A t \in Account :
                 \/ account'[t] = account[t]
                 \/ /\ BeginAccounts(pc, types, next) /\ t \in types
                    /\ ~account'[t].published /\ account'[t].parts = 0
                    /\ account'[t].objects = account[t].objects
                    /\ account'[t].files = account[t].files
                 \/ /\ t \in types /\ ~account[t].published /\ ~account'[t].published
                    /\ account'[t].parts = account[t].parts + 1
                    /\ account'[t].objects = AtLeast(account[t].objects, account[t].parts + 1)
                    /\ account'[t].files = AtLeast(account[t].files, account[t].parts + 1)
                 \/ /\ t \in types /\ account[t].parts > 0 /\ account'[t].published
                    /\ account'[t].parts = account[t].parts
                    /\ account'[t].objects = account[t].objects
                    /\ account'[t].files = account[t].files
<1>1. CASE BeginAccounts(pc, types, next)
  BY <1>1 DEF BeginAccounts, TypeOK
<1>2. CASE ConvertPart(pc, types)
  <2>1. PICK u \in types :
           /\ ~account[u].published
           /\ account' = [account EXCEPT ![u] =
                 [published |-> FALSE, parts |-> account[u].parts + 1,
                  objects |-> AtLeast(account[u].objects, account[u].parts + 1),
                  files |-> AtLeast(account[u].files, account[u].parts + 1)]]
    BY <1>2 DEF ConvertPart
  <2>2. /\ account[u] \in [published : BOOLEAN, parts : Nat, objects : Nat, files : Nat]
        /\ AtLeast(account[u].objects, account[u].parts + 1) \in Nat
        /\ AtLeast(account[u].files, account[u].parts + 1) \in Nat
    BY DEF TypeOK, AtLeast
  <2>3. Go(pc)
    BY <1>2 DEF ConvertPart
  <2> QED
    BY <2>1, <2>2, <2>3 DEF TypeOK
<1>3. CASE PublishAccounts(pc, types, next)
  <2>1. PICK u \in types : /\ account[u].parts > 0
                           /\ account' = [account EXCEPT ![u].published = TRUE]
    BY <1>3 DEF PublishAccounts
  <2>2. /\ account' \in [Account -> [published : BOOLEAN, parts : Nat, objects : Nat, files : Nat]]
        /\ account'[u].published
        /\ account'[u].parts = account[u].parts
        /\ account'[u].objects = account[u].objects /\ account'[u].files = account[u].files
        /\ \A t \in Account : t # u => account'[t] = account[t]
    <3>1. account[u] \in [published : BOOLEAN, parts : Nat, objects : Nat, files : Nat]
      BY DEF TypeOK
    <3>2. account' = [account EXCEPT ![u] = [account[u] EXCEPT !.published = TRUE]]
      BY <2>1
    <3> DEFINE done == [account[u] EXCEPT !.published = TRUE]
    <3>3. /\ done \in [published : BOOLEAN, parts : Nat, objects : Nat, files : Nat]
          /\ done.published /\ done.parts = account[u].parts
          /\ done.objects = account[u].objects /\ done.files = account[u].files
      BY <3>1
    <3>4. account' = [account EXCEPT ![u] = done]
      BY <3>2
    <3> HIDE DEF done
    <3> QED
      BY <3>3, <3>4 DEF TypeOK
  <2> DEFINE goes == IF \A t \in types : account'[t].published THEN next ELSE pc
  <2>3. goes \in Pc /\ Go(goes)
    BY <1>3 DEF PublishAccounts
  <2> HIDE DEF goes
  <2> QED
    BY <2>1, <2>2, <2>3
<1> QED
  BY <1>1, <1>2, <1>3

LEMMA AccountsKeepTypes ==
    ASSUME TypeOK, RebuildIndex \/ SkipAccounts \/ ActivateAccounts
    PROVE  TypeOK'
<1>1. CASE RebuildIndex
  BY <1>1, GoKeepsTheRest, ControlKeepsTypes, PcsOfWork DEF RebuildIndex, TypeOK, Core
<1>2. CASE SkipAccounts
  BY <1>2, GoKeepsTheRest, ControlKeepsTypes, PcsOfWork DEF SkipAccounts, TypeOK
<1>3. ASSUME NEW pc \in Pc, NEW types \in SUBSET Account, NEW next \in Pc,
             \/ BeginAccounts(pc, types, next)
             \/ ConvertPart(pc, types)
             \/ PublishAccounts(pc, types, next)
      PROVE  TypeOK'
  <2>1. account' \in [Account -> [published : BOOLEAN, parts : Nat, objects : Nat, files : Nat]]
    BY <1>3, AccountParts
  <2>2. PICK goes \in Pc : Go(goes)
    BY <1>3, AccountParts
  <2> QED
    BY <2>1, <2>2, <1>3, GoKeepsTheRest DEF BeginAccounts, ConvertPart, PublishAccounts, TypeOK, history
<1>5. {"A", "B"} \in SUBSET Account /\ {"C"} \in SUBSET Account
  BY DEF Account
<1>6. CASE ActivateAccounts
  BY <1>3, <1>5, <1>6, PcsOfWork DEF ActivateAccounts
<1> QED
  BY <1>1, <1>2, <1>6

LEMMA OthersKeepTypes ==
    ASSUME TypeOK, Stop \/ (\E s \in Source : Revise(s)) \/ LoseVolume \/ UNCHANGED vars
    PROVE  TypeOK'
<1>1. CASE Stop
  BY <1>1, GoKeepsTheRest, ControlKeepsTypes, PcsOfWork DEF Stop, TypeOK
<1>2. CASE \E s \in Source : Revise(s)
  BY <1>2 DEF Revise, TypeOK, data, File
<1>3. CASE LoseVolume
  <2>1. disk' \in [Source -> File] /\ snapshot' \in [Core -> {None, Partial, "whole"}]
        /\ account' \in [Account -> [published : BOOLEAN, parts : Nat, objects : Nat, files : Nat]]
    BY <1>3 DEF LoseVolume, File, TypeOK
  <2>2. \A f \in Finance : [file |-> None, object |-> mirror[f].object]
                           \in [file : File \cup {Partial}, object : File]
    BY DEF TypeOK, File
  <2>3. mirror' \in [Finance -> [file : File \cup {Partial}, object : File]]
    BY <2>2, <1>3 DEF LoseVolume
  <2> QED
    BY <2>1, <2>3, <1>3, IdleRun DEF LoseVolume, TypeOK
<1>4. CASE UNCHANGED vars
  BY <1>4 DEF vars, data, history, TypeOK, File
<1> QED
  BY <1>1, <1>2, <1>3, <1>4
---------------------------------------------------------------------------
(* The order of a run.                                                     *)

\* What holds of a run holds again when its option and place are kept and the
\* step it goes to asks nothing of the sources.
LEMMA KeepsOrderElsewhere ==
    ASSUME InOrder, run'.option = run.option, overwrote' = overwrote,
           run'.pc \notin CensusPcs \cup MirrorPcs,
           run'.pc \in CorePcs => run.option.core
    PROVE  InOrder'
BY DEF InOrder, CensusPcs, MirrorPcs

LEMMA StartKeepsOrder ==
    ASSUME TypeOK, InOrder, NEW o \in Option, Start(o)
    PROVE  InOrder'
<1>1. /\ run'.option = o /\ overwrote' = (overwrote \/ o.overwrite)
      /\ \/ run'.pc = "fetch" /\ run'.k = 1
         \/ run'.pc = "mirror" /\ run'.k = 2
  BY DEF Start
<1>2. Last' \in {2, 3}
  BY DEF Last
<1>3. o.overwrite => overwrote'
  BY <1>1
<1> QED
  BY <1>1, <1>2, <1>3 DEF InOrder, CensusPcs, MirrorPcs, CorePcs

LEMMA CensusKeepsOrder ==
    ASSUME TypeOK, InOrder, Fetch \/ BeginImport \/ FinishImport
    PROVE  InOrder'
<1>0. /\ Current \in Source /\ run.k \in 1 .. 3 /\ Last \in {2, 3}
      /\ run.pc \in CensusPcs /\ run.k <= Last
  BY OrderOfSources
     DEF TypeOK, Current, Last, Fetch, BeginImport, FinishImport, At, CensusPcs, InOrder
<1>1. CASE Fetch
  <2>1. run'.option = run.option /\ run'.k = run.k /\ run'.pc = "begin" /\ overwrote' = overwrote
    BY <1>1, GoKeepsTheRest, PcsOfWork DEF Fetch, history
  <2>2. Current' = Current /\ Last' = Last
    BY <2>1 DEF Current, Last
  <2>3. source[Current] # None /\ disk'[Current] # None
    BY <1>0, <1>1, ActivationAssumption DEF Fetch, TypeOK
  <2> QED
    BY <2>1, <2>2, <2>3, <1>0 DEF InOrder, CensusPcs, MirrorPcs, CorePcs
<1>2. CASE BeginImport
  <2>1. run'.option = run.option /\ run'.k = run.k /\ run'.pc = "import" /\ overwrote' = overwrote
        /\ disk' = disk
    BY <1>2, GoKeepsTheRest, PcsOfWork DEF BeginImport, history
  <2>2. Current' = Current /\ Last' = Last
    BY <2>1 DEF Current, Last
  <2> QED
    BY <2>1, <2>2, <1>0, <1>2 DEF InOrder, CensusPcs, MirrorPcs, CorePcs, BeginImport, At
<1>3. CASE FinishImport
  <2>1. run'.option = run.option /\ overwrote' = overwrote
        /\ \/ run.k < Last /\ run'.pc = "fetch" /\ run'.k = run.k + 1
           \/ run'.pc = "mirror" /\ run'.k = 2
    <3>1. CASE run.k < Last
      BY <3>1, <1>0, <1>3, GoToKeepsTheRest, PcsOfWork DEF FinishImport, history
    <3>2. CASE ~(run.k < Last)
      BY <3>2, <1>0, <1>3, GoToKeepsTheRest, PcsOfWork DEF FinishImport, history
    <3> QED
      BY <3>1, <3>2
  <2>2. Last' = Last
    BY <2>1 DEF Last
  <2> QED
    BY <2>1, <2>2, <1>0 DEF InOrder, CensusPcs, MirrorPcs, CorePcs
<1> QED
  BY <1>1, <1>2, <1>3

LEMMA MirrorKeepsOrder ==
    ASSUME TypeOK, InOrder, SkipMirror \/ BeginMirror \/ FinishCopy \/ RegisterMirror
    PROVE  InOrder'
<1>0. /\ Current \in Finance /\ run.k \in 2 .. 3 /\ Last \in {2, 3}
      /\ run.pc \in MirrorPcs /\ run.k <= Last
  BY OrderOfSources
     DEF TypeOK, Current, Last, SkipMirror, BeginMirror, FinishCopy, RegisterMirror, At,
         MirrorPcs, InOrder
<1>1. ASSUME NextMirror, overwrote' = overwrote
      PROVE  InOrder'
  <2>1. run'.option = run.option
        /\ \/ run.k < Last /\ run'.pc = "mirror" /\ run'.k = run.k + 1
           \/ run.option.core /\ run'.pc = "treasury"
           \/ ~run.option.core /\ run'.pc = "accounts"
    BY <1>0, <1>1, NextMirrorGoes
  <2>2. Last' = Last
    BY <2>1 DEF Last
  <2> QED
    BY <2>1, <2>2, <1>0, <1>1 DEF InOrder, CensusPcs, MirrorPcs, CorePcs
<1>2. CASE SkipMirror
  BY <1>1, <1>2 DEF SkipMirror, history
<1>3. CASE RegisterMirror
  BY <1>1, <1>3 DEF RegisterMirror, history
<1>4. CASE BeginMirror
  <2>1. run'.option = run.option /\ run'.k = run.k /\ run'.pc = "copy" /\ overwrote' = overwrote
        /\ disk' = disk
    BY <1>4, GoKeepsTheRest, PcsOfWork DEF BeginMirror, history
  <2>2. Current' = Current /\ Last' = Last
    BY <2>1 DEF Current, Last
  <2>3. disk[Current] # None /\ mirror'[Current].object = None
    BY <1>0, <1>4 DEF BeginMirror, MirrorDue, TypeOK
  <2> QED
    BY <2>1, <2>2, <2>3, <1>0 DEF InOrder, CensusPcs, MirrorPcs, CorePcs
<1>5. CASE FinishCopy
  <2>1. run'.option = run.option /\ run'.k = run.k /\ run'.pc = "register"
        /\ overwrote' = overwrote /\ disk' = disk
    BY <1>5, GoKeepsTheRest, PcsOfWork DEF FinishCopy, history
  <2>2. Current' = Current /\ Last' = Last
    BY <2>1 DEF Current, Last
  <2>3. /\ disk[Current] # None /\ mirror'[Current].object = None
        /\ mirror'[Current].file = disk[Current]
    BY <1>0, <1>5 DEF FinishCopy, At, InOrder, TypeOK
  <2> QED
    BY <2>1, <2>2, <2>3, <1>0 DEF InOrder, CensusPcs, MirrorPcs, CorePcs
<1> QED
  BY <1>2, <1>3, <1>4, <1>5

LEMMA TheRestKeepsOrder ==
    ASSUME TypeOK, InOrder,
           \/ \E c \in Core : \/ SkipCore(c) \/ BeginSnapshot(c)
                              \/ FinishSnapshot(c) \/ IngestCore(c)
           \/ RebuildIndex \/ SkipAccounts \/ ActivateAccounts
           \/ Stop \/ (\E s \in Source : Revise(s)) \/ LoseVolume \/ UNCHANGED vars
    PROVE  InOrder'
<1>1. ASSUME NEW c \in Core,
             SkipCore(c) \/ BeginSnapshot(c) \/ FinishSnapshot(c) \/ IngestCore(c)
      PROVE  InOrder'
  <2>1. /\ run'.option = run.option /\ overwrote' = overwrote
        /\ run'.pc \in {c, Writing(c), AfterCore(c)}
    BY <1>1, GoKeepsTheRest, PcsOfWork
       DEF SkipCore, BeginSnapshot, FinishSnapshot, IngestCore, history
  <2>2. run.pc \in CorePcs
    BY <1>1 DEF SkipCore, BeginSnapshot, FinishSnapshot, IngestCore, At, Core, Writing, CorePcs
  <2>3. run'.pc \notin CensusPcs \cup MirrorPcs
    BY <2>1 DEF Core, Writing, AfterCore, CensusPcs, MirrorPcs
  <2> QED
    BY <2>1, <2>2, <2>3, KeepsOrderElsewhere DEF InOrder
<1>2. CASE RebuildIndex \/ SkipAccounts \/ ActivateAccounts \/ Stop
  <2>1. /\ run'.option = run.option /\ overwrote' = overwrote
        /\ run'.pc \in {"accounts", "done", "importAB", "accountsC", "importC", "failed"}
    <3>1. ASSUME NEW pc \in Pc, NEW types \in SUBSET Account, NEW next \in Pc,
                 \/ BeginAccounts(pc, types, next)
                 \/ ConvertPart(pc, types)
                 \/ PublishAccounts(pc, types, next)
          PROVE  run'.option = run.option /\ overwrote' = overwrote /\ run'.pc \in {pc, next}
      <4> DEFINE goes == IF \A t \in types : account'[t].published THEN next ELSE pc
      <4>1. goes \in {pc, next} /\ (Go(next) \/ Go(pc) \/ Go(goes))
        BY <3>1 DEF BeginAccounts, ConvertPart, PublishAccounts
      <4> HIDE DEF goes
      <4> QED
        BY <4>1, <3>1, GoKeepsTheRest DEF BeginAccounts, ConvertPart, PublishAccounts, history
    <3>2. {"A", "B"} \in SUBSET Account /\ {"C"} \in SUBSET Account
      BY DEF Account
    <3>3. CASE ActivateAccounts
      BY <3>1, <3>2, <3>3, PcsOfWork DEF ActivateAccounts
    <3> QED
      BY <1>2, <3>3, GoKeepsTheRest, PcsOfWork DEF RebuildIndex, SkipAccounts, Stop, history
  <2> QED
    BY <2>1, KeepsOrderElsewhere DEF CensusPcs, MirrorPcs, CorePcs
<1>3. CASE (\E s \in Source : Revise(s)) \/ UNCHANGED vars
  <2>1. run' = run /\ overwrote' = overwrote /\ disk' = disk /\ mirror' = mirror
    BY <1>3 DEF Revise, vars, data, history
  <2> QED
    BY <2>1 DEF InOrder, Last, Current
<1>4. CASE LoseVolume
  BY <1>4, IdleRun DEF LoseVolume, InOrder, CensusPcs, MirrorPcs, CorePcs
<1> QED
  BY <1>1, <1>2, <1>3, <1>4
---------------------------------------------------------------------------
(* What came from an archive.                                              *)

LEMMA SameFilesKeepArchive ==
    ASSUME OfTheArchive, UNCHANGED <<disk, release, mirror, losses>>, overwrote => overwrote'
    PROVE  OfTheArchive'
BY DEF OfTheArchive

LEMMA CensusKeepsArchive ==
    ASSUME TypeOK, InOrder, OfTheArchive, Fetch \/ BeginImport \/ FinishImport
    PROVE  OfTheArchive'
<1>0. Current \in Source
  BY OrderOfSources DEF TypeOK, Current
<1>1. CASE Fetch
  <2>1. mirror' = mirror /\ release' = release /\ overwrote' = overwrote /\ losses' = losses
    BY <1>1 DEF Fetch, history
  <2>2. ASSUME ~overwrote, NEW s \in Source, disk[s] # None
        PROVE  disk'[s] = disk[s]
    BY <1>0, <1>1, <2>2 DEF Fetch, TypeOK, InOrder
  <2>3. Finance \subseteq Source
    BY DEF Finance, Source
  <2> QED
    BY <2>1, <2>2, <2>3 DEF OfTheArchive
<1>2. CASE BeginImport
  <2>1. /\ mirror' = mirror /\ disk' = disk /\ overwrote' = overwrote /\ losses' = losses
        /\ \A s \in Source : release'[s].status = "READY" => release'[s] = release[s]
    BY <1>0, <1>2 DEF BeginImport, history, TypeOK
  <2> QED
    BY <2>1 DEF OfTheArchive
<1>3. CASE FinishImport
  <2>1. /\ mirror' = mirror /\ disk' = disk /\ overwrote' = overwrote /\ losses' = losses
        /\ disk[Current] # None /\ release'[Current].edition = disk[Current]
        /\ \A s \in Source \ {Current} : release'[s] = release[s]
    BY <1>0, <1>3 DEF FinishImport, history, TypeOK, InOrder, At
  <2> QED
    BY <2>1 DEF OfTheArchive
<1> QED
  BY <1>1, <1>2, <1>3

LEMMA MirrorKeepsArchive ==
    ASSUME TypeOK, InOrder, OfTheArchive, SkipMirror \/ BeginMirror \/ FinishCopy \/ RegisterMirror
    PROVE  OfTheArchive'
<1>0. Current \in Finance
  BY OrderOfSources
     DEF TypeOK, InOrder, Current, SkipMirror, BeginMirror, FinishCopy, RegisterMirror, At, MirrorPcs
<1>1. CASE SkipMirror
  BY <1>1, SameFilesKeepArchive DEF SkipMirror, data, history
<1>2. CASE BeginMirror \/ FinishCopy
  <2>1. /\ disk' = disk /\ release' = release /\ overwrote' = overwrote /\ losses' = losses
        /\ mirror'[Current].object = None
        /\ \A f \in Finance \ {Current} : mirror'[f] = mirror[f]
    BY <1>0, <1>2 DEF BeginMirror, FinishCopy, MirrorDue, history, TypeOK, InOrder, At
  <2> QED
    BY <2>1 DEF OfTheArchive
<1>3. CASE RegisterMirror
  <2>1. /\ disk' = disk /\ release' = release /\ overwrote' = overwrote /\ losses' = losses
        /\ disk[Current] # None
        /\ mirror'[Current].file = disk[Current] /\ mirror'[Current].object = disk[Current]
        /\ \A f \in Finance \ {Current} : mirror'[f] = mirror[f]
    BY <1>0, <1>3 DEF RegisterMirror, history, TypeOK, InOrder, At
  <2> QED
    BY <2>1 DEF OfTheArchive
<1> QED
  BY <1>1, <1>2, <1>3

LEMMA TheRestKeepsArchive ==
    ASSUME TypeOK, OfTheArchive,
           \/ \E o \in Option : Start(o)
           \/ \E c \in Core : \/ SkipCore(c) \/ BeginSnapshot(c)
                              \/ FinishSnapshot(c) \/ IngestCore(c)
           \/ RebuildIndex \/ SkipAccounts \/ ActivateAccounts
           \/ Stop \/ (\E s \in Source : Revise(s)) \/ LoseVolume \/ UNCHANGED vars
    PROVE  OfTheArchive'
<1>1. CASE LoseVolume
  <2>1. losses' # 0
    BY <1>1 DEF LoseVolume, TypeOK
  <2> QED
    BY <2>1 DEF OfTheArchive
<1>2. CASE \E c \in Core : \/ SkipCore(c) \/ BeginSnapshot(c)
                           \/ FinishSnapshot(c) \/ IngestCore(c)
  BY <1>2, SameFilesKeepArchive
     DEF SkipCore, BeginSnapshot, FinishSnapshot, IngestCore, data, history
<1>3. CASE RebuildIndex \/ SkipAccounts \/ ActivateAccounts \/ Stop
  <2>1. UNCHANGED <<disk, release, mirror, losses>> /\ overwrote' = overwrote
    <3>1. ASSUME NEW pc, NEW types, NEW next,
                 \/ BeginAccounts(pc, types, next)
                 \/ ConvertPart(pc, types)
                 \/ PublishAccounts(pc, types, next)
          PROVE  UNCHANGED <<disk, release, mirror, losses>> /\ overwrote' = overwrote
      BY <3>1 DEF BeginAccounts, ConvertPart, PublishAccounts, history
    <3>2. CASE ActivateAccounts
      BY <3>1, <3>2 DEF ActivateAccounts
    <3> QED
      BY <1>3, <3>2 DEF RebuildIndex, SkipAccounts, Stop, data, history
  <2> QED
    BY <2>1, SameFilesKeepArchive
<1>4. CASE (\E s \in Source : Revise(s)) \/ UNCHANGED vars
  BY <1>4, SameFilesKeepArchive DEF Revise, vars, data, history
<1>5. ASSUME NEW o \in Option, Start(o)
      PROVE  OfTheArchive'
  <2>1. overwrote => overwrote'
    BY <1>5 DEF Start
  <2> QED
    BY <2>1, <1>5, SameFilesKeepArchive DEF Start, data
<1> QED
  BY <1>1, <1>2, <1>3, <1>4, <1>5

---------------------------------------------------------------------------
(* The parts of the accounts and their objects.                            *)

LEMMA TheRestKeepsParts ==
    ASSUME TypeOK, PartsRegistered,
           \/ \E o \in Option : Start(o)
           \/ Fetch \/ BeginImport \/ FinishImport
           \/ SkipMirror \/ BeginMirror \/ FinishCopy \/ RegisterMirror
           \/ \E c \in Core : \/ SkipCore(c) \/ BeginSnapshot(c)
                              \/ FinishSnapshot(c) \/ IngestCore(c)
           \/ RebuildIndex \/ SkipAccounts \/ Stop \/ (\E s \in Source : Revise(s))
           \/ LoseVolume \/ UNCHANGED vars
    PROVE  PartsRegistered'
<1>1. CASE LoseVolume
  <2>1. losses' # 0
    BY <1>1 DEF LoseVolume, TypeOK
  <2>2. \A t \in Account : /\ account'[t].published = account[t].published
                           /\ account'[t].parts = account[t].parts
                           /\ account'[t].objects = account[t].objects
    BY <1>1 DEF LoseVolume, TypeOK
  <2> QED
    BY <2>1, <2>2 DEF PartsRegistered
<1>2. CASE UNCHANGED <<account, losses>>
  BY <1>2 DEF PartsRegistered
<1>3. ASSUME ~LoseVolume
      PROVE  UNCHANGED <<account, losses>>
  BY <1>3 DEF Start, Fetch, BeginImport, FinishImport, SkipMirror, BeginMirror, FinishCopy,
       RegisterMirror, SkipCore, BeginSnapshot, FinishSnapshot, IngestCore, RebuildIndex,
       SkipAccounts, Stop, Revise, vars, data, history
<1> QED
  BY <1>1, <1>2, <1>3

\* An account step of a run is on types of the archive at its place.
LEMMA AccountSteps ==
    ASSUME ActivateAccounts
    PROVE  \/ \E types \in {{"A", "B"}} :
                 \/ BeginAccounts("accounts", types, "importAB") /\ run.pc = "accounts"
                 \/ ConvertPart("importAB", types) /\ run.pc = "importAB"
                 \/ PublishAccounts("importAB", types, "accountsC") /\ run.pc = "importAB"
           \/ \E types \in {{"C"}} :
                 \/ BeginAccounts("accountsC", types, "importC") /\ run.pc = "accountsC"
                 \/ ConvertPart("importC", types) /\ run.pc = "importC"
                 \/ PublishAccounts("importC", types, "done") /\ run.pc = "importC"
BY DEF ActivateAccounts, BeginAccounts, ConvertPart, PublishAccounts, At

LEMMA AccountsKeepParts ==
    ASSUME TypeOK, PartsRegistered, ActivateAccounts
    PROVE  PartsRegistered'
<1>1. ASSUME NEW pc \in Pc, NEW types \in SUBSET Account, NEW next \in Pc,
             \/ BeginAccounts(pc, types, next)
             \/ ConvertPart(pc, types)
             \/ PublishAccounts(pc, types, next)
      PROVE  PartsRegistered'
  <2>1. losses' = losses
    BY <1>1 DEF BeginAccounts, ConvertPart, PublishAccounts, history
  <2>2. \A t \in Account :
           account[t] \in [published : BOOLEAN, parts : Nat, objects : Nat, files : Nat]
    BY DEF TypeOK
  <2>3. ASSUME NEW t \in Account
        PROVE  /\ account'[t].parts <= account'[t].objects
               /\ account'[t].published => 0 < account'[t].parts
               /\ losses = 0 => account'[t].objects <= account'[t].files
    <3>1. /\ account[t].parts <= account[t].objects
          /\ account[t].published => 0 < account[t].parts
          /\ losses = 0 => account[t].objects <= account[t].files
      BY DEF PartsRegistered
    <3>2. account[t].parts \in Nat /\ account[t].objects \in Nat /\ account[t].files \in Nat
      BY <2>2
    <3> QED
      BY <3>1, <3>2, <1>1, AccountParts DEF AtLeast
  <2> QED
    BY <2>1, <2>3 DEF PartsRegistered
<1>2. {"A", "B"} \in SUBSET Account /\ {"C"} \in SUBSET Account
  BY DEF Account
<1> QED
  BY <1>1, <1>2, AccountSteps, PcsOfWork

---------------------------------------------------------------------------
(* What a run has seen to.                                                 *)

LEMMA ImportedStays ==
    ASSUME UNCHANGED <<disk, release>>
    PROVE  \A s : (Imported(s) => Imported(s)') /\ (Ready(s) => Ready(s)')
BY DEF Imported, Ready

\* A run that has just begun, or has ended before its end, has seen to nothing.
LEMMA NothingSeen ==
    ASSUME run'.pc \in {"idle", "failed"} \/ (run'.pc = "fetch" /\ run'.k = 1)
    PROVE  StagesDone'
BY DEF StagesDone, CensusSeen, MirrorsSeen, CoreSeen, AccountsSeen, Past,
       CensusPcs, MirrorPcs, CorePcs, AccountPcs

LEMMA StartKeepsStages ==
    ASSUME NEW o \in Option, Start(o)
    PROVE  StagesDone'
<1>1. /\ run'.option = o /\ release' = release /\ disk' = disk
      /\ \/ run'.pc = "fetch" /\ run'.k = 1
         \/ run'.pc = "mirror" /\ run'.k = 2 /\ ~CensusMissing(o)
  BY DEF Start, data
<1>2. ~CensusMissing(o) =>
          /\ Imported("units")' /\ Imported("finance22")'
          /\ o.sample => Ready("finance24")'
  BY <1>1 DEF CensusMissing, NationalReady, Ready, Imported
<1> QED
  BY <1>1, <1>2, NothingSeen
     DEF StagesDone, CensusSeen, MirrorsSeen, CoreSeen, AccountsSeen, Past,
         CensusPcs, MirrorPcs, CorePcs, AccountPcs

LEMMA CensusKeepsStages ==
    ASSUME TypeOK, InOrder, StagesDone, Fetch \/ BeginImport \/ FinishImport
    PROVE  StagesDone'
<1>0. /\ Current \in Source /\ run.k \in 1 .. 3 /\ Last \in {2, 3}
      /\ run.pc \in CensusPcs /\ run.k <= Last
      /\ (run.k = 1 <=> Current = "units") /\ (run.k = 2 <=> Current = "finance22")
      /\ (run.k = 3 <=> Current = "finance24")
      /\ "units" \in Source /\ "finance22" \in Source /\ "finance24" \in Source
  BY OrderOfSources
     DEF TypeOK, Current, Last, Fetch, BeginImport, FinishImport, At, CensusPcs, InOrder, Source
<1>1. /\ run.k > 1 => Imported("units")
      /\ run.k > 2 => Imported("finance22")
  BY <1>0 DEF StagesDone, CensusSeen
<1>2. CASE Fetch \/ BeginImport
  <2>1. run'.k = run.k /\ run'.pc \in {"begin", "import"}
    BY <1>2, GoKeepsTheRest, PcsOfWork DEF Fetch, BeginImport
  <2>2. ASSUME NEW s \in Source, s # Current
        PROVE  disk'[s] = disk[s] /\ release'[s] = release[s]
    BY <1>0, <1>2, <2>2 DEF Fetch, BeginImport, TypeOK
  <2>3. /\ run.k > 1 => Imported("units")'
        /\ run.k > 2 => Imported("finance22")'
    BY <1>0, <1>1, <2>2 DEF Imported
  <2> QED
    BY <2>1, <2>3 DEF StagesDone, CensusSeen, MirrorsSeen, CoreSeen, AccountsSeen, Past,
                      MirrorPcs, CorePcs, AccountPcs
<1>3. CASE FinishImport
  <2>1. /\ disk' = disk
        /\ \A s \in Source \ {Current} : release'[s] = release[s]
        /\ release'[Current].status = "READY" /\ release'[Current].edition = disk[Current]
    BY <1>0, <1>3 DEF FinishImport, TypeOK
  <2>2. /\ run'.option = run.option
        /\ \/ run.k < Last /\ run'.pc = "fetch" /\ run'.k = run.k + 1
           \/ run.k = Last /\ run'.pc = "mirror" /\ run'.k = 2
    <3>1. CASE run.k < Last
      BY <3>1, <1>0, <1>3, GoToKeepsTheRest, PcsOfWork DEF FinishImport
    <3>2. CASE ~(run.k < Last)
      BY <3>2, <1>0, <1>3, GoToKeepsTheRest, PcsOfWork DEF FinishImport
    <3> QED
      BY <3>1, <3>2
  <2>3. /\ run.k >= 1 => Imported("units")'
        /\ run.k >= 2 => Imported("finance22")'
    <3>1. ASSUME NEW s \in Source, s = Current \/ Imported(s)
          PROVE  Imported(s)'
      BY <2>1, <3>1 DEF Imported
    <3> QED
      BY <3>1, <1>0, <1>1
  <2>4. run.k = Last /\ run.option.sample => Ready("finance24")'
    BY <2>1, <1>0 DEF Ready, Last
  <2> QED
    BY <2>2, <2>3, <2>4, <1>0
       DEF StagesDone, CensusSeen, MirrorsSeen, CoreSeen, AccountsSeen, Past,
           CensusPcs, MirrorPcs, CorePcs, AccountPcs
<1> QED
  BY <1>2, <1>3

\* A mirror is behind the run once it is registered, or was not due.
LEMMA MirrorBehind ==
    ASSUME TypeOK, InOrder, CensusSeen, SkipMirror \/ RegisterMirror
    PROVE  /\ disk[Current] # None => mirror'[Current].object # None
           /\ \A f \in Finance : mirror[f].object # None => mirror'[f].object # None
<1>1. /\ Current \in Finance /\ run.k <= Last /\ run.k \in 2 .. 3 /\ run.pc \in {"mirror", "register"}
      /\ Imported("units") /\ Imported("finance22")
      /\ run.option.sample => Ready("finance24")
  BY OrderOfSources
     DEF TypeOK, InOrder, Current, SkipMirror, RegisterMirror, At, MirrorPcs, CensusSeen, Past
<1>2. release[Current].status = "READY"
  <2>1. \/ Current = "finance22"
        \/ Current = "finance24" /\ run.option.sample
    BY <1>1, OrderOfSources DEF Current, Last
  <2> QED
    BY <2>1, <1>1 DEF Imported, Ready
<1>3. CASE SkipMirror
  BY <1>2, <1>3 DEF SkipMirror, MirrorDue, data
<1>4. CASE RegisterMirror
  <2>1. /\ disk[Current] # None /\ mirror[Current].file = disk[Current]
        /\ mirror' = [mirror EXCEPT ![Current].object = mirror[Current].file]
    BY <1>4 DEF RegisterMirror, InOrder, At
  <2>2. mirror'[Current].object = disk[Current]
        /\ \A f \in Finance \ {Current} : mirror'[f] = mirror[f]
    BY <2>1, <1>1 DEF TypeOK
  <2> QED
    BY <2>1, <2>2
<1> QED
  BY <1>3, <1>4

LEMMA MirrorKeepsStages ==
    ASSUME TypeOK, InOrder, StagesDone, SkipMirror \/ BeginMirror \/ FinishCopy \/ RegisterMirror
    PROVE  StagesDone'
<1>0. /\ run.pc \in MirrorPcs /\ run.k <= Last /\ run.k \in 2 .. 3 /\ Last \in {2, 3}
      /\ UNCHANGED <<disk, release>>
      /\ Imported("units") /\ Imported("finance22")
      /\ run.option.sample => Ready("finance24")
      /\ run.k > 2 /\ disk["finance22"] # None => mirror["finance22"].object # None
      /\ CensusSeen
  BY DEF SkipMirror, BeginMirror, FinishCopy, RegisterMirror, At, MirrorPcs, InOrder, TypeOK,
         StagesDone, CensusSeen, MirrorsSeen, Past, data, Last
<1>1. CASE BeginMirror \/ FinishCopy
  <2>1. run'.option = run.option /\ run'.k = run.k /\ run'.pc \in {"copy", "register"}
    BY <1>1, GoKeepsTheRest, PcsOfWork DEF BeginMirror, FinishCopy
  <2>2. \A f \in Finance : mirror'[f].object = mirror[f].object
    BY <1>1 DEF BeginMirror, FinishCopy, TypeOK
  <2>3. mirror'["finance22"].object = mirror["finance22"].object
    BY <2>2 DEF Finance
  <2> QED
    BY <2>1, <2>3, <1>0, ImportedStays
       DEF StagesDone, CensusSeen, MirrorsSeen, CoreSeen, AccountsSeen, Past,
           CensusPcs, MirrorPcs, CorePcs, AccountPcs
<1>2. CASE SkipMirror \/ RegisterMirror
  <2>1. NextMirror
    BY <1>2 DEF SkipMirror, RegisterMirror
  <2>2. /\ run'.option = run.option
        /\ \/ run.k < Last /\ run'.pc = "mirror" /\ run'.k = run.k + 1
           \/ ~(run.k < Last) /\ run'.pc = "treasury"
           \/ ~(run.k < Last) /\ ~run.option.core /\ run'.pc = "accounts"
    BY <2>1, <1>0, GoToKeepsTheRest, PcsOfWork DEF NextMirror
  <2>3. /\ disk[Current] # None => mirror'[Current].object # None
        /\ \A f \in Finance : mirror[f].object # None => mirror'[f].object # None
    BY <1>0, <1>2, MirrorBehind
  <2>4. /\ disk["finance22"] # None => mirror'["finance22"].object # None
        /\ run.k = 3 /\ disk["finance24"] # None => mirror'["finance24"].object # None
    BY <2>3, <1>0, OrderOfSources DEF Current, Finance
  <2>5. ~(run.k < Last) =>
            \A f \in Mirrored(run.option) : disk[f] # None => mirror'[f].object # None
    BY <2>4, <1>0 DEF Mirrored, Last, Finance
  <2>6. Mirrored(run.option)' = Mirrored(run.option)
    BY <2>2 DEF Mirrored
  <2>7. CensusSeen' /\ MirrorsSeen'
    BY <2>2, <2>4, <2>5, <2>6, <1>0, ImportedStays
       DEF CensusSeen, MirrorsSeen, Past, CensusPcs, MirrorPcs, CorePcs, AccountPcs
  <2>8. CoreSeen' /\ AccountsSeen'
    BY <2>2 DEF CoreSeen, AccountsSeen, Past, AccountPcs
  <2> QED
    BY <2>7, <2>8 DEF StagesDone
<1> QED
  BY <1>1, <1>2

\* Past the mirrors nothing of them or of the Census changes.
LEMMA LaterKeepsMirrors ==
    ASSUME StagesDone, UNCHANGED <<disk, release, mirror>>, run'.option = run.option,
           run.pc \in CorePcs \cup AccountPcs, run'.pc \in CorePcs \cup AccountPcs \cup {"done"}
    PROVE  CensusSeen' /\ MirrorsSeen'
<1>1. /\ Imported("units") /\ Imported("finance22")
      /\ run.option.sample => Ready("finance24")
      /\ \A f \in Mirrored(run.option) : disk[f] # None => mirror[f].object # None
  BY DEF StagesDone, CensusSeen, MirrorsSeen, Past
<1>2. Mirrored(run.option)' = Mirrored(run.option)
  BY DEF Mirrored
<1>3. run'.pc \notin CensusPcs \cup MirrorPcs
  BY DEF CensusPcs, MirrorPcs, CorePcs, AccountPcs
<1> QED
  BY <1>1, <1>2, <1>3, ImportedStays DEF CensusSeen, MirrorsSeen

LEMMA CoreKeepsStages ==
    ASSUME TypeOK, InOrder, StagesDone, NEW c \in Core,
           SkipCore(c) \/ BeginSnapshot(c) \/ FinishSnapshot(c) \/ IngestCore(c)
    PROVE  StagesDone'
<1>0. /\ UNCHANGED <<disk, release, mirror>> /\ run.pc \in CorePcs
      /\ run.option.core /\ run'.option = run.option
  <2>1. run.pc \in CorePcs
    BY DEF SkipCore, BeginSnapshot, FinishSnapshot, IngestCore, At, Core, Writing, CorePcs
  <2> QED
    BY <2>1, GoKeepsTheRest, PcsOfWork
       DEF SkipCore, BeginSnapshot, FinishSnapshot, IngestCore, InOrder, data
<1>1. \A d \in Core : rows[d] => rows'[d]
  BY DEF SkipCore, BeginSnapshot, FinishSnapshot, IngestCore, TypeOK, data
<1>2. CASE c = "treasury"
  <2>1. \/ run'.pc \in {"treasury", "writeTreasury"}
        \/ run'.pc = "omb" /\ rows'["treasury"]
    BY <1>2, GoKeepsTheRest, PcsOfWork
       DEF SkipCore, BeginSnapshot, FinishSnapshot, IngestCore, TypeOK, data, Writing, AfterCore, Core
  <2> QED
    BY <2>1, <1>0, LaterKeepsMirrors DEF StagesDone, CoreSeen, AccountsSeen, Past, CorePcs, AccountPcs
<1>3. CASE c = "omb"
  <2>1. rows'["treasury"]
    BY <1>0, <1>1, <1>3
       DEF SkipCore, BeginSnapshot, FinishSnapshot, IngestCore, At, Writing, StagesDone, CoreSeen,
           Past, Core
  <2>2. \/ run'.pc \in {"omb", "writeOMB"}
        \/ run'.pc = "index" /\ rows'["omb"]
    BY <1>3, GoKeepsTheRest, PcsOfWork
       DEF SkipCore, BeginSnapshot, FinishSnapshot, IngestCore, TypeOK, data, Writing, AfterCore, Core
  <2> QED
    BY <2>1, <2>2, <1>0, LaterKeepsMirrors
       DEF StagesDone, CoreSeen, AccountsSeen, Past, CorePcs, AccountPcs
<1> QED
  BY <1>2, <1>3 DEF Core

\* A type whose parts are on disk is repaired when it is published.
LEMMA PublishedIsRepaired ==
    ASSUME TypeOK', PartsRegistered', NEW t \in Account,
           account'[t].published, account'[t].parts <= account'[t].files
    PROVE  Repaired(t)'
<1>1. /\ account'[t].parts <= account'[t].objects /\ 0 < account'[t].parts
      /\ losses' = 0 => account'[t].objects <= account'[t].files
  BY DEF PartsRegistered
<1>2. /\ account'[t].parts \in Nat /\ account'[t].objects \in Nat /\ account'[t].files \in Nat
      /\ losses' \in Nat
  BY DEF TypeOK
<1> QED
  BY <1>1, <1>2 DEF Repaired, AccountReady

\* The steps of an archive's conversion keep its parts on disk, and end with
\* all its types published.
LEMMA ConversionKeepsFiles ==
    ASSUME TypeOK, NEW pc \in Pc, NEW types \in SUBSET Account, NEW next \in Pc,
           \/ BeginAccounts(pc, types, next)
           \/ ConvertPart(pc, types)
           \/ PublishAccounts(pc, types, next),
           \/ BeginAccounts(pc, types, next)
           \/ \A t \in types : account[t].parts <= account[t].files
    PROVE  /\ run'.option = run.option /\ losses' = losses
           /\ UNCHANGED <<disk, release, mirror, rows, index>>
           /\ \A t \in types : account'[t].parts <= account'[t].files
           /\ \A t \in Account \ types : account'[t] = account[t]
           /\ BeginAccounts(pc, types, next) => run'.pc = next
           /\ ConvertPart(pc, types) \/ PublishAccounts(pc, types, next) =>
                 \/ run'.pc = pc
                 \/ run'.pc = next /\ \A t \in types : account'[t].published
<1>1. /\ losses' = losses /\ UNCHANGED <<disk, release, mirror, rows, index>>
  BY DEF BeginAccounts, ConvertPart, PublishAccounts, history
<1>2. \A t \in Account \ types : account'[t] = account[t]
  BY AccountParts
<1>3. ASSUME NEW t \in types
      PROVE  account'[t].parts <= account'[t].files
  <2>0. t \in Account
    OBVIOUS
  <2>1. account[t].parts \in Nat /\ account[t].files \in Nat
    BY <2>0 DEF TypeOK
  <2>2. CASE BeginAccounts(pc, types, next)
    <3>1. account' = [u \in Account |->
                         IF u \in types
                         THEN [account[u] EXCEPT !.published = FALSE, !.parts = 0]
                         ELSE account[u]]
      BY <2>2 DEF BeginAccounts
    <3>2. account'[t] = [account[t] EXCEPT !.published = FALSE, !.parts = 0]
      BY <3>1, <2>0
    <3>3. account[t] \in [published : BOOLEAN, parts : Nat, objects : Nat, files : Nat]
      BY <2>0 DEF TypeOK
    <3>4. account'[t].parts = 0 /\ account'[t].files = account[t].files
      BY <3>2, <3>3
    <3> QED
      BY <3>4, <2>1
  <2>3. CASE ~BeginAccounts(pc, types, next)
    <3>1. account[t].parts <= account[t].files
      BY <2>3
    <3> QED
      BY <3>1, <2>0, <2>1, <2>3, AccountParts DEF AtLeast
  <2> QED
    BY <2>2, <2>3
<1>4. BeginAccounts(pc, types, next) => run'.option = run.option /\ run'.pc = next
  BY GoKeepsTheRest DEF BeginAccounts
<1>5. ConvertPart(pc, types) => run'.option = run.option /\ run'.pc = pc
  BY GoKeepsTheRest DEF ConvertPart
<1>6. CASE PublishAccounts(pc, types, next)
  <2>1. CASE \A t \in types : account'[t].published
    <3>1. Go(next)
      BY <2>1, <1>6 DEF PublishAccounts
    <3> QED
      BY <3>1, <2>1, <1>1, <1>2, <1>3, <1>4, <1>5, GoKeepsTheRest
  <2>2. CASE ~(\A t \in types : account'[t].published)
    <3>1. Go(pc)
      BY <2>2, <1>6 DEF PublishAccounts
    <3> QED
      BY <3>1, <1>1, <1>2, <1>3, <1>4, <1>5, GoKeepsTheRest
  <2> QED
    BY <2>1, <2>2
<1> QED
  BY <1>1, <1>2, <1>3, <1>4, <1>5, <1>6

LEMMA AccountsKeepStages ==
    ASSUME TypeOK, InOrder, PartsRegistered, StagesDone,
           RebuildIndex \/ SkipAccounts \/ ActivateAccounts
    PROVE  StagesDone'
<1>1. CASE RebuildIndex
  <2>1. /\ run.option.core => rows["treasury"] /\ rows["omb"]
        /\ index' = rows["omb"] /\ UNCHANGED data /\ run.pc = "index"
    BY <1>1 DEF RebuildIndex, At, StagesDone, CoreSeen, Past
  <2>2. run'.option = run.option /\ run'.pc = "accounts"
    BY <1>1, GoKeepsTheRest, PcsOfWork DEF RebuildIndex
  <2> QED
    BY <2>1, <2>2, LaterKeepsMirrors
       DEF StagesDone, CoreSeen, AccountsSeen, Past, CorePcs, AccountPcs, data
<1>2. CASE SkipAccounts
  <2>1. /\ run'.option = run.option /\ run'.pc = "done" /\ run.pc = "accounts"
        /\ UNCHANGED <<data, index, losses>>
        /\ run.option.accounts => \A t \in Account : AccountReady(t)
    BY <1>2, GoKeepsTheRest, PcsOfWork DEF SkipAccounts, SourcesReady, At, history
  <2>2. ASSUME NEW t \in Account, AccountReady(t)
        PROVE  Repaired(t)'
    <3>1. account[t].published /\ account[t].parts <= account[t].files
      BY <2>2 DEF AccountReady, PartsRegistered, TypeOK
    <3>2. TypeOK' /\ PartsRegistered'
      BY <1>2, AccountsKeepTypes, TheRestKeepsParts
    <3> QED
      BY <3>1, <3>2, <2>1, PublishedIsRepaired DEF data
  <2>3. CensusSeen' /\ MirrorsSeen'
    BY <2>1, LaterKeepsMirrors DEF data, AccountPcs
  <2>4. CoreSeen' /\ AccountsSeen'
    BY <2>1, <2>2 DEF StagesDone, CoreSeen, AccountsSeen, Past, AccountPcs, Account, data
  <2> QED
    BY <2>3, <2>4 DEF StagesDone
<1>3. CASE ActivateAccounts
  <2>1. {"A", "B"} \in SUBSET Account /\ {"C"} \in SUBSET Account
    BY DEF Account
  <2>2. TypeOK' /\ PartsRegistered'
    BY <1>3, AccountsKeepTypes, AccountsKeepParts
  <2>3. ASSUME UNCHANGED <<disk, release, mirror, rows, index>>, run'.option = run.option,
               run.pc \in AccountPcs, run'.pc \in AccountPcs \cup {"done"}, AccountsSeen'
        PROVE  StagesDone'
    BY <2>3, LaterKeepsMirrors DEF StagesDone, CoreSeen, Past, AccountPcs
  <2>4. ASSUME NEW types, types = {"A", "B"},
                 \/ BeginAccounts("accounts", types, "importAB") /\ run.pc = "accounts"
                 \/ ConvertPart("importAB", types) /\ run.pc = "importAB"
                 \/ PublishAccounts("importAB", types, "accountsC") /\ run.pc = "importAB"
        PROVE  StagesDone'
    <3>1. run.pc = "importAB" => \A t \in types : account[t].parts <= account[t].files
      BY <2>4 DEF StagesDone, AccountsSeen
    <3>2. /\ run'.option = run.option /\ losses' = losses
          /\ UNCHANGED <<disk, release, mirror, rows, index>>
          /\ \A t \in types : account'[t].parts <= account'[t].files
          /\ \/ run'.pc = "importAB"
             \/ run'.pc = "accountsC" /\ \A t \in types : account'[t].published
      <4>1. CASE BeginAccounts("accounts", types, "importAB")
        BY <2>1, <2>4, <4>1, ConversionKeepsFiles, PcsOfWork
      <4>2. CASE /\ run.pc = "importAB"
                 /\ \/ ConvertPart("importAB", types)
                    \/ PublishAccounts("importAB", types, "accountsC")
        <5>1. /\ types \in SUBSET Account /\ "importAB" \in Pc /\ "accountsC" \in Pc
              /\ \A t \in types : account[t].parts <= account[t].files
          BY <2>1, <2>4, <3>1, <4>2, PcsOfWork
        <5>2. CASE ConvertPart("importAB", types)
          BY <4>2, <5>1, <5>2, ConversionKeepsFiles
        <5>3. CASE PublishAccounts("importAB", types, "accountsC")
          BY <4>2, <5>1, <5>3, ConversionKeepsFiles
        <5> QED
          BY <4>2, <5>2, <5>3
      <4> QED
        BY <2>4, <4>1, <4>2
    <3>3. run'.pc = "accountsC" => Repaired("A")' /\ Repaired("B")'
      BY <2>2, <2>4, <3>2, PublishedIsRepaired DEF Account
    <3>4. AccountsSeen'
      BY <2>4, <3>2, <3>3 DEF AccountsSeen, Past
    <3> QED
      BY <2>3, <2>4, <3>2, <3>4 DEF AccountPcs
  <2>5. ASSUME NEW types, types = {"C"},
                 \/ BeginAccounts("accountsC", types, "importC") /\ run.pc = "accountsC"
                 \/ ConvertPart("importC", types) /\ run.pc = "importC"
                 \/ PublishAccounts("importC", types, "done") /\ run.pc = "importC"
        PROVE  StagesDone'
    <3>1. run.pc = "importC" => \A t \in types : account[t].parts <= account[t].files
      BY <2>5 DEF StagesDone, AccountsSeen
    <3>2. /\ run'.option = run.option /\ losses' = losses
          /\ UNCHANGED <<disk, release, mirror, rows, index>>
          /\ \A t \in types : account'[t].parts <= account'[t].files
          /\ account'["A"] = account["A"] /\ account'["B"] = account["B"]
          /\ \/ run'.pc = "importC"
             \/ run'.pc = "done" /\ \A t \in types : account'[t].published
      <4>1. "A" \in Account \ types /\ "B" \in Account \ types
        BY <2>5 DEF Account
      <4>2. CASE BeginAccounts("accountsC", types, "importC")
        BY <2>1, <2>5, <4>1, <4>2, ConversionKeepsFiles, PcsOfWork
      <4>3. CASE /\ run.pc = "importC"
                 /\ \/ ConvertPart("importC", types)
                    \/ PublishAccounts("importC", types, "done")
        <5>1. /\ types \in SUBSET Account /\ "importC" \in Pc /\ "done" \in Pc
              /\ \A t \in types : account[t].parts <= account[t].files
          BY <2>1, <2>5, <3>1, <4>3, PcsOfWork
        <5>2. CASE ConvertPart("importC", types)
          BY <4>1, <4>3, <5>1, <5>2, ConversionKeepsFiles
        <5>3. CASE PublishAccounts("importC", types, "done")
          BY <4>1, <4>3, <5>1, <5>3, ConversionKeepsFiles
        <5> QED
          BY <4>3, <5>2, <5>3
      <4> QED
        BY <2>5, <4>2, <4>3
    <3>3. run'.pc = "done" => Repaired("C")'
      BY <2>2, <2>5, <3>2, PublishedIsRepaired DEF Account
    <3>4. run.option.accounts => Repaired("A")' /\ Repaired("B")'
      <4>1. run.option.accounts => Repaired("A") /\ Repaired("B")
        BY <2>5 DEF StagesDone, AccountsSeen, Past
      <4> QED
        BY <4>1, <3>2 DEF Repaired, AccountReady
    <3>5. AccountsSeen'
      BY <2>5, <3>2, <3>3, <3>4 DEF AccountsSeen, Past
    <3> QED
      BY <2>3, <2>5, <3>2, <3>5 DEF AccountPcs
  <2> QED
    BY <1>3, AccountSteps, <2>4, <2>5
<1> QED
  BY <1>1, <1>2, <1>3

LEMMA OthersKeepStages ==
    ASSUME TypeOK, StagesDone,
           Stop \/ (\E s \in Source : Revise(s)) \/ LoseVolume \/ UNCHANGED vars
    PROVE  StagesDone'
<1>1. CASE Stop \/ LoseVolume
  <2>1. run'.pc \in {"failed", "idle"}
    BY <1>1, IdleRun, GoKeepsTheRest, PcsOfWork DEF Stop, LoseVolume
  <2> QED
    BY <2>1, NothingSeen
<1>2. CASE (\E s \in Source : Revise(s)) \/ UNCHANGED vars
  <2>1. UNCHANGED <<data, index, run, losses>>
    BY <1>2 DEF Revise, vars, history
  <2> QED
    BY <2>1 DEF data, StagesDone, CensusSeen, MirrorsSeen, CoreSeen, AccountsSeen, Past, Imported,
                Ready, Repaired, AccountReady, Mirrored
<1> QED
  BY <1>1, <1>2
---------------------------------------------------------------------------
(* A run that found nothing missing.                                       *)

LEMMA ReadyRunSkips ==
    ASSUME TypeOK, InOrder, NothingToDo, run.ready, RunStep
    PROVE  /\ UNCHANGED data
           /\ run'.option = run.option
           /\ run'.pc \in {"mirror", "treasury", "omb", "index", "accounts", "done"}
<1>0. /\ NothingMissing(run.option)
      /\ run.pc \in {"mirror", "treasury", "omb", "index", "accounts", "done", "failed"}
  BY DEF NothingToDo
<1>1. \A c \in Core : run.pc = c => rows[c]
  BY <1>0 DEF NothingMissing, InOrder, CorePcs, Core
<1>2. run.pc = "accounts" /\ run.option.accounts => SourcesReady
  BY <1>0 DEF NothingMissing
<1>3. run.pc = "mirror" => ~MirrorDue(Current) /\ run.k <= Last
  <2> SUFFICES ASSUME run.pc = "mirror" PROVE ~MirrorDue(Current) /\ run.k <= Last
    OBVIOUS
  <2>1. 2 <= run.k /\ run.k <= Last /\ run.k \in 1 .. 3
    BY DEF InOrder, MirrorPcs, TypeOK
  <2>2. Current \in Mirrored(run.option)
    BY <2>1, OrderOfSources DEF Current, Last, Mirrored, Finance
  <2>3. mirror[Current].object # None
    BY <2>2, <1>0 DEF NothingMissing
  <2> QED
    BY <2>1, <2>3 DEF MirrorDue
<1>4. SkipMirror \/ (\E c \in Core : SkipCore(c)) \/ RebuildIndex \/ SkipAccounts
  <2>1. ASSUME NEW c \in Core, BeginSnapshot(c) \/ FinishSnapshot(c) \/ IngestCore(c)
        PROVE  FALSE
    BY <1>0, <1>1, <2>1 DEF BeginSnapshot, FinishSnapshot, IngestCore, At, Writing
  <2>2. ~(Fetch \/ BeginImport \/ FinishImport \/ BeginMirror \/ FinishCopy \/ RegisterMirror)
    BY <1>0, <1>3 DEF Fetch, BeginImport, FinishImport, BeginMirror, FinishCopy, RegisterMirror, At
  <2>3. ~ActivateAccounts
    BY <1>0, <1>2 DEF ActivateAccounts, BeginAccounts, ConvertPart, PublishAccounts, At
  <2> QED
    BY <2>1, <2>2, <2>3 DEF RunStep
<1>5. CASE SkipMirror
  <2>1. NextMirror /\ run.k <= Last /\ UNCHANGED data
    BY <1>3, <1>5 DEF SkipMirror, At
  <2> QED
    BY <2>1, NextMirrorGoes
<1>6. ASSUME NEW c \in Core, SkipCore(c)
      PROVE  UNCHANGED data /\ run'.option = run.option /\ run'.pc \in {"omb", "index"}
  <2>1. AfterCore(c) \in {"omb", "index"}
    BY DEF AfterCore
  <2> QED
    BY <2>1, <1>6, GoKeepsTheRest, PcsOfWork DEF SkipCore
<1>7. CASE RebuildIndex \/ SkipAccounts
  BY <1>7, GoKeepsTheRest, PcsOfWork DEF RebuildIndex, SkipAccounts
<1> QED
  BY <1>4, <1>5, <1>6, <1>7

LEMMA ReadyRunLeavesData ==
    ASSUME TypeOK, InOrder, NothingToDo, run.ready, [Next]_vars, losses' = losses
    PROVE  UNCHANGED data
<1>1. ~LoseVolume
  BY DEF LoseVolume, TypeOK
<1>2. ASSUME (\E o \in Option : Start(o)) \/ Stop \/ (\E s \in Source : Revise(s)) \/ UNCHANGED vars
      PROVE  UNCHANGED data
  BY <1>2 DEF Start, Stop, Revise, vars
<1> QED
  BY <1>1, <1>2, ReadyRunSkips DEF Next

\* What a run found first stays with it.
LEMMA RunStepKeepsReady ==
    ASSUME TypeOK, RunStep
    PROVE  run'.ready = run.ready
<1>1. ASSUME NEW pc, Go(pc)
      PROVE  run'.ready = run.ready
  BY <1>1 DEF Go, TypeOK
<1>2. ASSUME NEW pc, NEW k, GoTo(pc, k)
      PROVE  run'.ready = run.ready
  BY <1>2 DEF GoTo, TypeOK
<1>3. ASSUME NextMirror
      PROVE  run'.ready = run.ready
  BY <1>2, <1>3 DEF NextMirror
<1>4. CASE Fetch \/ BeginImport \/ FinishImport
  BY <1>1, <1>2, <1>4 DEF Fetch, BeginImport, FinishImport
<1>5. CASE SkipMirror \/ BeginMirror \/ FinishCopy \/ RegisterMirror
  BY <1>1, <1>3, <1>5 DEF SkipMirror, BeginMirror, FinishCopy, RegisterMirror
<1>6. CASE \E c \in Core : SkipCore(c) \/ BeginSnapshot(c) \/ FinishSnapshot(c) \/ IngestCore(c)
  BY <1>1, <1>6 DEF SkipCore, BeginSnapshot, FinishSnapshot, IngestCore
<1>7. ASSUME NEW pc, NEW types, NEW next,
             \/ BeginAccounts(pc, types, next)
             \/ ConvertPart(pc, types)
             \/ PublishAccounts(pc, types, next)
      PROVE  run'.ready = run.ready
  BY <1>1, <1>7 DEF BeginAccounts, ConvertPart, PublishAccounts
<1>8. CASE RebuildIndex \/ SkipAccounts \/ ActivateAccounts
  BY <1>1, <1>7, <1>8 DEF RebuildIndex, SkipAccounts, ActivateAccounts
<1> QED
  BY <1>4, <1>5, <1>6, <1>8 DEF RunStep

LEMMA NothingToDoStays ==
    ASSUME TypeOK, InOrder, NothingToDo, [Next]_vars
    PROVE  NothingToDo'
<1>1. ASSUME NEW o \in Option, Start(o)
      PROVE  NothingToDo'
  <2>1. /\ run'.option = o /\ run'.ready = NothingMissing(o) /\ UNCHANGED data
        /\ ~CensusMissing(o) => run'.pc = "mirror"
    BY <1>1 DEF Start
  <2>2. NothingMissing(o) => NothingMissing(run.option)'
    BY <2>1 DEF data, NothingMissing, CensusMissing, NationalReady, Ready, SourcesReady, AccountReady,
                Mirrored
  <2>3. NothingMissing(o) => ~CensusMissing(o)
    BY DEF NothingMissing
  <2> QED
    BY <2>1, <2>2, <2>3 DEF NothingToDo
<1>2. CASE LoseVolume
  BY <1>2, IdleRun DEF LoseVolume, NothingToDo
<1>3. ASSUME UNCHANGED data, run'.option = run.option, run.ready,
             run'.pc \in {"mirror", "treasury", "omb", "index", "accounts", "done", "failed"}
      PROVE  NothingToDo'
  <2>1. NothingMissing(run.option)'
    BY <1>3 DEF NothingToDo, data, NothingMissing, CensusMissing, NationalReady, Ready,
                SourcesReady, AccountReady, Mirrored
  <2> QED
    BY <2>1, <1>3 DEF NothingToDo
<1>4. CASE (\E s \in Source : Revise(s)) \/ UNCHANGED vars
  <2>1. UNCHANGED <<data, run>>
    BY <1>4 DEF Revise, vars
  <2> QED
    BY <2>1, <1>3 DEF NothingToDo
<1>5. CASE Stop
  <2>1. /\ UNCHANGED data
        /\ run'.pc = "failed" /\ run'.option = run.option /\ run'.ready = run.ready
    BY <1>5, GoKeepsTheRest, PcsOfWork DEF Stop
  <2> QED
    BY <2>1, <1>3 DEF NothingToDo
<1>6. CASE RunStep
  <2>1. CASE run.ready
    BY <2>1, <1>3, <1>6, ReadyRunSkips
  <2>2. CASE ~run.ready
    BY <2>2, <1>6, RunStepKeepsReady DEF NothingToDo
  <2> QED
    BY <2>1, <2>2
<1> QED
  BY <1>1, <1>2, <1>4, <1>5, <1>6 DEF Next
---------------------------------------------------------------------------
(* The invariant and what it implies.                                      *)

LEMMA InitActivationInv == Init => ActivationInv
<1> SUFFICES ASSUME Init PROVE ActivationInv
  OBVIOUS
<1>1. TypeOK
  BY InitTypeOK
<1>2. InOrder /\ StagesDone /\ NothingToDo
  BY IdleRun DEF Init, InOrder, StagesDone, CensusSeen, MirrorsSeen, CoreSeen, AccountsSeen,
                 NothingToDo, Past, CensusPcs, MirrorPcs, CorePcs, AccountPcs
<1>3. OfTheArchive /\ PartsRegistered
  BY DEF Init, OfTheArchive, PartsRegistered
<1> QED
  BY <1>1, <1>2, <1>3 DEF ActivationInv

LEMMA NextKeepsActivationInv == ActivationInv /\ [Next]_vars => ActivationInv'
<1> DEFINE Kept == TypeOK' /\ InOrder' /\ OfTheArchive' /\ PartsRegistered' /\ StagesDone'
<1> SUFFICES ASSUME TypeOK, InOrder, OfTheArchive, PartsRegistered, StagesDone, NothingToDo,
                    [Next]_vars
             PROVE  Kept
  BY NothingToDoStays DEF ActivationInv
<1>1. ASSUME NEW o \in Option, Start(o)
      PROVE  Kept
  BY <1>1, StartKeepsTypes, StartKeepsOrder, TheRestKeepsArchive, TheRestKeepsParts, StartKeepsStages
<1>2. CASE Fetch \/ BeginImport \/ FinishImport
  BY <1>2, CensusKeepsTypes, CensusKeepsOrder, CensusKeepsArchive, TheRestKeepsParts, CensusKeepsStages
<1>3. CASE SkipMirror \/ BeginMirror \/ FinishCopy \/ RegisterMirror
  BY <1>3, MirrorKeepsTypes, MirrorKeepsOrder, MirrorKeepsArchive, TheRestKeepsParts, MirrorKeepsStages
<1>4. ASSUME NEW c \in Core,
             SkipCore(c) \/ BeginSnapshot(c) \/ FinishSnapshot(c) \/ IngestCore(c)
      PROVE  Kept
  BY <1>4, CoreKeepsTypes, TheRestKeepsOrder, TheRestKeepsArchive, TheRestKeepsParts, CoreKeepsStages
<1>5. CASE RebuildIndex \/ SkipAccounts \/ ActivateAccounts
  BY <1>5, AccountsKeepTypes, TheRestKeepsOrder, TheRestKeepsArchive, AccountsKeepParts,
     TheRestKeepsParts, AccountsKeepStages
<1>6. CASE Stop \/ (\E s \in Source : Revise(s)) \/ LoseVolume \/ UNCHANGED vars
  BY <1>6, OthersKeepTypes, TheRestKeepsOrder, TheRestKeepsArchive, TheRestKeepsParts, OthersKeepStages
<1> QED
  BY <1>1, <1>2, <1>3, <1>4, <1>5, <1>6 DEF Next, RunStep

\* ActivationInv holds however many runs are started, wherever each of them
\* ends, whatever the sources publish and whenever the volume is lost.
THEOREM ActivationInvariant == Spec => []ActivationInv
<1>1. Init => ActivationInv
  BY InitActivationInv
<1>2. ActivationInv /\ [Next]_vars => ActivationInv'
  BY NextKeepsActivationInv
<1> QED
  BY <1>1, <1>2, PTL DEF Spec

\* The types of the initializer's state: a registered Parquet object is never
\* a file cut short, and a run is always at a place of activate_product_data.
THEOREM ActivationTypes == Spec => []TypeOK
<1>1. ActivationInv => TypeOK
  BY DEF ActivationInv
<1> QED
  BY <1>1, ActivationInvariant, PTL

\* DATA_WAREHOUSE_V2.md:67: a registered mirror is the whole file of
\* _materialize_census_parquet, and of the edition its READY release was
\* imported from unless a run was told to overwrite what it had downloaded.
THEOREM MirrorsAgree == Spec => []MirrorAgrees
<1>1. ActivationInv => MirrorAgrees
  <2> SUFFICES ASSUME ActivationInv, losses = 0, NEW f \in Finance, mirror[f].object # None
               PROVE  /\ mirror[f].file = mirror[f].object
                      /\ (~overwrote /\ release[f].status = "READY") =>
                            mirror[f].object = release[f].edition
    BY DEF MirrorAgrees
  <2>1. f \in Source
    BY DEF Source, Finance
  <2> QED
    BY <2>1 DEF ActivationInv, OfTheArchive
<1> QED
  BY <1>1, ActivationInvariant, PTL

\* REAL_DATA_ACTIVATION.md:32: wherever earlier runs ended, a run of
\* activate_product_data that gets to its end has seen to all its options ask
\* for; an account type with a part that only an earlier archive had, and that
\* was lost with the volume, is READY and still not counted.
THEOREM FinishedRunsAreReady == Spec => []FinishedMeansReady
<1>1. ActivationInv => FinishedMeansReady
  <2> SUFFICES ASSUME TypeOK, StagesDone, run.pc = "done"
               PROVE  FinishedMeansReady
    BY DEF ActivationInv, FinishedMeansReady
  <2>1. /\ Imported("units") /\ Imported("finance22")
        /\ run.option.sample => Ready("finance24")
    BY DEF StagesDone, CensusSeen, Past
  <2>2. (disk["units"] \in Full /\ disk["finance22"] \in Full) => NationalReady
    BY <2>1 DEF Imported, NationalReady, Ready
  <2>3. \A f \in Mirrored(run.option) : disk[f] # None => mirror[f].object # None
    BY DEF StagesDone, MirrorsSeen, Past
  <2>4. run.option.core => (\A c \in Core : rows[c]) /\ index
    BY DEF StagesDone, CoreSeen, Past, Core
  <2>5. run.option.accounts => \A t \in Account : Repaired(t)
    BY DEF StagesDone, AccountsSeen, Past, Account
  <2> QED
    BY <2>1, <2>2, <2>3, <2>4, <2>5 DEF FinishedMeansReady
<1> QED
  BY <1>1, ActivationInvariant, PTL

\* REAL_DATA_ACTIVATION.md:38: a run of activate_product_data whose
\* readiness check finds nothing missing writes no data, to its end.
THEOREM ReadyRunsChangeNothing == Spec => IdempotentWhenReady
<1>1. ActivationInv /\ [Next]_vars => [(run.ready /\ losses' = losses) => UNCHANGED data]_vars
  BY ReadyRunLeavesData DEF ActivationInv
<1> QED
  BY <1>1, ActivationInvariant, PTL DEF Spec, IdempotentWhenReady
=============================================================================
