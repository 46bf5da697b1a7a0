----------------------------- MODULE NewProofs ------------------------------
(***************************************************************************)
(* Proofs about `new' beside the loop and the other verbs, for any guests, *)
(* processes, documents and bounds.  Most steps are the loop's or the      *)
(* verbs' own, and what DaemonProofs shows of them is used again; what is  *)
(* new is the time before the lock, in which nobody is kept out of the     *)
(* guest and nobody can do anything to it all the same.                    *)
(***************************************************************************)
EXTENDS New, DaemonProofs

-----------------------------------------------------------------------------
(* The steps of a process that runs `new' or a verb, of the loop, and those *)
(* of `new' that no verb takes.                                             *)

Mine(p) ==
    \/ \E g \in Guests, v \in Verbs \cap {"apply", "apply_no_up"} : StartNew(p, g, v)
    \/ NewSteps(p) \/ CutShort(p) \/ Breaks(p)
    \/ stage[p] = "no" /\ Shell(p) /\ UNCHANGED <<loop, making>>

LoopMoves ==
    /\ \/ \E full \in BOOLEAN : Poll(full) \/ PollFails(full)
       \/ LoopSteps \/ VisitFails \/ LoopCrash
       \/ CommandFails(Loop) /\ UNCHANGED loop
    /\ UNCHANGED making

NewOnly(p) ==
    \/ Settle(p) \/ Resolve(p) \/ Create(p) \/ WriteInitial(p) \/ CutShort(p)
    \/ Boot(p) \/ WaitReady(p) \/ Facts(p) \/ WriteTemplate(p)

LEMMA Movers ==
    ASSUME [NewNext]_newVars
    PROVE  \/ \E p \in Procs \ {Loop} : Mine(p)
           \/ WorldSteps
           \/ \E g \in Guests : Taken(g)
           \/ LoopMoves
           \/ UNCHANGED newVars
BY DEF NewNext, Mine, LoopMoves

\* What is not new is a step of module Daemon.
LEMMA MineKinds ==
    ASSUME NEW p \in Procs \ {Loop}, Mine(p)
    PROVE  NewOnly(p) \/ (Shell(p) /\ UNCHANGED loop)
BY DEF Mine, StartNew, NewSteps, NewOnly, Breaks, Lock, Halves, NotReady, End, Shell,
       VerbSteps, Steps

LEMMA NewKinds ==
    ASSUME [NewNext]_newVars
    PROVE  \/ [DaemonNext]_daemonVars
           \/ \E p \in Procs \ {Loop} : NewOnly(p)
           \/ \E g \in Guests : Taken(g)
<1>1. CASE \E p \in Procs \ {Loop} : Mine(p)
  BY <1>1, MineKinds DEF DaemonNext
<1>2. CASE WorldSteps \/ LoopMoves \/ UNCHANGED newVars
  BY <1>2 DEF WorldSteps, LoopMoves, DaemonNext, newVars, making
<1> QED
  BY <1>1, <1>2, Movers

-----------------------------------------------------------------------------
(* Types, and where a `new' is at each of its stages *)

StageOK(p) ==
    /\ stage[p] # "no" => p # Loop /\ job[p] \in Jobs
    /\ stage[p] \in {"ask", "resolve", "create", "document"} => pc[p] = "lock"
    /\ stage[p] = "boot" => pc[p] \in {"lock", "load", "over"}
    /\ stage[p] = "ready" => pc[p] \in {"load", "over"}
    /\ stage[p] = "apply" => pc[p] \in Holding \cup {"over"}
    /\ stage[p] = "template" => pc[p] \in {"facts", "over"}

MakingTypes ==
    /\ exists \in [Guests -> BOOLEAN]
    /\ stage \in [Procs -> Stages]

NewTypes == LoopInv /\ LockInv /\ MakingTypes /\ \A p \in Procs : StageOK(p)

LEMMA NewInitTypes == NewInit => NewTypes
<1> SUFFICES ASSUME NewInit PROVE NewTypes
  OBVIOUS
<1>1. PICK left \in {NoText} \cup [text : Leftovers, rev : {0}],
           first \in [Guests -> FirstDocuments], kind \in [Guests -> Starts] :
        LET read == [g \in Guests |-> [text |-> first[g], rev |-> 0]]
        IN  /\ doc = [g \in Guests |-> IF exists[g] THEN read[g] ELSE left]
            /\ cfg \in FirstConfigs
            /\ wrapper = [g \in Guests |-> IF exists[g] THEN FirstWrapper(kind[g], first[g])
                                           ELSE NoWrapper]
            /\ stack = [g \in Guests |-> IF exists[g] THEN FirstStack(kind[g], read[g], cfg)
                                         ELSE EmptyStack]
  BY DEF NewInit
<1> DEFINE read == [g \in Guests |-> [text |-> first[g], rev |-> 0]]
<1>2. /\ \A g \in Guests : first[g] \in Documents /\ read[g] \in Reads
      /\ left \in Reads /\ cfg \in Configs
  BY <1>1, DocumentsAssumption, ConfigsType, NewAssumption DEF Reads, NoText
<1>3. doc \in [Guests -> Reads]
  BY <1>1, <1>2
<1>4. wrapper \in [Guests -> Wrappers]
  <2>1. NoWrapper \in Wrappers
    BY DEF NoWrapper, Wrappers
  <2>2. ASSUME NEW g \in Guests PROVE FirstWrapper(kind[g], first[g]) \in Wrappers
    <3>1. kind[g] \in {"new", "bare", "applied"} /\ first[g].vols \in SUBSET Volumes
      BY <1>2, NamesAssumption, DocumentsAssumption
    <3> QED
      BY <3>1 DEF FirstWrapper, NewWrapper, Wrappers
  <2> QED
    BY <1>1, <2>1, <2>2
<1>5. stack \in [Guests -> Stacks]
  <2>1. EmptyStack \in Stacks
    BY DEF EmptyStack, Stacks
  <2>2. ASSUME NEW g \in Guests PROVE FirstStack(kind[g], read[g], cfg) \in Stacks
    <3>1. Render(read[g].text, cfg) \in Texts /\ read[g] \in Reads
      BY <1>2, RenderType
    <3> HIDE DEF read
    <3> QED
      BY <2>1, <3>1 DEF FirstStack, EmptyStack, Stacks
  <2> QED
    BY <1>1, <2>1, <2>2
<1>6. /\ lock \in [Guests -> Procs \cup {Nobody}]
      /\ pc \in [Procs -> Labels] /\ job \in [Procs -> Jobs \cup {NoJob}]
      /\ \A p \in Procs : pc[p] = "idle" /\ stage[p] = "no"
  BY DEF NewInit, Labels
<1>7. TypeOK
  BY <1>2, <1>3, <1>4, <1>5, <1>6 DEF NewInit, TypeOK, Holding
<1>8. LoopTypes
  BY <1>2 DEF NewInit, LoopTypes
<1>9. LoopInv /\ LockInv
  BY <1>6, <1>7, <1>8, LoopAssumption
     DEF LoopInv, LoopJob, LockInv, Bringing, Holding, DockerHalf
<1>10. MakingTypes
  BY DEF NewInit, MakingTypes, Stages
<1> QED
  BY <1>6, <1>9, <1>10 DEF NewTypes, StageOK

\* The steps of `new' that no verb takes, as far as the others see them.
LEMMA NewOnlyKeeps ==
    ASSUME NewTypes, NEW p \in Procs \ {Loop}, NewOnly(p)
    PROVE  /\ UNCHANGED loop
           /\ \A q \in Procs \ {p} :
                 pc'[q] = pc[q] /\ job'[q] = job[q] /\ stage'[q] = stage[q]
BY DEF NewOnly, Settle, Resolve, Create, WriteInitial, CutShort, Boot, WaitReady, Facts,
       WriteTemplate, GivesUp, StageIs, Goto, Finish, Upset, making, NewTypes, MakingTypes,
       LoopInv, TypeOK

LEMMA GivesUpTypes ==
    ASSUME TypeOK, NEW p \in Procs, GivesUp(p)
    PROVE  /\ pc' \in [Procs -> Labels] /\ job' \in [Procs -> Jobs \cup {NoJob}]
           /\ lock' \in [Guests -> Procs \cup {Nobody}]
           /\ \A q \in Procs :
                 /\ pc'[q] \in Holding \cup {"lock", "over"} => job'[q] \in Jobs
                 /\ pc'[q] = "config" => job'[q].read.text \in Documents
           /\ pc'[p] = "idle"
BY DEF GivesUp, Goto, TypeOK, Labels, Holding

LEMMA CreatedType == Created \in Wrappers
BY NamesAssumption DEF Created, NoWrapper, Wrappers

LEMMA InitialType ==
    ASSUME TypeOK, NEW g \in Guests
    PROVE  [doc EXCEPT ![g] = [text |-> InitialDocument, rev |-> token]] \in [Guests -> Reads]
BY NewAssumption DEF TypeOK, Reads

LEMMA NewOnlyType ==
    ASSUME NewTypes, NEW p \in Procs \ {Loop}, NewOnly(p)
    PROVE  TypeOK'
<1> USE DEF store
<1> DEFINE g == job[p].guest
<1>0. TypeOK /\ StageOK(p) /\ MakingTypes
  BY DEF NewTypes, LoopInv
<1>1. stage[p] # "no" => job[p] \in Jobs /\ g \in Guests
  BY <1>0 DEF StageOK, Jobs
<1>2. CASE Settle(p)
  <2>1. cfg' \in Configs
    BY <1>0, <1>2 DEF Settle, TypeOK, Configs
  <2> QED
    BY <1>0, <1>2, <2>1, GivesUpTypes DEF Settle, TypeOK
<1>3. CASE Resolve(p)
  BY <1>0, <1>3, GivesUpTypes DEF Resolve, TypeOK
<1>4. CASE Create(p)
  <2>1. wrapper' \in [Guests -> Wrappers]
    BY <1>0, <1>4, CreatedType DEF Create, TypeOK
  <2> QED
    BY <1>0, <1>4, <2>1, GivesUpTypes DEF Create, TypeOK
<1>5. CASE WriteInitial(p)
  <2>1. doc' \in [Guests -> Reads] /\ token' \in Nat
    BY <1>0, <1>1, <1>5, InitialType DEF WriteInitial, TypeOK
  <2> QED
    BY <1>0, <1>5, <2>1, GivesUpTypes DEF WriteInitial, TypeOK
<1>6. CASE CutShort(p)
  <2>1. /\ doc' \in [Guests -> Reads] /\ token' \in Nat
        /\ wrapper' \in [Guests -> Wrappers] /\ upsets' \in Nat
    BY <1>0, <1>1, <1>6, InitialType, CreatedType DEF CutShort, Upset, TypeOK
  <2>2. GivesUp(p) /\ UNCHANGED <<cfg, stack>>
    BY <1>6 DEF CutShort
  <2> QED
    BY <1>0, <2>1, <2>2, GivesUpTypes DEF TypeOK
<1>7. CASE Boot(p)
  <2>1. wrapper' \in [Guests -> Wrappers]
    <3>1. wrapper[g] \in Wrappers
            => [wrapper[g] EXCEPT !.running = TRUE, !.booted = wrapper[g].features] \in Wrappers
      BY WrapperType
    <3> QED
      BY <1>0, <1>1, <1>7, <3>1 DEF Boot, TypeOK
  <2> QED
    BY <1>0, <1>1, <1>7, <2>1 DEF Boot, Finish, Goto, TypeOK, Labels
<1>8. CASE WaitReady(p) \/ WriteTemplate(p)
  BY <1>0, <1>1, <1>8 DEF WaitReady, WriteTemplate, Finish, Goto, TypeOK, Labels
<1>9. CASE Facts(p)
  <2>1. job[p].read \in Reads /\ stack[g] \in Stacks
    BY <1>0, <1>1, <1>9 DEF Facts, Jobs, TypeOK
  <2>2. stack' \in [Guests -> Stacks]
    BY <1>0, <1>1, <1>9, <2>1, StackType DEF Facts, TypeOK
  <2> QED
    BY <1>0, <1>9, <2>2 DEF Facts, TypeOK
<1> QED
  BY <1>2, <1>3, <1>4, <1>5, <1>6, <1>7, <1>8, <1>9 DEF NewOnly

\* Before the lock `new' claims nothing, and it gives up what is its own.
LEMMA NewOnlyLock ==
    ASSUME NewTypes, NEW p \in Procs \ {Loop}, NewOnly(p)
    PROVE  LockInv'
<1> USE DEF store
<1>0. /\ TypeOK /\ LockInv /\ StageOK(p) /\ MakingTypes
      /\ \A q \in Procs \ {p} : pc'[q] = pc[q] /\ job'[q] = job[q]
  BY NewOnlyKeeps DEF NewTypes, LoopInv
<1>1. ASSUME UNCHANGED lock, pc'[p] \in Holding => pc[p] \in Holding /\ job'[p] = job[p]
      PROVE  LockInv'
  BY <1>0, <1>1 DEF LockInv
<1>2. ASSUME pc[p] \in Holding, Finish(p), UNCHANGED job
      PROVE  LockInv'
  <2>1. pc'[p] \notin Holding /\ lock' = [lock EXCEPT ![job[p].guest] = Nobody]
    BY <1>0, <1>2 DEF Finish, Goto, TypeOK, Holding
  <2> SUFFICES ASSUME NEW q \in Procs, pc'[q] \in Holding PROVE lock'[job'[q].guest] = q
    BY DEF LockInv
  <2>2. q # p /\ pc[q] \in Holding
    BY <1>0, <2>1
  <2>3. lock[job[q].guest] = q /\ lock[job[p].guest] = p
    BY <1>0, <1>2, <2>2 DEF LockInv
  <2> QED
    BY <1>0, <1>2, <2>1, <2>2, <2>3, JobType DEF TypeOK
<1>3. CASE GivesUp(p)
  BY <1>0, <1>1, <1>3 DEF GivesUp, Goto, TypeOK, Holding
<1>4. CASE Settle(p) \/ Resolve(p) \/ Create(p) \/ WriteInitial(p) \/ CutShort(p)
  BY <1>0, <1>1, <1>3, <1>4 DEF Settle, Resolve, Create, WriteInitial, CutShort
<1>5. CASE Boot(p) \/ WaitReady(p) \/ WriteTemplate(p)
  <2>1. pc[p] \in Holding /\ UNCHANGED job
    BY <1>5 DEF Boot, WaitReady, WriteTemplate, Holding
  <2> QED
    BY <1>1, <1>2, <1>5, <2>1 DEF Boot, WaitReady, WriteTemplate
<1>6. CASE Facts(p)
  BY <1>1, <1>6 DEF Facts
<1> QED
  BY <1>4, <1>5, <1>6 DEF NewOnly

\* A step that is none of the loop's leaves what the loop knows.
LEMMA LoopUntouched ==
    ASSUME LoopInv, TypeOK', UNCHANGED loop, pc'[Loop] = pc[Loop], job'[Loop] = job[Loop]
    PROVE  LoopInv'
BY DEF LoopInv, LoopTypes, LoopJob, Bringing, loop

LEMMA NewBase ==
    ASSUME NewTypes, [NewNext]_newVars
    PROVE  LoopInv' /\ LockInv'
<1>1. CASE [DaemonNext]_daemonVars
  BY <1>1, LoopStep, LoopLock DEF NewTypes
<1>2. ASSUME NEW p \in Procs \ {Loop}, NewOnly(p) PROVE LoopInv' /\ LockInv'
  BY <1>2, NewOnlyType, NewOnlyLock, NewOnlyKeeps, LoopUntouched, LoopAssumption DEF NewTypes
<1>3. ASSUME NEW g \in Guests, Taken(g) PROVE LoopInv' /\ LockInv'
  <2>1. UNCHANGED <<doc, token, cfg, wrapper, stack, lock, pc, job, loop>> /\ upsets' \in Nat
    BY <1>3 DEF Taken, Upset, store, NewTypes, LoopInv, TypeOK
  <2>2. TypeOK'
    BY <2>1 DEF NewTypes, LoopInv, TypeOK
  <2> QED
    BY <2>1, <2>2, LoopUntouched DEF NewTypes, LockInv
<1> QED
  BY <1>1, <1>2, <1>3, NewKinds

LEMMA MineKeeps ==
    ASSUME NewTypes, NEW p \in Procs \ {Loop}, Mine(p)
    PROVE  /\ UNCHANGED loop
           /\ \A q \in Procs \ {p} :
                 pc'[q] = pc[q] /\ job'[q] = job[q] /\ stage'[q] = stage[q]
<1>1. CASE NewOnly(p)
  BY <1>1, NewOnlyKeeps
<1>2. CASE Shell(p) /\ UNCHANGED loop
  <2>1. \A q \in Procs \ {p} : stage'[q] = stage[q]
    BY DEF Mine, StartNew, NewSteps, Settle, Resolve, Create, WriteInitial, CutShort, Boot,
           WaitReady, Facts, WriteTemplate, Breaks, Lock, Halves, NotReady, End, GivesUp,
           StageIs, making, NewTypes, MakingTypes
  <2> QED
    BY <1>2, <2>1, ShellKeeps DEF NewTypes, LoopInv
<1> QED
  BY <1>1, <1>2, MineKinds

\* After a step of its own, a process is where its stage says.
LEMMA MineStage ==
    ASSUME NewTypes, NEW p \in Procs \ {Loop}, Mine(p)
    PROVE  StageOK(p)' /\ MakingTypes'
<1> USE DEF store, making, StageIs, Goto, Finish, Holding, Stages
<1>0. TypeOK /\ StageOK(p) /\ MakingTypes /\ stage[p] \in Stages
  BY DEF NewTypes, LoopInv, MakingTypes
<1>1. ASSUME stage'[p] = "no" PROVE StageOK(p)'
  BY <1>1 DEF StageOK
<1>2. TypeOK'
  <2>1. CASE NewOnly(p)
    BY <2>1, NewOnlyType
  <2>2. CASE Shell(p)
    BY <1>0, <2>2, TypeStep DEF Next
  <2> QED
    BY <2>1, <2>2, MineKinds
<1>3. ASSUME NEW g \in Guests, NEW v \in Verbs, StartNew(p, g, v)
      PROVE  StageOK(p)' /\ MakingTypes'
  <2>1. pc'[p] = "lock" /\ stage'[p] = "ask"
    BY <1>0, <1>3 DEF StartNew, StartVerb, TypeOK, MakingTypes
  <2>2. job'[p] \in Jobs
    BY <1>2, <2>1 DEF TypeOK
  <2>3. MakingTypes'
    BY <1>0, <1>3 DEF StartNew, MakingTypes
  <2>4. StageOK(p)'
    BY <2>1, <2>2 DEF StageOK
  <2> QED
    BY <2>3, <2>4
<1>4. CASE GivesUp(p) /\ (UNCHANGED exists \/ exists' \in [Guests -> BOOLEAN])
  BY <1>0, <1>1, <1>4 DEF GivesUp, MakingTypes
<1>5. CASE \/ Settle(p) \/ Resolve(p) \/ Create(p) \/ WriteInitial(p)
  <2>0. exists' \in [Guests -> BOOLEAN]
    BY <1>0, <1>5 DEF Settle, Resolve, Create, WriteInitial, MakingTypes
  <2>1. CASE GivesUp(p)
    BY <1>4, <2>0, <2>1
  <2>2. CASE ~GivesUp(p)
    <3>1. /\ pc' = pc /\ job' = job /\ pc[p] = "lock" /\ job[p] \in Jobs
          /\ \E s \in {"resolve", "create", "document", "boot"} : stage' = [stage EXCEPT ![p] = s]
      BY <1>0, <1>5, <2>2 DEF Settle, Resolve, Create, WriteInitial, StageOK
    <3> QED
      BY <1>0, <2>0, <3>1 DEF StageOK, MakingTypes
  <2> QED
    BY <2>1, <2>2
<1>6. CASE CutShort(p)
  <2>1. exists' \in [Guests -> BOOLEAN]
    BY <1>0, <1>6 DEF CutShort, MakingTypes
  <2> QED
    BY <1>4, <1>6, <2>1 DEF CutShort
<1>7. CASE Lock(p) \/ Boot(p) \/ WaitReady(p) \/ Facts(p) \/ WriteTemplate(p)
  BY <1>0, <1>7 DEF Lock, TakeLock, Busy, Boot, WaitReady, Facts, WriteTemplate, StageOK,
                    MakingTypes, TypeOK
<1>8. CASE Halves(p)
  <2>1. stage[p] = "apply" /\ stage' = stage /\ exists' = exists
    BY <1>8 DEF Halves
  <2>2. pc'[p] \in Holding \cup {"over"}
    BY <1>0, <1>8 DEF Halves, Loads, RequireRunning, LoadDocument, LoadConfig, Refuse, PctOp,
                      PctDone, EnsureDocker, InstallFails, EnsureLayout, Decide, Write, Pull,
                      Up, AfterWrite, StageOK, TypeOK
  <2> QED
    BY <1>0, <1>2, <2>1, <2>2, LoopAssumption DEF StageOK, MakingTypes, TypeOK
<1>9. CASE NotReady(p)
  BY <1>0, <1>9 DEF NotReady, GuestFails, StageOK, MakingTypes, TypeOK
<1>10. CASE End(p)
  BY <1>0, <1>1, <1>10 DEF End, MakingTypes
<1>11. CASE Breaks(p)
  <2>1. CASE CommandFails(p) /\ UNCHANGED stage
    BY <1>0, <1>11, <2>1 DEF Breaks, CommandFails, StageOK, MakingTypes, TypeOK
  <2>2. CASE Crash(p) /\ StageIs(p, "no")
    BY <1>0, <1>1, <1>11, <2>2 DEF Breaks, MakingTypes
  <2> QED
    BY <1>11, <2>1, <2>2 DEF Breaks
<1>12. CASE stage[p] = "no" /\ Shell(p) /\ UNCHANGED <<loop, making>>
  BY <1>0, <1>1, <1>12 DEF MakingTypes
<1> QED
  BY <1>3, <1>5, <1>6, <1>7, <1>8, <1>9, <1>10, <1>11, <1>12 DEF Mine, NewSteps

LEMMA LoopMovesKeeps ==
    ASSUME TypeOK, LoopMoves
    PROVE  \A q \in Procs \ {Loop} : pc'[q] = pc[q] /\ job'[q] = job[q]
<1>1. CASE Own
  BY <1>1, OwnKeeps
<1>2. CASE Shared
  <2>1. Shell(Loop)
    BY <1>2 DEF Shared, Shell, VerbSteps
  <2> QED
    BY <2>1, LoopAssumption, ShellKeeps
<1> QED
  BY <1>1, <1>2 DEF LoopMoves, LoopSteps, LoopHalves, LoopCrash, Own, Shared

LEMMA NewTypesStep == NewTypes /\ [NewNext]_newVars => NewTypes'
<1> SUFFICES ASSUME NewTypes, [NewNext]_newVars PROVE NewTypes'
  OBVIOUS
<1>1. LoopInv' /\ LockInv'
  BY NewBase
<1>2. ASSUME UNCHANGED stage, \A q \in Procs \ {Loop} : pc'[q] = pc[q] /\ job'[q] = job[q]
      PROVE  \A q \in Procs : StageOK(q)'
  BY <1>2, LoopAssumption DEF NewTypes, StageOK
<1>3. ASSUME NEW p \in Procs \ {Loop}, Mine(p) PROVE NewTypes'
  <2>1. StageOK(p)' /\ MakingTypes'
    BY <1>3, MineStage
  <2>2. \A q \in Procs \ {p} : StageOK(q)'
    BY <1>3, MineKeeps DEF NewTypes, StageOK
  <2> QED
    BY <1>1, <2>1, <2>2 DEF NewTypes
<1>4. CASE LoopMoves
  <2>1. UNCHANGED making /\ \A q \in Procs \ {Loop} : pc'[q] = pc[q] /\ job'[q] = job[q]
    BY <1>4, LoopMovesKeeps DEF NewTypes, LoopInv, LoopMoves
  <2> QED
    BY <1>1, <1>2, <2>1 DEF NewTypes, MakingTypes, making
<1>5. CASE WorldSteps \/ UNCHANGED newVars
  <2>1. UNCHANGED making /\ pc' = pc /\ job' = job
    BY <1>5 DEF WorldSteps, World, EditDocument, ChangeConfig, Stop, Start, Untag,
                ComposeByHand, EditFile, newVars, daemonVars, vars
  <2> QED
    BY <1>1, <1>2, <2>1 DEF NewTypes, MakingTypes, making
<1>6. ASSUME NEW g \in Guests, Taken(g) PROVE NewTypes'
  <2>1. pc' = pc /\ job' = job /\ stage' = stage /\ exists' = [exists EXCEPT ![g] = TRUE]
    BY <1>6 DEF Taken
  <2> QED
    BY <1>1, <1>2, <2>1 DEF NewTypes, MakingTypes
<1> QED
  BY <1>3, <1>4, <1>5, <1>6, Movers

LEMMA NewTypesAlways == NewSpec => []NewTypes
BY NewInitTypes, NewTypesStep, PTL DEF NewSpec

-----------------------------------------------------------------------------
(* The first document *)

\* `new' and its failures never replace a document that is there, a human's
\* or an earlier guest's.
LEMMA DocumentStep ==
    ASSUME NewTypes, [NewNext]_newVars, NEW g \in Guests,
           doc'[g] # doc[g], doc[g].text # NoDocument
    PROVE  \E d \in Documents \cup {NoDocument} : EditDocument(g, d)
<1> USE DEF store
<1>0. doc \in [Guests -> Reads]
  BY DEF NewTypes, LoopInv, TypeOK
<1>1. ASSUME NEW p \in Procs \ {Loop}, NewOnly(p) PROVE FALSE
  BY <1>0, <1>1 DEF NewOnly, Settle, Resolve, Create, WriteInitial, CutShort, Boot, WaitReady,
                    Facts, WriteTemplate
<1>2. ASSUME NEW p \in Procs, Shell(p) PROVE FALSE
  BY <1>2 DEF Shell, VerbSteps, Steps, StartVerb, TakeLock, Busy, Return, Loads,
              RequireRunning, LoadDocument, LoadConfig, Refuse, PctOp, PctDone, EnsureDocker,
              InstallFails, EnsureLayout, Decide, Write, Pull, Up, RecordFacts, Passthrough,
              GuestFails, CommandFails, Crash
<1>3. CASE LoopMoves
  <2>1. CASE Own
    BY <2>1, OwnKeeps DEF NewTypes, LoopInv
  <2>2. CASE Shared
    BY <1>2, <2>2, LoopAssumption DEF Shared, Shell, VerbSteps
  <2> QED
    BY <1>3, <2>1, <2>2 DEF LoopMoves, LoopSteps, LoopHalves, LoopCrash, Own, Shared
<1>4. CASE WorldSteps
  <2>1. \E h \in Guests : \E d \in Documents \cup {NoDocument} : EditDocument(h, d)
    BY <1>4 DEF WorldSteps, World, ChangeConfig, Stop, Start, Untag, ComposeByHand, EditFile
  <2>2. PICK h \in Guests, d \in Documents \cup {NoDocument} : EditDocument(h, d)
    BY <2>1
  <2>3. h = g
    BY <1>0, <2>2 DEF EditDocument
  <2> QED
    BY <2>2, <2>3
<1>5. CASE (\E h \in Guests : Taken(h)) \/ UNCHANGED newVars
  BY <1>5 DEF Taken, newVars, daemonVars, vars
<1> QED
  BY <1>1, <1>2, <1>3, <1>4, <1>5, Movers, MineKinds

\* Writing the first document replaces nobody's intent (doc.rs), whatever
\* fails, crashes or is written meanwhile.
THEOREM IntentIsKept == NewSpec => IntentKept
<1>1. NewTypes /\ [NewNext]_newVars
        => [\A g \in Guests :
              doc'[g] # doc[g] /\ doc[g].text # NoDocument
                  => \E d \in Documents \cup {NoDocument} : EditDocument(g, d)]_newVars
  BY DocumentStep
<1> QED
  BY <1>1, NewTypesAlways, PTL DEF NewSpec, IntentKept

-----------------------------------------------------------------------------
(* The first apply.  Until it has the lock, a `new' keeps others out by the *)
(* guest it has made being cold: it does not run, so the loop does not list *)
(* it, and a verb that has its lock finds nothing to do and gives it back.  *)
(* From the lock on it is the lock.                                         *)

After == {"document", "boot", "ready", "apply", "template"}

\* What a `new' has made is there, and one `new' made it.
Made ==
    /\ \A p \in Procs : stage[p] \in After => exists[job[p].guest]
    /\ \A p, q \in Procs :
          stage[p] \in After /\ stage[q] \in After /\ job[p].guest = job[q].guest => p = q

At(q, g) == pc[q] \in Holding \cup {"lock", "over"} /\ job[q].guest = g

Cold(g) ==
    /\ ~wrapper[g].running
    /\ g \notin todo
    /\ \A q \in Procs : At(q, g) => q # Loop /\ pc[q] \in {"lock", "load", "over"}

Unbooted(p) == stage[p] \in {"document", "boot"}

NotYet(g) == ~exists[g] \/ \E p \in Procs : Unbooted(p) /\ job[p].guest = g

ColdInv == \A g \in Guests : NotYet(g) => Cold(g)

FirstInv == NewTypes /\ Made /\ ColdInv

\* Nobody but the tool acts on guests: no power cycle, no compose by
\* hand in a guest, no tag taken off, no file edited.
HandsOff == Disturbances \cap {"power", "inguest", "untag", "hand_edit"} = {}

LEMMA ExistsGrows ==
    ASSUME NewTypes, [NewNext]_newVars, NEW g \in Guests, exists[g]
    PROVE  exists'[g]
<1> USE DEF making, NewTypes, MakingTypes
<1>1. ASSUME NEW p \in Procs \ {Loop}, Mine(p) PROVE exists'[g]
  BY <1>1 DEF Mine, StartNew, NewSteps, Settle, Resolve, Create, WriteInitial, CutShort, Boot,
              WaitReady, Facts, WriteTemplate, Breaks, Lock, Halves, NotReady, End
<1> QED
  BY <1>1, Movers DEF LoopMoves, WorldSteps, Taken, newVars

\* Nobody comes to these stages but from one before, or by making the guest.
LEMMA Entering ==
    ASSUME NewTypes, NEW p \in Procs \ {Loop}, Mine(p), stage'[p] \in After
    PROVE  /\ job'[p].guest = job[p].guest
           /\ \/ stage[p] \in After /\ (Unbooted(p)' => Unbooted(p))
              \/ stage[p] = "create" /\ ~exists[job[p].guest] /\ exists'[job[p].guest]
<1> USE DEF store, making, StageIs, Goto, Finish, After, Unbooted
<1>0. TypeOK /\ StageOK(p) /\ MakingTypes /\ stage[p] \in Stages
  BY DEF NewTypes, LoopInv, MakingTypes
<1>1. CASE GivesUp(p) \/ \E g \in Guests, v \in Verbs : StartNew(p, g, v)
  BY <1>0, <1>1 DEF GivesUp, StartNew, MakingTypes
<1>2. CASE Settle(p) \/ Resolve(p)
  BY <1>0, <1>1, <1>2 DEF Settle, Resolve, MakingTypes
<1>3. CASE Create(p)
  <2>1. CASE ~GivesUp(p)
    BY <1>0, <1>3, <2>1 DEF Create, MakingTypes, StageOK, Jobs
  <2> QED
    BY <1>1, <2>1
<1>4. CASE WriteInitial(p)
  BY <1>0, <1>1, <1>4 DEF WriteInitial, MakingTypes
<1>5. CASE CutShort(p)
  BY <1>1, <1>5 DEF CutShort
<1>6. CASE Lock(p) \/ Boot(p) \/ WaitReady(p) \/ Facts(p) \/ WriteTemplate(p) \/ NotReady(p)
  BY <1>0, <1>6 DEF Lock, TakeLock, Busy, Boot, WaitReady, Facts, WriteTemplate, NotReady,
                    GuestFails, MakingTypes
<1>7. CASE Halves(p)
  <2>1. job'[p].guest = job[p].guest
    BY <1>0, <1>7 DEF Halves, Loads, RequireRunning, LoadDocument, LoadConfig, Refuse, PctOp,
                      PctDone, EnsureDocker, InstallFails, EnsureLayout, Decide, Write, Pull,
                      Up, StageOK, Jobs, TypeOK
  <2> QED
    BY <1>7, <2>1 DEF Halves
<1>8. CASE End(p) \/ (Crash(p) /\ StageIs(p, "no"))
  BY <1>0, <1>8 DEF End, MakingTypes
<1>9. CASE CommandFails(p) /\ UNCHANGED stage
  BY <1>9 DEF CommandFails
<1>10. CASE stage[p] = "no" /\ Shell(p) /\ UNCHANGED <<loop, making>>
  BY <1>10
<1> QED
  BY <1>1, <1>2, <1>3, <1>4, <1>5, <1>6, <1>7, <1>8, <1>9, <1>10 DEF Mine, NewSteps, Breaks

\* The other processes' stages and jobs, whoever moves.
LEMMA MadeStep ==
    ASSUME NewTypes, Made, [NewNext]_newVars
    PROVE  Made'
<1>0. \A p \in Procs : stage[p] \in After => p # Loop /\ job[p].guest \in Guests
  BY DEF NewTypes, StageOK, Jobs, After
<1>1. ASSUME UNCHANGED stage, \A q \in Procs \ {Loop} : job'[q] = job[q]
      PROVE  Made'
  BY <1>0, <1>1, ExistsGrows DEF Made
<1>2. ASSUME NEW p \in Procs \ {Loop}, Mine(p) PROVE Made'
  <2>1. \A q \in Procs \ {p} : job'[q] = job[q] /\ stage'[q] = stage[q]
    BY <1>2, MineKeeps
  <2>2. ASSUME NEW q \in Procs, stage'[q] \in After
        PROVE  exists'[job'[q].guest]
    <3>1. CASE q # p
      BY <1>0, <2>1, <2>2, <3>1, ExistsGrows DEF Made
    <3>2. CASE q = p
      BY <1>0, <1>2, <2>2, <3>2, Entering, ExistsGrows DEF Made
    <3> QED
      BY <3>1, <3>2
  <2>3. ASSUME NEW q \in Procs \ {p}, stage'[p] \in After, stage'[q] \in After,
               job'[p].guest = job'[q].guest
        PROVE  FALSE
    <3>1. stage[q] \in After /\ job[q].guest = job[p].guest /\ exists[job[q].guest]
      BY <1>2, <2>1, <2>3, Entering DEF Made
    <3> QED
      BY <1>2, <2>3, <3>1, Entering DEF Made
  <2> QED
    BY <2>1, <2>2, <2>3 DEF Made
<1>3. CASE LoopMoves
  BY <1>1, <1>3, LoopMovesKeeps DEF NewTypes, LoopInv, LoopMoves, making
<1>4. CASE WorldSteps \/ (\E g \in Guests : Taken(g)) \/ UNCHANGED newVars
  BY <1>1, <1>4 DEF WorldSteps, World, EditDocument, ChangeConfig, Stop, Start, Untag,
              ComposeByHand, EditFile, Taken, making, newVars, daemonVars, vars
<1> QED
  BY <1>2, <1>3, <1>4, Movers

\* What one step of a process changes of a guest, by where it is.
LEMMA ShellTouches ==
    ASSUME TypeOK, NEW q \in Procs, Shell(q), NEW g \in Guests,
           stack'[g] # stack[g] \/ wrapper'[g] # wrapper[g]
    PROVE  pc[q] \in Holding \ {"load"} /\ job[q].guest = g
<1> USE DEF store
<1>1. ASSUME UNCHANGED <<stack, wrapper>> PROVE FALSE
  BY <1>1
<1>2. ASSUME pc[q] \in Holding \ {"load"},
             stack' = stack \/ \E s : stack' = [stack EXCEPT ![job[q].guest] = s],
             wrapper' = wrapper \/ \E w : wrapper' = [wrapper EXCEPT ![job[q].guest] = w]
      PROVE  pc[q] \in Holding \ {"load"} /\ job[q].guest = g
  BY <1>2 DEF TypeOK
<1>3. ASSUME pc[q] \in Holding, Interrupted(q)
      PROVE  pc[q] \in Holding \ {"load"} /\ job[q].guest = g
  BY <1>1, <1>2, <1>3 DEF Interrupted
<1>4. CASE CommandFails(q)
  BY <1>3, <1>4 DEF CommandFails
<1>5. CASE Crash(q)
  BY <1>1, <1>3, <1>5 DEF Crash
<1>6. CASE \/ EnsureDocker(q) \/ InstallFails(q) \/ Write(q) \/ Up(q) \/ RecordFacts(q)
           \/ Passthrough(q) \/ PctOp(q)
  BY <1>2, <1>6 DEF EnsureDocker, InstallFails, Write, Up, RecordFacts, Passthrough, PctOp,
                    Holding
<1> QED
  BY <1>1, <1>4, <1>5, <1>6
     DEF Shell, VerbSteps, Steps, StartVerb, TakeLock, Busy, Return, Loads, RequireRunning,
         LoadDocument, LoadConfig, Refuse, PctDone, EnsureLayout, Decide, Pull, GuestFails

LEMMA MineTouches ==
    ASSUME NewTypes, NEW q \in Procs \ {Loop}, Mine(q), NEW g \in Guests,
           stack'[g] # stack[g] \/ wrapper'[g] # wrapper[g]
    PROVE  /\ job[q].guest = g
           /\ \/ pc[q] \in Holding \ {"load"}
              \/ Boot(q) /\ ~wrapper[g].running
              \/ (Create(q) \/ CutShort(q)) /\ ~exists[g] /\ ~wrapper'[g].running
<1> USE DEF store
<1>0. TypeOK
  BY DEF NewTypes, LoopInv
<1>1. CASE Shell(q)
  BY <1>0, <1>1, ShellTouches
<1>2. CASE Settle(q) \/ Resolve(q) \/ WriteInitial(q) \/ WaitReady(q) \/ WriteTemplate(q)
  BY <1>2 DEF Settle, Resolve, WriteInitial, WaitReady, WriteTemplate
<1>3. CASE Facts(q)
  BY <1>0, <1>3 DEF Facts, Holding, TypeOK
<1>4. CASE Create(q) \/ CutShort(q)
  <2>1. /\ stack' = stack /\ wrapper' = [wrapper EXCEPT ![job[q].guest] = Created]
        /\ ~exists[job[q].guest]
    BY <1>4 DEF Create, CutShort
  <2>2. ~Created.running
    BY DEF Created, NoWrapper
  <2> QED
    BY <1>0, <1>4, <2>1, <2>2 DEF TypeOK
<1>5. CASE Boot(q)
  <2>1. stack' = stack
    BY <1>5 DEF Boot
  <2>2. ~wrapper[job[q].guest].running
    BY <1>5, <2>1 DEF Boot
  <2>3. job[q].guest = g
    BY <1>0, <1>5, <2>1, <2>2 DEF Boot, TypeOK
  <2> QED
    BY <1>5, <2>2, <2>3
<1> QED
  BY <1>1, <1>2, <1>3, <1>4, <1>5, MineKinds DEF NewOnly

LEMMA LoopTouches ==
    ASSUME NewTypes, LoopMoves, NEW g \in Guests,
           stack'[g] # stack[g] \/ wrapper'[g] # wrapper[g]
    PROVE  pc[Loop] \in Holding \ {"load"} /\ job[Loop].guest = g
<1>0. TypeOK
  BY DEF NewTypes, LoopInv
<1>1. CASE Own
  BY <1>0, <1>1, OwnKeeps
<1>2. CASE Shared
  <2>1. Shell(Loop)
    BY <1>2 DEF Shared, Shell, VerbSteps
  <2> QED
    BY <1>0, <2>1, LoopAssumption, ShellTouches
<1> QED
  BY <1>1, <1>2 DEF LoopMoves, LoopSteps, LoopHalves, LoopCrash, Own, Shared

LEMMA WorldTouches ==
    ASSUME HandsOff, WorldSteps \/ (\E g \in Guests : Taken(g)) \/ UNCHANGED newVars
    PROVE  UNCHANGED <<wrapper, stack, pc, job, stage, todo>>
BY DEF HandsOff, WorldSteps, World, EditDocument, ChangeConfig, Stop, Start, Untag,
       ComposeByHand, EditFile, Taken, Upset, making, loop, store, newVars, daemonVars, vars

-----------------------------------------------------------------------------
(* A guest stays cold until it is booted. *)

\* What was not yet there, or not yet booted, was so before.
LEMMA NotYetBefore ==
    ASSUME NewTypes, [NewNext]_newVars, NEW g \in Guests, NotYet(g)'
    PROVE  NotYet(g)
<1>1. CASE ~exists'[g]
  BY <1>1, ExistsGrows DEF NotYet
<1>2. ASSUME NEW q \in Procs, Unbooted(q)', job'[q].guest = g PROVE NotYet(g)
  <2>1. CASE \E p \in Procs \ {Loop} : Mine(p)
    <3>1. PICK p \in Procs \ {Loop} : Mine(p)
      BY <2>1
    <3>2. CASE q = p
      BY <1>2, <3>1, <3>2, Entering DEF NotYet, Unbooted, After
    <3>3. CASE q # p
      BY <1>2, <3>1, <3>3, MineKeeps DEF NotYet, Unbooted
    <3> QED
      BY <3>2, <3>3
  <2>2. CASE UNCHANGED <<stage, job>>
    BY <1>2, <2>2 DEF NotYet, Unbooted
  <2>3. CASE LoopMoves
    <3>1. stage'[q] = stage[q] /\ q # Loop
      BY <1>2, <2>3, LoopAssumption DEF LoopMoves, making, Unbooted, NewTypes, StageOK
    <3> QED
      BY <1>2, <2>3, <3>1, LoopMovesKeeps DEF NotYet, Unbooted, NewTypes, LoopInv
  <2>4. CASE WorldSteps \/ (\E h \in Guests : Taken(h)) \/ UNCHANGED newVars
    <3>1. UNCHANGED <<stage, job>>
      BY <2>4 DEF WorldSteps, World, EditDocument, ChangeConfig, Stop, Start, Untag,
              ComposeByHand, EditFile, Taken, making, newVars, daemonVars, vars
    <3> QED
      BY <2>2, <3>1
  <2> QED
    BY <2>1, <2>3, <2>4, Movers
<1> QED
  BY <1>1, <1>2 DEF NotYet

\* A verb that has the lock of a cold guest finds it stopped, a `new' boots
\* its own.
LEMMA MineCold ==
    ASSUME NewTypes, NEW p \in Procs \ {Loop}, Mine(p), NEW g \in Guests, Cold(g), At(p, g)'
    PROVE  pc'[p] \in {"lock", "load", "over"}
<1> USE DEF store, making, Goto, Finish, At
<1>0. TypeOK /\ StageOK(p)
  BY DEF NewTypes, LoopInv
<1>1. ASSUME pc[p] = "idle" \/ At(p, g)
      PROVE  pc[p] \in {"idle", "lock", "load", "over"} /\ (pc[p] = "load" => job[p].guest = g)
  BY <1>1 DEF Cold, Holding
<1>2. CASE GivesUp(p) \/ Return(p) \/ Crash(p)
  BY <1>0, <1>2 DEF GivesUp, Return, Crash, TypeOK, Holding
<1>3. CASE \E h \in Guests, v \in Verbs : StartVerb(p, h, v)
  BY <1>0, <1>3 DEF StartVerb, TypeOK
<1>4. CASE TakeLock(p) \/ Busy(p) \/ Refuse(p)
  BY <1>0, <1>4 DEF TakeLock, Busy, Refuse, TypeOK
<1>5. CASE RequireRunning(p)
  BY <1>5 DEF RequireRunning, Cold, Holding
<1>6. CASE CommandFails(p) \/ GuestFails(p) \/ RecordFacts(p) \/ Passthrough(p) \/ InstallFails(p)
  BY <1>0, <1>6 DEF CommandFails, GuestFails, RecordFacts, Passthrough, InstallFails, TypeOK
<1>7. ASSUME pc[p] \in Holding \ {"load"}, job'[p].guest = job[p].guest PROVE FALSE
  BY <1>7 DEF Cold, Holding
<1>8. CASE \/ LoadDocument(p) \/ LoadConfig(p) \/ PctOp(p) \/ PctDone(p) \/ EnsureDocker(p)
           \/ EnsureLayout(p) \/ Decide(p) \/ Write(p) \/ Pull(p) \/ Up(p)
  <2>1. pc[p] \in Holding \ {"load"} /\ job[p] \in Jobs
    BY <1>0, <1>8 DEF LoadDocument, LoadConfig, PctOp, PctDone, EnsureDocker, EnsureLayout,
                      Decide, Write, Pull, Up, TypeOK, Holding
  <2>2. job'[p].guest = job[p].guest
    BY <1>0, <1>8, <2>1 DEF LoadDocument, LoadConfig, PctOp, PctDone, EnsureDocker,
                            EnsureLayout, Decide, Write, Pull, Up, TypeOK, Jobs
  <2> QED
    BY <1>7, <2>1, <2>2
<1>9. CASE Facts(p) \/ WriteTemplate(p)
  <2>1. pc[p] \in Holding \ {"load"} /\ job' = job
    BY <1>9 DEF Facts, WriteTemplate, Holding
  <2> QED
    BY <1>7, <2>1
<1>10. CASE UNCHANGED <<pc, job>> /\ stage[p] # "no" /\ pc[p] \in {"lock", "load", "over"}
  BY <1>10
<1>11. CASE Settle(p) \/ Resolve(p) \/ Create(p) \/ WriteInitial(p) \/ CutShort(p)
  BY <1>0, <1>2, <1>10, <1>11 DEF Settle, Resolve, Create, WriteInitial, CutShort, StageOK
<1>12. CASE Boot(p) \/ WaitReady(p)
  BY <1>0, <1>10, <1>12 DEF Boot, WaitReady, TypeOK
<1>13. CASE Shell(p)
  BY <1>2, <1>3, <1>4, <1>5, <1>6, <1>8, <1>13 DEF Shell, VerbSteps, Steps, Loads
<1> QED
  BY <1>9, <1>11, <1>12, <1>13, MineKinds DEF NewOnly

\* The loop does not list a guest that does not run.
LEMMA LoopCold ==
    ASSUME NewTypes, LoopMoves, NEW g \in Guests, Cold(g)
    PROVE  g \notin todo' /\ ~At(Loop, g)'
<1> USE LoopAssumption DEF store, loop, Goto, Finish, At
<1>0. TypeOK /\ LoopTypes /\ ~At(Loop, g)
  BY DEF NewTypes, LoopInv, Cold
<1>1. ASSUME NEW full \in BOOLEAN, Poll(full) \/ PollFails(full)
      PROVE  g \notin todo' /\ ~At(Loop, g)'
  BY <1>0, <1>1 DEF Poll, PollFails, Cold, TypeOK, Holding
<1>2. CASE Visit \/ VisitFails
  <2>1. Min(todo) \in todo
    BY <1>0, <1>2, GuestsAssumption, LeastIsIn DEF Visit, VisitFails, LoopTypes
  <2>2. g \notin todo' /\ Min(todo) # g
    BY <1>2, <2>1 DEF Visit, VisitFails, Cold
  <2> QED
    BY <1>0, <1>2, <2>2 DEF Visit, VisitFails, TypeOK, Holding
<1>3. CASE EndPass \/ LoopRefuses \/ CheckFacts \/ Handled
  BY <1>0, <1>3 DEF EndPass, LoopRefuses, CheckFacts, Handled, Cold, TypeOK, Holding
<1>4. CASE LoopLoad
  <2>1. job'[Loop].guest = job[Loop].guest /\ pc[Loop] \in Holding
    BY <1>0, <1>4, JobType DEF LoopLoad, TypeOK, Jobs, Holding
  <2> QED
    BY <1>0, <1>4, <2>1 DEF LoopLoad, Cold
<1>5. CASE (Steps(Loop) \/ CommandFails(Loop)) /\ UNCHANGED loop
  <2>1. pc[Loop] \in Holding \cup {"lock"}
    BY <1>5
       DEF Steps, CommandFails, TakeLock, Busy, PctOp, PctDone, EnsureDocker, InstallFails,
           EnsureLayout, Decide, Write, Pull, Up, RecordFacts, GuestFails, Cannot, Holding
  <2>2. job[Loop] \in Jobs
    BY <1>0, <2>1 DEF TypeOK
  <2>3. job'[Loop].guest = job[Loop].guest
    BY <1>0, <1>5, <2>2
       DEF Steps, CommandFails, TakeLock, Busy, PctOp, PctDone, EnsureDocker, InstallFails,
           EnsureLayout, Decide, Write, Pull, Up, RecordFacts, GuestFails, TypeOK, Jobs
  <2> QED
    BY <1>0, <1>5, <2>1, <2>3 DEF Cold
<1>6. CASE LoopCrash
  BY <1>0, <1>6 DEF LoopCrash, Crash, TypeOK, Holding
<1> QED
  BY <1>1, <1>2, <1>3, <1>4, <1>5, <1>6 DEF LoopMoves, LoopSteps, LoopHalves

LEMMA ColdStep ==
    ASSUME HandsOff, FirstInv, [NewNext]_newVars
    PROVE  ColdInv'
<1> SUFFICES ASSUME NEW g \in Guests, NotYet(g)' PROVE Cold(g)'
  BY DEF ColdInv
<1>0. NewTypes /\ Made /\ TypeOK
  BY DEF FirstInv, NewTypes, LoopInv
<1>1. Cold(g) /\ NotYet(g)
  BY <1>0, NotYetBefore DEF FirstInv, ColdInv
<1>2. ASSUME NEW p \in Procs \ {Loop}, Mine(p) PROVE Cold(g)'
  <2>1. UNCHANGED todo /\ \A q \in Procs \ {p} : At(q, g)' => At(q, g) /\ pc'[q] = pc[q]
    BY <1>0, <1>2, MineKeeps DEF At, loop
  <2>2. \A q \in Procs : At(q, g)' => q # Loop /\ pc'[q] \in {"lock", "load", "over"}
    BY <1>0, <1>1, <1>2, <2>1, MineCold DEF Cold
  <2>3. CASE Boot(p) /\ ~wrapper[g].running /\ job[p].guest = g
    <3>1. stage[p] = "boot" /\ exists[g]
      BY <1>0, <2>3 DEF Boot, Made, After
    <3>2. stage'[p] = "ready" /\ exists'[g]
      BY <1>0, <2>3, <3>1, ExistsGrows DEF Boot, StageIs, NewTypes, MakingTypes
    <3>3. PICK q \in Procs : Unbooted(q)' /\ job'[q].guest = g
      BY <3>2 DEF NotYet
    <3>4. q # p
      BY <3>2, <3>3 DEF Unbooted
    <3>5. stage[q] \in After /\ job[q].guest = g
      BY <1>0, <1>2, <3>3, <3>4, MineKeeps DEF Unbooted, After
    <3> QED
      BY <1>0, <2>3, <3>1, <3>4, <3>5 DEF Made, After
  <2>4. CASE wrapper'[g] = wrapper[g] \/ ~wrapper'[g].running
    BY <1>1, <2>1, <2>2, <2>4 DEF Cold
  <2>5. CASE pc[p] \in Holding \ {"load"} /\ job[p].guest = g
    BY <1>1, <2>5 DEF Cold, At, Holding
  <2> QED
    BY <1>0, <1>2, <2>3, <2>4, <2>5, MineTouches
<1>3. CASE LoopMoves
  <2>1. wrapper'[g] = wrapper[g]
    BY <1>0, <1>1, <1>3, LoopTouches, LoopAssumption DEF Cold, At
  <2>2. \A q \in Procs \ {Loop} : pc'[q] = pc[q] /\ job'[q] = job[q]
    BY <1>0, <1>3, LoopMovesKeeps
  <2>3. g \notin todo' /\ ~At(Loop, g)'
    BY <1>0, <1>1, <1>3, LoopCold
  <2> QED
    BY <1>1, <2>1, <2>2, <2>3 DEF Cold, At
<1>4. CASE WorldSteps \/ (\E h \in Guests : Taken(h)) \/ UNCHANGED newVars
  BY <1>1, <1>4, WorldTouches DEF Cold, At
<1> QED
  BY <1>2, <1>3, <1>4, Movers

LEMMA FirstInit == NewInit => FirstInv
<1> SUFFICES ASSUME NewInit PROVE FirstInv
  OBVIOUS
<1>1. NewTypes /\ \A p \in Procs : stage[p] = "no" /\ pc[p] = "idle"
  BY NewInitTypes DEF NewInit
<1>2. Made
  BY <1>1 DEF Made, After
<1>3. ASSUME NEW g \in Guests, NotYet(g) PROVE Cold(g)
  <2>1. ~exists[g]
    BY <1>1, <1>3 DEF NotYet, Unbooted
  <2>2. ~wrapper[g].running
    BY <2>1 DEF NewInit, NoWrapper
  <2> QED
    BY <1>1, <2>2 DEF Cold, At, Holding, NewInit
<1> QED
  BY <1>1, <1>2, <1>3 DEF FirstInv, ColdInv

LEMMA FirstStep == HandsOff /\ FirstInv /\ [NewNext]_newVars => FirstInv'
BY NewTypesStep, MadeStep, ColdStep DEF FirstInv

\* A process that changes the guest moves on.
LEMMA MineMoves ==
    ASSUME NewTypes, NEW p \in Procs \ {Loop}, Mine(p), stage[p] \in After, NEW g \in Guests,
           stack'[g] # stack[g] \/ wrapper'[g] # wrapper[g]
    PROVE  <<pc[p], stage[p], job[p]>>' # <<pc[p], stage[p], job[p]>>
<1> USE DEF store, making, StageIs, Goto, Finish
<1>0. TypeOK /\ MakingTypes
  BY DEF NewTypes, LoopInv
<1>1. CASE Boot(p)
  BY <1>0, <1>1 DEF Boot, MakingTypes
<1>2. CASE (Create(p) \/ CutShort(p)) /\ ~Boot(p)
  BY <1>0, <1>2 DEF Create, CutShort, GivesUp, MakingTypes, After
<1>3. CASE pc[p] \in Holding \ {"load"} /\ ~Create(p) /\ ~CutShort(p) /\ ~Boot(p)
  <2>1. CASE Shell(p)
    <3>1. CASE PctOp(p)
      <4>1. job[p].plan # job'[p].plan
        BY <1>0, <3>1, JobType DEF PctOp, TypeOK, Jobs, Holding, FirstOps
      <4> QED
        BY <4>1
    <3>2. CASE \/ EnsureDocker(p) \/ InstallFails(p) \/ Write(p) \/ Up(p) \/ RecordFacts(p)
               \/ Passthrough(p) \/ CommandFails(p) \/ Crash(p)
      BY <1>0, <1>3, <3>2
         DEF EnsureDocker, InstallFails, Write, Up, RecordFacts, Passthrough,
             CommandFails, Crash, AfterWrite, TypeOK, Holding
    <3> QED
      BY <2>1, <3>1, <3>2
         DEF Shell, VerbSteps, Steps, StartVerb, TakeLock, Busy, Return, Loads,
             RequireRunning, LoadDocument, LoadConfig, Refuse, PctDone, EnsureLayout,
             Decide, Pull, GuestFails
  <2>2. CASE Facts(p)
    BY <1>0, <2>2 DEF Facts, MakingTypes
  <2> QED
    BY <1>3, <2>1, <2>2, MineKinds
       DEF NewOnly, Settle, Resolve, WriteInitial, WaitReady, WriteTemplate
<1> QED
  BY <1>1, <1>2, <1>3, MineTouches

\* Who makes a guest is the only one who changes it.
LEMMA OnlyNews ==
    ASSUME HandsOff, FirstInv, [NewNext]_newVars, NEW p \in Procs \ {Loop},
           stage[p] \in After, pc[p] # "over", NEW g \in Guests, g = job[p].guest,
           stack'[g] # stack[g] \/ wrapper'[g] # wrapper[g]
    PROVE  Mine(p)
<1>0. NewTypes /\ Made /\ LockInv /\ StageOK(p)
  BY DEF FirstInv, NewTypes
<1>1. ASSUME NEW q \in Procs \ {p}, pc[q] \in Holding \ {"load"}, job[q].guest = g PROVE FALSE
  <2>1. lock[g] = q
    BY <1>0, <1>1 DEF LockInv
  <2>2. pc[p] \notin Holding
    BY <1>0, <1>1, <2>1 DEF LockInv
  <2>3. Unbooted(p)
    BY <1>0, <2>2 DEF StageOK, After, Unbooted, Holding
  <2>4. Cold(g)
    BY <2>3 DEF FirstInv, ColdInv, NotYet
  <2> QED
    BY <1>1, <2>4 DEF Cold, At, Holding
<1>2. ASSUME NEW q \in Procs \ {Loop}, q # p, Mine(q) PROVE FALSE
  <2>1. CASE Boot(q) /\ job[q].guest = g
    <3>1. stage[q] \in After
      BY <2>1 DEF Boot, After
    <3> QED
      BY <1>0, <1>2, <2>1, <3>1 DEF Made
  <2>2. CASE ~exists[g]
    BY <1>0, <2>2 DEF Made
  <2> QED
    BY <1>0, <1>1, <1>2, <2>1, <2>2, MineTouches
<1>3. ~LoopMoves
  BY <1>0, <1>1, LoopTouches, LoopAssumption
<1>4. ~(WorldSteps \/ (\E h \in Guests : Taken(h)) \/ UNCHANGED newVars)
  BY WorldTouches
<1> QED
  BY <1>2, <1>3, <1>4, Movers

\* From the creation of the wrapper to the end of its `new', only that `new'
\* changes the guest, as long as nobody acts on guests past the tool.
THEOREM FirstApply ==
    ASSUME HandsOff
    PROVE  NewSpec => FirstApplyIsNews
<1>1. ASSUME FirstInv, [NewNext]_newVars
      PROVE  [\A p \in Procs \ {Loop} :
                stage[p] \in {"document", "boot", "ready", "apply", "template"} /\ pc[p] # "over"
                    => LET g == job[p].guest
                       IN  stack'[g] # stack[g] \/ wrapper'[g] # wrapper[g]
                              => <<pc[p], stage[p], job[p]>>' # <<pc[p], stage[p], job[p]>>]_newVars
  <2>1. ASSUME NEW p \in Procs \ {Loop}, stage[p] \in After, pc[p] # "over",
               NEW g, g = job[p].guest, stack'[g] # stack[g] \/ wrapper'[g] # wrapper[g]
        PROVE  <<pc[p], stage[p], job[p]>>' # <<pc[p], stage[p], job[p]>>
    <3>1. NewTypes /\ g \in Guests
      BY <1>1, <2>1 DEF FirstInv, NewTypes, StageOK, Jobs, After
    <3>2. Mine(p)
      BY <1>1, <2>1, <3>1, OnlyNews
    <3> QED
      BY <2>1, <3>1, <3>2, MineMoves
  <2> QED
    BY <2>1 DEF After
<1>2. NewSpec => []FirstInv
  BY FirstInit, FirstStep, PTL DEF NewSpec
<1> QED
  BY <1>1, <1>2, PTL DEF NewSpec, FirstApplyIsNews
-----------------------------------------------------------------------------
(* What the verbs and the loop promise, beside a `new'.  Its own steps      *)
(* claim no lock, and of a guest in use they change that it runs and what   *)
(* its facts say; the rest they do before it exists for anybody else.       *)

\* No two processes are at work on one guest, a `new' among them or not.
THEOREM NewTakesTurns == NewSpec => []OneWriter
<1>1. NewTypes => OneWriter
  BY DEF NewTypes, LockInv, OneWriter
<1> QED
  BY <1>1, NewTypesAlways, PTL

\* A guest that does not exist is cold, whatever is done to the others.
AbsentInv == \A g \in Guests : ~exists[g] => Cold(g)

LEMMA AbsentStep ==
    ASSUME NewTypes, Made, AbsentInv, [NewNext]_newVars
    PROVE  AbsentInv'
<1> SUFFICES ASSUME NEW g \in Guests, ~exists'[g] PROVE Cold(g)'
  BY DEF AbsentInv
<1>0. TypeOK
  BY DEF NewTypes, LoopInv
<1>1. ~exists[g] /\ Cold(g)
  BY ExistsGrows DEF AbsentInv
<1>2. ASSUME NEW p \in Procs \ {Loop}, Mine(p) PROVE Cold(g)'
  <2>1. UNCHANGED todo /\ \A q \in Procs \ {p} : At(q, g)' => At(q, g) /\ pc'[q] = pc[q]
    BY <1>2, MineKeeps DEF At, loop
  <2>2. \A q \in Procs : At(q, g)' => q # Loop /\ pc'[q] \in {"lock", "load", "over"}
    BY <1>1, <1>2, <2>1, MineCold DEF Cold
  <2>3. CASE Boot(p) /\ job[p].guest = g
    BY <1>1, <2>3 DEF Boot, Made, After
  <2>4. CASE wrapper'[g] = wrapper[g] \/ ~wrapper'[g].running
    BY <1>1, <2>1, <2>2, <2>4 DEF Cold
  <2>5. CASE pc[p] \in Holding \ {"load"} /\ job[p].guest = g
    BY <1>1, <2>5 DEF Cold, At, Holding
  <2> QED
    BY <1>2, <2>3, <2>4, <2>5, MineTouches
<1>3. CASE LoopMoves
  <2>1. wrapper'[g] = wrapper[g]
    BY <1>1, <1>3, LoopTouches, LoopAssumption DEF Cold, At
  <2>2. \A q \in Procs \ {Loop} : pc'[q] = pc[q] /\ job'[q] = job[q]
    BY <1>0, <1>3, LoopMovesKeeps
  <2>3. g \notin todo' /\ ~At(Loop, g)'
    BY <1>1, <1>3, LoopCold
  <2> QED
    BY <1>1, <2>1, <2>2, <2>3 DEF Cold, At
<1>4. CASE WorldSteps \/ (\E h \in Guests : Taken(h)) \/ UNCHANGED newVars
  <2>1. wrapper'[g] = wrapper[g] /\ UNCHANGED <<pc, job, todo>>
    BY <1>1, <1>4
       DEF WorldSteps, World, EditDocument, ChangeConfig, Stop, Start, Untag, ComposeByHand,
           EditFile, Taken, loop, newVars, daemonVars, vars
  <2> QED
    BY <1>1, <2>1 DEF Cold, At
<1> QED
  BY <1>2, <1>3, <1>4, Movers

\* What the steps of `new' alone change of a guest's wrapper and stack.
LEMMA NewOnlyTouches ==
    ASSUME NewTypes, NEW p \in Procs \ {Loop}, NewOnly(p), NEW g \in Guests
    PROVE  /\ stack'[g].file = stack[g].file /\ stack'[g].up = stack[g].up
           /\ \/ ~exists[g]
              \/ /\ wrapper'[g].mounts = wrapper[g].mounts
                 /\ wrapper'[g].features = wrapper[g].features
<1> USE DEF store
<1>0. TypeOK /\ stack[g] \in Stacks /\ wrapper[g] \in Wrappers
  BY DEF NewTypes, LoopInv, TypeOK
<1>1. CASE Settle(p) \/ Resolve(p) \/ WriteInitial(p) \/ WaitReady(p) \/ WriteTemplate(p)
  BY <1>1 DEF Settle, Resolve, WriteInitial, WaitReady, WriteTemplate
<1>2. CASE Create(p) \/ CutShort(p)
  BY <1>0, <1>2 DEF Create, CutShort, TypeOK
<1>3. CASE Boot(p)
  <2>1. stack' = stack
    BY <1>3 DEF Boot
  <2>2. \/ wrapper' = wrapper
        \/ wrapper' = [wrapper EXCEPT ![job[p].guest].running = TRUE,
                                      ![job[p].guest].booted = wrapper[job[p].guest].features]
    BY <1>3 DEF Boot
  <2> QED
    BY <1>0, <2>1, <2>2 DEF TypeOK, Wrappers
<1>4. CASE Facts(p)
  <2>1. wrapper' = wrapper /\ stack' = [stack EXCEPT ![job[p].guest].facts = job[p].read]
    BY <1>4 DEF Facts
  <2> QED
    BY <1>0, <2>1 DEF TypeOK, Stacks
<1> QED
  BY <1>1, <1>2, <1>3, <1>4 DEF NewOnly

\* Where they take their process.
LEMMA NewOnlyGoes ==
    ASSUME NewTypes, NEW p \in Procs \ {Loop}, NewOnly(p)
    PROVE  \/ pc'[p] \in {"idle", "lock", "load", "over"}
           \/ pc'[p] = pc[p] /\ job'[p] = job[p] /\ wrapper' = wrapper
<1> USE DEF store, Goto, Finish
<1>0. TypeOK /\ StageOK(p)
  BY DEF NewTypes, LoopInv
<1>1. CASE GivesUp(p)
  BY <1>0, <1>1 DEF GivesUp, TypeOK
<1>2. CASE Settle(p) \/ Resolve(p) \/ Create(p) \/ WriteInitial(p) \/ CutShort(p)
  BY <1>0, <1>1, <1>2 DEF Settle, Resolve, Create, WriteInitial, CutShort, StageOK
<1>3. CASE Boot(p) \/ WaitReady(p) \/ Facts(p) \/ WriteTemplate(p)
  BY <1>0, <1>3 DEF Boot, WaitReady, Facts, WriteTemplate, TypeOK
<1> QED
  BY <1>2, <1>3 DEF NewOnly

LEMMA NewMounts ==
    ASSUME NewTypes, AbsentInv, MountsInv, Checked, [NewNext]_newVars
    PROVE  MountsInv' /\ Checked'
<1>1. CASE [DaemonNext]_daemonVars
  BY <1>1, LoopMounts DEF NewTypes
<1>2. ASSUME NEW p \in Procs \ {Loop}, NewOnly(p) PROVE MountsInv' /\ Checked'
  <2>0. TypeOK
    BY DEF NewTypes, LoopInv
  <2>1. ASSUME NEW q \in Procs, pc[q] \in Holding \ {"load"}
        PROVE  /\ wrapper'[job[q].guest].mounts = wrapper[job[q].guest].mounts
               /\ wrapper'[job[q].guest].features = wrapper[job[q].guest].features
    <3>1. job[q].guest \in Guests
      BY <2>0, <2>1, JobType
    <3>2. exists[job[q].guest]
      BY <2>1, <3>1 DEF AbsentInv, Cold, At, Holding
    <3> QED
      BY <1>2, <3>1, <3>2, NewOnlyTouches
  <2>2. ASSUME NEW q \in Procs, q # p PROVE MountedFor(q)'
    <3>1. pc'[q] = pc[q] /\ job'[q] = job[q] /\ MountedFor(q)
      BY <1>2, <2>2, NewOnlyKeeps DEF MountsInv
    <3> QED
      BY <2>1, <3>1 DEF MountedFor, Holding, DockerHalf
  <2>3. MountedFor(p)'
    <3>1. CASE pc'[p] \in {"idle", "lock", "load", "over"}
      BY <3>1 DEF MountedFor, DockerHalf
    <3>2. CASE pc'[p] = pc[p] /\ job'[p] = job[p] /\ wrapper' = wrapper
      BY <3>2 DEF MountsInv, MountedFor
    <3> QED
      BY <1>2, <3>1, <3>2, NewOnlyGoes
  <2>4. Checked'
    <3>1. pc'[Loop] = pc[Loop] /\ job'[Loop] = job[Loop]
      BY <1>2, NewOnlyKeeps, LoopAssumption
    <3> QED
      BY <2>1, <3>1, LoopAssumption DEF Checked, Holding
  <2> QED
    BY <2>2, <2>3, <2>4 DEF MountsInv
<1>3. ASSUME NEW g \in Guests, Taken(g) PROVE MountsInv' /\ Checked'
  BY <1>3 DEF Taken, MountsInv, MountedFor, Checked
<1> QED
  BY <1>1, <1>2, <1>3, NewKinds

NewMountsInv == Made /\ AbsentInv /\ MountsInv /\ Checked

LEMMA NewMountsAlways == NewSpec => []NewMountsInv
<1>1. NewInit => NewMountsInv
  <2> SUFFICES ASSUME NewInit PROVE NewMountsInv
    OBVIOUS
  <2>1. \A p \in Procs : pc[p] = "idle" /\ stage[p] = "no"
    BY DEF NewInit
  <2>2. Made /\ MountsInv /\ Checked
    BY <2>1, LoopAssumption DEF Made, After, MountsInv, MountedFor, Checked, DockerHalf
  <2>3. FirstInv
    BY FirstInit
  <2>4. AbsentInv
    BY <2>3 DEF FirstInv, ColdInv, NotYet, AbsentInv
  <2> QED
    BY <2>2, <2>4 DEF NewMountsInv
<1>2. NewTypes /\ NewMountsInv /\ [NewNext]_newVars => NewMountsInv'
  BY MadeStep, AbsentStep, NewMounts DEF NewMountsInv
<1> QED
  BY <1>1, <1>2, NewTypesAlways, PTL DEF NewSpec

\* No volume is bound before it is mounted, the first apply of a `new' not
\* excepted: nobody has a job in the guest when its wrapper is made.
THEOREM NewMountsFirst == NewSpec => []MountsFirst
<1>1. NewMountsInv => MountsFirst
  BY DEF NewMountsInv, MountsInv, MountedFor, MountsFirst
<1> QED
  BY <1>1, NewMountsAlways, PTL

\* Beside a `new' the loop changes what the policies let it.
THEOREM NewObeysPolicy == NewSpec => PolicyObeyed
<1>1. NewTypes /\ [NewNext]_newVars => [Obeys]_daemonVars
  <2> SUFFICES ASSUME NewTypes, [NewNext]_newVars PROVE Obeys
    OBVIOUS
  <2>1. CASE [DaemonNext]_daemonVars
    BY <2>1, PolicyStep DEF NewTypes
  <2>2. CASE \E p \in Procs \ {Loop} : NewOnly(p)
    BY <2>2, NewOnlyKeeps, LoopAssumption, ObeysInPlace DEF NewTypes
  <2>3. CASE \E g \in Guests : Taken(g)
    BY <2>3, ObeysInPlace DEF Taken, NewTypes
  <2> QED
    BY <2>1, <2>2, <2>3, NewKinds
<1> QED
  BY <1>1, NewTypesAlways, PTL DEF NewSpec, PolicyObeyed, Obeys

\* Nor does it start a stack that a `new' has left stopped, where the tool
\* alone touches the guests' stacks.
THEOREM NewStartsNothing ==
    ASSUME Disturbances \cap {"power", "inguest"} = {}
    PROVE  NewSpec => LoopNeverStarts
<1>1. NewInit => WasUp
  BY LoopAssumption DEF NewInit, WasUp, Bringing
<1>2. NewTypes /\ WasUp /\ [NewNext]_newVars => WasUp'
  <2> SUFFICES ASSUME NewTypes, WasUp, [NewNext]_newVars PROVE WasUp'
    OBVIOUS
  <2>1. CASE [DaemonNext]_daemonVars
    BY <2>1, WasUpStep DEF NewTypes
  <2>2. ASSUME NEW p \in Procs \ {Loop}, NewOnly(p) PROVE WasUp'
    <3>1. pc'[Loop] = pc[Loop] /\ job'[Loop] = job[Loop]
      BY <2>2, NewOnlyKeeps, LoopAssumption
    <3>2. Bringing => job[Loop].guest \in Guests
      BY JobType, LoopAssumption DEF Bringing, Holding, NewTypes, LoopInv
    <3> QED
      BY <2>2, <3>1, <3>2, NewOnlyTouches DEF WasUp, Bringing
  <2>3. CASE \E g \in Guests : Taken(g)
    BY <2>3 DEF Taken, WasUp, Bringing
  <2> QED
    BY <2>1, <2>2, <2>3, NewKinds
<1>3. WasUp => [pc[Loop] = "up" /\ stack' # stack => stack[job[Loop].guest].up # Nothing]_daemonVars
  BY DEF WasUp, Bringing
<1> QED
  BY <1>1, <1>2, <1>3, NewTypesAlways, PTL DEF NewSpec, LoopNeverStarts

LEMMA NewConvergedStep ==
    ASSUME StackLeftAlone, NewTypes, ConvergedInv, [NewNext]_newVars
    PROVE  ConvergedInv'
<1>1. CASE [DaemonNext]_daemonVars
  BY <1>1, LoopConvergedStep DEF NewTypes
<1>2. ASSUME NEW p \in Procs \ {Loop}, NewOnly(p), NEW q \in Procs PROVE ConvergedFor(q)'
  <2>1. CASE pc'[q] = pc[q] /\ job'[q] = job[q]
    <3>1. pc[q] \in Holding => job[q].guest \in Guests
      BY JobType DEF NewTypes, LoopInv
    <3> QED
      BY <1>2, <2>1, <3>1, NewOnlyTouches, ConvergedKept DEF ConvergedInv
  <2>2. CASE pc'[q] \in {"idle", "lock", "load", "over"}
    BY <2>2 DEF ConvergedFor
  <2> QED
    BY <1>2, <2>1, <2>2, NewOnlyGoes, NewOnlyKeeps
<1>3. CASE \E g \in Guests : Taken(g)
  BY <1>3 DEF Taken, ConvergedInv, ConvergedFor, InPlace, Render
<1> QED
  BY <1>1, <1>2, <1>3, NewKinds DEF ConvergedInv

\* A job whose facts are recorded has converged, beside a `new' and as the
\* first apply of one.
THEOREM NewConverges ==
    ASSUME StackLeftAlone
    PROVE  NewSpec => ApplyConverges
<1>1. NewInit => ConvergedInv
  BY DEF NewInit, ConvergedInv, ConvergedFor
<1>2. NewTypes /\ ConvergedInv /\ [NewNext]_newVars => ConvergedInv'
  BY NewConvergedStep
<1>3. NewTypes /\ NewMountsInv /\ ConvergedInv /\ [NewNext]_newVars
        => [\A p \in Procs :
               pc[p] = "facts" /\ stack'[job[p].guest].facts # stack[job[p].guest].facts
                  => Lands(p)]_vars
  <2> SUFFICES ASSUME NewTypes, NewMountsInv, ConvergedInv, [NewNext]_newVars, NEW p \in Procs,
                      pc[p] = "facts",
                      stack'[job[p].guest].facts # stack[job[p].guest].facts
               PROVE  Lands(p)
    OBVIOUS
  <2>0. TypeOK /\ ConvergedFor(p) /\ MountedFor(p)
    BY DEF NewTypes, LoopInv, NewMountsInv, MountsInv, ConvergedInv
  <2>1. CASE [DaemonNext]_daemonVars
    BY <2>0, <2>1, RecordingIsNext, FactsLand
  <2>2. ASSUME NEW q \in Procs \ {Loop}, NewOnly(q) PROVE Lands(p)
    <3>1. job[p].guest \in Guests
      BY <2>0, JobType DEF Holding
    <3> QED
      BY <2>0, <2>2, <3>1, NewOnlyTouches, LandsWhere
  <2>3. ~(\E g \in Guests : Taken(g))
    BY DEF Taken
  <2> QED
    BY <2>1, <2>2, <2>3, NewKinds
<1> QED
  BY <1>1, <1>2, <1>3, NewTypesAlways, NewMountsAlways, PTL DEF NewSpec, ApplyConverges, Lands
=============================================================================
