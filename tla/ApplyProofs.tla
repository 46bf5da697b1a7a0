---------------------------- MODULE ApplyProofs ----------------------------
(* Proofs about the verbs, for any guests, processes, documents and bounds. *)
EXTENDS Apply, TLAPS

\* What a process knows has a type wherever it came from: the config, ...
LEMMA ConfigsType == ASSUME NEW c \in FirstConfigs PROVE c \in Configs
BY DocumentsAssumption DEF Configs

LEMMA RenderType ==
    ASSUME NEW d \in Documents \cup {NoDocument}, NEW c \in Configs
    PROVE  Render(d, c) \in Texts
BY DEF Render, Texts, Configs

LEMMA AfterOpType ==
    ASSUME NEW w \in Wrappers, NEW op \in Ops
    PROVE  AfterOp(w, op) \in Wrappers
BY DEF AfterOp, Wrappers, Ops

LEMMA WrapperType ==
    ASSUME NEW w \in Wrappers
    PROVE  /\ [w EXCEPT !.running = FALSE] \in Wrappers
           /\ [w EXCEPT !.tag = FALSE] \in Wrappers
           /\ [w EXCEPT !.running = TRUE, !.booted = w.features] \in Wrappers
BY DEF Wrappers

LEMMA PlanType ==
    ASSUME NEW w \in Wrappers, NEW d \in Documents
    PROVE  PlanFor(w, d) \in SUBSET Ops
BY DocumentsAssumption DEF PlanFor, Ops

LEMMA FirstOpsType ==
    ASSUME NEW plan \in SUBSET Ops
    PROVE  FirstOps(plan) \subseteq plan
BY DEF FirstOps

LEMMA StackType ==
    ASSUME NEW s \in Stacks
    PROVE  /\ s.file \in Texts \cup {Nothing} /\ s.up \in Texts \cup {Nothing}
           /\ [s EXCEPT !.docker = TRUE] \in Stacks
           /\ \A t \in Texts \cup {Nothing} :
                 [s EXCEPT !.file = t] \in Stacks /\ [s EXCEPT !.up = t] \in Stacks
           /\ \A r \in Reads : [s EXCEPT !.facts = r] \in Stacks
BY DEF Stacks

LEMMA InitType == Init => TypeOK
<1> SUFFICES ASSUME Init PROVE TypeOK
  OBVIOUS
<1>1. PICK kind \in [Guests -> Starts] :
        /\ wrapper = [g \in Guests |-> FirstWrapper(kind[g], doc[g].text)]
        /\ stack = [g \in Guests |-> FirstStack(kind[g], doc[g], cfg)]
  BY DEF Init
<1>2. doc \in [Guests -> Reads] /\ cfg \in Configs /\ token \in Nat /\ upsets \in Nat
  BY DocumentsAssumption, ConfigsType DEF Init, Reads
<1>3. \A g \in Guests : doc[g].text \in Documents
  BY DocumentsAssumption DEF Init
<1>4. wrapper \in [Guests -> Wrappers]
  <2> SUFFICES ASSUME NEW g \in Guests
               PROVE  FirstWrapper(kind[g], doc[g].text) \in Wrappers
    BY <1>1
  <2>1. kind[g] \in {"new", "bare", "applied"}
    BY NamesAssumption
  <2>2. doc[g].text.vols \in SUBSET Volumes
    BY <1>3, DocumentsAssumption
  <2> QED
    BY <2>1, <2>2 DEF FirstWrapper, NewWrapper, Wrappers
<1>5. stack \in [Guests -> Stacks]
  <2> SUFFICES ASSUME NEW g \in Guests
               PROVE  FirstStack(kind[g], doc[g], cfg) \in Stacks
    BY <1>1
  <2>1. Render(doc[g].text, cfg) \in Texts /\ doc[g] \in Reads
    BY <1>2, <1>3, RenderType
  <2> QED
    BY <2>1 DEF FirstStack, EmptyStack, Stacks
<1>6. /\ lock \in [Guests -> Procs \cup {Nobody}]
      /\ pc \in [Procs -> Labels] /\ job \in [Procs -> Jobs \cup {NoJob}]
      /\ \A p \in Procs : pc[p] = "idle"
  BY DEF Init, Labels
<1> QED
  BY <1>2, <1>4, <1>5, <1>6 DEF TypeOK, Holding

LEMMA InterruptedType ==
    ASSUME TypeOK, NEW p \in Procs, pc[p] \in Holding, Interrupted(p)
    PROVE  wrapper' \in [Guests -> Wrappers] /\ stack' \in [Guests -> Stacks]
<1> DEFINE g == job[p].guest
<1>1. job[p] \in Jobs
  BY DEF TypeOK
<1>2. g \in Guests /\ job[p].plan \in SUBSET Ops /\ job[p].read \in Reads
      /\ job[p].cfg \in Configs
  BY <1>1 DEF Jobs
<1>3. Render(job[p].read.text, job[p].cfg) \in Texts
  BY <1>2, RenderType DEF Reads
<1>4. \A op \in FirstOps(job[p].plan) : AfterOp(wrapper[g], op) \in Wrappers
  BY <1>2, AfterOpType, FirstOpsType DEF TypeOK
<1>5. stack[g] \in Stacks
  BY <1>2 DEF TypeOK
<1>6. wrapper \in [Guests -> Wrappers] /\ stack \in [Guests -> Stacks]
  BY DEF TypeOK
<1>7. CASE UNCHANGED <<wrapper, stack>>
  BY <1>6, <1>7
<1>8. CASE /\ \E op \in FirstOps(job[p].plan) :
                 wrapper' = [wrapper EXCEPT ![job[p].guest] = AfterOp(@, op)]
           /\ UNCHANGED stack
  BY <1>2, <1>4, <1>6, <1>8
<1>9. CASE /\ stack' = [stack EXCEPT ![job[p].guest].docker = TRUE]
           /\ UNCHANGED wrapper
  BY <1>2, <1>5, <1>6, <1>9, StackType
<1>10. CASE /\ stack' = [stack EXCEPT ![job[p].guest].file =
                                        Render(job[p].read.text, job[p].cfg)]
            /\ UNCHANGED wrapper
  BY <1>2, <1>3, <1>5, <1>6, <1>10, StackType
<1>11. CASE /\ \E t \in {Nothing, stack[job[p].guest].file} :
                  stack' = [stack EXCEPT ![job[p].guest].up = t]
            /\ UNCHANGED wrapper
  <2>1. PICK t \in {Nothing, stack[job[p].guest].file} :
              stack' = [stack EXCEPT ![job[p].guest].up = t]
    BY <1>11
  <2>2. t \in Texts \cup {Nothing}
    BY <2>1, <1>5, StackType
  <2> QED
    BY <1>2, <1>5, <1>6, <1>11, <2>1, <2>2, StackType
<1>12. CASE /\ stack' = [stack EXCEPT ![job[p].guest].facts = job[p].read]
            /\ UNCHANGED wrapper
  BY <1>2, <1>5, <1>6, <1>12, StackType
<1> QED
  BY <1>7, <1>8, <1>9, <1>10, <1>11, <1>12 DEF Interrupted

\* What TypeOK says of a process that has a job.
LEMMA JobType ==
    ASSUME TypeOK, NEW p \in Procs, pc[p] \in Holding \cup {"lock", "over"}
    PROVE  /\ job[p] \in Jobs
           /\ job[p].guest \in Guests
           /\ job[p].read \in Reads
           /\ job[p].cfg \in Configs
           /\ job[p].plan \in SUBSET Ops
           /\ wrapper[job[p].guest] \in Wrappers
           /\ stack[job[p].guest] \in Stacks
           /\ Render(job[p].read.text, job[p].cfg) \in Texts
<1>1. job[p] \in Jobs
  BY DEF TypeOK
<1>2. job[p].guest \in Guests /\ job[p].read \in Reads /\ job[p].cfg \in Configs
      /\ job[p].plan \in SUBSET Ops
  BY <1>1 DEF Jobs
<1> QED
  BY <1>1, <1>2, RenderType DEF TypeOK, Reads

LEMMA LoadedJobType ==
    ASSUME NEW j \in Jobs, NEW plan \in SUBSET Ops, NEW b \in BOOLEAN
    PROVE  [j EXCEPT !.plan = plan, !.restart = b] \in Jobs
BY DEF Jobs

LEMMA VerbStepType ==
    ASSUME TypeOK, NEW p \in Procs, VerbSteps(p)
    PROVE  TypeOK'
<1> USE DEF store, Holding, Labels
<1>1. CASE TakeLock(p)
  BY <1>1, JobType DEF TypeOK, TakeLock, Goto
<1>2. CASE Busy(p)
  BY <1>2 DEF TypeOK, Busy, Goto
<1>3. CASE PctOp(p)
  <2>1. PICK op \in FirstOps(job[p].plan) :
          /\ wrapper' = [wrapper EXCEPT ![job[p].guest] = AfterOp(@, op)]
          /\ job' = [job EXCEPT ![p].plan = @ \ {op}]
    BY <1>3 DEF PctOp
  <2>2. AfterOp(wrapper[job[p].guest], op) \in Wrappers
    BY <1>3, <2>1, JobType, FirstOpsType, AfterOpType DEF PctOp
  <2>3. [job[p] EXCEPT !.plan = @ \ {op}] \in Jobs
    BY <1>3, JobType DEF PctOp, Jobs
  <2> QED
    BY <1>3, <2>1, <2>2, <2>3 DEF TypeOK, PctOp
<1>4. CASE PctDone(p)
  BY <1>4, JobType DEF TypeOK, PctDone, Finish, Goto
<1>5. CASE EnsureDocker(p)
  BY <1>5, JobType, StackType DEF TypeOK, EnsureDocker, Goto
<1>6. CASE InstallFails(p)
  BY <1>6, JobType, StackType DEF TypeOK, InstallFails, Finish, Goto
<1>7. CASE Decide(p)
  <2>1. [job[p] EXCEPT !.start = Starting(p)] \in Jobs
    <3>1. Starting(p) \in BOOLEAN
      BY DEF Starting
    <3> QED
      BY <1>7, <3>1, JobType DEF Decide, Jobs
  <2> QED
    BY <1>7, <2>1 DEF TypeOK, Decide, Goto, AfterWrite
<1>8. CASE Write(p)
  BY <1>8, JobType, StackType DEF TypeOK, Write, Goto, AfterWrite
<1>9. CASE Pull(p)
  BY <1>9, JobType DEF TypeOK, Pull, Goto
<1>10. CASE Up(p)
  BY <1>10, JobType, StackType DEF TypeOK, Up, Goto
<1>11. CASE RecordFacts(p)
  BY <1>11, JobType, StackType DEF TypeOK, RecordFacts, Finish, Goto
<1>12. CASE GuestFails(p)
  BY <1>12, JobType DEF TypeOK, GuestFails, Cannot, Finish, Goto
<1>13. CASE LoadConfig(p)
  <2> DEFINE j == job[p]
             plan == IF HasPct(j.verb) THEN PlanFor(wrapper[j.guest], j.read.text) ELSE {}
  <2>1. /\ pc[p] = "config" /\ j \in Jobs /\ j.guest \in Guests
        /\ wrapper[j.guest] \in Wrappers /\ j.read.text \in Documents
    BY <1>13, JobType DEF LoadConfig, TypeOK
  <2>2. plan \in SUBSET Ops
    BY <2>1, PlanType
  <2>3. job' = [job EXCEPT ![p] = [job[p] EXCEPT !.plan = plan,
                                                !.restart = "features" \in plan]]
    BY <1>13 DEF LoadConfig
  <2>4. [job[p] EXCEPT !.plan = plan, !.restart = "features" \in plan] \in Jobs
    <3>1. ("features" \in plan) \in BOOLEAN
      OBVIOUS
    <3> HIDE DEF plan
    <3> QED
      BY <2>1, <2>2, <3>1, LoadedJobType
  <2>5. pc' \in [Procs -> Labels] /\ pc'[p] \notin {"lock", "config"}
    BY <1>13 DEF LoadConfig, TypeOK, Goto
  <2>6. job' \in [Procs -> Jobs \cup {NoJob}] /\ job'[p] \in Jobs
    BY <2>3, <2>4 DEF TypeOK
  <2>7. \A q \in Procs \ {p} : pc'[q] = pc[q] /\ job'[q] = job[q]
    BY <1>13, <2>3 DEF LoadConfig, Goto, TypeOK
  <2> QED
    BY <1>13, <2>5, <2>6, <2>7 DEF TypeOK, LoadConfig
<1>14. CASE Refuse(p)
  BY <1>14, JobType DEF TypeOK, Refuse, Finish, Goto
<1>15. CASE Return(p)
  BY <1>15 DEF TypeOK, Return, Goto
<1>16. CASE RequireRunning(p) \/ EnsureLayout(p)
  BY <1>16, JobType DEF TypeOK, RequireRunning, EnsureLayout, Goto
<1>17. CASE LoadDocument(p)
  <2>1. /\ pc[p] = "read" /\ job[p] \in Jobs /\ job[p].guest \in Guests
        /\ doc[job[p].guest] \in Reads /\ doc[job[p].guest].text \in Documents
    BY <1>17, JobType DEF LoadDocument, TypeOK, Reads
  <2>2. [job[p] EXCEPT !.read = doc[job[p].guest]] \in Jobs
        /\ [job[p] EXCEPT !.read = doc[job[p].guest]].read = doc[job[p].guest]
    BY <2>1 DEF Jobs
  <2> QED
    BY <1>17, <2>1, <2>2 DEF TypeOK, LoadDocument, Goto
<1> QED
  BY <1>1, <1>2, <1>3, <1>4, <1>5, <1>6, <1>7, <1>8, <1>9, <1>10, <1>11, <1>12,
     <1>13, <1>14, <1>15, <1>16, <1>17 DEF VerbSteps, Steps, Loads
\* A step of the world outside, a failure or a crash keeps the types too.
LEMMA OtherStepType ==
    ASSUME TypeOK, World \/ \E p \in Procs : \/ \E g \in Guests, v \in Verbs : StartVerb(p, g, v)
                                             \/ Passthrough(p) \/ CommandFails(p) \/ Crash(p)
    PROVE  TypeOK'
<1> USE DEF store, Holding, Labels
<1>1. ASSUME NEW p \in Procs, NEW g \in Guests, NEW v \in Verbs, StartVerb(p, g, v)
      PROVE  TypeOK'
  <2>1. [guest |-> g, verb |-> v, cfg |-> cfg, read |-> [text |-> NoDocument, rev |-> 0],
         plan |-> {}, restart |-> FALSE, start |-> FALSE] \in Jobs
    BY NamesAssumption DEF Jobs, TypeOK, Reads
  <2> QED
    BY <1>1, <2>1 DEF TypeOK, StartVerb, Goto
<1>2. ASSUME NEW p \in Procs, Passthrough(p) PROVE TypeOK'
  <2>1. PICK after \in {Nothing, stack[job[p].guest].up, stack[job[p].guest].file} :
          stack' = [stack EXCEPT ![job[p].guest].up = after]
    BY <1>2 DEF Passthrough
  <2>2. pc[p] = "compose"
    BY <1>2 DEF Passthrough
  <2>3. after \in Texts \cup {Nothing}
    BY <2>1, <2>2, JobType, StackType
  <2>4. stack' \in [Guests -> Stacks]
    BY <2>1, <2>2, <2>3, JobType, StackType DEF TypeOK
  <2> QED
    BY <1>2, <2>2, <2>4, JobType DEF TypeOK, Passthrough, Finish, Goto
<1>3. ASSUME NEW p \in Procs, CommandFails(p) PROVE TypeOK'
  BY <1>3, JobType, InterruptedType DEF TypeOK, CommandFails, Upset, Finish, Goto
<1>4. ASSUME NEW p \in Procs, Crash(p) PROVE TypeOK'
  <2>1. wrapper' \in [Guests -> Wrappers] /\ stack' \in [Guests -> Stacks]
        /\ lock' \in [Guests -> Procs \cup {Nobody}]
    BY <1>4, InterruptedType DEF TypeOK, Crash
  <2> QED
    BY <1>4, <2>1 DEF TypeOK, Crash, Upset, Goto
<1>5. ASSUME NEW g \in Guests, NEW d \in Documents \cup {NoDocument}, EditDocument(g, d)
      PROVE  TypeOK'
  BY <1>5 DEF TypeOK, EditDocument, Reads
<1>6. ASSUME NEW c \in Configs, ChangeConfig(c) PROVE TypeOK'
  BY <1>6 DEF TypeOK, ChangeConfig, Upset
<1>7. ASSUME NEW g \in Guests, Stop(g) \/ Untag(g) PROVE TypeOK'
  <2>1. /\ [wrapper[g] EXCEPT !.running = FALSE] \in Wrappers
        /\ [wrapper[g] EXCEPT !.tag = FALSE] \in Wrappers
    BY WrapperType DEF TypeOK
  <2>2. wrapper' \in [Guests -> Wrappers]
    BY <1>7, <2>1 DEF TypeOK, Stop, Untag
  <2>3. UNCHANGED <<doc, token, cfg, stack, lock, pc, job>> /\ upsets' \in Nat
    BY <1>7 DEF TypeOK, Stop, Untag, Upset
  <2> QED
    BY <2>2, <2>3 DEF TypeOK
<1>8. ASSUME NEW g \in Guests, Start(g) PROVE TypeOK'
  <2>1. PICK t \in {Nothing, stack[g].up} : stack' = [stack EXCEPT ![g].up = t]
    BY <1>8 DEF Start
  <2>2. stack' \in [Guests -> Stacks]
    BY <2>1, StackType DEF TypeOK
  <2>3. wrapper' \in [Guests -> Wrappers]
    <3>1. [wrapper[g] EXCEPT !.running = TRUE, !.booted = wrapper[g].features] \in Wrappers
      BY WrapperType DEF TypeOK
    <3> QED
      BY <1>8, <3>1 DEF TypeOK, Start
  <2> QED
    BY <1>8, <2>2, <2>3 DEF TypeOK, Start
<1>9. ASSUME NEW g \in Guests, ComposeByHand(g) PROVE TypeOK'
  <2>1. PICK t \in {Nothing, stack[g].file} : stack' = [stack EXCEPT ![g].up = t]
    BY <1>9 DEF ComposeByHand
  <2>2. stack' \in [Guests -> Stacks]
    BY <2>1, StackType DEF TypeOK
  <2> QED
    BY <1>9, <2>2 DEF TypeOK, ComposeByHand, Upset
<1>10. ASSUME NEW g \in Guests, EditFile(g) PROVE TypeOK'
  <2>1. stack[g].file \in Texts
    BY <1>10, StackType DEF EditFile, TypeOK
  <2>2. HandEdited(stack[g].file) \in Texts
    BY <2>1 DEF Texts, HandEdited
  <2>3. stack' \in [Guests -> Stacks]
    BY <1>10, <2>2, StackType DEF TypeOK, EditFile
  <2> QED
    BY <1>10, <2>3 DEF TypeOK, EditFile, Upset
<1> QED
  BY <1>1, <1>2, <1>3, <1>4, <1>5, <1>6, <1>7, <1>8, <1>9, <1>10 DEF World

LEMMA TypeStep == TypeOK /\ [Next]_vars => TypeOK'
<1>1. CASE UNCHANGED vars
  BY <1>1 DEF TypeOK, vars
<1>2. CASE Next
  BY <1>2, VerbStepType, OtherStepType DEF Next, Shell
<1> QED
  BY <1>1, <1>2

\* Every variable keeps its type, whatever fails.
THEOREM TypeCorrect == Spec => []TypeOK
BY InitType, TypeStep, PTL DEF Spec
-----------------------------------------------------------------------------
(* Mutual exclusion.  OneWriter is not inductive: it says nothing of who    *)
(* owns the lock.  A process between its first and its last command owns    *)
(* its guest's lock, and a lock has one owner.                              *)

LockInv == \A p \in Procs : pc[p] \in Holding => lock[job[p].guest] = p

LEMMA LockStep == TypeOK /\ LockInv /\ [Next]_vars => LockInv'
<1> SUFFICES ASSUME TypeOK, LockInv, [Next]_vars PROVE LockInv'
  OBVIOUS
<1> USE DEF store
<1>1. CASE UNCHANGED vars
  BY <1>1 DEF LockInv, vars
\* A process that gives its lock up disturbs nobody else's claim.
<1>2. ASSUME NEW p \in Procs, pc[p] \in Holding, pc'[p] \notin Holding,
             lock' = [lock EXCEPT ![job[p].guest] = Nobody],
             \A q \in Procs \ {p} : pc'[q] = pc[q] /\ job'[q] = job[q]
      PROVE  LockInv'
  <2> SUFFICES ASSUME NEW q \in Procs, pc'[q] \in Holding
               PROVE  lock'[job'[q].guest] = q
    BY DEF LockInv
  <2>1. q # p /\ pc[q] \in Holding /\ job'[q] = job[q]
    BY <1>2
  <2>2. lock[job[q].guest] = q /\ lock[job[p].guest] = p
    BY <1>2, <2>1 DEF LockInv
  <2> QED
    BY <1>2, <2>1, <2>2, JobType DEF TypeOK
\* A process that goes on, or a step of the world, leaves the locks alone.
<1>3. ASSUME UNCHANGED lock,
             \A q \in Procs :
                pc'[q] \in Holding => pc[q] \in Holding /\ job'[q].guest = job[q].guest
      PROVE  LockInv'
  BY <1>3 DEF LockInv
<1>4. CASE World
  BY <1>3, <1>4 DEF World, EditDocument, ChangeConfig, Stop, Start, Untag,
                    ComposeByHand, EditFile
<1>5. ASSUME NEW p \in Procs, Shell(p) PROVE LockInv'
  <2>1. CASE \E g \in Guests, v \in Verbs : StartVerb(p, g, v)
    BY <1>3, <2>1 DEF StartVerb, Goto, TypeOK, Holding
  <2>2. CASE TakeLock(p)
    <3> SUFFICES ASSUME NEW q \in Procs, pc'[q] \in Holding
                 PROVE  lock'[job'[q].guest] = q
      BY DEF LockInv
    <3>1. job[p].guest \in Guests /\ job' = job
      BY <2>2, JobType DEF TakeLock
    <3>2. CASE q = p
      BY <2>2, <3>1, <3>2 DEF TakeLock, TypeOK
    <3>3. CASE q # p
      <4>1. pc[q] \in Holding /\ lock[job[q].guest] = q
        BY <2>2, <3>3 DEF TakeLock, Goto, TypeOK, LockInv
      <4>2. job[q].guest # job[p].guest
        BY <2>2, <4>1, NamesAssumption DEF TakeLock
      <4> QED
        BY <2>2, <3>1, <4>1, <4>2, JobType DEF TakeLock, TypeOK
    <3> QED
      BY <3>2, <3>3
  <2>3. CASE Busy(p) \/ Return(p)
    BY <1>3, <2>3 DEF Busy, Return, Goto, TypeOK, Holding
  <2>4. CASE PctOp(p)
    BY <1>3, <2>4, JobType DEF PctOp, TypeOK, Holding
  <2>5. CASE EnsureDocker(p) \/ EnsureLayout(p) \/ Write(p) \/ Pull(p) \/ Up(p)
             \/ RequireRunning(p)
    BY <1>3, <2>5 DEF EnsureDocker, EnsureLayout, Write, Pull, Up, RequireRunning, Goto,
                      TypeOK, Holding
  <2>6. CASE Decide(p)
    BY <1>3, <2>6, JobType DEF Decide, Goto, TypeOK, Holding
  <2>7. CASE LoadDocument(p) \/ LoadConfig(p)
    <3>1. job[p] \in Jobs
      BY <2>7, JobType DEF LoadDocument, LoadConfig, Holding
    <3>2. job'[p].guest = job[p].guest
      BY <2>7, <3>1 DEF LoadDocument, LoadConfig, TypeOK, Jobs
    <3> QED
      BY <1>3, <2>7, <3>2 DEF LoadDocument, LoadConfig, Goto, TypeOK, Holding
  <2>8. CASE PctDone(p)
    <3>1. CASE Finish(p)
      BY <1>2, <2>8, <3>1 DEF PctDone, Finish, Goto, TypeOK, Holding
    <3>2. CASE UNCHANGED lock
      BY <1>3, <2>8, <3>2 DEF PctDone, Finish, Goto, TypeOK, Holding
    <3> QED
      BY <2>8, <3>1, <3>2 DEF PctDone
  <2>9. CASE InstallFails(p) \/ RecordFacts(p) \/ GuestFails(p) \/ Refuse(p)
             \/ Passthrough(p) \/ CommandFails(p)
    BY <1>2, <2>9 DEF InstallFails, RecordFacts, GuestFails, Cannot, Refuse, Passthrough,
                      CommandFails, Finish, Goto, TypeOK, Holding
  <2>10. CASE Crash(p)
    <3>1. CASE pc[p] \in Holding
      BY <1>2, <2>10, <3>1 DEF Crash, Goto, TypeOK, Holding
    <3>2. CASE pc[p] \notin Holding
      BY <1>3, <2>10, <3>2 DEF Crash, Goto, TypeOK, Holding
    <3> QED
      BY <3>1, <3>2
  <2> QED
    BY <1>5, <2>1, <2>2, <2>3, <2>4, <2>5, <2>6, <2>7, <2>8, <2>9, <2>10
       DEF Shell, VerbSteps, Steps, Loads
<1> QED
  BY <1>1, <1>4, <1>5 DEF Next

\* No two processes are ever at work on the same guest.
THEOREM MutualExclusion == Spec => []OneWriter
<1>1. Init => LockInv
  BY DEF Init, LockInv, Holding
<1>2. LockInv => OneWriter
  BY DEF LockInv, OneWriter
<1> QED
  BY <1>1, <1>2, LockStep, TypeCorrect, PTL DEF Spec
-----------------------------------------------------------------------------
(* The volumes are mounted before the docker half.  MountsFirst speaks of   *)
(* the docker half only; during the pct half what is not yet mounted is     *)
(* still in the plan, and the features are set or the job is to stop.       *)

MountedFor(p) ==
    LET w == wrapper[job[p].guest]
    IN  /\ pc[p] = "pct" => /\ job[p].read.text \in Documents
                            /\ job[p].read.text.vols \subseteq w.mounts \cup job[p].plan
                            /\ job[p].restart \/ w.features
        /\ pc[p] \in DockerHalf /\ PctIncluded(job[p])
              => /\ job[p].read.text.vols \subseteq w.mounts
                 /\ w.features
                 /\ ~job[p].restart

MountsInv == \A p \in Procs : MountedFor(p)

\* Nothing removes a mountpoint or takes a feature back.
LEMMA WrapperGrows ==
    ASSUME TypeOK, [Next]_vars, NEW g \in Guests
    PROVE  /\ wrapper[g].mounts \subseteq wrapper'[g].mounts
           /\ wrapper[g].features => wrapper'[g].features
<1> USE DEF store, Holding
<1>1. CASE wrapper' = wrapper
  BY <1>1
<1>2. ASSUME NEW h \in Guests, NEW op \in Ops, wrapper' = [wrapper EXCEPT ![h] = AfterOp(@, op)]
      PROVE  /\ wrapper[g].mounts \subseteq wrapper'[g].mounts
             /\ wrapper[g].features => wrapper'[g].features
  <2>1. wrapper[h] \in Wrappers
    BY DEF TypeOK
  <2>2. /\ wrapper[h].mounts \subseteq AfterOp(wrapper[h], op).mounts
        /\ wrapper[h].features => AfterOp(wrapper[h], op).features
    BY <2>1 DEF AfterOp, Wrappers
  <2> QED
    BY <1>2, <2>2 DEF TypeOK
<1>3. ASSUME NEW p \in Procs, pc[p] \in Holding, Interrupted(p)
      PROVE  wrapper' = wrapper \/ \E h \in Guests, op \in Ops :
                                      wrapper' = [wrapper EXCEPT ![h] = AfterOp(@, op)]
  <2>1. job[p].guest \in Guests /\ FirstOps(job[p].plan) \subseteq Ops
    BY <1>3, JobType, FirstOpsType
  <2> QED
    BY <1>3, <2>1 DEF Interrupted
<1>4. ASSUME NEW p \in Procs, Shell(p)
      PROVE  wrapper' = wrapper \/ \E h \in Guests, op \in Ops :
                                      wrapper' = [wrapper EXCEPT ![h] = AfterOp(@, op)]
  <2>1. CASE CommandFails(p)
    BY <1>3, <2>1 DEF CommandFails
  <2>2. CASE Crash(p)
    BY <1>3, <2>2 DEF Crash
  <2>3. CASE PctOp(p)
    <3>1. job[p].guest \in Guests /\ FirstOps(job[p].plan) \subseteq Ops
      BY <2>3, JobType, FirstOpsType DEF PctOp
    <3> QED
      BY <2>3, <3>1 DEF PctOp
  <2> QED
    BY <1>4, <2>1, <2>2, <2>3
       DEF Shell, VerbSteps, Steps, StartVerb, TakeLock, Busy, Return, Loads, RequireRunning,
           LoadDocument, LoadConfig, Refuse, PctDone, EnsureDocker, InstallFails,
           EnsureLayout, Decide, Write, Pull, Up, RecordFacts, Passthrough, GuestFails
<1>5. CASE World
    <2>1. ASSUME NEW h \in Guests, Stop(h) \/ Start(h) \/ Untag(h)
        PROVE  /\ wrapper[g].mounts \subseteq wrapper'[g].mounts
               /\ wrapper[g].features => wrapper'[g].features
    <3>1. wrapper \in [Guests -> Wrappers] /\ wrapper[h] \in Wrappers
      BY DEF TypeOK
    <3>2. CASE Stop(h)
      BY <3>1, <3>2 DEF Stop, Wrappers
    <3>3. CASE Start(h)
      BY <3>1, <3>3 DEF Start, Wrappers
    <3>4. CASE Untag(h)
      BY <3>1, <3>4 DEF Untag, Wrappers
    <3> QED
      BY <2>1, <3>2, <3>3, <3>4
  <2> QED
    BY <1>1, <1>5, <2>1 DEF World, EditDocument, ChangeConfig, ComposeByHand, EditFile
<1>6. CASE UNCHANGED vars
  BY <1>1, <1>6 DEF vars
<1> QED
  BY <1>1, <1>2, <1>4, <1>5, <1>6 DEF Next

LEMMA MountsStep == TypeOK /\ MountsInv /\ [Next]_vars => MountsInv'
<1> SUFFICES ASSUME TypeOK, MountsInv, [Next]_vars, NEW q \in Procs
             PROVE  MountedFor(q)'
  BY DEF MountsInv
<1>0. MountedFor(q)
  BY DEF MountsInv
<1> USE DEF store
\* A process that stays where it is: its guest's wrapper only gains.
<1>1. CASE pc'[q] = pc[q] /\ job'[q] = job[q]
  <2>1. CASE pc[q] \in Holding
    BY <1>0, <1>1, <2>1, JobType, WrapperGrows DEF MountedFor, Holding, DockerHalf,
                                                   PctIncluded
  <2>2. CASE pc[q] \notin Holding
    BY <1>1, <2>2 DEF MountedFor, Holding, DockerHalf
  <2> QED
    BY <2>1, <2>2
\* A process that leaves both halves, or is not in them yet.
<1>2. CASE pc'[q] \notin {"pct"} \cup DockerHalf
  BY <1>2 DEF MountedFor
\* A process that goes on in the docker half.
<1>3. CASE pc[q] \in DockerHalf /\ wrapper' = wrapper
           /\ pc'[q] # "pct" /\ job'[q].guest = job[q].guest
           /\ job'[q].read = job[q].read /\ job'[q].restart = job[q].restart
           /\ job'[q].verb = job[q].verb
  BY <1>0, <1>3 DEF MountedFor, PctIncluded
<1>4. CASE World \/ UNCHANGED vars
  BY <1>1, <1>4 DEF World, EditDocument, ChangeConfig, Stop, Start, Untag, ComposeByHand,
                    EditFile, vars
<1>5. ASSUME NEW p \in Procs, Shell(p) PROVE MountedFor(q)'
  <2>1. CASE q # p
    <3>1. pc'[q] = pc[q] /\ job'[q] = job[q]
      BY <1>5, <2>1
         DEF Shell, VerbSteps, Steps, StartVerb, TakeLock, Busy, Return, Loads,
             RequireRunning, LoadDocument, LoadConfig, Refuse, PctOp, PctDone, EnsureDocker,
             InstallFails, EnsureLayout, Decide, Write, Pull, Up, RecordFacts, Passthrough,
             GuestFails, CommandFails, Crash, Goto, Finish, TypeOK
    <3> QED
      BY <1>1, <3>1
  <2>2. CASE q = p
    <3>1. CASE LoadConfig(p)
      <4>1. /\ pc[p] = "config" /\ UNCHANGED wrapper
            /\ job[p] \in Jobs /\ job[p].read.text \in Documents
        BY <3>1, JobType DEF LoadConfig, Holding, TypeOK
      <4>2. job'[p].guest = job[p].guest /\ job'[p].verb = job[p].verb
            /\ job'[p].read = job[p].read
        BY <3>1, <4>1 DEF LoadConfig, TypeOK, Jobs
      <4>3. CASE HasPct(job[p].verb)
        <5>1. /\ pc'[p] = "pct"
              /\ job'[p].plan = PlanFor(wrapper[job[p].guest], job[p].read.text)
              /\ job'[p].restart = ("features" \in job'[p].plan)
          BY <3>1, <4>1, <4>3 DEF LoadConfig, Goto, TypeOK, Jobs
        <5>2. /\ job[p].read.text.vols \subseteq wrapper[job[p].guest].mounts
                    \cup PlanFor(wrapper[job[p].guest], job[p].read.text)
              /\ \/ wrapper[job[p].guest].features
                 \/ "features" \in PlanFor(wrapper[job[p].guest], job[p].read.text)
          BY DEF PlanFor
        <5> QED
          BY <2>2, <4>1, <4>2, <5>1, <5>2 DEF MountedFor, DockerHalf
      <4>4. CASE ~HasPct(job[p].verb)
        <5>1. pc'[p] = "docker"
          BY <3>1, <4>4 DEF LoadConfig, Goto, TypeOK
        <5> QED
          BY <2>2, <4>2, <4>4, <5>1 DEF MountedFor, PctIncluded
      <4> QED
        BY <4>3, <4>4
    <3>2. CASE PctOp(p)
      <4>1. PICK op \in FirstOps(job[p].plan) :
              /\ wrapper' = [wrapper EXCEPT ![job[p].guest] = AfterOp(@, op)]
              /\ job' = [job EXCEPT ![p].plan = @ \ {op}]
        BY <3>2 DEF PctOp
      <4>2. /\ pc[p] = "pct" /\ pc'[p] = "pct" /\ job[p] \in Jobs
            /\ job[p].guest \in Guests /\ op \in Ops
            /\ wrapper[job[p].guest] \in Wrappers /\ job[p].read \in Reads
        BY <3>2, <4>1, JobType, FirstOpsType DEF PctOp, Holding
      <4>3. /\ job'[p].plan = job[p].plan \ {op} /\ job'[p].guest = job[p].guest
            /\ job'[p].read = job[p].read /\ job'[p].restart = job[p].restart
            /\ wrapper'[job[p].guest] = AfterOp(wrapper[job[p].guest], op)
        BY <4>1, <4>2 DEF TypeOK, Jobs
      <4>4. op \in Volumes => op \in AfterOp(wrapper[job[p].guest], op).mounts
        BY <4>2, NamesAssumption DEF AfterOp, Wrappers
      <4>5. /\ wrapper[job[p].guest].mounts \subseteq wrapper'[job[p].guest].mounts
            /\ wrapper[job[p].guest].features => wrapper'[job[p].guest].features
        BY <4>2, WrapperGrows
      <4>6. /\ job[p].read.text \in Documents
            /\ job[p].read.text.vols \subseteq wrapper[job[p].guest].mounts \cup job[p].plan
            /\ (job[p].restart \/ wrapper[job[p].guest].features)
        BY <1>0, <2>2, <4>2 DEF MountedFor
      <4>7. op \in Volumes \/ op \in {"features", "tag"}
        BY <4>2 DEF Ops
      <4>8. job[p].read.text.vols \cap {"features", "tag"} = {}
        BY <4>6, NamesAssumption, DocumentsAssumption
      <4> QED
        BY <2>2, <4>2, <4>3, <4>4, <4>5, <4>6, <4>7, <4>8 DEF MountedFor, DockerHalf
    <3>3. CASE PctDone(p)
      <4>1. pc[p] = "pct" /\ job[p].plan = {} /\ job' = job /\ wrapper' = wrapper
        BY <3>3 DEF PctDone
      <4>2. CASE job[p].restart
        BY <1>2, <2>2, <3>3, <4>2 DEF PctDone, Finish, Goto, TypeOK, DockerHalf
      <4>3. CASE ~job[p].restart
        <5>1. pc'[p] # "pct"
          BY <3>3 DEF PctDone, Finish, Goto, TypeOK
        <5> QED
          BY <1>0, <2>2, <4>1, <4>3, <5>1 DEF MountedFor
      <4> QED
        BY <4>2, <4>3
    <3>4. CASE EnsureDocker(p) \/ EnsureLayout(p) \/ Write(p) \/ Pull(p) \/ Up(p)
      BY <1>3, <2>2, <3>4 DEF EnsureDocker, EnsureLayout, Write, Pull, Up, AfterWrite, Goto,
                              TypeOK, DockerHalf
    <3>5. CASE Decide(p)
      <4>1. job[p] \in Jobs
        BY <3>5, JobType DEF Decide, Holding
      <4> QED
        BY <1>3, <2>2, <3>5, <4>1 DEF Decide, AfterWrite, Goto, TypeOK, DockerHalf, Jobs
    <3>6. CASE \/ \E g \in Guests, v \in Verbs : StartVerb(p, g, v)
               \/ TakeLock(p) \/ Busy(p) \/ Return(p) \/ Crash(p)
               \/ RequireRunning(p) \/ LoadDocument(p)
      BY <1>2, <2>2, <3>6 DEF StartVerb, TakeLock, Busy, Return, Crash, RequireRunning,
                              LoadDocument, Goto, TypeOK, DockerHalf
    <3>7. CASE InstallFails(p) \/ RecordFacts(p) \/ GuestFails(p) \/ Refuse(p)
               \/ Passthrough(p) \/ CommandFails(p)
      BY <1>2, <2>2, <3>7 DEF InstallFails, RecordFacts, GuestFails, Refuse, Passthrough,
                             CommandFails, Finish, Goto, TypeOK, DockerHalf
    <3> QED
      BY <1>5, <3>1, <3>2, <3>3, <3>4, <3>5, <3>6, <3>7 DEF Shell, VerbSteps, Steps, Loads
  <2> QED
    BY <2>1, <2>2
<1> QED
  BY <1>4, <1>5 DEF Next

\* No job that includes the pct half reaches the docker half before every
\* volume of its document is mounted and the features are set.
THEOREM VolumesBeforeCompose == Spec => []MountsFirst
<1>1. Init => MountsInv
  BY DEF Init, MountsInv, MountedFor, DockerHalf
<1>2. MountsInv => MountsFirst
  BY DEF MountsInv, MountedFor, MountsFirst
<1> QED
  BY <1>1, <1>2, MountsStep, TypeCorrect, PTL DEF Spec
-----------------------------------------------------------------------------
(* Facts never go back.  What keeps a slow job from recording an old text   *)
(* after a newer one: it read the document under the lock, so no facts are  *)
(* younger than its text, and while it holds the lock none can become so.   *)

PastLoad == Holding \ {"load", "read", "compose"}

StoreInv ==
    \A g \in Guests :
        /\ doc[g].rev < token
        /\ stack[g].facts # Nothing => stack[g].facts.rev <= doc[g].rev

FreshFor(p) ==
    pc[p] \in PastLoad =>
        LET g == job[p].guest
        IN  /\ job[p].read.rev <= doc[g].rev
            /\ stack[g].facts # Nothing => stack[g].facts.rev <= job[p].read.rev

RevInv == StoreInv /\ \A p \in Procs : FreshFor(p)

\* Only a job at its last command changes the facts, which ends it and leaves
\* the file and the containers alone.
LEMMA FactsChange ==
    ASSUME TypeOK, [Next]_vars, NEW g \in Guests, stack'[g].facts # stack[g].facts
    PROVE  \E p \in Procs : /\ pc[p] = "facts" /\ job[p].guest = g
                            /\ stack'[g].facts = job[p].read
                            /\ stack'[g].file = stack[g].file /\ stack'[g].up = stack[g].up
                            /\ pc'[p] \notin Holding
                            /\ UNCHANGED doc /\ UNCHANGED token
<1> USE DEF store
<1>1. CASE stack' = stack
  BY <1>1
<1>2. ASSUME NEW h \in Guests, NEW s,
             stack' = [stack EXCEPT ![h] = s], s.facts = stack[h].facts
      PROVE  FALSE
  BY <1>2 DEF TypeOK
<1>3. ASSUME NEW h \in Guests, NEW t, stack' = [stack EXCEPT ![h].up = t] PROVE FALSE
  BY <1>3 DEF TypeOK, Stacks
<1>4. ASSUME NEW h \in Guests, NEW t, stack' = [stack EXCEPT ![h].file = t] PROVE FALSE
  BY <1>4 DEF TypeOK, Stacks
<1>5. ASSUME NEW h \in Guests, stack' = [stack EXCEPT ![h].docker = TRUE] PROVE FALSE
  BY <1>5 DEF TypeOK, Stacks
<1>6. CASE World
  <2>1. ~(\E h \in Guests : Start(h))
    BY <1>3 DEF Start
  <2>2. ~(\E h \in Guests : ComposeByHand(h))
    BY <1>3 DEF ComposeByHand
  <2>3. ~(\E h \in Guests : EditFile(h))
    BY <1>4 DEF EditFile
  <2> QED
    BY <1>1, <1>6, <2>1, <2>2, <2>3 DEF World, EditDocument, ChangeConfig, Stop, Untag
<1>7. ASSUME NEW p \in Procs, pc[p] \in Holding, Interrupted(p)
      PROVE  /\ pc[p] = "facts" /\ job[p].guest = g
             /\ stack'[g].facts = job[p].read
             /\ stack'[g].file = stack[g].file /\ stack'[g].up = stack[g].up
  <2>1. job[p].guest \in Guests
    BY <1>7, JobType
  <2>2. stack' = [stack EXCEPT ![job[p].guest].facts = job[p].read] /\ pc[p] = "facts"
    BY <1>1, <1>3, <1>4, <1>5, <1>7, <2>1 DEF Interrupted
  <2> QED
    BY <2>1, <2>2 DEF TypeOK, Stacks
<1>8. ASSUME NEW p \in Procs, Shell(p)
      PROVE  /\ pc[p] = "facts" /\ job[p].guest = g
             /\ stack'[g].facts = job[p].read
             /\ stack'[g].file = stack[g].file /\ stack'[g].up = stack[g].up
             /\ pc'[p] \notin Holding
             /\ UNCHANGED doc /\ UNCHANGED token
  <2>1. CASE CommandFails(p)
    BY <1>7, <2>1 DEF CommandFails, Finish, Goto, TypeOK, Holding
  <2>2. CASE Crash(p)
    BY <1>1, <1>7, <2>2 DEF Crash, Goto, TypeOK, Holding
  <2>3. CASE RecordFacts(p)
    <3>1. job[p].guest \in Guests
      BY <2>3, JobType DEF RecordFacts, Holding
    <3>2. stack' = [stack EXCEPT ![job[p].guest].facts = job[p].read]
      BY <2>3 DEF RecordFacts
    <3>3. /\ job[p].guest = g /\ stack'[g].facts = job[p].read
          /\ stack'[g].file = stack[g].file /\ stack'[g].up = stack[g].up
      BY <3>1, <3>2 DEF TypeOK, Stacks
    <3> QED
      BY <2>3, <3>3 DEF RecordFacts, Finish, Goto, TypeOK, Holding
  <2>4. CASE EnsureDocker(p) \/ InstallFails(p)
    BY <1>5, <2>4, JobType DEF EnsureDocker, InstallFails, Holding
  <2>5. CASE Write(p)
    BY <1>4, <2>5, JobType DEF Write, Holding
  <2>6. CASE Up(p)
    BY <1>3, <2>6, JobType DEF Up, Holding
  <2>7. CASE Passthrough(p)
    BY <1>3, <2>7, JobType DEF Passthrough, Holding
  <2> QED
    BY <1>1, <1>8, <2>1, <2>2, <2>3, <2>4, <2>5, <2>6, <2>7
       DEF Shell, VerbSteps, Steps, StartVerb, TakeLock, Busy, Return, Loads, RequireRunning,
           LoadDocument, LoadConfig, Refuse, PctOp, PctDone, EnsureLayout, Decide, Pull,
           GuestFails
<1> QED
  BY <1>1, <1>6, <1>8 DEF Next, vars

\* No command of a shell edits a document or a setting.
LEMMA ShellStore ==
    ASSUME NEW p \in Procs, Shell(p)
    PROVE  UNCHANGED store
<1>1. CASE \E g \in Guests, v \in Verbs : StartVerb(p, g, v)
  BY <1>1 DEF StartVerb
<1>2. CASE VerbSteps(p)
  <2>1. CASE TakeLock(p) \/ Busy(p) \/ Return(p) \/ Loads(p)
    BY <2>1 DEF TakeLock, Busy, Return, Loads, RequireRunning, LoadDocument, LoadConfig, Refuse
  <2>2. CASE PctOp(p) \/ PctDone(p) \/ EnsureDocker(p) \/ InstallFails(p) \/ EnsureLayout(p)
    BY <2>2 DEF PctOp, PctDone, EnsureDocker, InstallFails, EnsureLayout
  <2>3. CASE Decide(p) \/ Write(p) \/ Pull(p) \/ Up(p) \/ RecordFacts(p)
    BY <2>3 DEF Decide, Write, Pull, Up, RecordFacts
  <2>4. CASE GuestFails(p)
    BY <2>4 DEF GuestFails
  <2> QED
    BY <1>2, <2>1, <2>2, <2>3, <2>4 DEF VerbSteps, Steps
<1>3. CASE Passthrough(p) \/ CommandFails(p) \/ Crash(p)
  BY <1>3 DEF Passthrough, CommandFails, Crash
<1> QED
  BY <1>1, <1>2, <1>3 DEF Shell

\* An edit dates its text with the token and moves the token on.
LEMMA StoreStep ==
    ASSUME TypeOK, StoreInv, [Next]_vars, NEW g \in Guests
    PROVE  doc[g].rev <= doc'[g].rev /\ doc'[g].rev < token'
<1>1. doc[g].rev \in Nat /\ doc[g].rev < token /\ token \in Nat
  BY DEF TypeOK, Reads, StoreInv
<1>2. CASE \E h \in Guests, d \in Documents \cup {NoDocument} : EditDocument(h, d)
  BY <1>1, <1>2 DEF EditDocument, TypeOK
<1>3. CASE UNCHANGED <<doc, token>>
  BY <1>1, <1>3
<1>4. CASE \E h \in Guests : Stop(h) \/ Start(h) \/ Untag(h) \/ ComposeByHand(h) \/ EditFile(h)
  BY <1>3, <1>4 DEF store, Stop, Start, Untag, ComposeByHand, EditFile
<1>5. CASE \E c \in Configs : ChangeConfig(c)
  BY <1>3, <1>5 DEF ChangeConfig
<1>6. CASE \E p \in Procs : Shell(p)
  <2>1. PICK p \in Procs : Shell(p)
    BY <1>6
  <2>2. UNCHANGED store
    BY <2>1, ShellStore
  <2> QED
    BY <1>3, <2>2 DEF store
<1> QED
  BY <1>2, <1>3, <1>4, <1>5, <1>6 DEF Next, World, vars

\* What a process has read stays what it was while it holds the lock.
LEMMA ReadKept ==
    ASSUME TypeOK, [Next]_vars, NEW p \in Procs, pc'[p] \in PastLoad
    PROVE  \/ /\ pc[p] \in PastLoad
              /\ job'[p].guest = job[p].guest /\ job'[p].read = job[p].read
           \/ /\ pc[p] = "read" /\ UNCHANGED <<doc, stack>>
              /\ job'[p].guest = job[p].guest /\ job'[p].read = doc[job[p].guest]
<1> USE DEF PastLoad, Holding, Goto
<1>1. CASE pc'[p] = pc[p] /\ job'[p] = job[p]
  BY <1>1
<1>2. CASE LoadDocument(p)
  <2>1. job[p] \in Jobs
    BY <1>2, JobType DEF LoadDocument
  <2> QED
    BY <1>2, <2>1 DEF LoadDocument, TypeOK, Jobs, store
<1>3. CASE PctOp(p) \/ Decide(p) \/ LoadConfig(p)
  <2>1. job[p] \in Jobs
    BY <1>3, JobType DEF PctOp, Decide, LoadConfig
  <2>2. pc[p] \in {"pct", "decide", "config"}
    BY <1>3 DEF PctOp, Decide, LoadConfig
  <2> QED
    BY <1>3, <2>1, <2>2 DEF PctOp, Decide, LoadConfig, TypeOK, Jobs
<1>4. CASE PctDone(p) \/ EnsureDocker(p) \/ EnsureLayout(p) \/ Write(p) \/ Pull(p) \/ Up(p)
  BY <1>4 DEF PctDone, EnsureDocker, EnsureLayout, Write, Pull, Up, TypeOK
<1>5. CASE \/ \E g \in Guests, v \in Verbs : StartVerb(p, g, v)
           \/ TakeLock(p) \/ Busy(p) \/ Return(p) \/ Crash(p)
           \/ InstallFails(p) \/ RecordFacts(p) \/ GuestFails(p) \/ Refuse(p)
           \/ Passthrough(p) \/ CommandFails(p) \/ RequireRunning(p)
  BY <1>5 DEF StartVerb, TakeLock, Busy, Return, Crash, InstallFails, RecordFacts, GuestFails,
              Refuse, Passthrough, CommandFails, RequireRunning, Finish, TypeOK
<1>6. ASSUME NEW q \in Procs, Shell(q), q # p PROVE pc'[p] = pc[p] /\ job'[p] = job[p]
  BY <1>6
     DEF Shell, VerbSteps, Steps, StartVerb, TakeLock, Busy, Return, Loads, RequireRunning,
         LoadDocument, LoadConfig, Refuse, PctOp, PctDone, EnsureDocker, InstallFails,
         EnsureLayout, Decide, Write, Pull, Up, RecordFacts, Passthrough, GuestFails,
         CommandFails, Crash, Finish, TypeOK
<1>7. CASE World \/ UNCHANGED vars
  BY <1>1, <1>7 DEF World, EditDocument, ChangeConfig, Stop, Start, Untag, ComposeByHand,
                    EditFile, vars
<1> QED
  BY <1>1, <1>2, <1>3, <1>4, <1>5, <1>6, <1>7 DEF Next, Shell, VerbSteps, Steps, Loads

LEMMA RevStep == TypeOK /\ LockInv /\ RevInv /\ [Next]_vars => RevInv'
<1> SUFFICES ASSUME TypeOK, LockInv, RevInv, [Next]_vars PROVE RevInv'
  OBVIOUS
<1>1. \A g \in Guests : /\ stack[g].facts \in Reads \cup {Nothing}
                        /\ doc[g].rev \in Nat /\ doc'[g].rev \in Nat
  BY TypeStep DEF TypeOK, Stacks, Reads
<1>2. ASSUME NEW g \in Guests
      PROVE  /\ doc'[g].rev < token'
             /\ stack'[g].facts # Nothing => stack'[g].facts.rev <= doc'[g].rev
  <2>1. doc[g].rev <= doc'[g].rev /\ doc'[g].rev < token'
    BY StoreStep DEF RevInv
  <2>2. CASE stack'[g].facts = stack[g].facts
    BY <1>1, <2>1, <2>2 DEF RevInv, StoreInv, Reads
  <2>3. CASE stack'[g].facts # stack[g].facts
    <3>1. PICK p \in Procs : pc[p] = "facts" /\ job[p].guest = g
                             /\ stack'[g].facts = job[p].read
      BY <2>3, FactsChange
    <3>2. job[p].read.rev <= doc[g].rev /\ job[p].read \in Reads
      BY <3>1, JobType DEF RevInv, FreshFor, PastLoad, Holding
    <3> QED
      BY <1>1, <2>1, <3>1, <3>2 DEF Reads
  <2> QED
    BY <2>1, <2>2, <2>3
<1>3. ASSUME NEW q \in Procs, pc'[q] \in PastLoad
      PROVE  /\ job'[q].read.rev <= doc'[job'[q].guest].rev
             /\ stack'[job'[q].guest].facts # Nothing
                   => stack'[job'[q].guest].facts.rev <= job'[q].read.rev
  <2>1. CASE pc[q] = "read" /\ UNCHANGED <<doc, stack>>
             /\ job'[q].guest = job[q].guest /\ job'[q].read = doc[job[q].guest]
    <3>1. job[q].guest \in Guests
      BY <2>1, JobType DEF Holding
    <3> QED
      BY <1>1, <2>1, <3>1 DEF RevInv, StoreInv
  <2>2. CASE pc[q] \in PastLoad
             /\ job'[q].guest = job[q].guest /\ job'[q].read = job[q].read
    <3> DEFINE g == job[q].guest
    <3>1. g \in Guests /\ job[q].read \in Reads /\ lock[g] = q
      BY <2>2, JobType DEF PastLoad, Holding, LockInv
    <3>2. /\ job[q].read.rev <= doc[g].rev
          /\ stack[g].facts # Nothing => stack[g].facts.rev <= job[q].read.rev
      BY <2>2 DEF RevInv, FreshFor
    <3>3. job[q].read.rev <= doc'[g].rev
      BY <1>1, <3>1, <3>2, StoreStep DEF RevInv, Reads
    <3>4. stack'[g].facts = stack[g].facts
      <4> SUFFICES ASSUME stack'[g].facts # stack[g].facts PROVE FALSE
        OBVIOUS
      <4>1. PICK p \in Procs : pc[p] = "facts" /\ job[p].guest = g /\ pc'[p] \notin Holding
        BY <3>1, FactsChange
      <4>2. lock[g] = p
        BY <4>1 DEF LockInv, Holding
      <4> QED
        BY <1>3, <3>1, <4>1, <4>2 DEF PastLoad
    <3> QED
      BY <2>2, <3>2, <3>3, <3>4
  <2> QED
    BY <1>3, <2>1, <2>2, ReadKept
<1> QED
  BY <1>2, <1>3 DEF RevInv, StoreInv, FreshFor

\* Hand-run verbs never put an older document in the place of a newer one.
THEOREM VerbsNeverRegress == Spec => NeverRegresses
<1>1. Init => LockInv
  BY DEF Init, LockInv, Holding
<1>2. Init => RevInv
  <2> SUFFICES ASSUME Init PROVE StoreInv /\ \A p \in Procs : FreshFor(p)
    BY DEF RevInv
  <2>1. \A g \in Guests : doc[g].rev = 0 /\ token = 1
    BY DEF Init
  <2>2. PICK kind \in [Guests -> Starts] :
          stack = [g \in Guests |-> FirstStack(kind[g], doc[g], cfg)]
    BY DEF Init
  <2>3. \A g \in Guests : stack[g].facts \in {doc[g], Nothing}
    BY <2>2 DEF FirstStack, EmptyStack
  <2>4. \A p \in Procs : pc[p] = "idle"
    BY DEF Init
  <2> QED
    BY <2>1, <2>3, <2>4 DEF StoreInv, FreshFor, PastLoad, Holding
<1>3. TypeOK /\ LockInv /\ RevInv /\ [Next]_vars
        => [\A g \in Guests :
               stack[g].facts # Nothing /\ stack'[g].facts # Nothing
                  => stack'[g].facts.rev >= stack[g].facts.rev]_vars
  <2> SUFFICES ASSUME TypeOK, RevInv, [Next]_vars, NEW g \in Guests,
                      stack[g].facts # Nothing, stack'[g].facts # Nothing
               PROVE  stack'[g].facts.rev >= stack[g].facts.rev
    OBVIOUS
  <2>1. stack[g].facts \in Reads
    BY DEF TypeOK, Stacks
  <2>2. CASE stack'[g].facts = stack[g].facts
    BY <2>1, <2>2 DEF Reads
  <2>3. CASE stack'[g].facts # stack[g].facts
    <3>1. PICK p \in Procs : pc[p] = "facts" /\ job[p].guest = g
                             /\ stack'[g].facts = job[p].read
      BY <2>3, FactsChange
    <3>2. stack[g].facts.rev <= job[p].read.rev /\ job[p].read \in Reads
      BY <3>1, JobType DEF RevInv, FreshFor, PastLoad, Holding
    <3> QED
      BY <2>1, <3>1, <3>2 DEF Reads
  <2> QED
    BY <2>2, <2>3
<1> QED
  BY <1>1, <1>2, <1>3, LockStep, RevStep, TypeCorrect, PTL DEF Spec, NeverRegresses
-----------------------------------------------------------------------------
(* A job that gets as far as its facts has converged.  Decide and Write     *)
(* leave the file what the document renders to, Up makes the containers     *)
(* from it, and nobody without the lock changes either.                     *)

\* A process that has not the lock of a guest leaves its stack alone.
LEMMA StackLocked ==
    ASSUME TypeOK, LockInv, NEW p \in Procs, Shell(p), NEW g \in Guests, lock[g] # p
    PROVE  stack'[g] = stack[g]
<1> USE DEF store
<1>1. CASE stack' = stack
  BY <1>1
<1>2. CASE pc[p] \in Holding /\ \E s : stack' = [stack EXCEPT ![job[p].guest] = s]
  <2>1. job[p].guest # g
    BY <1>2 DEF LockInv
  <2> QED
    BY <1>2, <2>1 DEF TypeOK
<1>3. ASSUME pc[p] \in Holding, Interrupted(p) PROVE stack'[g] = stack[g]
  BY <1>1, <1>2, <1>3 DEF Interrupted
<1>4. CASE CommandFails(p)
  BY <1>3, <1>4 DEF CommandFails
<1>5. CASE Crash(p)
  BY <1>1, <1>3, <1>5 DEF Crash
<1>6. CASE \/ EnsureDocker(p) \/ InstallFails(p) \/ Write(p) \/ Up(p) \/ RecordFacts(p)
           \/ Passthrough(p)
  BY <1>2, <1>6 DEF EnsureDocker, InstallFails, Write, Up, RecordFacts, Passthrough, Holding
<1> QED
  BY <1>1, <1>4, <1>5, <1>6
     DEF Shell, VerbSteps, Steps, StartVerb, TakeLock, Busy, Return, Loads, RequireRunning,
         LoadDocument, LoadConfig, Refuse, PctOp, PctDone, EnsureLayout, Decide, Pull,
         GuestFails

\* A verb's step is one process's.
LEMMA ShellKeeps ==
    ASSUME TypeOK, NEW p \in Procs, Shell(p)
    PROVE  \A q \in Procs \ {p} : pc'[q] = pc[q] /\ job'[q] = job[q]
BY DEF Shell, VerbSteps, Steps, StartVerb, TakeLock, Busy, Return, Loads, RequireRunning,
       LoadDocument, LoadConfig, Refuse, PctOp, PctDone, EnsureDocker, InstallFails,
       EnsureLayout, Decide, Write, Pull, Up, RecordFacts, Passthrough, GuestFails,
       CommandFails, Crash, Goto, Finish, TypeOK

\* Nobody acts on the stack past the tool and its lock.
StackLeftAlone == Disturbances \cap {"power", "inguest", "hand_edit"} = {}

InPlace(s, j) == s.file = Render(j.read.text, j.cfg)

ConvergedFor(p) ==
    LET j == job[p]
        s == stack[j.guest]
    IN  /\ pc[p] \in {"pull", "up", "facts"} => InPlace(s, j)
        /\ pc[p] = "facts" /\ j.start => s.up = s.file

ConvergedInv == \A p \in Procs : ConvergedFor(p)

\* A process that stays where it is, whose file and containers are kept.
LEMMA ConvergedKept ==
    ASSUME NEW p \in Procs, ConvergedFor(p), pc'[p] = pc[p], job'[p] = job[p],
           pc[p] \in Holding =>
              /\ stack'[job[p].guest].file = stack[job[p].guest].file
              /\ stack'[job[p].guest].up = stack[job[p].guest].up
    PROVE  ConvergedFor(p)'
BY DEF ConvergedFor, InPlace, Render, Holding

\* Nothing outside the tool touches it, and nobody who has not the lock.
LEMMA OutsideKeeps ==
    ASSUME StackLeftAlone, TypeOK, World \/ UNCHANGED vars
    PROVE  UNCHANGED <<stack, pc, job>>
BY DEF StackLeftAlone, World, EditDocument, ChangeConfig, Stop, Start, Untag, ComposeByHand,
       EditFile, Upset, store, vars

LEMMA MoverConverges ==
    ASSUME TypeOK, NEW p \in Procs, ConvergedFor(p), Shell(p)
    PROVE  ConvergedFor(p)'
<1> USE DEF store, Goto, Finish
<1>1. CASE pc'[p] \notin {"pull", "up", "facts"}
  BY <1>1 DEF ConvergedFor
<1>2. CASE Decide(p)
  <2> DEFINE j == job[p]
  <2>1. /\ pc[p] = "decide" /\ j \in Jobs /\ stack' = stack
        /\ pc'[p] = IF stack[j.guest].file # Render(j.read.text, j.cfg) THEN "write"
                    ELSE AfterWrite(j, Starting(p))
    BY <1>2, JobType DEF Decide, TypeOK, Holding
  <2>2. /\ job'[p].guest = j.guest /\ job'[p].read = j.read /\ job'[p].cfg = j.cfg
        /\ job'[p].start = Starting(p)
    BY <1>2, <2>1 DEF Decide, TypeOK, Jobs
  <2>3. CASE stack[j.guest].file # Render(j.read.text, j.cfg)
    BY <1>1, <2>1, <2>3
  <2>4. CASE stack[j.guest].file = Render(j.read.text, j.cfg)
    <3>1. pc'[p] = "facts" => ~Starting(p)
      BY <2>1, <2>4 DEF AfterWrite
    <3> QED
      BY <2>1, <2>2, <2>4, <3>1 DEF ConvergedFor, InPlace
  <2> QED
    BY <2>3, <2>4
<1>3. CASE Write(p)
  <2> DEFINE j == job[p]
  <2>1. /\ pc[p] = "write" /\ job' = job /\ j.guest \in Guests
        /\ stack[j.guest] \in Stacks /\ pc'[p] = AfterWrite(j, j.start)
    BY <1>3, JobType DEF Write, TypeOK, Holding
  <2>2. stack'[j.guest].file = Render(j.read.text, j.cfg)
    BY <1>3, <2>1 DEF Write, TypeOK, Stacks
  <2>3. pc'[p] = "facts" => ~j.start
    BY <2>1 DEF AfterWrite
  <2> QED
    BY <2>1, <2>2, <2>3 DEF ConvergedFor, InPlace
<1>4. CASE Pull(p)
  <2>1. pc[p] = "pull" /\ pc'[p] = "up" /\ job' = job /\ stack' = stack
    BY <1>4 DEF Pull, TypeOK
  <2> QED
    BY <2>1 DEF ConvergedFor, InPlace
<1>5. CASE Up(p)
  <2> DEFINE g == job[p].guest
  <2>1. /\ pc[p] = "up" /\ pc'[p] = "facts" /\ job' = job /\ g \in Guests
        /\ stack[g] \in Stacks
    BY <1>5, JobType DEF Up, TypeOK, Holding
  <2>2. stack'[g].file = stack[g].file /\ stack'[g].up = stack[g].file
    BY <1>5, <2>1 DEF Up, TypeOK, Stacks
  <2> QED
    BY <2>1, <2>2 DEF ConvergedFor, InPlace
<1>6. CASE \/ \E g \in Guests, v \in Verbs : StartVerb(p, g, v)
           \/ TakeLock(p) \/ Busy(p) \/ Return(p) \/ Loads(p) \/ PctOp(p) \/ PctDone(p)
           \/ EnsureDocker(p) \/ InstallFails(p) \/ EnsureLayout(p) \/ RecordFacts(p)
           \/ GuestFails(p) \/ Passthrough(p) \/ CommandFails(p) \/ Crash(p)
  BY <1>1, <1>6
     DEF StartVerb, TakeLock, Busy, Return, Loads, RequireRunning, LoadDocument, LoadConfig,
         Refuse, PctOp, PctDone, EnsureDocker, InstallFails, EnsureLayout, RecordFacts,
         GuestFails, Passthrough, CommandFails, Crash, TypeOK
<1> QED
  BY <1>2, <1>3, <1>4, <1>5, <1>6 DEF Shell, VerbSteps, Steps

LEMMA ConvergedStep ==
    ASSUME StackLeftAlone, TypeOK, LockInv, ConvergedInv, [Next]_vars
    PROVE  ConvergedInv'
<1> SUFFICES ASSUME NEW q \in Procs PROVE ConvergedFor(q)'
  BY DEF ConvergedInv
<1>0. ConvergedFor(q)
  BY DEF ConvergedInv
<1>1. CASE World \/ UNCHANGED vars
  BY <1>0, <1>1, OutsideKeeps, ConvergedKept
<1>2. ASSUME NEW p \in Procs, Shell(p) PROVE ConvergedFor(q)'
  <2>1. CASE p = q
    BY <1>0, <1>2, <2>1, MoverConverges
  <2>2. CASE p # q
    <3>1. pc'[q] = pc[q] /\ job'[q] = job[q]
      BY <1>2, <2>2, ShellKeeps
    <3>2. pc[q] \in Holding => job[q].guest \in Guests /\ lock[job[q].guest] # p
      BY <2>2, JobType DEF LockInv
    <3>3. pc[q] \in Holding => stack'[job[q].guest] = stack[job[q].guest]
      BY <1>2, <3>2, StackLocked
    <3> QED
      BY <1>0, <3>1, <3>3, ConvergedKept
  <2> QED
    BY <2>1, <2>2
<1> QED
  BY <1>1, <1>2 DEF Next

\* What ApplyConverges says of a process whose facts a step records.
Lands(p) ==
    LET j == job[p]
        s == stack'[j.guest]
    IN  /\ s.file = Render(j.read.text, j.cfg)
        /\ j.start => s.up = s.file
        /\ PctIncluded(j) => j.read.text.vols \subseteq wrapper[j.guest].mounts

\* It has converged before the step, if the step leaves the rest alone.
LEMMA LandsWhere ==
    ASSUME NEW p \in Procs, ConvergedFor(p), MountedFor(p), pc[p] = "facts",
           stack'[job[p].guest].file = stack[job[p].guest].file,
           stack'[job[p].guest].up = stack[job[p].guest].up
    PROVE  Lands(p)
BY DEF ConvergedFor, MountedFor, InPlace, Lands, DockerHalf

LEMMA FactsLand ==
    ASSUME TypeOK, NEW p \in Procs, ConvergedFor(p), MountedFor(p), [Next]_vars,
           pc[p] = "facts", stack'[job[p].guest].facts # stack[job[p].guest].facts
    PROVE  Lands(p)
<1> DEFINE g == job[p].guest
<1>1. g \in Guests
  BY JobType DEF Holding
<1>2. stack'[g].file = stack[g].file /\ stack'[g].up = stack[g].up
  BY <1>1, FactsChange
<1> QED
  BY <1>2, LandsWhere

\* Whatever a failure or a crash left behind, a job whose facts are recorded
\* has the document's text in place and what it started running it, as long
\* as nobody acts on the stack past the tool.
THEOREM VerbsConverge ==
    ASSUME StackLeftAlone
    PROVE  Spec => ApplyConverges
<1>1. Init => LockInv /\ MountsInv /\ ConvergedInv
  BY DEF Init, LockInv, MountsInv, MountedFor, ConvergedInv, ConvergedFor, Holding, DockerHalf
<1>2. TypeOK /\ LockInv /\ ConvergedInv /\ [Next]_vars => ConvergedInv'
  BY ConvergedStep
<1>3. TypeOK /\ MountsInv /\ ConvergedInv /\ [Next]_vars
        => [\A p \in Procs :
               pc[p] = "facts" /\ stack'[job[p].guest].facts # stack[job[p].guest].facts
                  => Lands(p)]_vars
  BY FactsLand DEF MountsInv, ConvergedInv
<1> QED
  BY <1>1, <1>2, <1>3, LockStep, MountsStep, TypeCorrect, PTL DEF Spec, ApplyConverges, Lands
=============================================================================
