---------------------------- MODULE DaemonProofs ----------------------------
(***************************************************************************)
(* Proofs about the loop beside the verbs, for any guests, processes,      *)
(* documents and bounds.  In the halves of a guest the loop takes the      *)
(* verbs' own steps, so what ApplyProofs shows of a step is used again;    *)
(* what is new is the loop's own steps and what it knows of the policies.  *)
(***************************************************************************)
EXTENDS Daemon, ApplyProofs, WellFoundedInduction

-----------------------------------------------------------------------------
(* Min as the proofs use it: a set of numbers that is not empty has a      *)
(* least member, though the set may have no bound.                         *)

LEMMA LessIsWellFounded == IsWellFoundedOn({ss \in Nat \X Nat : ss[1] < ss[2]}, Nat)
BY NatLessThanWellFounded DEF OpToRel

LEMMA LeastIsIn ==
    ASSUME NEW S \in SUBSET Nat, S # {}
    PROVE  Min(S) \in S /\ \A y \in S : Min(S) =< y
<1>1. PICK x \in S : \A y \in S : ~ (<<y, x>> \in {ss \in Nat \X Nat : ss[1] < ss[2]})
  BY LessIsWellFounded, WFMin
<1>2. ASSUME NEW y \in S PROVE x =< y
  <2>1. ~ (<<y, x>> \in {ss \in Nat \X Nat : ss[1] < ss[2]})
    BY <1>1
  <2>2. x \in Nat /\ y \in Nat
    BY <1>1
  <2>3. ~ (y < x)
    BY <2>1, <2>2
  <2> QED
    BY <2>2, <2>3
<1>3. \E z \in S : \A y \in S : z =< y
  BY <1>1, <1>2
<1> QED
  BY <1>3 DEF Min

-----------------------------------------------------------------------------
(* The steps of the loop that no verb takes, those it shares with the       *)
(* verbs, and everybody else's.                                             *)

Own ==
    \/ \E full \in BOOLEAN : Poll(full) \/ PollFails(full)
    \/ Visit \/ VisitFails \/ EndPass \/ LoopLoad \/ LoopRefuses \/ CheckFacts \/ Handled

Shared == Steps(Loop) \/ CommandFails(Loop) \/ Crash(Loop)

Others == World \/ \E p \in Procs \ {Loop} : Shell(p)

LEMMA StepKinds ==
    ASSUME [DaemonNext]_daemonVars
    PROVE  Own \/ ((Shared \/ Others \/ UNCHANGED vars) /\ (UNCHANGED loop \/ LoopCrash))
BY DEF DaemonNext, LoopSteps, LoopHalves, LoopCrash, daemonVars, Own, Shared, Others

LEMMA SharedIsNext == Shared \/ Others \/ UNCHANGED vars => [Next]_vars
BY LoopAssumption DEF Shared, Others, Next, Shell, VerbSteps

\* The loop's own steps change nothing of the guests, and nobody else.
LEMMA OwnKeeps ==
    ASSUME TypeOK, Own
    PROVE  /\ UNCHANGED <<doc, token, cfg, wrapper, stack>>
           /\ \A p \in Procs \ {Loop} : pc'[p] = pc[p] /\ job'[p] = job[p]
BY DEF Own, Poll, PollFails, Visit, VisitFails, EndPass, LoopLoad, LoopRefuses, CheckFacts,
       Handled, Goto, Finish, store, loop, TypeOK

\* Nobody else changes where the loop is or what it knows.
LEMMA OthersKeep ==
    ASSUME TypeOK, Others \/ UNCHANGED vars
    PROVE  pc'[Loop] = pc[Loop] /\ job'[Loop] = job[Loop]
<1> USE LoopAssumption DEF store
<1>1. CASE World \/ UNCHANGED vars
  BY <1>1 DEF World, EditDocument, ChangeConfig, Stop, Start, Untag, ComposeByHand, EditFile,
              vars
<1>2. ASSUME NEW p \in Procs \ {Loop}, Shell(p)
      PROVE  pc'[Loop] = pc[Loop] /\ job'[Loop] = job[Loop]
  BY <1>2
     DEF Shell, VerbSteps, Steps, StartVerb, TakeLock, Busy, Return, Loads, RequireRunning,
         LoadDocument, LoadConfig, Refuse, PctOp, PctDone, EnsureDocker, InstallFails,
         EnsureLayout, Decide, Write, Pull, Up, RecordFacts, Passthrough, GuestFails,
         CommandFails, Crash, Goto, Finish, TypeOK
<1> QED
  BY <1>1, <1>2 DEF Others

-----------------------------------------------------------------------------
(* What the loop knows of the document it read: it has one, and the halves  *)
(* it is in are the ones its policy lets run.                               *)

Bringing == pc[Loop] \in {"pull", "up"} \/ (pc[Loop] = "write" /\ job[Loop].start)

LoopJob ==
    LET d == job[Loop].read.text
    IN  /\ pc[Loop] # "compose"
        /\ pc[Loop] \in Holding \cup {"lock", "over"} => job[Loop].verb = "loop" /\ d \in Documents
        /\ pc[Loop] = "pct" => d.pct
        /\ pc[Loop] \in DockerHalf => d.docker
        /\ Bringing => d.up
        /\ pc[Loop] = "pull" => d.pull

LoopTypes ==
    /\ ctx \in Configs
    /\ lastToken \in Nat
    /\ todo \subseteq Guests
    /\ memo \in [Guests -> Documents \cup {Nothing}]

LoopInv == TypeOK /\ LoopTypes /\ LoopJob

LEMMA LoopInit == DaemonInit => LoopInv
<1> SUFFICES ASSUME DaemonInit PROVE LoopInv
  OBVIOUS
<1>1. TypeOK /\ pc[Loop] = "idle"
  BY InitType, LoopAssumption DEF DaemonInit, Init
<1>2. LoopTypes
  BY <1>1 DEF DaemonInit, LoopTypes, TypeOK
<1> QED
  BY <1>1, <1>2 DEF LoopInv, LoopJob, Bringing, Holding, DockerHalf

\* Every own step of the loop keeps all of it.
LEMMA OwnType ==
    ASSUME LoopInv, Own
    PROVE  LoopInv'
<1> USE LoopAssumption DEF store, loop, Holding, Labels
<1>0. TypeOK /\ LoopTypes /\ LoopJob
  BY DEF LoopInv
<1>1. ASSUME NEW full \in BOOLEAN, Poll(full) PROVE LoopInv'
  <2>1. TypeOK'
    BY <1>0, <1>1 DEF Poll, Goto, TypeOK
  <2>2. LoopTypes'
    BY <1>0, <1>1 DEF Poll, TypeOK, LoopTypes
  <2>3. pc'[Loop] \in {"idle", "pass"}
    BY <1>0, <1>1 DEF Poll, Goto, TypeOK
  <2> QED
    BY <2>1, <2>2, <2>3 DEF LoopInv, LoopJob, Bringing, DockerHalf
<1>2. ASSUME NEW full \in BOOLEAN, PollFails(full) PROVE LoopInv'
  <2>1. TypeOK'
    BY <1>0, <1>2 DEF PollFails, Upset, TypeOK
  <2>2. LoopTypes' /\ pc'[Loop] = "idle"
    BY <1>0, <1>2 DEF PollFails, TypeOK, LoopTypes
  <2> QED
    BY <2>1, <2>2 DEF LoopInv, LoopJob, Bringing, DockerHalf
<1>3. CASE Visit
  <2> DEFINE g == Min(todo)
             new == [guest |-> g, verb |-> "loop", cfg |-> ctx, read |-> doc[g],
                     plan |-> {}, restart |-> FALSE, start |-> FALSE]
  <2>1. g \in Guests
    BY <1>0, <1>3, GuestsAssumption, LeastIsIn DEF Visit, LoopTypes
  <2>2. LoopTypes'
    BY <1>0, <1>3 DEF Visit, LoopTypes
  <2>3. CASE UNCHANGED <<pc, job>>
    BY <1>0, <1>3, <2>2, <2>3 DEF Visit, TypeOK, LoopInv, LoopJob, Bringing, DockerHalf
  <2>4. CASE /\ doc[g].text # NoDocument
             /\ Goto(Loop, "lock") /\ job' = [job EXCEPT ![Loop] = new]
    <3>1. doc[g] \in Reads /\ ctx \in Configs
      BY <1>0, <2>1 DEF TypeOK, LoopTypes
    <3>2. new \in Jobs /\ new.read.text \in Documents
      BY <2>1, <2>4, <3>1 DEF Jobs, Reads
    <3>3. job'[Loop] = new /\ pc'[Loop] = "lock"
      BY <1>0, <2>4 DEF Goto, TypeOK
    <3>4. TypeOK'
      BY <1>0, <1>3, <2>4, <3>2 DEF Visit, Goto, TypeOK
    <3> QED
      BY <2>2, <3>2, <3>3, <3>4 DEF LoopInv, LoopJob, Bringing, DockerHalf
  <2> QED
    BY <1>3, <2>3, <2>4 DEF Visit
<1>4. CASE VisitFails \/ EndPass
  <2>1. TypeOK'
    BY <1>0, <1>4 DEF VisitFails, EndPass, Goto, Upset, TypeOK
  <2>2. LoopTypes' /\ pc'[Loop] \in {"pass", "idle"}
    BY <1>0, <1>4 DEF VisitFails, EndPass, Goto, TypeOK, LoopTypes
  <2> QED
    BY <2>1, <2>2 DEF LoopInv, LoopJob, Bringing, DockerHalf
<1>5. CASE LoopLoad
  <2> DEFINE j == job[Loop]
             plan == IF j.read.text.pct THEN PlanFor(wrapper[j.guest], j.read.text) ELSE {}
             new == [j EXCEPT !.plan = plan, !.restart = "features" \in plan]
  <2>1. pc[Loop] = "load" /\ j \in Jobs /\ wrapper[j.guest] \in Wrappers
    BY <1>0, <1>5, JobType DEF LoopLoad
  <2>2. j.verb = "loop" /\ j.read.text \in Documents
    BY <1>0, <2>1 DEF LoopJob
  <2>3. plan \in SUBSET Ops
    BY <2>1, <2>2, PlanType
  <2>4. new \in Jobs /\ new.read = j.read /\ new.verb = "loop" /\ new.start = j.start
    <3>1. ("features" \in plan) \in BOOLEAN
      OBVIOUS
    <3> HIDE DEF plan
    <3> QED
      BY <2>1, <2>2, <2>3, <3>1 DEF Jobs
  <2>5. job' = [job EXCEPT ![Loop] = new]
    BY <1>5 DEF LoopLoad
  <2> HIDE DEF new, plan
  <2>6. job'[Loop] = new /\ pc'[Loop] = (IF j.read.text.pct THEN "pct" ELSE "check")
    BY <1>0, <1>5, <2>5 DEF LoopLoad, Goto, TypeOK
  <2>7. TypeOK'
    <3>1. job' \in [Procs -> Jobs \cup {NoJob}] /\ \A p \in Procs : p # Loop => job'[p] = job[p]
      BY <1>0, <2>4, <2>5 DEF TypeOK
    <3>2. /\ pc' \in [Procs -> Labels] /\ pc'[Loop] \in {"pct", "check"}
          /\ \A p \in Procs : p # Loop => pc'[p] = pc[p]
      BY <1>0, <1>5, <2>6 DEF LoopLoad, Goto, TypeOK, Labels
    <3>3. UNCHANGED <<doc, token, cfg, wrapper, stack, lock, upsets>>
      BY <1>5 DEF LoopLoad
    <3>4. \A p \in Procs : /\ pc'[p] \in Holding \cup {"lock", "over"} => job'[p] \in Jobs
                           /\ pc'[p] = "config" => job'[p].read.text \in Documents
      BY <1>0, <2>4, <2>6, <3>1, <3>2 DEF TypeOK
    <3> QED
      BY <1>0, <3>1, <3>2, <3>3, <3>4 DEF TypeOK
  <2>8. LoopTypes'
    BY <1>0, <1>5 DEF LoopLoad, LoopTypes
  <2> QED
    BY <2>2, <2>4, <2>6, <2>7, <2>8 DEF LoopInv, LoopJob, Bringing, DockerHalf
<1>6. CASE LoopRefuses
  <2>1. TypeOK' /\ LoopTypes' /\ pc'[Loop] = "over" /\ job' = job
    BY <1>0, <1>6, JobType DEF LoopRefuses, Finish, Goto, TypeOK, LoopTypes
  <2> QED
    BY <1>0, <1>6, <2>1 DEF LoopRefuses, LoopInv, LoopJob, Bringing, DockerHalf
<1>7. CASE CheckFacts
  <2>1. TypeOK' /\ LoopTypes' /\ job' = job
    BY <1>0, <1>7, JobType DEF CheckFacts, Finish, Goto, TypeOK, LoopTypes
  <2>2. pc'[Loop] = "over" \/ (pc'[Loop] = "docker" /\ job[Loop].read.text.docker)
    BY <1>0, <1>7 DEF CheckFacts, Finish, Goto, TypeOK
  <2> QED
    BY <1>0, <1>7, <2>1, <2>2 DEF CheckFacts, LoopInv, LoopJob, Bringing, DockerHalf
<1>8. CASE Handled
  <2>1. job[Loop].read.text \in Documents /\ job[Loop].guest \in Guests
    BY <1>0, <1>8, JobType DEF Handled, LoopJob
  <2>2. TypeOK' /\ LoopTypes' /\ pc'[Loop] = "pass"
    BY <1>0, <1>8, <2>1 DEF Handled, Goto, TypeOK, LoopTypes
  <2> QED
    BY <2>2 DEF LoopInv, LoopJob, Bringing, DockerHalf
<1> QED
  BY <1>1, <1>2, <1>3, <1>4, <1>5, <1>6, <1>7, <1>8 DEF Own

\* A step shared with the verbs keeps the document, and with it the policy.
LEMMA SharedJob ==
    ASSUME LoopInv, Shared
    PROVE  LoopJob'
<1> USE LoopAssumption DEF store, Goto, Finish, Bringing, DockerHalf
<1>0. TypeOK /\ LoopJob
  BY DEF LoopInv
<1>1. CASE TakeLock(Loop) \/ Busy(Loop)
  BY <1>0, <1>1 DEF TakeLock, Busy, LoopJob, Holding, TypeOK
<1>2. CASE PctOp(Loop)
  <2>1. pc[Loop] = "pct" /\ pc'[Loop] = "pct" /\ job[Loop] \in Jobs
    BY <1>0, <1>2, JobType DEF PctOp, Holding
  <2>2. job'[Loop].read = job[Loop].read /\ job'[Loop].verb = job[Loop].verb
    BY <1>0, <1>2, <2>1 DEF PctOp, TypeOK, Jobs
  <2> QED
    BY <1>0, <2>1, <2>2 DEF LoopJob, Holding
<1>3. CASE PctDone(Loop)
  <2>1. pc'[Loop] \in {"check", "over"} /\ job' = job /\ pc[Loop] = "pct"
    BY <1>0, <1>3 DEF PctDone, LoopJob, Holding, TypeOK
  <2> QED
    BY <1>0, <2>1 DEF LoopJob, Holding
<1>4. CASE EnsureDocker(Loop) \/ EnsureLayout(Loop) \/ Pull(Loop) \/ Up(Loop)
  BY <1>0, <1>4 DEF EnsureDocker, EnsureLayout, Pull, Up, LoopJob, Holding, TypeOK
<1>5. CASE Write(Loop)
  <2>1. pc[Loop] = "write" /\ job' = job /\ pc'[Loop] = AfterWrite(job[Loop], job[Loop].start)
    BY <1>0, <1>5 DEF Write, TypeOK
  <2>2. job[Loop].verb = "loop"
    BY <1>0, <1>5 DEF Write, LoopJob, Holding
  <2> QED
    BY <1>0, <2>1, <2>2 DEF AfterWrite, Options, LoopOptions, LoopJob, Holding
<1>6. CASE Decide(Loop)
  <2>1. /\ pc[Loop] = "decide" /\ job[Loop] \in Jobs
        /\ pc'[Loop] \in {"write", AfterWrite(job[Loop], Starting(Loop))}
    BY <1>0, <1>6, JobType DEF Decide, Holding, TypeOK
  <2>2. /\ job'[Loop].read = job[Loop].read /\ job'[Loop].verb = job[Loop].verb
        /\ job'[Loop].start = Starting(Loop)
    BY <1>0, <1>6, <2>1 DEF Decide, TypeOK, Jobs
  <2>3. job[Loop].verb = "loop"
    BY <1>0, <2>1 DEF LoopJob, Holding
  <2>4. Starting(Loop) => job[Loop].read.text.up
    BY <2>3 DEF Starting, Options, LoopOptions
  <2> QED
    BY <1>0, <2>1, <2>2, <2>3, <2>4 DEF AfterWrite, Options, LoopOptions, LoopJob, Holding
<1>7. CASE InstallFails(Loop) \/ RecordFacts(Loop) \/ GuestFails(Loop) \/ CommandFails(Loop)
  <2>1. pc[Loop] \in Holding /\ pc'[Loop] = "over" /\ job' = job
    BY <1>0, <1>7 DEF InstallFails, RecordFacts, GuestFails, Cannot, CommandFails, Holding,
                      TypeOK
  <2> QED
    BY <1>0, <2>1 DEF LoopJob, Holding
<1>8. CASE Crash(Loop)
  BY <1>0, <1>8 DEF Crash, LoopJob, Holding, TypeOK
<1> QED
  BY <1>1, <1>2, <1>3, <1>4, <1>5, <1>6, <1>7, <1>8 DEF Shared, Steps

LEMMA LoopStep == LoopInv /\ [DaemonNext]_daemonVars => LoopInv'
<1> SUFFICES ASSUME LoopInv, [DaemonNext]_daemonVars PROVE LoopInv'
  OBVIOUS
<1>1. CASE Own
  BY <1>1, OwnType
<1>2. CASE (Shared \/ Others \/ UNCHANGED vars) /\ (UNCHANGED loop \/ LoopCrash)
  <2>1. TypeOK'
    BY <1>2, SharedIsNext, TypeStep DEF LoopInv
  <2>2. LoopTypes'
    BY <1>2 DEF LoopInv, LoopTypes, TypeOK, loop, LoopCrash
  <2>3. CASE Shared
    BY <2>1, <2>2, <2>3, SharedJob DEF LoopInv
  <2>4. CASE Others \/ UNCHANGED vars
    <3>1. pc'[Loop] = pc[Loop] /\ job'[Loop] = job[Loop]
      BY <2>4, OthersKeep DEF LoopInv
    <3> QED
      BY <2>1, <2>2, <3>1 DEF LoopInv, LoopJob, Bringing
  <2> QED
    BY <1>2, <2>3, <2>4
<1> QED
  BY <1>1, <1>2, StepKinds

LEMMA LoopAlways == DaemonSpec => []LoopInv
BY LoopInit, LoopStep, PTL DEF DaemonSpec

\* Every variable of the loop keeps its type, whatever fails or restarts.
THEOREM DaemonTypeCorrect == DaemonSpec => []DaemonTypeOK
<1>1. LoopInv => DaemonTypeOK
  BY DEF LoopInv, LoopTypes, DaemonTypeOK
<1> QED
  BY <1>1, LoopAlways, PTL

-----------------------------------------------------------------------------
(* The lock between the loop and the verbs *)

LEMMA OwnLock == LoopInv /\ LockInv /\ Own => LockInv'
<1> SUFFICES ASSUME LoopInv, LockInv, Own PROVE LockInv'
  OBVIOUS
<1> USE LoopAssumption DEF store, loop, Goto, Finish, Holding
<1>0. TypeOK
  BY DEF LoopInv
<1>1. \A p \in Procs \ {Loop} : pc'[p] = pc[p] /\ job'[p] = job[p]
  BY <1>0, OwnKeeps
<1>2. CASE \/ \E full \in BOOLEAN : Poll(full) \/ PollFails(full)
           \/ Visit \/ VisitFails \/ EndPass \/ Handled
  BY <1>0, <1>1, <1>2 DEF Poll, PollFails, Visit, VisitFails, EndPass, Handled, LockInv,
                          TypeOK
<1>3. CASE LoopLoad \/ (CheckFacts /\ UNCHANGED lock)
  <2>1. job'[Loop].guest = job[Loop].guest /\ lock' = lock /\ pc[Loop] \in Holding
    BY <1>0, <1>3, JobType DEF LoopLoad, CheckFacts, TypeOK, Jobs
  <2> QED
    BY <1>1, <2>1 DEF LockInv
<1>4. CASE LoopRefuses \/ (CheckFacts /\ Finish(Loop))
  <2>1. /\ pc[Loop] \in Holding /\ pc'[Loop] = "over" /\ job' = job
        /\ lock' = [lock EXCEPT ![job[Loop].guest] = Nobody]
    BY <1>0, <1>4 DEF LoopRefuses, CheckFacts, TypeOK
  <2> SUFFICES ASSUME NEW q \in Procs, pc'[q] \in Holding PROVE lock'[job'[q].guest] = q
    BY DEF LockInv
  <2>2. q # Loop /\ pc[q] \in Holding
    BY <1>1, <2>1
  <2>3. lock[job[q].guest] = q /\ lock[job[Loop].guest] = Loop
    BY <2>1, <2>2 DEF LockInv
  <2> QED
    BY <1>0, <2>1, <2>2, <2>3, JobType DEF TypeOK
<1> QED
  BY <1>2, <1>3, <1>4 DEF Own, CheckFacts

LEMMA LoopLock == LoopInv /\ LockInv /\ [DaemonNext]_daemonVars => LockInv'
BY OwnLock, StepKinds, SharedIsNext, LockStep DEF LoopInv

LEMMA LockAlways == DaemonSpec => []LockInv
<1>1. DaemonInit => LockInv
  BY DEF DaemonInit, Init, LockInv, Holding
<1> QED
  BY <1>1, LoopLock, LoopAlways, PTL DEF DaemonSpec

\* The loop and the verbs are never at work on one guest together.
THEOREM LoopTakesTurns == DaemonSpec => []OneWriter
<1>1. LockInv => OneWriter
  BY DEF LockInv, OneWriter
<1> QED
  BY <1>1, LockAlways, PTL

-----------------------------------------------------------------------------
(* The volumes are mounted before the docker half.  Between the two the     *)
(* loop looks at the facts, which no verb does: what MountedFor says of the *)
(* docker half holds there already, if the pct half was the loop's to do.   *)

Checked ==
    pc[Loop] = "check" /\ job[Loop].read.text.pct
        => LET w == wrapper[job[Loop].guest]
           IN  /\ job[Loop].read.text.vols \subseteq w.mounts
               /\ w.features
               /\ ~job[Loop].restart

LEMMA OwnMounts == LoopInv /\ MountsInv /\ Checked /\ Own => MountsInv' /\ Checked'
<1> SUFFICES ASSUME LoopInv, MountsInv, Checked, Own PROVE MountsInv' /\ Checked'
  OBVIOUS
<1> USE LoopAssumption DEF store, loop, Goto, Finish, DockerHalf
<1>0. TypeOK /\ LoopJob
  BY DEF LoopInv
<1>1. /\ \A p \in Procs \ {Loop} : pc'[p] = pc[p] /\ job'[p] = job[p]
      /\ wrapper' = wrapper
  BY <1>0, OwnKeeps
<1>2. SUFFICES MountedFor(Loop)' /\ Checked'
  BY <1>1 DEF MountsInv, MountedFor, PctIncluded
<1>3. CASE pc'[Loop] \notin {"pct", "check"} \cup DockerHalf
  BY <1>3 DEF MountedFor, Checked
<1>4. CASE LoopLoad
  <2> DEFINE j == job[Loop]
             plan == IF j.read.text.pct THEN PlanFor(wrapper[j.guest], j.read.text) ELSE {}
  <2>1. pc[Loop] = "load" /\ j \in Jobs /\ j.read.text \in Documents
    BY <1>0, <1>4, JobType DEF LoopLoad, LoopJob, Holding
  <2>2. /\ job'[Loop].guest = j.guest /\ job'[Loop].read = j.read
        /\ job'[Loop].plan = plan /\ job'[Loop].restart = ("features" \in plan)
        /\ pc'[Loop] = (IF j.read.text.pct THEN "pct" ELSE "check")
    <3> DEFINE new == [j EXCEPT !.plan = plan, !.restart = "features" \in plan]
    <3>1. /\ job' = [job EXCEPT ![Loop] = new]
          /\ pc'[Loop] = (IF j.read.text.pct THEN "pct" ELSE "check")
      BY <1>0, <1>4 DEF LoopLoad, TypeOK
    <3>2. new.guest = j.guest /\ new.read = j.read /\ new.plan = plan
          /\ new.restart = ("features" \in plan)
      <4> HIDE DEF plan
      <4> QED
        BY <2>1 DEF Jobs
    <3> HIDE DEF new, plan
    <3> QED
      BY <1>0, <3>1, <3>2 DEF TypeOK
  <2>3. CASE j.read.text.pct
    <3>1. /\ j.read.text.vols \subseteq wrapper[j.guest].mounts
                \cup PlanFor(wrapper[j.guest], j.read.text)
          /\ wrapper[j.guest].features \/ "features" \in PlanFor(wrapper[j.guest], j.read.text)
      BY DEF PlanFor
    <3> QED
      BY <1>1, <2>1, <2>2, <2>3, <3>1 DEF MountedFor, Checked
  <2>4. CASE ~j.read.text.pct
    BY <2>2, <2>4 DEF MountedFor, Checked
  <2> QED
    BY <2>3, <2>4
<1>5. CASE CheckFacts
  <2>1. /\ pc[Loop] = "check" /\ job' = job /\ job[Loop].verb = "loop"
        /\ pc'[Loop] \in {"docker", "over"}
    BY <1>0, <1>5 DEF CheckFacts, LoopJob, Holding, TypeOK
  <2> QED
    BY <1>1, <2>1 DEF MountedFor, Checked, PctIncluded
<1>6. CASE \/ \E full \in BOOLEAN : Poll(full) \/ PollFails(full)
           \/ Visit \/ VisitFails \/ EndPass \/ LoopRefuses \/ Handled
  BY <1>0, <1>3, <1>6
     DEF Poll, PollFails, Visit, VisitFails, EndPass, LoopRefuses, Handled, TypeOK
<1> QED
  BY <1>4, <1>5, <1>6 DEF Own

LEMMA SharedChecked == LoopInv /\ MountsInv /\ Checked /\ Shared => Checked'
<1> SUFFICES ASSUME LoopInv, MountsInv, Shared, pc'[Loop] = "check" PROVE Checked'
  BY DEF Checked
<1> USE LoopAssumption DEF store, Goto, Finish
<1>0. TypeOK /\ LoopJob
  BY DEF LoopInv
<1>1. PctDone(Loop)
  BY <1>0 DEF Shared, Steps, TakeLock, Busy, PctOp, EnsureDocker, InstallFails, EnsureLayout,
              Decide, Write, Pull, Up, RecordFacts, GuestFails, CommandFails, Crash,
              AfterWrite, TypeOK
<1>2. /\ pc[Loop] = "pct" /\ job[Loop].plan = {} /\ ~job[Loop].restart
      /\ job' = job /\ wrapper' = wrapper
  BY <1>0, <1>1 DEF PctDone, TypeOK
<1>3. MountedFor(Loop)
  BY DEF MountsInv
<1> QED
  BY <1>2, <1>3 DEF MountedFor, Checked

LEMMA LoopMounts ==
    LoopInv /\ MountsInv /\ Checked /\ [DaemonNext]_daemonVars => MountsInv' /\ Checked'
<1> SUFFICES ASSUME LoopInv, MountsInv, Checked, [DaemonNext]_daemonVars
             PROVE  MountsInv' /\ Checked'
  OBVIOUS
<1>1. CASE Own
  BY <1>1, OwnMounts
<1>2. CASE Shared \/ Others \/ UNCHANGED vars
  <2>1. [Next]_vars /\ TypeOK
    BY <1>2, SharedIsNext DEF LoopInv
  <2>2. MountsInv'
    BY <2>1, MountsStep
  <2>3. CASE Shared
    BY <2>2, <2>3, SharedChecked
  <2>4. CASE Others \/ UNCHANGED vars
    <3>1. pc'[Loop] = pc[Loop] /\ job'[Loop] = job[Loop]
      BY <2>1, <2>4, OthersKeep
    <3>2. pc[Loop] = "check" => job[Loop].guest \in Guests
      BY <2>1, JobType, LoopAssumption DEF Holding
    <3> QED
      BY <2>1, <2>2, <3>1, <3>2, WrapperGrows DEF Checked
  <2> QED
    BY <1>2, <2>3, <2>4
<1> QED
  BY <1>1, <1>2, StepKinds

\* Beside the loop and in it, no volume is bound before it is mounted.
THEOREM LoopMountsFirst == DaemonSpec => []MountsFirst
<1>1. DaemonInit => MountsInv /\ Checked
  BY LoopAssumption DEF DaemonInit, Init, MountsInv, MountedFor, Checked, DockerHalf
<1>2. MountsInv => MountsFirst
  BY DEF MountsInv, MountedFor, MountsFirst
<1> QED
  BY <1>1, <1>2, LoopMounts, LoopAlways, PTL DEF DaemonSpec

-----------------------------------------------------------------------------
(* The policies.  What the loop may do to a guest, it does in the labels    *)
(* LoopJob gives to a policy.                                               *)

LEMMA SharedStack ==
    ASSUME Shared, stack' # stack
    PROVE  pc[Loop] \in DockerHalf
BY DEF Shared, Steps, TakeLock, Busy, PctOp, PctDone, EnsureDocker, InstallFails,
       EnsureLayout, Decide, Write, Pull, Up, RecordFacts, GuestFails, CommandFails, Crash,
       Interrupted, DockerHalf

\* What PolicyObeyed says of a step.
Obeys ==
    pc[Loop] \in Holding =>
        LET j == job[Loop]
        IN  /\ stack'[j.guest] # stack[j.guest] /\ pc[Loop] # pc'[Loop] => j.read.text.docker
            /\ pc[Loop] = "up" /\ stack' # stack => j.read.text.up
            /\ pc[Loop] = "pull" => j.read.text.pull
            /\ pc[Loop] = "pct"  /\ wrapper' # wrapper => j.read.text.pct

\* At `up' and in the pct half the loop has the policy whoever moves.
LEMMA ObeysInPlace ==
    ASSUME LoopInv, pc'[Loop] = pc[Loop]
    PROVE  Obeys
BY DEF Obeys, LoopInv, LoopJob, Bringing

LEMMA PolicyStep ==
    ASSUME LoopInv, [DaemonNext]_daemonVars
    PROVE  Obeys
<1> SUFFICES ASSUME pc[Loop] \in Holding, stack' # stack, pc[Loop] # pc'[Loop]
             PROVE  job[Loop].read.text.docker
  BY DEF Obeys, LoopInv, LoopJob, Bringing
<1>1. ~Own /\ ~Others /\ ~UNCHANGED vars
  BY OwnKeeps, OthersKeep DEF LoopInv
<1> QED
  BY <1>1, StepKinds, SharedStack DEF LoopInv, LoopJob

\* The loop changes what the policies of the document it read let it.
THEOREM LoopObeysPolicy == DaemonSpec => PolicyObeyed
<1>1. LoopInv /\ [DaemonNext]_daemonVars => [Obeys]_daemonVars
  BY PolicyStep
<1> QED
  BY <1>1, LoopAlways, PTL DEF DaemonSpec, PolicyObeyed, Obeys

-----------------------------------------------------------------------------
(* The loop starts nothing: it decided to bring the stack up on what ps     *)
(* said, and from there to `up' nobody who takes the lock can take it down. *)

WasUp == Bringing => stack[job[Loop].guest].up # Nothing

LEMMA WasUpStep ==
    ASSUME Disturbances \cap {"power", "inguest"} = {},
           LoopInv, LockInv, WasUp, [DaemonNext]_daemonVars
    PROVE  WasUp'
<1> USE LoopAssumption DEF store, loop, Goto, Finish, Bringing
<1>0. TypeOK /\ LoopJob
  BY DEF LoopInv
<1>1. CASE Own
  BY <1>0, <1>1 DEF Own, Poll, PollFails, Visit, VisitFails, EndPass, LoopLoad, LoopRefuses,
                    CheckFacts, Handled, WasUp, TypeOK
<1>2. CASE Shared
  <2> SUFFICES ASSUME Bringing' PROVE stack'[job'[Loop].guest].up # Nothing
    BY DEF WasUp
  <2>1. CASE Decide(Loop)
    <3>1. pc[Loop] = "decide" /\ job[Loop] \in Jobs /\ stack' = stack
      BY <1>0, <2>1, JobType DEF Decide, Holding
    <3>2. job'[Loop].guest = job[Loop].guest /\ job'[Loop].start = Starting(Loop)
      BY <1>0, <2>1, <3>1 DEF Decide, TypeOK, Jobs
    <3>3. Starting(Loop)
      BY <1>0, <2>1, <3>2 DEF Decide, AfterWrite, TypeOK
    <3>4. job[Loop].verb = "loop"
      BY <1>0, <3>1 DEF LoopJob, Holding
    <3> QED
      BY <3>1, <3>2, <3>3, <3>4 DEF Starting, Options, LoopOptions
  <2>2. CASE Write(Loop)
    <3>1. /\ pc[Loop] = "write" /\ job' = job /\ job[Loop].guest \in Guests
          /\ stack[job[Loop].guest] \in Stacks
      BY <1>0, <2>2, JobType DEF Write, Holding
    <3>2. pc'[Loop] = AfterWrite(job[Loop], job[Loop].start)
      BY <1>0, <2>2 DEF Write, TypeOK
    <3>3. job[Loop].start
      BY <3>1, <3>2 DEF AfterWrite
    <3>4. stack'[job[Loop].guest].up = stack[job[Loop].guest].up
      BY <1>0, <2>2, <3>1 DEF Write, TypeOK, Stacks
    <3> QED
      BY <3>1, <3>3, <3>4 DEF WasUp
  <2>3. CASE Pull(Loop)
    BY <1>0, <2>3 DEF Pull, WasUp
  <2> QED
    BY <1>0, <1>2, <2>1, <2>2, <2>3
       DEF Shared, Steps, TakeLock, Busy, PctOp, PctDone, EnsureDocker, InstallFails,
           EnsureLayout, Up, RecordFacts, GuestFails, CommandFails, Crash, TypeOK
<1>3. CASE Others \/ UNCHANGED vars
  <2> SUFFICES ASSUME Bringing PROVE stack'[job[Loop].guest].up = stack[job[Loop].guest].up
    BY <1>0, <1>3, OthersKeep DEF WasUp
  <2>1. job[Loop].guest \in Guests /\ lock[job[Loop].guest] = Loop
    BY <1>0, JobType DEF LockInv, Holding
  <2>2. ASSUME NEW p \in Procs \ {Loop}, Shell(p)
        PROVE  stack' = stack \/ stack'[job[Loop].guest] = stack[job[Loop].guest]
    BY <1>0, <2>1, <2>2, StackLocked
  <2>3. CASE World
    <3>1. ASSUME NEW h \in Guests, EditFile(h)
          PROVE  stack'[job[Loop].guest].up = stack[job[Loop].guest].up
      BY <1>0, <2>1, <3>1 DEF EditFile, TypeOK, Stacks
    <3>2. ASSUME NEW h \in Guests, Start(h) \/ ComposeByHand(h) PROVE FALSE
      BY <3>2 DEF Start, ComposeByHand, Upset
    <3> QED
      BY <2>3, <3>1, <3>2 DEF World, EditDocument, ChangeConfig, Stop, Untag
  <2> QED
    BY <1>3, <2>2, <2>3 DEF Others, vars
<1> QED
  BY <1>1, <1>2, <1>3, StepKinds

\* Where the guest's stack is touched by the tool alone, which takes the
\* lock, the loop's `up' only ever makes containers again that were there.
THEOREM LoopStartsNothing ==
    ASSUME Disturbances \cap {"power", "inguest"} = {}
    PROVE  DaemonSpec => LoopNeverStarts
<1>1. DaemonInit => WasUp
  BY LoopAssumption DEF DaemonInit, Init, WasUp, Bringing
<1>2. LoopInv /\ LockInv /\ WasUp /\ [DaemonNext]_daemonVars => WasUp'
  BY WasUpStep
<1>3. WasUp /\ [DaemonNext]_daemonVars
        => [pc[Loop] = "up" /\ stack' # stack => stack[job[Loop].guest].up # Nothing]_daemonVars
  BY DEF WasUp, Bringing
<1> QED
  BY <1>1, <1>2, <1>3, LoopAlways, LockAlways, PTL DEF DaemonSpec, LoopNeverStarts
-----------------------------------------------------------------------------
(* The loop's jobs converge as the verbs' do: it decides, writes and brings *)
(* up with the verbs' own steps, and its own steps are not among them.      *)

LEMMA OwnConverges ==
    ASSUME TypeOK, ConvergedInv, Own
    PROVE  ConvergedInv'
<1> USE LoopAssumption
<1>1. /\ stack' = stack
      /\ \A p \in Procs \ {Loop} : pc'[p] = pc[p] /\ job'[p] = job[p]
  BY OwnKeeps
<1>2. pc'[Loop] \notin {"pull", "up", "facts"}
  BY DEF Own, Poll, PollFails, Visit, VisitFails, EndPass, LoopLoad, LoopRefuses, CheckFacts,
         Handled, Goto, Finish, store, loop, TypeOK
<1>3. ASSUME NEW p \in Procs \ {Loop} PROVE ConvergedFor(p)'
  BY <1>1, <1>3, ConvergedKept DEF ConvergedInv
<1>4. ConvergedFor(Loop)'
  BY <1>2 DEF ConvergedFor
<1> QED
  BY <1>3, <1>4 DEF ConvergedInv

LEMMA LoopConvergedStep ==
    ASSUME StackLeftAlone, LoopInv, LockInv, ConvergedInv, [DaemonNext]_daemonVars
    PROVE  ConvergedInv'
BY OwnConverges, StepKinds, SharedIsNext, ConvergedStep DEF LoopInv

\* Facts are recorded by a verb's step, the loop's too.
LEMMA RecordingIsNext ==
    ASSUME TypeOK, [DaemonNext]_daemonVars, NEW g, stack'[g].facts # stack[g].facts
    PROVE  [Next]_vars
BY OwnKeeps, StepKinds, SharedIsNext

\* A job of the loop whose facts are recorded has converged, and so has one of
\* a verb beside the loop, as long as nobody acts on the stack past the tool.
THEOREM LoopConverges ==
    ASSUME StackLeftAlone
    PROVE  DaemonSpec => ApplyConverges
<1>1. DaemonInit => MountsInv /\ Checked /\ ConvergedInv
  BY LoopAssumption
     DEF DaemonInit, Init, MountsInv, MountedFor, Checked, ConvergedInv, ConvergedFor,
         DockerHalf
<1>2. LoopInv /\ LockInv /\ ConvergedInv /\ [DaemonNext]_daemonVars => ConvergedInv'
  BY LoopConvergedStep
<1>3. LoopInv /\ MountsInv /\ ConvergedInv /\ [DaemonNext]_daemonVars
        => [\A p \in Procs :
               pc[p] = "facts" /\ stack'[job[p].guest].facts # stack[job[p].guest].facts
                  => Lands(p)]_vars
  BY RecordingIsNext, FactsLand DEF LoopInv, MountsInv, ConvergedInv
<1> QED
  BY <1>1, <1>2, <1>3, LoopMounts, LoopAlways, LockAlways, PTL DEF DaemonSpec,
                                                                   ApplyConverges, Lands
=============================================================================
