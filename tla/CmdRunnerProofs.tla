-------------------------- MODULE CmdRunnerProofs ---------------------------
(***************************************************************************)
(* Proofs about one command, for any caps and any amount of output: what   *)
(* is returned as the output is all of it, and what is reported as killed  *)
(* is dead.                                                                *)
(***************************************************************************)
EXTENDS CmdRunner, TLAPS

\* Nothing that was written is lost unless its thread said so, and a thread
\* is at the end of a pipe that nobody will write to any more.
NothingLost ==
    \A s \in Streams :
        /\ thread[s] # "over" => buf[s] + pipe[s] = wrote[s]
        /\ thread[s] = "eof" => pipe[s] = 0 /\ ~Writing

\* Who streams hands the command its own output, so nobody holds a pipe.
NoPipes == mode # "run" => ~holds

\* After a kill: the command, and what of its group it left, is dead.
Dead == child # "running" /\ (mode # "stream_tty" => helper # "group")

\* Where the call says so, that is how things are, from there on.
Reported ==
    /\ pc \in {"killed_over", "killed_late"} => Dead
    /\ result \in {"killed_over", "killed_late"} => Dead /\ child = "reaped"
    /\ result = "ok" => child = "reaped" /\ \A s \in Streams : thread[s] = "eof"

RunnerInv == RunnerTypeOK /\ NothingLost /\ NoPipes /\ Reported

LEMMA RunnerInit == Init => RunnerInv
<1> SUFFICES ASSUME Init PROVE RunnerInv
  OBVIOUS
<1>1. RunnerTypeOK
  <2>1. \A s \in Streams : Cap[s] \in Nat /\ buf[s] = 0
    BY RunnerAssumption DEF Init
  <2>2. buf \in [Streams -> Nat] /\ wrote \in [Streams -> Nat] /\ pipe \in [Streams -> Nat]
    BY DEF Init
  <2>3. thread \in [Streams -> {"reading", "eof", "over"}]
    BY DEF Init
  <2>4. pc \in {"over", "wait"}
    BY DEF Init
  <2>5. \A s \in Streams : buf[s] <= Cap[s]
    BY <2>1
  <2> QED
    BY <2>2, <2>3, <2>4, <2>5 DEF Init, RunnerTypeOK
<1>2. NothingLost /\ NoPipes
  BY DEF Init, NothingLost, NoPipes, Writing
<1> QED
  BY <1>1, <1>2 DEF Init, RunnerInv, Reported

LEMMA KillKills ==
    ASSUME RunnerTypeOK, Kill
    PROVE  /\ UNCHANGED <<wrote, pipe>>
           /\ child' \in {"zombie", "reaped"} /\ (child' = child \/ child = "running")
           /\ helper' \in {helper, "gone"} /\ holds' \in {holds, FALSE}
           /\ mode # "stream_tty" => helper' # "group"
  BY DEF Kill, RunnerTypeOK

\* The call's own steps.
LEMMA CallType ==
    ASSUME RunnerTypeOK, CallStep
    PROVE  /\ RunnerTypeOK'
           /\ UNCHANGED <<mode, wrote, pipe, threads, late>>
           /\ child' = child \/ child' # "running"
           /\ holds' \in {holds, FALSE}
<1>1. CASE CheckOver \/ CheckLate
  <2>1. Kill \/ UNCHANGED world
    BY <1>1 DEF CheckOver, CheckLate
  <2>2. UNCHANGED <<mode, threads, late, result>>
    BY <1>1 DEF CheckOver, CheckLate, Goes
  <2>3. pc' \in {"killed_over", "killed_late", "over", "wait"}
    BY <1>1 DEF CheckOver, CheckLate, Goes
  <2>4. CASE Kill
    <3>1. /\ UNCHANGED <<wrote, pipe>>
          /\ child' \in {"zombie", "reaped"} /\ (child' = child \/ child = "running")
          /\ helper' \in {helper, "gone"} /\ holds' \in {holds, FALSE}
      BY <2>4, KillKills
    <3>2. UNCHANGED <<buf, thread>>
      BY <2>2 DEF threads
    <3>3. helper' \in {"none", "group", "away", "gone"} /\ holds' \in BOOLEAN
      BY <3>1 DEF RunnerTypeOK
    <3>4. RunnerTypeOK'
      BY <2>2, <2>3, <3>1, <3>2, <3>3 DEF RunnerTypeOK
    <3> QED
      BY <2>2, <3>1, <3>4
  <2>5. CASE UNCHANGED world
    BY <2>2, <2>3, <2>5 DEF RunnerTypeOK, world, threads
  <2> QED
    BY <2>1, <2>4, <2>5
<1>2. CASE CheckExit
  BY <1>2 DEF CheckExit, Goes, RunnerTypeOK, threads
<1>3. CASE WaitFails
  BY <1>3 DEF WaitFails, Returns, RunnerTypeOK, world, threads
<1>4. CASE CheckDone
  <2>1. UNCHANGED <<mode, world, threads, late>>
    BY <1>4 DEF CheckDone
  <2>2. /\ pc' \in {"late", "returned"}
        /\ result' \in {result, "cut_off", "ok"}
    BY <1>4 DEF CheckDone, Goes, Returns
  <2> QED
    BY <2>1, <2>2 DEF RunnerTypeOK, world, threads
<1>5. CASE Reap
  BY <1>5 DEF Reap, Returns, RunnerTypeOK, threads
<1> QED
  BY <1>1, <1>2, <1>3, <1>4, <1>5 DEF CallStep

LEMMA CallReports ==
    ASSUME RunnerInv, CallStep
    PROVE  Reported'
<1> USE DEF RunnerInv, Reported, Dead, threads, world
<1>1. CASE CheckOver \/ CheckLate
  <2>1. CASE Kill
    BY <1>1, <2>1, KillKills DEF CheckOver, CheckLate, Goes, RunnerTypeOK
  <2>2. CASE UNCHANGED world /\ pc' \in {"over", "wait"}
    BY <1>1, <2>2 DEF CheckOver, CheckLate, Goes
  <2> QED
    BY <1>1, <2>1, <2>2 DEF CheckOver, CheckLate, Goes
<1>2. CASE CheckExit \/ WaitFails
  BY <1>2 DEF CheckExit, WaitFails, Goes, Returns
<1>3. CASE CheckDone
  <2>1. CASE Done /\ ~Over
    BY <1>3, <2>1 DEF CheckDone, Done, Over, Returns, RunnerTypeOK
  <2>2. CASE ~(Done /\ ~Over)
    BY <1>3, <2>2 DEF CheckDone, Returns, Goes
  <2> QED
    BY <2>1, <2>2
<1>4. CASE Reap
  BY <1>4 DEF Reap, Returns
<1> QED
  BY <1>1, <1>2, <1>3, <1>4 DEF CallStep

\* The command, what it leaves behind, and the clock.
LEMMA WorldKeeps ==
    ASSUME RunnerInv, Exits \/ LeavesHelper \/ HelperGoes \/ TimePasses
    PROVE  RunnerInv'
<1> USE DEF RunnerInv, threads, call, world
<1>1. RunnerTypeOK'
  <2>1. CASE Exits
    BY <2>1 DEF Exits, RunnerTypeOK
  <2>2. CASE LeavesHelper
    BY <2>2 DEF LeavesHelper, RunnerTypeOK
  <2>3. CASE HelperGoes
    BY <2>3 DEF HelperGoes, RunnerTypeOK
  <2>4. CASE TimePasses
    BY <2>4 DEF TimePasses, RunnerTypeOK
  <2> QED
    BY <2>1, <2>2, <2>3, <2>4
<1>2. NothingLost' /\ NoPipes'
  <2>1. CASE Exits
    BY <2>1 DEF Exits, NothingLost, NoPipes, Writing
  <2>2. CASE LeavesHelper
    <3>1. child = "running" /\ UNCHANGED <<mode, child, wrote, pipe, buf, thread>>
      BY <2>2 DEF LeavesHelper
    <3>2. mode # "run" => ~holds'
      BY <2>2 DEF LeavesHelper
    <3>3. Writing' <=> Writing
      BY <3>1, <3>2 DEF Writing
    <3> QED
      BY <3>1, <3>2, <3>3 DEF NothingLost, NoPipes
  <2>3. CASE HelperGoes
    <3>1. (holds' => holds) /\ UNCHANGED <<mode, child, wrote, pipe, buf, thread>>
      BY <2>3 DEF HelperGoes
    <3>2. Writing' => Writing
      BY <3>1 DEF Writing
    <3> QED
      BY <3>1, <3>2 DEF NothingLost, NoPipes
  <2>4. CASE TimePasses
    BY <2>4 DEF TimePasses, NothingLost, NoPipes, Writing
  <2> QED
    BY <2>1, <2>2, <2>3, <2>4
<1>3. Reported'
  BY DEF Exits, LeavesHelper, HelperGoes, TimePasses, Reported, Dead
<1> QED
  BY <1>1, <1>2, <1>3

\* The pipes and the threads that read them.
LEMMA PipesKeep ==
    ASSUME RunnerInv, NEW s \in Streams, Writes(s) \/ ThreadStep(s)
    PROVE  RunnerInv'
<1> USE DEF RunnerInv, threads, call, world
<1>1. RunnerTypeOK /\ NothingLost /\ \A t \in Streams : Cap[t] \in Nat /\ buf[t] \in Nat
  BY RunnerAssumption DEF RunnerTypeOK
<1>2. CASE Writes(s)
  <2>1. RunnerTypeOK'
    BY <1>1, <1>2 DEF Writes, RunnerTypeOK
  <2>2. NothingLost' /\ NoPipes'
    BY <1>1, <1>2 DEF Writes, NothingLost, NoPipes, Writing, RunnerTypeOK
  <2>3. Reported'
    BY <1>2 DEF Writes, Reported, Dead
  <2> QED
    BY <2>1, <2>2, <2>3
<1>3. CASE Reads(s)
  <2>1. PICK n \in 1 .. pipe[s] :
          /\ pipe' = [pipe EXCEPT ![s] = @ - n]
          /\ IF Fits(s, n)
             THEN buf' = [buf EXCEPT ![s] = @ + n] /\ UNCHANGED thread
             ELSE thread' = [thread EXCEPT ![s] = "over"] /\ UNCHANGED buf
    BY <1>3 DEF Reads
  <2>2. /\ n \in Nat /\ pipe[s] - n \in Nat /\ thread[s] = "reading"
        /\ UNCHANGED <<mode, child, helper, holds, wrote, late, pc, result>>
    BY <1>1, <1>3 DEF Reads, RunnerTypeOK
  <2>3. pipe' \in [Streams -> Nat] /\ pipe'[s] = pipe[s] - n
        /\ \A t \in Streams \ {s} : pipe'[t] = pipe[t]
    BY <1>1, <2>1, <2>2 DEF RunnerTypeOK
  <2>4. CASE Fits(s, n)
    <3>0. buf \in [Streams -> Nat] /\ buf[s] \in Nat /\ Cap[s] \in Nat
      BY <1>1 DEF RunnerTypeOK
    <3>1. thread' = thread /\ buf' = [buf EXCEPT ![s] = @ + n] /\ buf[s] + n <= Cap[s]
      BY <2>1, <2>4 DEF Fits
    <3>2. /\ buf' \in [Streams -> Nat] /\ buf'[s] = buf[s] + n
          /\ \A t \in Streams \ {s} : buf'[t] = buf[t]
      BY <2>2, <3>0, <3>1
    <3>3. \A t \in Streams : buf'[t] <= Cap[t]
      BY <1>1, <3>1, <3>2 DEF RunnerTypeOK
    <3>4. RunnerTypeOK'
      BY <1>1, <2>2, <2>3, <3>1, <3>2, <3>3 DEF RunnerTypeOK
    <3>5. Writing' = Writing
      BY <2>2 DEF Writing
    <3>6. NothingLost'
      <4>1. ASSUME NEW t \in Streams, t # s
            PROVE  buf'[t] = buf[t] /\ pipe'[t] = pipe[t] /\ wrote'[t] = wrote[t]
        BY <2>2, <2>3, <3>2, <4>1
      <4>2. thread[s] # "eof" /\ buf'[s] + pipe'[s] = wrote'[s]
        <5>1. buf[s] + pipe[s] = wrote[s] /\ pipe[s] \in Nat
          BY <1>1, <2>2 DEF NothingLost, RunnerTypeOK
        <5> QED
          BY <2>2, <2>3, <3>0, <3>2, <5>1
      <4> QED
        BY <1>1, <3>1, <3>5, <4>1, <4>2 DEF NothingLost
    <3> QED
      BY <2>2, <3>1, <3>4, <3>6 DEF NoPipes, Reported, Dead
  <2>5. CASE ~Fits(s, n)
    <3>1. buf' = buf /\ thread' = [thread EXCEPT ![s] = "over"]
      BY <2>1, <2>5
    <3>2. RunnerTypeOK'
      BY <1>1, <2>2, <2>3, <3>1 DEF RunnerTypeOK
    <3>3. NothingLost'
      BY <1>1, <2>2, <2>3, <3>1 DEF NothingLost, Writing, RunnerTypeOK
    <3> QED
      BY <1>1, <2>2, <3>1, <3>2, <3>3 DEF NoPipes, Reported, Dead, RunnerTypeOK
  <2> QED
    BY <2>4, <2>5
<1>4. CASE ReadsEnd(s)
  <2>1. RunnerTypeOK'
    BY <1>1, <1>4 DEF ReadsEnd, RunnerTypeOK
  <2>2. NothingLost' /\ NoPipes'
    BY <1>1, <1>4 DEF ReadsEnd, NothingLost, NoPipes, Writing, RunnerTypeOK
  <2>3. Reported'
    BY <1>1, <1>4 DEF ReadsEnd, Reported, Dead, RunnerTypeOK
  <2> QED
    BY <2>1, <2>2, <2>3
<1> QED
  BY <1>2, <1>3, <1>4 DEF ThreadStep

LEMMA RunnerStep == RunnerInv /\ [Next]_vars => RunnerInv'
<1> SUFFICES ASSUME RunnerInv, [Next]_vars PROVE RunnerInv'
  OBVIOUS
<1>1. CASE CallStep
  <2>1. NothingLost' /\ NoPipes'
    BY <1>1, CallType DEF RunnerInv, NothingLost, NoPipes, Writing, threads, RunnerTypeOK
  <2> QED
    BY <1>1, <2>1, CallType, CallReports DEF RunnerInv
<1>2. CASE UNCHANGED vars
  BY <1>2 DEF vars, world, threads, call, RunnerInv, RunnerTypeOK, NothingLost, NoPipes, Writing,
              Reported, Dead
<1> QED
  BY <1>1, <1>2, WorldKeeps, PipesKeep DEF Next

LEMMA RunnerAlways == Spec => []RunnerInv
BY RunnerInit, RunnerStep, PTL DEF Spec

\* Every variable keeps its type, and no thread ever keeps more than its cap.
THEOREM RunnerTypeCorrect == Spec => []RunnerTypeOK
<1>1. RunnerInv => RunnerTypeOK
  BY DEF RunnerInv
<1> QED
  BY <1>1, RunnerAlways, PTL

\* What a call returns as the output is all that was, or will be, written.
THEOREM OutputIsWhole == Spec => []OkIsWhole
<1>1. RunnerInv => OkIsWhole
  <2> SUFFICES ASSUME RunnerInv, result = "ok" PROVE OkIsWhole
    BY DEF OkIsWhole
  <2>1. child = "reaped" /\ \A s \in Streams : thread[s] = "eof"
    BY DEF RunnerInv, Reported
  <2>2. \A s \in Streams : buf[s] + pipe[s] = wrote[s] /\ pipe[s] = 0 /\ ~Writing /\ buf[s] \in Nat
    BY <2>1, RunnerAssumption DEF RunnerInv, NothingLost, RunnerTypeOK
  <2>3. ~Writing
    BY <2>2 DEF Streams
  <2> QED
    BY <2>1, <2>2, <2>3 DEF OkIsWhole, RunnerInv, NoPipes, Writing
<1> QED
  BY <1>1, RunnerAlways, PTL

\* After a call that reports a kill, nothing of its group runs on.
THEOREM KillsTheGroup == Spec => []KilledWhole
<1>1. RunnerInv => KilledWhole
  BY DEF RunnerInv, Reported, Dead, KilledWhole
<1> QED
  BY <1>1, RunnerAlways, PTL
=============================================================================
