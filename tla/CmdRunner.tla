----------------------------- MODULE CmdRunner ------------------------------
(***************************************************************************)
(* The command runner (cmd.rs): one call of run_status_within, or of       *)
(* stream_within with and without a terminal, beside the command it        *)
(* started, whatever that command left running, the two threads that read  *)
(* the pipes, and the clock.                                               *)
(*                                                                         *)
(* Every command of the other modules (a pct set, a push, a compose up) is *)
(* one such call: Ends and KilledWhole are what lets them have a step that *)
(* ends, with an effect that stops when the call returns.  (Not so where   *)
(* the command cannot be waited for: WaitFails.)                           *)
(***************************************************************************)
EXTENDS Naturals

CONSTANTS
    Modes,       \* of "run", "stream" (no terminal) and "stream_tty"
    MaxWritten,  \* bound on what is written to one pipe
    Cap          \* [Streams -> Nat]: MAX_OUTPUT and STDERR_CAP

Streams == {"out", "err"}

ASSUME RunnerAssumption ==
    /\ Modes \subseteq {"run", "stream", "stream_tty"}
    /\ MaxWritten \in Nat
    /\ Cap \in [Streams -> Nat]

VARIABLES
    mode,
    child,    \* the command: "running", "zombie" or "reaped"
    helper,   \* a process it left: "none", "group", "away" (setsid) or "gone"
    holds,    \* the helper holds the pipes
    wrote,    \* [Streams -> Nat]: what was written to a pipe
    pipe,     \* [Streams -> Nat]: of it, what was not read yet
    buf,      \* [Streams -> Nat]: of it, what the thread keeps
    thread,   \* [Streams -> "reading", "eof" or "over"]
    late,     \* the deadline has passed
    pc,       \* where the call is
    result    \* how it returned

world   == <<child, helper, holds, wrote, pipe>>
threads == <<buf, thread>>
call    == <<pc, result>>
vars    == <<mode, world, threads, late, call>>

Init ==
    /\ mode \in Modes
    /\ child = "running"
    /\ helper = "none"
    /\ holds = FALSE
    /\ wrote = [s \in Streams |-> 0]
    /\ pipe = [s \in Streams |-> 0]
    /\ buf = [s \in Streams |-> 0]
    /\ thread = [s \in Streams |-> IF mode = "run" THEN "reading" ELSE "eof"]
    /\ late = FALSE
    /\ pc = IF mode = "run" THEN "over" ELSE "wait"
    /\ result = "none"

-----------------------------------------------------------------------------
(* The command and its helper                                              *)

Writing == mode = "run" /\ (child = "running" \/ holds)

\* A write reaches the pipe as long as its reader is there.
Writes(s) ==
    /\ Writing
    /\ wrote[s] < MaxWritten
    /\ thread[s] = "reading"
    /\ wrote' = [wrote EXCEPT ![s] = @ + 1]
    /\ pipe' = [pipe EXCEPT ![s] = @ + 1]
    /\ UNCHANGED <<mode, child, helper, holds, threads, late, call>>

\* SIGPIPE, or a command that is done; it may leave a process behind.
Exits ==
    /\ child = "running"
    /\ child' = "zombie"
    /\ UNCHANGED <<mode, helper, holds, wrote, pipe, threads, late, call>>

LeavesHelper ==
    /\ child = "running" /\ helper = "none"
    /\ helper' = "group"
    /\ holds' \in {mode = "run", FALSE}
    /\ UNCHANGED <<mode, child, wrote, pipe, threads, late, call>>

\* The helper ends, or leaves the group, or closes the pipes.
HelperGoes ==
    /\ helper \in {"group", "away"}
    /\ \/ helper' = "gone" /\ holds' = FALSE
       \/ helper' = "away" /\ holds' = holds
       \/ helper' = helper /\ holds' = FALSE
    /\ UNCHANGED <<mode, child, wrote, pipe, threads, late, call>>

TimePasses ==
    /\ ~late
    /\ late' = TRUE
    /\ UNCHANGED <<mode, world, threads, call>>

-----------------------------------------------------------------------------
(* capped: a thread per pipe                                               *)

\* Mutant: the cap is compared before the chunk is added.
Fits_Before(s, n) == buf[s] <= Cap[s]

Fits(s, n) == buf[s] + n <= Cap[s]

\* A chunk that does not fit raises `over' and ends the thread.
Reads(s) ==
    /\ thread[s] = "reading"
    /\ \E n \in 1 .. pipe[s] :
          /\ pipe' = [pipe EXCEPT ![s] = @ - n]
          /\ IF Fits(s, n)
             THEN buf' = [buf EXCEPT ![s] = @ + n] /\ UNCHANGED thread
             ELSE thread' = [thread EXCEPT ![s] = "over"] /\ UNCHANGED buf
    /\ UNCHANGED <<mode, child, helper, holds, wrote, late, call>>

ReadsEnd(s) ==
    /\ thread[s] = "reading" /\ pipe[s] = 0 /\ ~Writing
    /\ thread' = [thread EXCEPT ![s] = "eof"]
    /\ UNCHANGED <<mode, world, buf, late, call>>

-----------------------------------------------------------------------------
(* The call                                                                *)

Over == \E s \in Streams : thread[s] = "over"

Returns(how) == pc' = "returned" /\ result' = how
Goes(label)  == pc' = label /\ UNCHANGED result

\* Mutant: kill(2) on the command instead of its group.
Kill_ChildOnly ==
    /\ child' = IF child = "running" THEN "zombie" ELSE child
    /\ UNCHANGED <<helper, holds, wrote, pipe>>

\* SIGKILL to the group; with a terminal, to the command alone.  The kernel is
\* taken to carry it out: a process in an uninterruptible sleep that never ends
\* would hold the wait after it, and with it the call.
Kill ==
    /\ child' = IF child = "running" THEN "zombie" ELSE child
    /\ IF mode # "stream_tty" /\ helper = "group"
       THEN helper' = "gone" /\ holds' = FALSE
       ELSE UNCHANGED <<helper, holds>>
    /\ UNCHANGED <<wrote, pipe>>

CheckOver ==
    /\ pc = "over"
    /\ IF Over THEN Kill /\ Goes("killed_over")
       ELSE UNCHANGED world /\ Goes("wait")
    /\ UNCHANGED <<mode, threads, late>>

\* try_wait: what it says of the command.
CheckExit ==
    /\ pc = "wait"
    /\ child' = IF child = "zombie" THEN "reaped" ELSE child
    /\ Goes("done")
    /\ UNCHANGED <<mode, helper, holds, wrote, pipe, threads, late>>

\* try_wait fails (a SIGCHLD ignored by whoever started the tool): the call
\* returns with the error, and nothing is killed.
WaitFails ==
    /\ pc = "wait" /\ child # "reaped"
    /\ Returns("wait_failed")
    /\ UNCHANGED <<mode, world, threads, late>>

\* The command was waited for, and both threads are at their end.
Done == child = "reaped" /\ \A s \in Streams : thread[s] # "reading"

\* Mutant: what was cut off is returned as the output.
CheckDone_NoOver ==
    /\ pc = "done"
    /\ IF Done THEN Returns("ok") ELSE Goes("late")
    /\ UNCHANGED <<mode, world, threads, late>>

CheckDone ==
    /\ pc = "done"
    /\ IF Done THEN Returns(IF Over THEN "cut_off" ELSE "ok") ELSE Goes("late")
    /\ UNCHANGED <<mode, world, threads, late>>

\* Mutant: the deadline is for a command that did not exit.
CheckLate_WhileRunning ==
    /\ pc = "late"
    /\ IF late /\ child # "reaped" THEN Kill /\ Goes("killed_late")
       ELSE UNCHANGED world /\ Goes(IF mode = "run" THEN "over" ELSE "wait")
    /\ UNCHANGED <<mode, threads, late>>

CheckLate ==
    /\ pc = "late"
    /\ IF late THEN Kill /\ Goes("killed_late")
       ELSE UNCHANGED world /\ Goes(IF mode = "run" THEN "over" ELSE "wait")
    /\ UNCHANGED <<mode, threads, late>>

\* wait: the command is dead, so this returns.
Reap ==
    /\ pc \in {"killed_over", "killed_late"}
    /\ child # "running"
    /\ child' = "reaped"
    /\ Returns(pc)
    /\ UNCHANGED <<mode, helper, holds, wrote, pipe, threads, late>>

CallStep == CheckOver \/ CheckExit \/ WaitFails \/ CheckDone \/ CheckLate \/ Reap

ThreadStep(s) == Reads(s) \/ ReadsEnd(s)

Next ==
    \/ \E s \in Streams : Writes(s) \/ ThreadStep(s)
    \/ Exits \/ LeavesHelper \/ HelperGoes \/ TimePasses
    \/ CallStep

Spec == Init /\ [][Next]_vars

\* The three threads run and time passes; the command may do nothing for ever.
Fairness ==
    /\ WF_vars(CallStep)
    /\ WF_vars(TimePasses)
    /\ \A s \in Streams : WF_vars(ThreadStep(s))

FairSpec == Spec /\ Fairness

-----------------------------------------------------------------------------
(* What a call promises                                                    *)

\* Every variable has its type, and no thread keeps more than its cap.
RunnerTypeOK ==
    /\ mode \in Modes
    /\ child \in {"running", "zombie", "reaped"}
    /\ helper \in {"none", "group", "away", "gone"}
    /\ holds \in BOOLEAN /\ late \in BOOLEAN
    /\ wrote \in [Streams -> Nat] /\ pipe \in [Streams -> Nat]
    /\ buf \in [Streams -> Nat] /\ \A s \in Streams : buf[s] <= Cap[s]
    /\ thread \in [Streams -> {"reading", "eof", "over"}]
    /\ pc \in {"over", "wait", "done", "late", "killed_over", "killed_late", "returned"}
    /\ result \in {"none", "ok", "cut_off", "wait_failed", "killed_over", "killed_late"}

\* "A command counts as done only once both pipes are closed" (DESIGN.md): a
\* call that returns an output returns all of it, everything the command and
\* whatever it left behind ever write, and the command is gone.
OkIsWhole ==
    result = "ok" => /\ child = "reaped"
                     /\ \A s \in Streams : buf[s] = wrote[s]
                     /\ ~holds

\* "Killed with its process group past it" (DESIGN.md): after a call that
\* reports a kill nothing of the group runs on in the guest, so the next
\* command is not beside it.  With a terminal only the command is killed.
KilledWhole ==
    result \in {"killed_over", "killed_late"} =>
        child = "reaped" /\ (mode # "stream_tty" => helper # "group")

\* "A hung container cannot hold the node's other guests" (README): a call
\* returns, whatever the command does or leaves running with its pipes open.
Ends == <>(pc = "returned")
=============================================================================
