------------------------------- MODULE Daemon ------------------------------
(***************************************************************************)
(* The reconcile loop of one node (ops/daemon.rs) beside the hand-run      *)
(* verbs of module Apply: it polls the version token, walks the running    *)
(* selected guests in vmid order, takes the same lock as the verbs and     *)
(* runs the same halves, with the options of the document's policy.        *)
(***************************************************************************)
EXTENDS Apply, FiniteSetsExt

CONSTANT Loop       \* the daemon, one of Procs

ASSUME LoopAssumption == Loop \in Procs

VARIABLES
    ctx,        \* the config the loop holds: what it last read of cfg
    lastToken,  \* the token of the last pass
    todo,       \* the guests of the pass still to visit
    memo        \* [Guests -> texts]: what was handled last, or Nothing

loop       == <<ctx, lastToken, todo, memo>>
daemonVars == <<vars, loop>>

Selected(w) == TagSelector => w.tag

DaemonInit ==
    /\ Init
    /\ ctx = cfg
    /\ lastToken = 0
    /\ todo = {}
    /\ memo = [g \in Guests |-> Nothing]

-----------------------------------------------------------------------------
(* The loop's own steps *)

\* Mutant: a full pass does not drop the memo.
Poll_KeepsMemo(full) ==
    LET changed == cfg # ctx
        passes  == token # lastToken \/ full
    IN  /\ pc[Loop] = "idle"
        /\ ctx' = cfg
        /\ memo' = IF changed THEN [g \in Guests |-> Nothing] ELSE memo
        /\ IF passes
           THEN /\ lastToken' = token
                /\ todo' = {g \in Guests : wrapper[g].running /\ Selected(wrapper[g])}
                /\ Goto(Loop, "pass")
           ELSE UNCHANGED <<lastToken, todo, pc>>
        /\ UNCHANGED <<store, wrapper, stack, lock, job, upsets>>

\* daemon::run, one turn: poll the token, see whether a full pass is due,
\* read the config again; a pass lists the guests as they are now.
Poll(full) ==
    LET changed == cfg # ctx
        passes  == token # lastToken \/ full
    IN  /\ pc[Loop] = "idle"
        /\ ctx' = cfg
        /\ memo' = IF changed \/ full THEN [g \in Guests |-> Nothing] ELSE memo
        /\ IF passes
           THEN /\ lastToken' = token
                /\ todo' = {g \in Guests : wrapper[g].running /\ Selected(wrapper[g])}
                /\ Goto(Loop, "pass")
           ELSE UNCHANGED <<lastToken, todo, pc>>
        /\ UNCHANGED <<store, wrapper, stack, lock, job, upsets>>

\* Listing the guests fails: the pass is over, its token counts as handled.
PollFails(full) ==
    /\ pc[Loop] = "idle"
    /\ token # lastToken \/ full
    /\ Upset("fault")
    /\ ctx' = cfg
    /\ memo' = IF cfg # ctx \/ full THEN [g \in Guests |-> Nothing] ELSE memo
    /\ lastToken' = token
    /\ UNCHANGED <<store, wrapper, stack, lock, pc, job, todo>>

\* The next guest: its document is read before its lock is asked for.
Visit ==
    /\ pc[Loop] = "pass"
    /\ todo # {}
    /\ LET g == Min(todo)
           d == doc[g]
       IN  /\ todo' = todo \ {g}
           /\ IF d.text = NoDocument \/ memo[g] = d.text
              THEN UNCHANGED <<pc, job>>
              ELSE /\ Goto(Loop, "lock")
                   /\ job' = [job EXCEPT ![Loop] =
                                [guest |-> g, verb |-> "loop", cfg |-> ctx, read |-> d,
                                 plan |-> {}, restart |-> FALSE, start |-> FALSE]]
    /\ UNCHANGED <<store, wrapper, stack, lock, upsets, ctx, lastToken, memo>>

\* Reading the document fails: the guest is passed over, not remembered.
VisitFails ==
    /\ pc[Loop] = "pass"
    /\ todo # {}
    /\ Upset("fault")
    /\ todo' = todo \ {Min(todo)}
    /\ UNCHANGED <<store, wrapper, stack, lock, pc, job, ctx, lastToken, memo>>

EndPass ==
    /\ pc[Loop] = "pass"
    /\ todo = {}
    /\ Goto(Loop, "idle")
    /\ UNCHANGED <<store, wrapper, stack, lock, job, upsets, loop>>

\* Mutant: only a guest that was never applied is planned.
LoopLoad_FirstOnly ==
    LET j == job[Loop]
        g == j.guest
        plan == IF j.read.text.pct /\ stack[g].facts = Nothing
                THEN PlanFor(wrapper[g], j.read.text) ELSE {}
    IN  /\ pc[Loop] = "load"
        /\ j.read.text.pct => Plannable(j.read.text, j.cfg)
        /\ job' = [job EXCEPT ![Loop].plan = plan, ![Loop].restart = "features" \in plan]
        /\ Goto(Loop, IF j.read.text.pct THEN "pct" ELSE "check")
        /\ UNCHANGED <<store, wrapper, stack, lock, upsets, loop>>

\* ops::load_with, and the plan when the policy lets the pct half run.
LoopLoad ==
    LET j == job[Loop]
        g == j.guest
        plan == IF j.read.text.pct THEN PlanFor(wrapper[g], j.read.text) ELSE {}
    IN  /\ pc[Loop] = "load"
        /\ j.read.text.pct => Plannable(j.read.text, j.cfg)
        /\ job' = [job EXCEPT ![Loop].plan = plan, ![Loop].restart = "features" \in plan]
        /\ Goto(Loop, IF j.read.text.pct THEN "pct" ELSE "check")
        /\ UNCHANGED <<store, wrapper, stack, lock, upsets, loop>>

\* plan::build refuses: a disk and no storage.
LoopRefuses ==
    LET j == job[Loop]
    IN  /\ pc[Loop] = "load"
        /\ j.read.text.pct /\ ~Plannable(j.read.text, j.cfg)
        /\ Finish(Loop)
        /\ UNCHANGED <<store, wrapper, stack, job, upsets, loop>>

\* Whether the facts say that this very document is in place.
AppliedAlready(j) ==
    stack[j.guest].facts # Nothing /\ stack[j.guest].facts.text = j.read.text

\* Mutant: policy.docker is not looked at.
CheckFacts_AnyPolicy ==
    LET j == job[Loop]
    IN  /\ pc[Loop] = "check"
        /\ wrapper[j.guest].running
        /\ IF ~AppliedAlready(j)
           THEN Goto(Loop, "docker") /\ UNCHANGED lock
           ELSE Finish(Loop)
        /\ UNCHANGED <<store, wrapper, stack, job, upsets, loop>>

\* stack::read_facts: the docker half is for documents not yet applied.
CheckFacts ==
    LET j == job[Loop]
    IN  /\ pc[Loop] = "check"
        /\ wrapper[j.guest].running
        /\ IF j.read.text.docker /\ ~AppliedAlready(j)
           THEN Goto(Loop, "docker") /\ UNCHANGED lock
           ELSE Finish(Loop)
        /\ UNCHANGED <<store, wrapper, stack, job, upsets, loop>>

\* Mutant: the memo keeps what was read, which no digest is ever equal to.
Handled_KeepsRead ==
    LET j == job[Loop]
    IN  /\ pc[Loop] = "over"
        /\ Goto(Loop, "pass")
        /\ job' = [job EXCEPT ![Loop] = NoJob]
        /\ memo' = [memo EXCEPT ![j.guest] = j.read]
        /\ UNCHANGED <<store, wrapper, stack, lock, upsets, ctx, lastToken, todo>>

\* "Remembered either way": the memo gets the text that was read, whether
\* the guest was done, failed or busy.
Handled ==
    LET j == job[Loop]
    IN  /\ pc[Loop] = "over"
        /\ Goto(Loop, "pass")
        /\ job' = [job EXCEPT ![Loop] = NoJob]
        /\ memo' = [memo EXCEPT ![j.guest] = j.read.text]
        /\ UNCHANGED <<store, wrapper, stack, lock, upsets, ctx, lastToken, todo>>

\* The lock and both halves: the verbs' own steps.
LoopHalves == Steps(Loop) /\ UNCHANGED loop

LoopSteps ==
    \/ Visit \/ EndPass \/ LoopLoad \/ LoopRefuses \/ LoopHalves \/ CheckFacts
    \/ Handled

\* The daemon dies (the watchdog, a signal) and systemd starts it again:
\* memo and token were only in memory.
LoopCrash ==
    /\ Crash(Loop)
    /\ ctx' = cfg
    /\ lastToken' = 0
    /\ todo' = {}
    /\ memo' = [g \in Guests |-> Nothing]

DaemonNext ==
    \/ \E full \in BOOLEAN : Poll(full) \/ PollFails(full)
    \/ LoopSteps
    \/ VisitFails
    \/ CommandFails(Loop) /\ UNCHANGED loop
    \/ LoopCrash
    \/ World /\ UNCHANGED loop
    \/ \E p \in Procs \ {Loop} : Shell(p) /\ UNCHANGED loop

DaemonSpec == DaemonInit /\ [][DaemonNext]_daemonVars

\* The loop's thread goes on and polls for ever; `full_every' passes again
\* and again, at some poll (strong: a poll that is not full comes between).
\* A shell's command that runs goes on; a passthrough may last for ever.
LoopFairness ==
    /\ WF_daemonVars(LoopSteps)
    /\ WF_daemonVars(Poll(FALSE))
    /\ SF_daemonVars(Poll(TRUE))

DaemonFairness ==
    /\ LoopFairness
    /\ \A p \in Procs \ {Loop} : WF_daemonVars(VerbSteps(p) /\ UNCHANGED loop)

FairDaemonSpec == DaemonSpec /\ DaemonFairness

-----------------------------------------------------------------------------
(* What the loop promises *)

\* Every variable has its type.
DaemonTypeOK ==
    /\ TypeOK
    /\ ctx \in Configs
    /\ lastToken \in Nat
    /\ todo \subseteq Guests
    /\ memo \in [Guests -> Documents \cup {Nothing}]

\* "The loop applies changes; it never starts a stack" (DESIGN.md): when the
\* loop's `up' makes containers, the stack was running, whatever the verbs
\* and the passthroughs do around it.
LoopNeverStarts ==
    [][pc[Loop] = "up" /\ stack' # stack => stack[job[Loop].guest].up # Nothing]_daemonVars

\* The four policies of the document the loop read: it leaves the PVE config
\* alone unless `pct' is `auto', the stack directory unless `docker' is, the
\* containers unless `up' is too, and pulls nothing unless `pull' is.
PolicyObeyed ==
    [][pc[Loop] \in Holding =>
          LET j == job[Loop]
          IN  /\ stack'[j.guest] # stack[j.guest] /\ pc[Loop] # pc'[Loop]
                    => j.read.text.docker
              /\ pc[Loop] = "up" /\ stack' # stack => j.read.text.up
              /\ pc[Loop] = "pull" => j.read.text.pull
              /\ pc[Loop] = "pct" /\ wrapper' # wrapper => j.read.text.pct]_daemonVars

\* A guest the loop can bring to its document, for now and for what it holds.
Landable(g) ==
    LET d == doc[g].text
        w == wrapper[g]
    IN  /\ d # NoDocument
        /\ w.running /\ w.booted /\ w.features /\ Selected(w)
        /\ d.pct /\ d.docker /\ d.valid /\ Plannable(d, cfg)
        /\ lock[g] \in {Nobody, Loop}

Landed(g) ==
    LET d == doc[g].text
        s == stack[g]
    IN  /\ d.vols \subseteq wrapper[g].mounts
        /\ s.facts # Nothing /\ s.facts.text = d
        /\ s.file # Nothing /\ s.file.doc = d

\* Level-triggered: as long as the guest can be brought to its document, it
\* is, again and again, without anyone running a verb: the volumes mounted,
\* the file in place, the facts recorded.  Failures, restarts of the daemon
\* and of the guest, a busy lock and refused plans only delay it.
DocumentsLand == \A g \in Guests : []<>(~Landable(g) \/ Landed(g))
=============================================================================
