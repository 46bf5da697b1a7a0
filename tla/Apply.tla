------------------------------- MODULE Apply -------------------------------
(***************************************************************************)
(* The verbs a human runs against a guest (ops/apply.rs, ops/upgrade.rs,   *)
(* the passthrough of main.rs), the per-guest lock they take (lock.rs),    *)
(* and the world they act on: the document store (pve-meta), the guest's   *)
(* PVE config (the wrapper) and what is inside the guest (the stack).      *)
(*                                                                         *)
(* A step is one command the code runs to completion (pct set, pct push,   *)
(* docker compose up, ...): between two of them any other process, any     *)
(* human and any failure may act.  The reconcile loop reuses these steps   *)
(* in module Daemon.                                                       *)
(*                                                                         *)
(* A document stands for its text, so it is its own digest.  Its fields    *)
(* are what the code's control depends on: the four policies (TRUE is      *)
(* `auto'), whether compose.spec has services, whether docker compose      *)
(* accepts the rendered file, and the x-pve volumes it names.              *)
(***************************************************************************)
EXTENDS Integers

CONSTANTS
    Guests,         \* vmids: numbers, since the loop walks them in order
    Procs,          \* pve-compose processes on the node
    Documents,      \* the documents a guest may have
    Volumes,        \* x-pve volumes: disks with no storage of their own
    Owners,         \* values of the operator's defaults.owner
    TagSelector,    \* the prefix selects on a tag (FALSE: `all: true')
    FirstDocuments, \* the documents the guests may start with
    FirstConfigs,   \* the operator's config at the start
    Edits,          \* pairs of texts: what a human may change into what
    Starts,         \* the kinds of guest a behaviour may start with
    Verbs,          \* the verbs the shells run
    Disturbances,   \* what may happen besides the verbs and the edits
    MaxEdits,       \* bound on document edits
    MaxUpsets,      \* bound on disturbances
    NoDocument,     \* the guest has no compose subtree
    Nothing,        \* no file, no facts, no containers
    NoJob,          \* an idle process
    Nobody          \* a free lock

AllVerbs == {"apply", "apply_no_up", "pct_apply", "docker_apply",
             "docker_apply_no_up", "upgrade", "docker_upgrade", "compose"}

ASSUME GuestsAssumption == Guests \subseteq Nat

ASSUME DocumentsAssumption ==
    /\ Documents \subseteq [id : STRING, pct : BOOLEAN, docker : BOOLEAN,
                            up : BOOLEAN, pull : BOOLEAN, services : BOOLEAN,
                            valid : BOOLEAN, vols : SUBSET Volumes]
    /\ FirstDocuments \subseteq Documents
    /\ FirstConfigs \subseteq [storage : BOOLEAN, owner : Owners]
    /\ Edits \subseteq (Documents \cup {NoDocument}) \X (Documents \cup {NoDocument})
    /\ NoDocument \notin Documents

ASSUME NamesAssumption ==
    /\ Verbs \subseteq AllVerbs
    /\ Starts \subseteq {"new", "bare", "applied"}
    /\ Volumes \cap {"features", "tag"} = {}
    /\ Nobody \notin Procs
    /\ TagSelector \in BOOLEAN

ASSUME BoundsAssumption == MaxEdits \in Nat /\ MaxUpsets \in Nat

VARIABLES
    doc,      \* [Guests -> Reads]: the document, and the edit it came with
    token,    \* pve-meta's version token, one more at every edit
    cfg,      \* /etc/pve/pve-compose.cfg
    wrapper,  \* [Guests -> Wrappers]: the PVE config and the power state
    stack,    \* [Guests -> Stacks]: what is inside the guest
    lock,     \* [Guests -> Procs or Nobody]: flock on <vmid>.lock
    pc,       \* [Procs -> Labels]: the command a process runs next
    job,      \* [Procs -> Jobs or NoJob]: what it knows
    upsets    \* disturbances so far

store == <<doc, token, cfg>>
vars  == <<doc, token, cfg, wrapper, stack, lock, pc, job, upsets>>

-----------------------------------------------------------------------------
(* The data *)

Configs == [storage : BOOLEAN, owner : Owners]

\* What doc::read returns.  `rev' is the edit that made the text; the code
\* has no such number and no guard looks at it: it dates the text for
\* NeverRegresses.
Reads == [text : Documents \cup {NoDocument}, rev : Nat]

Ops == {"features", "tag"} \cup Volumes

\* features: the keys nesting and keyctl are in the PVE config (the plan adds
\* a key that is missing; one a human has set to 0 stays, and is left out of
\* the model); booted: the running guest was started with them; mounts:
\* volumes with a mountpoint.
Wrappers == [running : BOOLEAN, tag : BOOLEAN, features : BOOLEAN,
             booted : BOOLEAN, mounts : SUBSET Volumes]

\* The rendered compose text depends on the document and, through PVE_UID
\* and PVE_GID, on the default owner.  A hand edit has no document.
Texts == [doc : Documents \cup {NoDocument}, owner : Owners]

\* docker: installed; file: compose.yaml; up: the text the running
\* containers were made from; facts: applied.yaml.
Stacks == [docker : BOOLEAN, file : Texts \cup {Nothing},
           up : Texts \cup {Nothing}, facts : Reads \cup {Nothing}]

Jobs == [guest : Guests, verb : AllVerbs \cup {"loop"}, cfg : Configs,
         read : Reads, plan : SUBSET Ops, restart : BOOLEAN, start : BOOLEAN]

\* The labels at which a process holds its guest's lock.
Holding == {"load", "read", "config", "pct", "check", "docker", "layout",
            "decide", "write", "pull", "up", "facts", "compose"}

Labels == {"idle", "pass", "lock", "over"} \cup Holding

Render(d, c) == [doc |-> d, owner |-> c.owner]

\* Whether docker compose accepts the file: every compose command loads it.
Accepted(t) == t # Nothing /\ (t.doc # NoDocument => t.doc.valid)

HasPct(v)    == v \in {"apply", "apply_no_up", "pct_apply", "upgrade", "loop"}
HasDocker(v) == v # "pct_apply"

\* ApplyArgs::options, UpgradeArgs::options
VerbOptions(v) == [pull |-> v \in {"upgrade", "docker_upgrade"},
                   no_up |-> v \in {"apply_no_up", "docker_apply_no_up"},
                   only_if_up |-> FALSE]

\* The loop's come from the document's policy.
LoopOptions(d) == [pull |-> d.pull, no_up |-> ~d.up, only_if_up |-> TRUE]

Options(j) == IF j.verb = "loop" THEN LoopOptions(j.read.text) ELSE VerbOptions(j.verb)

\* plan::build: an x-pve disk needs a storage, whether it exists or not.
Plannable(d, c) == d.vols # {} => c.storage

PlanFor(w, d) ==
    (IF w.features THEN {} ELSE {"features"})
        \cup (IF TagSelector /\ ~w.tag THEN {"tag"} ELSE {})
        \cup (d.vols \ w.mounts)

\* The plan's order: features, tag, then the volumes.
FirstOps(plan) ==
    IF "features" \in plan THEN {"features"}
    ELSE IF "tag" \in plan THEN {"tag"} ELSE plan

\* pct set, for one operation of the plan.
AfterOp(w, op) ==
    CASE op = "features" -> [w EXCEPT !.features = TRUE]
      [] op = "tag"      -> [w EXCEPT !.tag = TRUE]
      [] OTHER           -> [w EXCEPT !.mounts = @ \cup {op}]

\* docker inside the guest answers: it cannot start without nesting.
Answers(g) == wrapper[g].running /\ wrapper[g].booted /\ stack[g].docker

-----------------------------------------------------------------------------
(* Initial states: a guest `new' has just made, a container made by hand,  *)
(* or a guest whose document an earlier apply put in place.                *)

NewWrapper == [running |-> TRUE, tag |-> TRUE, features |-> TRUE,
               booted |-> TRUE, mounts |-> {}]
EmptyStack == [docker |-> FALSE, file |-> Nothing, up |-> Nothing,
               facts |-> Nothing]

FirstWrapper(kind, d) ==
    CASE kind = "new"     -> NewWrapper
      [] kind = "bare"    -> [NewWrapper EXCEPT !.tag = FALSE, !.features = FALSE,
                                                !.booted = FALSE]
      [] kind = "applied" -> [NewWrapper EXCEPT !.mounts = d.vols]

FirstStack(kind, r, c) ==
    IF kind = "applied"
    THEN [docker |-> TRUE, file |-> Render(r.text, c),
          up |-> IF r.text.services THEN Render(r.text, c) ELSE Nothing,
          facts |-> r]
    ELSE EmptyStack

Init ==
    /\ doc \in [Guests -> [text : FirstDocuments, rev : {0}]]
    /\ token = 1
    /\ cfg \in FirstConfigs
    /\ \E kind \in [Guests -> Starts] :
          /\ wrapper = [g \in Guests |-> FirstWrapper(kind[g], doc[g].text)]
          /\ stack = [g \in Guests |-> FirstStack(kind[g], doc[g], cfg)]
    /\ lock = [g \in Guests |-> Nobody]
    /\ pc = [p \in Procs |-> "idle"]
    /\ job = [p \in Procs |-> NoJob]
    /\ upsets = 0

-----------------------------------------------------------------------------
(* Taking and giving up the guest's lock *)

Goto(p, label) == pc' = [pc EXCEPT ![p] = label]

\* The GuestLock is dropped when the verb returns, with or without an error.
Finish(p) ==
    /\ Goto(p, "over")
    /\ lock' = [lock EXCEPT ![job[p].guest] = Nobody]

\* main::run: the config is loaded once, before the lock is asked for.
StartVerb(p, g, v) ==
    /\ pc[p] = "idle"
    /\ job' = [job EXCEPT ![p] =
                 [guest |-> g, verb |-> v, cfg |-> cfg,
                  read |-> [text |-> NoDocument, rev |-> 0],
                  plan |-> {}, restart |-> FALSE, start |-> FALSE]]
    /\ Goto(p, "lock")
    /\ UNCHANGED <<store, wrapper, stack, lock, upsets>>

\* Mutant: the result of flock is not looked at.
TakeLock_Unchecked(p) ==
    /\ pc[p] = "lock"
    /\ lock' = [lock EXCEPT ![job[p].guest] = p]
    /\ Goto(p, "load")
    /\ UNCHANGED <<store, wrapper, stack, job, upsets>>

\* GuestLock::take: flock, tried every 250 ms.
TakeLock(p) ==
    /\ pc[p] = "lock"
    /\ lock[job[p].guest] = Nobody
    /\ lock' = [lock EXCEPT ![job[p].guest] = p]
    /\ Goto(p, "load")
    /\ UNCHANGED <<store, wrapper, stack, job, upsets>>

\* Mutant: flock without LOCK_NB, which has no deadline.
Busy_Never(p) == FALSE

\* GuestLock::take: still held at the deadline, "guest is busy".
Busy(p) ==
    /\ pc[p] = "lock"
    /\ lock[job[p].guest] # Nobody
    /\ Goto(p, "over")
    /\ UNCHANGED <<store, wrapper, stack, lock, job, upsets>>

\* The process ends and its exit code is reported.
Return(p) ==
    /\ pc[p] = "over"
    /\ Goto(p, "idle")
    /\ job' = [job EXCEPT ![p] = NoJob]
    /\ UNCHANGED <<store, wrapper, stack, lock, upsets>>

-----------------------------------------------------------------------------
(* Loading, and the pct half *)

\* ops::require_running, the first command under the lock; `compose' needs
\* nothing else.
RequireRunning(p) ==
    /\ pc[p] = "load"
    /\ wrapper[job[p].guest].running
    /\ Goto(p, IF job[p].verb = "compose" THEN "compose" ELSE "read")
    /\ UNCHANGED <<store, wrapper, stack, lock, job, upsets>>

\* ops::load: the document.
LoadDocument(p) ==
    LET d == doc[job[p].guest]
    IN  /\ pc[p] = "read"
        /\ d.text # NoDocument
        /\ job' = [job EXCEPT ![p].read = d]
        /\ Goto(p, "config")
        /\ UNCHANGED <<store, wrapper, stack, lock, upsets>>

\* ops::load_with reads the PVE config, and plan::build compares: no command
\* comes between.  Build refuses a template too, but none of those runs.
LoadConfig(p) ==
    LET j == job[p]
        plan == IF HasPct(j.verb) THEN PlanFor(wrapper[j.guest], j.read.text) ELSE {}
    IN  /\ pc[p] = "config"
        /\ HasPct(j.verb) => Plannable(j.read.text, j.cfg)
        /\ job' = [job EXCEPT ![p].plan = plan, ![p].restart = "features" \in plan]
        /\ Goto(p, IF HasPct(j.verb) THEN "pct" ELSE "docker")
        /\ UNCHANGED <<store, wrapper, stack, lock, upsets>>

\* The guest is stopped, has no document, or has a disk and no storage.
Refuse(p) ==
    LET j == job[p]
    IN  /\ \/ pc[p] = "load" /\ ~wrapper[j.guest].running
           \/ pc[p] = "read" /\ doc[j.guest].text = NoDocument
           \/ pc[p] = "config" /\ HasPct(j.verb) /\ ~Plannable(j.read.text, j.cfg)
        /\ Finish(p)
        /\ UNCHANGED <<store, wrapper, stack, job, upsets>>

\* plan::execute: the next operation.
PctOp(p) ==
    /\ pc[p] = "pct"
    /\ \E op \in FirstOps(job[p].plan) :
          /\ wrapper' = [wrapper EXCEPT ![job[p].guest] = AfterOp(@, op)]
          /\ job' = [job EXCEPT ![p].plan = @ \ {op}]
    /\ UNCHANGED <<store, stack, lock, pc, upsets>>

\* Mutant: changed features do not end the job.
PctDone_GoesOn(p) ==
    /\ pc[p] = "pct"
    /\ job[p].plan = {}
    /\ IF job[p].verb = "pct_apply"
       THEN Finish(p)
       ELSE /\ Goto(p, IF job[p].verb = "loop" THEN "check" ELSE "docker")
            /\ UNCHANGED lock
    /\ UNCHANGED <<store, wrapper, stack, job, upsets>>

\* Nothing is left to execute: a plan that changed the features stops here.
PctDone(p) ==
    /\ pc[p] = "pct"
    /\ job[p].plan = {}
    /\ IF job[p].restart \/ job[p].verb = "pct_apply"
       THEN Finish(p)
       ELSE /\ Goto(p, IF job[p].verb = "loop" THEN "check" ELSE "docker")
            /\ UNCHANGED lock
    /\ UNCHANGED <<store, wrapper, stack, job, upsets>>

-----------------------------------------------------------------------------
(* The docker half: docker_apply_guest *)

\* provision::ensure_docker
EnsureDocker(p) ==
    LET g == job[p].guest
    IN  /\ pc[p] = "docker"
        /\ wrapper[g].running /\ wrapper[g].booted
        /\ stack' = [stack EXCEPT ![g].docker = TRUE]
        /\ Goto(p, "layout")
        /\ UNCHANGED <<store, wrapper, lock, job, upsets>>

\* Without nesting in force docker is installed and does not answer.
InstallFails(p) ==
    LET g == job[p].guest
    IN  /\ pc[p] = "docker"
        /\ wrapper[g].running /\ ~wrapper[g].booted
        /\ stack' = [stack EXCEPT ![g].docker = TRUE]
        /\ Finish(p)
        /\ UNCHANGED <<store, wrapper, job, upsets>>

\* stack::ensure_layout: directories and their owners.
EnsureLayout(p) ==
    /\ pc[p] = "layout"
    /\ wrapper[job[p].guest].running
    /\ Goto(p, "decide")
    /\ UNCHANGED <<store, wrapper, stack, lock, job, upsets>>

\* Whether deciding needs `docker compose ps', which loads the file.
AsksPs(p) ==
    LET j == job[p]
    IN  /\ ~Options(j).no_up /\ j.read.text.services /\ Options(j).only_if_up
        /\ stack[j.guest].file # Nothing

\* Mutant: only_if_up is forgotten.
Starting_Always(p) == ~Options(job[p]).no_up /\ job[p].read.text.services

\* Whether the stack is to be brought up: on what ps says, before the write.
Starting(p) ==
    LET j == job[p]
    IN  /\ ~Options(j).no_up /\ j.read.text.services
        /\ Options(j).only_if_up => AsksPs(p) /\ stack[j.guest].up # Nothing

AfterWrite(j, start) ==
    IF ~start THEN "facts" ELSE IF Options(j).pull THEN "pull" ELSE "up"

\* Mutant: a file that is there is not compared.
Decide_IfMissing(p) ==
    LET j == job[p]
        s == stack[j.guest]
    IN  /\ pc[p] = "decide"
        /\ wrapper[j.guest].running
        /\ AsksPs(p) => Answers(j.guest) /\ Accepted(s.file)
        /\ job' = [job EXCEPT ![p].start = Starting(p)]
        /\ Goto(p, IF s.file = Nothing THEN "write" ELSE AfterWrite(j, Starting(p)))
        /\ UNCHANGED <<store, wrapper, stack, lock, upsets>>

\* Render, read the file in the guest, decide, and write only a difference.
Decide(p) ==
    LET j == job[p]
        g == j.guest
    IN  /\ pc[p] = "decide"
        /\ wrapper[g].running
        /\ AsksPs(p) => Answers(g) /\ Accepted(stack[g].file)
        /\ job' = [job EXCEPT ![p].start = Starting(p)]
        /\ Goto(p, IF stack[g].file # Render(j.read.text, j.cfg) THEN "write"
                   ELSE AfterWrite(j, Starting(p)))
        /\ UNCHANGED <<store, wrapper, stack, lock, upsets>>

\* stack::write_compose: pushed beside the file, renamed over it.
Write(p) ==
    LET j == job[p]
    IN  /\ pc[p] = "write"
        /\ wrapper[j.guest].running
        /\ stack' = [stack EXCEPT ![j.guest].file = Render(j.read.text, j.cfg)]
        /\ Goto(p, AfterWrite(j, j.start))
        /\ UNCHANGED <<store, wrapper, lock, job, upsets>>

\* stack::pull
Pull(p) ==
    /\ pc[p] = "pull"
    /\ Answers(job[p].guest) /\ Accepted(stack[job[p].guest].file)
    /\ Goto(p, "up")
    /\ UNCHANGED <<store, wrapper, stack, lock, job, upsets>>

\* stack::up: the containers are made from the file as it is by then.
Up(p) ==
    LET g == job[p].guest
    IN  /\ pc[p] = "up"
        /\ Answers(g) /\ Accepted(stack[g].file)
        /\ stack' = [stack EXCEPT ![g].up = stack[g].file]
        /\ Goto(p, "facts")
        /\ UNCHANGED <<store, wrapper, lock, job, upsets>>

\* Mutant: the bare digest is written, not a facts record.
RecordFacts_Bare(p) ==
    /\ pc[p] = "facts"
    /\ wrapper[job[p].guest].running
    /\ stack' = [stack EXCEPT ![job[p].guest].facts = job[p].read.text]
    /\ Finish(p)
    /\ UNCHANGED <<store, wrapper, job, upsets>>

\* stack::facts_now and stack::write_facts: the last command of the half.
RecordFacts(p) ==
    /\ pc[p] = "facts"
    /\ wrapper[job[p].guest].running
    /\ stack' = [stack EXCEPT ![job[p].guest].facts = job[p].read]
    /\ Finish(p)
    /\ UNCHANGED <<store, wrapper, job, upsets>>

\* stack::passthrough: `docker compose' with any command; up and down are
\* the ones that change something here.
Passthrough(p) ==
    LET g == job[p].guest
    IN  /\ pc[p] = "compose"
        /\ Answers(g) /\ Accepted(stack[g].file)
        /\ \E after \in {Nothing, stack[g].up, stack[g].file} :
              stack' = [stack EXCEPT ![g].up = after]
        /\ Finish(p)
        /\ UNCHANGED <<store, wrapper, job, upsets>>

\* What the guest cannot do, by the command that needs it: nothing in a
\* stopped guest; no compose command where docker does not answer or on a
\* file compose does not accept.
Cannot(p) ==
    LET g == job[p].guest
    IN  \/ /\ pc[p] \in {"check", "docker", "layout", "decide", "write", "facts"}
           /\ ~wrapper[g].running
        \/ pc[p] = "decide" /\ AsksPs(p) /\ ~(Answers(g) /\ Accepted(stack[g].file))
        \/ /\ pc[p] \in {"pull", "up", "compose"}
           /\ ~(Answers(g) /\ Accepted(stack[g].file))

\* The command fails and `?' returns its error.
GuestFails(p) ==
    /\ Cannot(p)
    /\ Finish(p)
    /\ UNCHANGED <<store, wrapper, stack, job, upsets>>

Steps(p) ==
    \/ TakeLock(p) \/ Busy(p) \/ PctOp(p) \/ PctDone(p)
    \/ EnsureDocker(p) \/ InstallFails(p) \/ EnsureLayout(p) \/ Decide(p) \/ Write(p)
    \/ Pull(p) \/ Up(p) \/ RecordFacts(p) \/ GuestFails(p)

\* ops::require_running, ops::load and plan::build.
Loads(p) == RequireRunning(p) \/ LoadDocument(p) \/ LoadConfig(p) \/ Refuse(p)

VerbSteps(p) == Steps(p) \/ Loads(p) \/ Return(p)

-----------------------------------------------------------------------------
(* Failures *)

Upset(kind) ==
    /\ kind \in Disturbances
    /\ upsets < MaxUpsets
    /\ upsets' = upsets + 1

\* A command cut short (an error, the deadline of cmd.rs, the death of the
\* process) may or may not have had its effect; `up' may stop half way.
Interrupted(p) ==
    LET g == job[p].guest
    IN  \/ UNCHANGED <<wrapper, stack>>
        \/ /\ pc[p] = "pct"
           /\ \E op \in FirstOps(job[p].plan) :
                 wrapper' = [wrapper EXCEPT ![g] = AfterOp(@, op)]
           /\ UNCHANGED stack
        \/ /\ pc[p] = "docker" /\ wrapper[g].running
           /\ stack' = [stack EXCEPT ![g].docker = TRUE]
           /\ UNCHANGED wrapper
        \/ /\ pc[p] = "write" /\ wrapper[g].running
           /\ stack' = [stack EXCEPT ![g].file = Render(job[p].read.text, job[p].cfg)]
           /\ UNCHANGED wrapper
        \/ /\ pc[p] = "up" /\ Answers(g) /\ Accepted(stack[g].file)
           /\ \E t \in {Nothing, stack[g].file} : stack' = [stack EXCEPT ![g].up = t]
           /\ UNCHANGED wrapper
        \/ /\ pc[p] = "facts" /\ wrapper[g].running
           /\ stack' = [stack EXCEPT ![g].facts = job[p].read]
           /\ UNCHANGED wrapper

\* A command of the tool fails: the verb returns its error.
CommandFails(p) ==
    /\ pc[p] \in Holding
    /\ Upset("fault")
    /\ Interrupted(p)
    /\ Finish(p)
    /\ UNCHANGED <<store, job>>

\* The process dies: the kernel drops the flock with the descriptor.
Crash(p) ==
    /\ pc[p] # "idle"
    /\ Upset("crash")
    /\ IF pc[p] \in Holding
       THEN Interrupted(p) /\ lock' = [lock EXCEPT ![job[p].guest] = Nobody]
       ELSE UNCHANGED <<wrapper, stack, lock>>
    /\ Goto(p, "idle")
    /\ job' = [job EXCEPT ![p] = NoJob]
    /\ UNCHANGED store

-----------------------------------------------------------------------------
(* The world outside the tool *)

\* A human, or a token holder, writes the guest's document.
EditDocument(g, d) ==
    /\ token <= MaxEdits
    /\ <<doc[g].text, d>> \in Edits
    /\ doc' = [doc EXCEPT ![g] = [text |-> d, rev |-> token]]
    /\ token' = token + 1
    /\ UNCHANGED <<cfg, wrapper, stack, lock, pc, job, upsets>>

\* `pve-compose config set', on any node.
ChangeConfig(c) ==
    /\ Upset("config")
    /\ c # cfg
    /\ cfg' = c
    /\ UNCHANGED <<doc, token, wrapper, stack, lock, pc, job>>

\* The guest is stopped.  Its containers keep their definition, and ...
Stop(g) ==
    /\ Upset("power")
    /\ wrapper[g].running
    /\ wrapper' = [wrapper EXCEPT ![g].running = FALSE]
    /\ UNCHANGED <<store, stack, lock, pc, job>>

\* ... come back or not with the guest, by their restart policy.
Start(g) ==
    /\ "power" \in Disturbances
    /\ ~wrapper[g].running
    /\ wrapper' = [wrapper EXCEPT ![g].running = TRUE, ![g].booted = wrapper[g].features]
    /\ \E t \in {Nothing, stack[g].up} : stack' = [stack EXCEPT ![g].up = t]
    /\ UNCHANGED <<store, lock, pc, job, upsets>>

\* A human takes the tag off, to take the guest out of the loop's reach.
Untag(g) ==
    /\ Upset("untag")
    /\ wrapper[g].tag
    /\ wrapper' = [wrapper EXCEPT ![g].tag = FALSE]
    /\ UNCHANGED <<store, stack, lock, pc, job>>

\* A human in the guest types `docker compose down' or `up -d'.
ComposeByHand(g) ==
    /\ Upset("inguest")
    /\ Answers(g) /\ Accepted(stack[g].file)
    /\ \E t \in {Nothing, stack[g].file} : stack' = [stack EXCEPT ![g].up = t]
    /\ UNCHANGED <<store, wrapper, lock, pc, job>>

HandEdited(t) == [doc |-> NoDocument, owner |-> t.owner]

\* A human edits compose.yaml in the guest.
EditFile(g) ==
    /\ Upset("hand_edit")
    /\ stack[g].file # Nothing
    /\ stack' = [stack EXCEPT ![g].file = HandEdited(@)]
    /\ UNCHANGED <<store, wrapper, lock, pc, job>>

World ==
    \/ \E g \in Guests : \E d \in Documents \cup {NoDocument} : EditDocument(g, d)
    \/ \E c \in Configs : ChangeConfig(c)
    \/ \E g \in Guests : Stop(g) \/ Start(g) \/ Untag(g) \/ ComposeByHand(g) \/ EditFile(g)

Shell(p) ==
    \/ \E g \in Guests, v \in Verbs : StartVerb(p, g, v)
    \/ VerbSteps(p) \/ Passthrough(p) \/ CommandFails(p) \/ Crash(p)

Next == World \/ \E p \in Procs : Shell(p)

Spec == Init /\ [][Next]_vars

-----------------------------------------------------------------------------
(* What the verbs promise *)

\* Every variable has its type.
TypeOK ==
    /\ doc \in [Guests -> Reads]
    /\ token \in Nat
    /\ cfg \in Configs
    /\ wrapper \in [Guests -> Wrappers]
    /\ stack \in [Guests -> Stacks]
    /\ lock \in [Guests -> Procs \cup {Nobody}]
    /\ pc \in [Procs -> Labels]
    /\ job \in [Procs -> Jobs \cup {NoJob}]
    /\ \A p \in Procs : /\ pc[p] \in Holding \cup {"lock", "over"} => job[p] \in Jobs
                        /\ pc[p] = "config" => job[p].read.text \in Documents
    /\ upsets \in Nat

\* The lock covers the whole reconcile, in the guest and out of it (lock.rs):
\* no two processes are between their first and their last command on the
\* same guest, whoever failed, crashed or gave up waiting before.
OneWriter ==
    \A p, q \in Procs :
        p # q /\ pc[p] \in Holding /\ pc[q] \in Holding => job[p].guest # job[q].guest

\* The pct half is part of the job: the loop's only when the policy says so.
PctIncluded(j) == HasPct(j.verb) /\ (j.verb = "loop" => j.read.text.pct)

\* The labels of the docker half.
DockerHalf == {"docker", "layout", "decide", "write", "pull", "up", "facts"}

\* "pct first, because the volumes have to be mounted before compose binds
\* them" (apply.rs): in the docker half of a job that includes the pct half,
\* every volume of the document it read is mounted, the keys nesting and
\* keyctl are there, and it is not this job that added them (that one stops
\* for a restart).
MountsFirst ==
    \A p \in Procs :
        pc[p] \in DockerHalf /\ PctIncluded(job[p])
            => LET w == wrapper[job[p].guest]
               IN  /\ job[p].read.text.vols \subseteq w.mounts
                   /\ w.features
                   /\ ~job[p].restart

\* A hand-run verb never puts an older document in the place of a newer one:
\* it reads the document under the lock, so what it records is at least as
\* recent as what any verb recorded before it.
NeverRegresses ==
    [][\A g \in Guests :
          stack[g].facts # Nothing /\ stack'[g].facts # Nothing
              => stack'[g].facts.rev >= stack[g].facts.rev]_vars

\* Whatever a failure or a crash left behind, a job whose facts are recorded,
\* by a last command that fails or is cut short too, has converged: the file
\* is the document's text, what it started runs that text, and with a pct half
\* the volumes are mounted (apply.rs).
ApplyConverges ==
    [][\A p \in Procs :
          pc[p] = "facts" /\ stack'[job[p].guest].facts # stack[job[p].guest].facts
              => LET j == job[p]
                     s == stack'[j.guest]
                 IN  /\ s.file = Render(j.read.text, j.cfg)
                     /\ j.start => s.up = s.file
                     /\ PctIncluded(j) => j.read.text.vols \subseteq wrapper[j.guest].mounts]_vars

\* Everyone's wait is bounded (GuestLock::take's deadline): a verb ends, or is
\* a passthrough a human lets run, even if another passthrough on the guest
\* never ends.
VerbEnds ==
    \A p \in Procs : pc[p] = "lock" ~> pc[p] \in {"idle", "compose"}
=============================================================================
