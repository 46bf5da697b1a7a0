-------------------------------- MODULE New ---------------------------------
(***************************************************************************)
(* `new' (ops/new.rs) beside the loop and the other verbs: it settles what *)
(* it has to ask, creates the wrapper, writes the first document, and,     *)
(* with the guest's lock, starts the guest and runs the halves of `apply'  *)
(* on it, whose steps it shares.  A vmid is a guest of PVE or not; an      *)
(* earlier guest of the same vmid may have left its document behind.       *)
(***************************************************************************)
EXTENDS Daemon

CONSTANTS
    MayBeMade,        \* guests that may not exist at the start
    InitialDocument,  \* initial_document(): no services, up is manual
    Leftovers         \* documents an earlier guest may have left

ASSUME NewAssumption ==
    /\ MayBeMade \subseteq Guests
    /\ InitialDocument \in Documents /\ Leftovers \subseteq Documents

VARIABLES
    exists,  \* [Guests -> BOOLEAN]: PVE has a guest of this vmid
    stage    \* [Procs -> Stages]: how far a `new' is, "no" for other verbs

making  == <<exists, stage>>
newVars == <<daemonVars, making>>

Stages == {"no", "ask", "resolve", "create", "document", "boot", "ready", "apply", "template"}

\* No wrapper: nothing in PVE's config, nothing runs.
NoWrapper == [running |-> FALSE, tag |-> FALSE, features |-> FALSE,
              booted |-> FALSE, mounts |-> {}]
NoText == [text |-> NoDocument, rev |-> 0]

NewInit ==
    /\ exists \in {e \in [Guests -> BOOLEAN] : \A g \in Guests \ MayBeMade : e[g]}
    /\ stage = [p \in Procs |-> "no"]
    /\ \E left \in {NoText} \cup [text : Leftovers, rev : {0}],
          first \in [Guests -> FirstDocuments], kind \in [Guests -> Starts] :
          LET read == [g \in Guests |-> [text |-> first[g], rev |-> 0]]
          IN  /\ doc = [g \in Guests |-> IF exists[g] THEN read[g] ELSE left]
              /\ cfg \in FirstConfigs
              /\ wrapper = [g \in Guests |-> IF exists[g] THEN FirstWrapper(kind[g], first[g])
                                             ELSE NoWrapper]
              /\ stack = [g \in Guests |-> IF exists[g] THEN FirstStack(kind[g], read[g], cfg)
                                           ELSE EmptyStack]
    /\ token = 1
    /\ lock = [g \in Guests |-> Nobody]
    /\ pc = [p \in Procs |-> "idle"]
    /\ job = [p \in Procs |-> NoJob]
    /\ upsets = 0
    /\ ctx = cfg /\ lastToken = 0 /\ todo = {} /\ memo = [g \in Guests |-> Nothing]

-----------------------------------------------------------------------------
(* Before the lock                                                         *)

StageIs(p, s) == stage' = [stage EXCEPT ![p] = s]

\* The process ends before it had the lock.
GivesUp(p) ==
    /\ Goto(p, "idle")
    /\ job' = [job EXCEPT ![p] = NoJob]
    /\ StageIs(p, "no")
    /\ UNCHANGED lock

\* Its Ctx is loaded, and no node has the vmid.
StartNew(p, g, v) ==
    /\ ~exists[g]
    /\ StartVerb(p, g, v)
    /\ pc[p] = "idle"
    /\ StageIs(p, "ask")
    /\ UNCHANGED <<loop, exists>>

\* settle_storage: asked for what the config lacks, stored or not (module
\* ConfigFile has the save); without an answer nothing is touched.
Settle(p) ==
    /\ stage[p] = "ask"
    /\ \/ /\ \/ UNCHANGED cfg
             \/ ~job[p].cfg.storage /\ cfg' = [cfg EXCEPT !.storage = TRUE]
          /\ StageIs(p, "resolve")
          /\ UNCHANGED <<pc, job, lock>>
       \/ GivesUp(p) /\ UNCHANGED cfg
    /\ UNCHANGED <<doc, token, wrapper, stack, upsets, loop, exists>>

\* template::resolve: found on the storage or downloaded, which takes
\* minutes; or there is none.
Resolve(p) ==
    /\ stage[p] = "resolve"
    /\ \/ StageIs(p, "create") /\ UNCHANGED <<pc, job, lock>>
       \/ GivesUp(p)
    /\ UNCHANGED <<store, wrapper, stack, upsets, loop, exists>>

\* What pct create makes: tagged, features set, not started.
Created == [NoWrapper EXCEPT !.tag = TagSelector, !.features = TRUE]

\* Mutant: the wrapper is created with `--start 1'.
Create_Started(p) ==
    LET g == job[p].guest
    IN  /\ stage[p] = "create"
        /\ IF exists[g]
           THEN GivesUp(p) /\ UNCHANGED <<exists, wrapper>>
           ELSE /\ exists' = [exists EXCEPT ![g] = TRUE]
                /\ wrapper' = [wrapper EXCEPT ![g] = [Created EXCEPT !.running = TRUE,
                                                                     !.booted = TRUE]]
                /\ StageIs(p, "document")
                /\ UNCHANGED <<pc, job, lock>>
        /\ UNCHANGED <<store, stack, upsets, loop>>

\* create_wrapper; PVE refuses a vmid that somebody took meanwhile.
Create(p) ==
    LET g == job[p].guest
    IN  /\ stage[p] = "create"
        /\ IF exists[g]
           THEN GivesUp(p) /\ UNCHANGED <<exists, wrapper>>
           ELSE /\ exists' = [exists EXCEPT ![g] = TRUE]
                /\ wrapper' = [wrapper EXCEPT ![g] = Created]
                /\ StageIs(p, "document")
                /\ UNCHANGED <<pc, job, lock>>
        /\ UNCHANGED <<store, stack, upsets, loop>>

\* Mutant: `set' without `--digest ""'.
WriteInitial_Over(p) ==
    LET g == job[p].guest
    IN  /\ stage[p] = "document"
        /\ doc' = [doc EXCEPT ![g] = [text |-> InitialDocument, rev |-> token]]
        /\ token' = token + 1
        /\ StageIs(p, "boot")
        /\ UNCHANGED <<pc, job, lock, cfg, wrapper, stack, upsets, loop, exists>>

\* doc::write_initial: refused where a document is, an earlier guest's or a
\* human's; the wrapper stays.
WriteInitial(p) ==
    LET g == job[p].guest
    IN  /\ stage[p] = "document"
        /\ IF doc[g].text = NoDocument
           THEN /\ doc' = [doc EXCEPT ![g] = [text |-> InitialDocument, rev |-> token]]
                /\ token' = token + 1
                /\ StageIs(p, "boot")
                /\ UNCHANGED <<pc, job, lock>>
           ELSE GivesUp(p) /\ UNCHANGED <<doc, token>>
        /\ UNCHANGED <<cfg, wrapper, stack, upsets, loop, exists>>

-----------------------------------------------------------------------------
(* With the lock                                                           *)

\* GuestLock::take(vmid, 60)
Lock(p) ==
    /\ stage[p] = "boot"
    /\ TakeLock(p) \/ Busy(p)
    /\ UNCHANGED <<loop, making>>

\* pct::start; a guest that runs by now, started by hand, ends the `new'.
Boot(p) ==
    LET g == job[p].guest
    IN  /\ stage[p] = "boot" /\ pc[p] = "load"
        /\ IF wrapper[g].running
           THEN Finish(p) /\ UNCHANGED <<wrapper, stage>>
           ELSE /\ wrapper' = [wrapper EXCEPT ![g].running = TRUE,
                                              ![g].booted = wrapper[g].features]
                /\ StageIs(p, "ready")
                /\ UNCHANGED <<pc, lock>>
        /\ UNCHANGED <<store, stack, job, upsets, loop, exists>>

\* pct::wait_ready: at most 90 s.
WaitReady(p) ==
    /\ stage[p] = "ready" /\ pc[p] = "load"
    /\ IF wrapper[job[p].guest].running
       THEN StageIs(p, "apply") /\ UNCHANGED <<pc, lock>>
       ELSE Finish(p) /\ UNCHANGED stage
    /\ UNCHANGED <<store, wrapper, stack, job, upsets, loop, exists>>

\* apply_locked, up to its facts.
Halves(p) ==
    /\ stage[p] = "apply"
    /\ \/ Loads(p) \/ PctOp(p) \/ PctDone(p) \/ EnsureDocker(p) \/ InstallFails(p)
       \/ EnsureLayout(p) \/ Decide(p) \/ Write(p) \/ Pull(p) \/ Up(p)
    /\ UNCHANGED <<loop, making>>

\* Its facts; `new' goes on.
Facts(p) ==
    /\ stage[p] = "apply" /\ pc[p] = "facts"
    /\ wrapper[job[p].guest].running
    /\ stack' = [stack EXCEPT ![job[p].guest].facts = job[p].read]
    /\ StageIs(p, "template")
    /\ UNCHANGED <<store, wrapper, lock, pc, job, upsets, loop, exists>>

\* The facts read back and written with the template: still this document's.
WriteTemplate(p) ==
    /\ stage[p] = "template" /\ pc[p] = "facts"
    /\ wrapper[job[p].guest].running
    /\ Finish(p)
    /\ UNCHANGED <<store, wrapper, stack, job, upsets, loop, making>>

\* A command finds the guest stopped, or no docker in it, or a file that
\* compose refuses.
NotReady(p) ==
    /\ stage[p] \in {"apply", "template"} /\ GuestFails(p)
    /\ UNCHANGED <<loop, making>>

\* The process ends, with the lock or without.
End(p) == Return(p) /\ StageIs(p, "no") /\ UNCHANGED <<loop, exists>>

NewSteps(p) ==
    \/ Settle(p) \/ Resolve(p) \/ Create(p) \/ WriteInitial(p)
    \/ Lock(p) \/ Boot(p) \/ WaitReady(p) \/ Halves(p) \/ Facts(p) \/ WriteTemplate(p)
    \/ NotReady(p) \/ End(p)

\* A command fails, or the process dies, before it has the lock: create and
\* the document may have been done.
CutShort(p) ==
    /\ stage[p] \in {"ask", "resolve", "create", "document"}
    /\ Upset("fault")
    /\ LET g == job[p].guest
       IN  \/ UNCHANGED <<exists, wrapper, doc, token>>
           \/ /\ stage[p] = "create" /\ ~exists[g]
              /\ exists' = [exists EXCEPT ![g] = TRUE]
              /\ wrapper' = [wrapper EXCEPT ![g] = Created]
              /\ UNCHANGED <<doc, token>>
           \/ /\ stage[p] = "document" /\ doc[g].text = NoDocument
              /\ doc' = [doc EXCEPT ![g] = [text |-> InitialDocument, rev |-> token]]
              /\ token' = token + 1
              /\ UNCHANGED <<exists, wrapper>>
    /\ GivesUp(p)
    /\ UNCHANGED <<cfg, stack, loop>>

\* It fails or dies with the lock, or while it waits for it.
Breaks(p) ==
    /\ stage[p] \in {"boot", "ready", "apply", "template"}
    /\ \/ CommandFails(p) /\ UNCHANGED stage
       \/ Crash(p) /\ StageIs(p, "no")
    /\ UNCHANGED <<loop, exists>>

\* Somebody else makes a guest of that vmid, here or on another node.
Taken(g) ==
    /\ Upset("taken")
    /\ ~exists[g]
    /\ exists' = [exists EXCEPT ![g] = TRUE]
    /\ UNCHANGED <<store, wrapper, stack, lock, pc, job, loop, stage>>

\* What a human does to a guest that is not there has no effect.
WorldSteps ==
    /\ World
    /\ \A g \in Guests : ~exists[g] => UNCHANGED <<doc[g], wrapper[g]>>
    /\ UNCHANGED <<loop, making>>

NewNext ==
    \/ \E p \in Procs \ {Loop} :
          \/ \E g \in Guests, v \in Verbs \cap {"apply", "apply_no_up"} : StartNew(p, g, v)
          \/ NewSteps(p) \/ CutShort(p) \/ Breaks(p)
          \/ stage[p] = "no" /\ Shell(p) /\ UNCHANGED <<loop, making>>
    \/ WorldSteps
    \/ \E g \in Guests : Taken(g)
    \/ /\ \/ \E full \in BOOLEAN : Poll(full) \/ PollFails(full)
          \/ LoopSteps \/ VisitFails \/ LoopCrash
          \/ CommandFails(Loop) /\ UNCHANGED loop
       /\ UNCHANGED making

NewSpec == NewInit /\ [][NewNext]_newVars

-----------------------------------------------------------------------------
(* What `new' promises *)

\* "Hold the lock from the start, so the daemon's first pass waits for `new'
\* to finish instead of racing it to the first apply" (new.rs): from the
\* creation of the wrapper to the end of its `new', nobody else changes
\* anything in the guest or in its PVE config.
FirstApplyIsNews ==
    [][\A p \in Procs \ {Loop} :
          stage[p] \in {"document", "boot", "ready", "apply", "template"} /\ pc[p] # "over"
              => LET g == job[p].guest
                 IN  stack'[g] # stack[g] \/ wrapper'[g] # wrapper[g]
                        => <<pc[p], stage[p], job[p]>>' # <<pc[p], stage[p], job[p]>>]_newVars

\* Writing the first document never replaces "someone else's intent"
\* (doc.rs): what a guest's document was when its `new' started, or what a
\* human wrote since, is what it is until a human writes again.
IntentKept ==
    [][\A g \in Guests :
          doc'[g] # doc[g] /\ doc[g].text # NoDocument
              => \E d \in Documents \cup {NoDocument} : EditDocument(g, d)]_newVars
=============================================================================
