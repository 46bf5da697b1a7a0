------------------------------- MODULE Status -------------------------------
(***************************************************************************)
(* `status', `pct status' and `docker status' (ops/status.rs) beside the   *)
(* verbs of module Apply: a row is made of the list of guests, the         *)
(* document, the PVE config, the facts and `docker compose ps', read one   *)
(* after the other without the guest's lock, while a verb may be at work.  *)
(***************************************************************************)
EXTENDS Apply

CONSTANTS
    Levels,  \* of "pct", "docker" and "both"
    NoRow    \* a shell that does not run `status'

VARIABLE row  \* [Procs -> Rows or NoRow]: what a `status' has read so far

statusVars == <<vars, row>>

Answer == {"", "no document", "stopped", "error", "never", "pending", "applied", "down"}

Rows == [guest : Guests, level : Levels, cfg : Configs, running : BOOLEAN, read : Reads,
         pending : BOOLEAN, next : {"document", "config", "facts", "ps", "print"},
         state : Answer]

StatusInit == Init /\ row = [p \in Procs |-> NoRow]

-----------------------------------------------------------------------------
(* The reads of a row *)

Row(p, r) == row' = [row EXCEPT ![p] = r] /\ UNCHANGED vars

Says(r, what) == [r EXCEPT !.state = what, !.next = "print"]

\* Ctx::load and pct::list.
List(p, g, level) ==
    /\ row[p] = NoRow /\ pc[p] = "idle"
    /\ Row(p, [guest |-> g, level |-> level, cfg |-> cfg, running |-> wrapper[g].running,
               read |-> [text |-> NoDocument, rev |-> 0], pending |-> FALSE,
               next |-> "document", state |-> ""])

Asks(p, next) == row[p] # NoRow /\ row[p].next = next

ReadDocument(p) ==
    /\ Asks(p, "document")
    /\ LET r == [row[p] EXCEPT !.read = doc[row[p].guest]]
       IN  Row(p, IF r.read.text = NoDocument THEN Says(r, "no document")
                  ELSE IF ~r.running THEN Says(r, "stopped")
                  ELSE [r EXCEPT !.next = "config"])

\* ops::load_with and apply::pct_plan, which `docker status' leaves out.
ReadConfig(p) ==
    /\ Asks(p, "config")
    /\ LET r == row[p]
           todo == PlanFor(wrapper[r.guest], r.read.text) # {}
       IN  Row(p, IF r.level = "docker" THEN [r EXCEPT !.next = "facts"]
                  ELSE IF ~Plannable(r.read.text, r.cfg) THEN Says(r, "error")
                  ELSE IF r.level = "pct" THEN Says(r, IF todo THEN "pending" ELSE "applied")
                  ELSE [r EXCEPT !.pending = todo, !.next = "facts"])

\* Mutant: what the plan found is not looked at again.
ReadFacts_Only(p) ==
    /\ Asks(p, "facts")
    /\ LET r == row[p]
           facts == stack[r.guest].facts
           now == IF facts = Nothing THEN "never"
                  ELSE IF facts.text = r.read.text THEN "applied" ELSE "pending"
       IN  Row(p, IF ~wrapper[r.guest].running THEN Says(r, "error")
                  ELSE [r EXCEPT !.state = now, !.next = "ps"])

\* stack::read_facts: applied when they name the document and no plan is left.
ReadFacts(p) ==
    /\ Asks(p, "facts")
    /\ LET r == row[p]
           facts == stack[r.guest].facts
           now == IF facts = Nothing THEN "never"
                  ELSE IF facts.text = r.read.text /\ ~r.pending THEN "applied" ELSE "pending"
       IN  Row(p, IF ~wrapper[r.guest].running THEN Says(r, "error")
                  ELSE [r EXCEPT !.state = now, !.next = "ps"])

\* stack::ps; one that fails changes nothing.
AskPs(p) ==
    /\ Asks(p, "ps")
    /\ LET r == row[p]
           g == r.guest
           down == Answers(g) /\ Accepted(stack[g].file) /\ stack[g].up = Nothing
       IN  Row(p, Says(r, IF r.state = "applied" /\ down THEN "down" ELSE r.state))

ShowRow(p) == Asks(p, "print") /\ Row(p, NoRow)

StatusSteps(p) ==
    \/ \E g \in Guests, level \in Levels : List(p, g, level)
    \/ ReadDocument(p) \/ ReadConfig(p) \/ ReadFacts(p) \/ AskPs(p) \/ ShowRow(p)

StatusNext ==
    \/ World /\ UNCHANGED row
    \/ \E p \in Procs : Shell(p) /\ row[p] = NoRow /\ UNCHANGED row
    \/ \E p \in Procs : StatusSteps(p)

StatusSpec == StatusInit /\ [][StatusNext]_statusVars

-----------------------------------------------------------------------------
(* What a row promises *)

\* `status' takes no lock, and yet "applied" is true of one moment: when the
\* facts are read and name the document, its volumes are mounted and the
\* features are set, though the config was read a command earlier and verbs,
\* failures and power cycles came between; nobody detaches a mount by hand.
AppliedAtOnce ==
    [][\A p \in Procs :
          Asks(p, "facts") /\ row'[p] # NoRow /\ row'[p].state = "applied"
             /\ row[p].level = "both"
              => LET w == wrapper[row[p].guest]
                     facts == stack[row[p].guest].facts
                 IN  /\ facts # Nothing /\ facts.text = row[p].read.text
                     /\ row[p].read.text.vols \subseteq w.mounts /\ w.features]_statusVars
=============================================================================
