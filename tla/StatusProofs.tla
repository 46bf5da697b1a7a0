---------------------------- MODULE StatusProofs ----------------------------
(***************************************************************************)
(* A row of `status' is put together without the lock, and is right: for   *)
(* any guests, processes, documents and bounds.  What its plan found done  *)
(* stays done, since no process takes a mountpoint or a feature back.      *)
(***************************************************************************)
EXTENDS Status, ApplyProofs

\* Nothing of the plan was left to do in the guest of the row.
NothingLeft(r) == r.read.text.vols \subseteq wrapper[r.guest].mounts /\ wrapper[r.guest].features

RowFacts(r) ==
    /\ r.guest \in Guests
    /\ r.next \in {"document", "config", "facts"} => r.state = ""
    /\ r.next = "facts" /\ r.level = "both" /\ ~r.pending => NothingLeft(r)

RowInv ==
    /\ row \in [Procs -> Rows \cup {NoRow}]
    /\ \A p \in Procs : row[p] # NoRow => RowFacts(row[p])

\* A read replaces the row of its process and changes nothing else.
LEMMA RowStep ==
    ASSUME RowInv, NEW p \in Procs, NEW r \in Rows, Row(p, r), RowFacts(r)
    PROVE  RowInv'
BY DEF RowInv, Row, RowFacts, NothingLeft, vars

LEMMA SaysKeeps ==
    ASSUME NEW r \in Rows, r.guest \in Guests, NEW what \in Answer
    PROVE  Says(r, what) \in Rows /\ RowFacts(Says(r, what))
BY DEF Says, Rows, RowFacts

\* The reads keep it.
LEMMA ReadsKeep ==
    ASSUME TypeOK, RowInv, NEW p \in Procs, StatusSteps(p)
    PROVE  RowInv'
<1> USE DEF Answer
<1>0. ASSUME row[p] # NoRow
      PROVE  row[p] \in Rows /\ RowFacts(row[p])
  BY <1>0 DEF RowInv
<1>1. ASSUME NEW g \in Guests, NEW level \in Levels, List(p, g, level) PROVE RowInv'
  <2> DEFINE r == [guest |-> g, level |-> level, cfg |-> cfg, running |-> wrapper[g].running,
                   read |-> [text |-> NoDocument, rev |-> 0], pending |-> FALSE,
                   next |-> "document", state |-> ""]
  <2>1. r \in Rows
    BY DEF Rows, TypeOK, Wrappers, Reads
  <2>2. RowFacts(r)
    BY DEF RowFacts
  <2>3. Row(p, r)
    BY <1>1 DEF List
  <2> HIDE DEF r
  <2> QED
    BY <2>1, <2>2, <2>3, RowStep
<1>2. CASE ReadDocument(p)
  <2> DEFINE r == [row[p] EXCEPT !.read = doc[row[p].guest]]
             on == [r EXCEPT !.next = "config"]
  <2>1. row[p] \in Rows /\ row[p].guest \in Guests /\ row[p].state = ""
    BY <1>0, <1>2 DEF ReadDocument, Asks, RowFacts
  <2>2. r \in Rows /\ r.guest \in Guests /\ r.state = ""
    BY <2>1 DEF Rows, TypeOK
  <2>3. on \in Rows /\ on.guest = r.guest /\ on.next = "config" /\ on.state = ""
    BY <2>2 DEF Rows
  <2>4. Row(p, IF r.read.text = NoDocument THEN Says(r, "no document")
               ELSE IF ~r.running THEN Says(r, "stopped")
               ELSE on)
    BY <1>2 DEF ReadDocument
  <2> HIDE DEF r, on
  <2>5. Row(p, on) \/ \E what \in Answer : Row(p, Says(r, what))
    BY <2>4
  <2>6. RowFacts(on)
    BY <2>2, <2>3 DEF RowFacts
  <2> QED
    BY <2>2, <2>3, <2>5, <2>6, SaysKeeps, RowStep
<1>3. CASE ReadConfig(p)
  <2> DEFINE r == row[p]
             todo == PlanFor(wrapper[r.guest], r.read.text) # {}
             dockers == [r EXCEPT !.next = "facts"]
             both == [r EXCEPT !.pending = todo, !.next = "facts"]
  <2>1. r \in Rows /\ r.guest \in Guests /\ r.state = ""
    BY <1>0, <1>3 DEF ReadConfig, Asks, RowFacts
  <2>2. /\ dockers \in Rows /\ dockers.guest = r.guest /\ dockers.state = ""
        /\ dockers.level = r.level
    BY <2>1 DEF Rows
  <2>3. /\ both \in Rows /\ both.guest = r.guest /\ both.state = "" /\ both.level = r.level
        /\ both.pending = todo /\ both.read = r.read
    <3> HIDE DEF todo
    <3>1. todo \in BOOLEAN
      BY DEF todo
    <3> QED
      BY <2>1, <3>1 DEF Rows
  <2>4. ~todo => NothingLeft(r)
    BY DEF PlanFor, NothingLeft
  <2>5. Row(p, IF r.level = "docker" THEN dockers
               ELSE IF ~Plannable(r.read.text, r.cfg) THEN Says(r, "error")
               ELSE IF r.level = "pct" THEN Says(r, IF todo THEN "pending" ELSE "applied")
               ELSE both)
    BY <1>3 DEF ReadConfig
  <2> HIDE DEF dockers, both, todo
  <2>6. \/ Row(p, dockers) /\ r.level = "docker"
        \/ Row(p, both)
        \/ \E what \in Answer : Row(p, Says(r, what))
    BY <2>5
  <2>7. r.level = "docker" => RowFacts(dockers)
    BY <2>1, <2>2 DEF RowFacts
  <2>8. RowFacts(both)
    BY <2>1, <2>3, <2>4 DEF RowFacts, NothingLeft
  <2> QED
    BY <2>1, <2>2, <2>3, <2>6, <2>7, <2>8, SaysKeeps, RowStep
<1>4. CASE ReadFacts(p)
  <2> DEFINE r == row[p]
  <2>1. r \in Rows /\ r.guest \in Guests
    BY <1>0, <1>4 DEF ReadFacts, Asks, RowFacts
  <2>2. \/ Row(p, Says(r, "error"))
        \/ \E now \in Answer : Row(p, [r EXCEPT !.state = now, !.next = "ps"])
    BY <1>4 DEF ReadFacts
  <2>3. \A now \in Answer : LET s == [r EXCEPT !.state = now, !.next = "ps"]
                            IN  s \in Rows /\ s.guest = r.guest /\ s.next = "ps"
    BY <2>1 DEF Rows
  <2> HIDE DEF r
  <2> QED
    BY <2>1, <2>2, <2>3, SaysKeeps, RowStep DEF RowFacts
<1>5. CASE AskPs(p)
  <2>1. row[p] \in Rows /\ row[p].guest \in Guests /\ row[p].state \in Answer
    BY <1>0, <1>5 DEF AskPs, Asks, RowFacts, Rows
  <2>2. \E what \in Answer : Row(p, Says(row[p], what))
    BY <1>5, <2>1 DEF AskPs
  <2> QED
    BY <2>1, <2>2, SaysKeeps, RowStep DEF RowFacts
<1>6. CASE ShowRow(p)
  BY <1>6 DEF ShowRow, Row, RowInv, RowFacts, NothingLeft, vars
<1> QED
  BY <1>1, <1>2, <1>3, <1>4, <1>5, <1>6 DEF StatusSteps

\* A step beside the rows is a verb's or the world's; a read is a stutter.
LEMMA ReadsOnly ==
    ASSUME [StatusNext]_statusVars
    PROVE  [Next]_vars
BY DEF StatusNext, statusVars, Next, StatusSteps, List, ReadDocument, ReadConfig, ReadFacts,
       AskPs, ShowRow, Row

\* `status' takes no lock and changes nothing (ops/status.rs): the verbs
\* beside it do what they do without it, and keep every promise of theirs.
THEOREM StatusOnlyReads == StatusSpec => Spec
<1>1. StatusInit => Init
  BY DEF StatusInit
<1>2. [StatusNext]_statusVars => [Next]_vars
  BY ReadsOnly
<1> QED
  BY <1>1, <1>2, PTL DEF StatusSpec, Spec

LEMMA StatusStep == TypeOK /\ RowInv /\ [StatusNext]_statusVars => TypeOK' /\ RowInv'
<1> SUFFICES ASSUME TypeOK, RowInv, [StatusNext]_statusVars PROVE TypeOK' /\ RowInv'
  OBVIOUS
<1>1. [Next]_vars
  BY ReadsOnly
<1>2. TypeOK'
  BY <1>1, TypeStep
<1>3. CASE UNCHANGED row
  <2>1. ASSUME NEW p \in Procs, row[p].guest \in Guests, NothingLeft(row[p])
        PROVE  NothingLeft(row[p])'
    BY <1>1, <1>3, <2>1, WrapperGrows DEF NothingLeft
  <2> QED
    BY <1>2, <1>3, <2>1 DEF RowInv, RowFacts
<1>4. CASE \E p \in Procs : StatusSteps(p)
  BY <1>2, <1>4, ReadsKeep
<1> QED
  BY <1>2, <1>3, <1>4 DEF StatusNext, statusVars

\* "applied" is true of one moment, whatever the verbs did meanwhile.
THEOREM AppliedIsTrue == StatusSpec => AppliedAtOnce
<1>1. StatusInit => TypeOK /\ RowInv
  BY InitType DEF StatusInit, RowInv
<1>2. TypeOK /\ RowInv /\ [StatusNext]_statusVars
        => [\A p \in Procs :
              Asks(p, "facts") /\ row'[p] # NoRow /\ row'[p].state = "applied"
                 /\ row[p].level = "both"
                  => LET w == wrapper[row[p].guest]
                         facts == stack[row[p].guest].facts
                     IN  /\ facts # Nothing /\ facts.text = row[p].read.text
                         /\ row[p].read.text.vols \subseteq w.mounts /\ w.features]_statusVars
  <2> SUFFICES ASSUME TypeOK, RowInv, StatusNext, NEW p \in Procs,
                      Asks(p, "facts"), row'[p] # NoRow, row'[p].state = "applied",
                      row[p].level = "both"
               PROVE  /\ stack[row[p].guest].facts # Nothing
                      /\ stack[row[p].guest].facts.text = row[p].read.text
                      /\ NothingLeft(row[p])
    BY DEF NothingLeft, statusVars
  <2>1. row[p] \in Rows /\ RowFacts(row[p]) /\ row[p].state = "" /\ row[p].next = "facts"
    BY DEF RowInv, Asks, RowFacts
  <2>2. ~UNCHANGED row
    BY <2>1
  <2>3. PICK q \in Procs : StatusSteps(q)
    BY <2>2 DEF StatusNext
  <2>4. q = p
    BY <2>1, <2>3 DEF StatusSteps, List, ReadDocument, ReadConfig, ReadFacts, AskPs, ShowRow,
                      Row, RowInv
  <2>5. ReadFacts(p)
    BY <2>1, <2>3, <2>4 DEF StatusSteps, List, ReadDocument, ReadConfig, AskPs, ShowRow, Asks
  <2>6. stack[row[p].guest].facts # Nothing
        /\ stack[row[p].guest].facts.text = row[p].read.text /\ ~row[p].pending
    <3> DEFINE r == row[p]
               facts == stack[r.guest].facts
               now == IF facts = Nothing THEN "never"
                      ELSE IF facts.text = r.read.text /\ ~r.pending THEN "applied" ELSE "pending"
    <3>1. row'[p] = (IF ~wrapper[r.guest].running THEN Says(r, "error")
                     ELSE [r EXCEPT !.state = now, !.next = "ps"])
      BY <2>5 DEF ReadFacts, Row, RowInv
    <3>2. Says(r, "error").state = "error" /\ [r EXCEPT !.state = now, !.next = "ps"].state = now
      BY <2>1 DEF Says, Rows
    <3>3. now = "applied"
      BY <3>1, <3>2
    <3> QED
      BY <3>3
  <2> QED
    BY <2>1, <2>6 DEF RowFacts
<1> QED
  BY <1>1, <1>2, StatusStep, PTL DEF StatusSpec, AppliedAtOnce
=============================================================================
