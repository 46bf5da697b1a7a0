------------------------------ MODULE PctHalf ------------------------------
(***************************************************************************)
(* What the rest of the tool takes the pct half of an apply for            *)
(* (pct_apply_guest): it looks once at what a guest lacks, brings it there *)
(* one command at a time, features and tag before the volumes, and comes   *)
(* to its end when nothing is left, or gives up at any command.  What is   *)
(* mounted it never takes away; only a human does.                         *)
(***************************************************************************)
CONSTANTS
    Volumes,     \* the paths of the volumes there may be
    TagSelector  \* whether there is a tag to give

VARIABLES
    wrapper,   \* what the guest has: the features, the tag, its mounts
    wanted,    \* the volumes of the document the half is run for
    todo,      \* what the guest lacked and has not got yet
    working    \* whether the half is at work

vars == <<wrapper, wanted, todo, working>>

Wrappers == [features : BOOLEAN, tag : BOOLEAN, mounts : SUBSET Volumes]

\* plan::build: what the guest lacks of a document with these volumes.
Missing(w, volumes) ==
    (IF w.features THEN {} ELSE {"features"})
        \cup (IF w.tag \/ ~TagSelector THEN {} ELSE {"tag"})
        \cup (volumes \ w.mounts)

\* What the next command may be for.
Turn(ops) ==
    IF "features" \in ops THEN {"features"}
    ELSE IF "tag" \in ops THEN {"tag"} ELSE ops

\* One command's effect.
After(w, op) ==
    CASE op = "features" -> [w EXCEPT !.features = TRUE]
      [] op = "tag"      -> [w EXCEPT !.tag = TRUE]
      [] OTHER           -> [w EXCEPT !.mounts = @ \cup {op}]

\* When the volumes have their turn, the line of one that is mounted may be
\* written again, which mounts it again if a human has detached it since.
Rewritable == IF todo \subseteq Volumes THEN wanted \ todo ELSE {}

Init ==
    /\ wrapper \in Wrappers
    /\ wanted = {} /\ todo = {} /\ working = FALSE

Begin(volumes) ==
    /\ ~working
    /\ working' = TRUE
    /\ wanted' = volumes
    /\ todo' = Missing(wrapper, volumes)
    /\ UNCHANGED wrapper

Command(op) ==
    /\ working
    /\ op \in Turn(todo) \cup Rewritable
    /\ wrapper' = After(wrapper, op)
    /\ todo' = todo \ {op}
    /\ UNCHANGED <<wanted, working>>

\* Everything the guest lacked has been given to it.
End ==
    /\ working
    /\ todo = {}
    /\ working' = FALSE
    /\ UNCHANGED <<wrapper, wanted, todo>>

\* A command fails, is cut short or is refused, with its effect or without.
GivesUp ==
    /\ working
    /\ wrapper' \in {wrapper} \cup {After(wrapper, op) : op \in Turn(todo) \cup Rewritable}
    /\ working' = FALSE
    /\ todo' = {}
    /\ UNCHANGED wanted

\* A human detaches a volume, or sets the tags.
Human ==
    /\ \/ \E v \in Volumes : wrapper' = [wrapper EXCEPT !.mounts = @ \ {v}]
       \/ \E tagged \in BOOLEAN : wrapper' = [wrapper EXCEPT !.tag = tagged]
    /\ UNCHANGED <<wanted, todo, working>>

Next ==
    \/ \E volumes \in SUBSET Volumes : Begin(volumes)
    \/ \E op \in {"features", "tag"} \cup Volumes : Command(op)
    \/ End \/ GivesUp \/ Human

Spec == Init /\ [][Next]_vars
=============================================================================
