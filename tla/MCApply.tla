------------------------------ MODULE MCApply ------------------------------
(* Small instances of Apply: two shells and one guest.                     *)
EXTENDS Status, TLC

CONSTANTS s1, s2, data

Auto == [id |-> "", pct |-> TRUE, docker |-> TRUE, up |-> TRUE, pull |-> FALSE,
         services |-> TRUE, valid |-> TRUE, vols |-> {}]

\* The document `new' writes, one with a disk, and a broken one.
DocA == [Auto EXCEPT !.id = "A", !.up = FALSE, !.services = FALSE]
DocB == [Auto EXCEPT !.id = "B", !.vols = {data}]
DocX == [Auto EXCEPT !.id = "X", !.valid = FALSE]

MCDocuments == {DocA, DocB, DocX}
MCFirstDocuments == {DocA}
MCEdits == {<<DocA, DocB>>, <<DocB, DocA>>, <<DocB, DocX>>, <<DocX, NoDocument>>}
MCFirstConfigs == {[storage |-> TRUE, owner |-> "0:0"]}

Shells == Permutations({s1, s2})
=============================================================================
