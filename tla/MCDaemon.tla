------------------------------ MODULE MCDaemon ------------------------------
(* Small instances of Daemon: the loop, a shell, and one or two guests.    *)
EXTENDS Daemon

CONSTANTS d1, s1, data

Auto == [id |-> "", pct |-> TRUE, docker |-> TRUE, up |-> TRUE, pull |-> FALSE,
         services |-> TRUE, valid |-> TRUE, vols |-> {}]

DocA == [Auto EXCEPT !.id = "A"]
DocB == [Auto EXCEPT !.id = "B", !.vols = {data}]
DocC == [Auto EXCEPT !.id = "C", !.pull = TRUE]
DocX == [Auto EXCEPT !.id = "X", !.valid = FALSE]
DocM == [Auto EXCEPT !.id = "M", !.docker = FALSE]
DocS == [Auto EXCEPT !.id = "S", !.up = FALSE, !.vols = {data}]

MCDocuments == {DocA, DocB, DocC}
MCFirst == {DocA}
Onward == {<<DocA, DocB>>, <<DocB, DocC>>, <<DocA, DocC>>}

\* A document compose does not accept, taken back.
Back == {<<DocA, DocX>>, <<DocX, DocA>>}
BackDocuments == {DocA, DocX}

Stored == {[storage |-> TRUE, owner |-> "0:0"]}
=============================================================================
