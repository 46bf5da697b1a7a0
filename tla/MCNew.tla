------------------------------- MODULE MCNew -------------------------------
(* A small instance of New: one guest, there or not, the loop and a shell. *)
EXTENDS MCDaemon, New

\* The document `new' writes.
DocN == [Auto EXCEPT !.id = "N", !.up = FALSE, !.services = FALSE]

PolicyDocuments == {DocA, DocC, DocM, DocS, DocN, DocX}

\* Any text becomes any other; nobody types the first document's.
AllEdits == (PolicyDocuments \cup {NoDocument}) \X (PolicyDocuments \ {DocN})

Either == {[storage |-> b, owner |-> "0:0"] : b \in BOOLEAN}
=============================================================================
