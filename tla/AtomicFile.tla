----------------------------- MODULE AtomicFile -----------------------------
(***************************************************************************)
(* What a caller of pct::write_file and pct::read_file is promised of one  *)
(* file in a guest: it always has a whole text, a call changes it at one   *)
(* moment or never, and a call that returns without an error has left its  *)
(* own text there.  A call that fails or dies may have done either.        *)
(***************************************************************************)
CONSTANTS
    Writers,   \* processes that write the file
    Texts,     \* what may be written
    None       \* no file; not writing

VARIABLES
    value,     \* the text of the file, or None
    doing,     \* [Writers -> Texts or None]: the call a process is in
    told       \* [Writers -> what its last call returned]

vars == <<value, doing, told>>

Init ==
    /\ value \in Texts \cup {None}
    /\ doing = [p \in Writers |-> None]
    /\ told = [p \in Writers |-> "nothing"]

Call(p, t) ==
    /\ doing[p] = None
    /\ doing' = [doing EXCEPT ![p] = t]
    /\ told' = [told EXCEPT ![p] = "nothing"]
    /\ UNCHANGED value

\* The one moment at which the file changes.
Land(p) ==
    /\ doing[p] # None
    /\ value' = doing[p]
    /\ UNCHANGED <<doing, told>>

Return(p, result) ==
    /\ doing[p] # None
    /\ result = "ok" => value = doing[p]
    /\ doing' = [doing EXCEPT ![p] = None]
    /\ told' = [told EXCEPT ![p] = result]
    /\ UNCHANGED value

Next ==
    \E p \in Writers :
        \/ \E t \in Texts : Call(p, t)
        \/ Land(p)
        \/ \E result \in {"ok", "error", "nothing"} : Return(p, result)

Spec == Init /\ [][Next]_vars
=============================================================================
