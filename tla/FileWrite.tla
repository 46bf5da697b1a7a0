----------------------------- MODULE FileWrite ------------------------------
(***************************************************************************)
(* pct::write_file and pct::read_file: how a write of one file in a guest  *)
(* is made of commands.  The text is pushed into a sibling, which `pct     *)
(* push' truncates and fills chunk by chunk, and the sibling is renamed    *)
(* over the file.  Every command may fail at any point of its work or be   *)
(* killed by its deadline, and the process that runs it may die.           *)
(*                                                                         *)
(* In module Apply a write (Write, RecordFacts) is one step: the property  *)
(* Atomic is what allows that.                                             *)
(***************************************************************************)
EXTENDS Sequences, Naturals

CONSTANTS
    Writers,      \* processes that write the file, each under the guest's lock
    Readers,      \* processes that read it, with no lock (status)
    Texts,        \* what may be written
    Chunks,       \* the pieces a text is written and read in
    Disturbances, \* of "fail", "kill" and "interrupt"
    MaxWrites,    \* bound on calls of write_file
    MaxReads,     \* bound on calls of read_file
    MaxUpsets,    \* bound on disturbances
    None,         \* no file, no call
    Hole,         \* a chunk not written
    Nobody        \* a free lock; the parent of an orphan

ASSUME FileAssumption ==
    /\ Chunks \in Nat \ {0}
    /\ MaxWrites \in Nat /\ MaxReads \in Nat /\ MaxUpsets \in Nat
    /\ Nobody \notin Writers /\ None \notin Texts /\ Hole \notin Texts /\ None # Hole
    /\ None \notin Nat
    /\ Disturbances \subseteq {"fail", "kill", "interrupt"}

VARIABLES
    data,     \* the inodes made so far: chunks
    target,   \* the inode with the file's name, or None
    staged,   \* the inode with the sibling's name, or None
    running,  \* the pct commands that run
    lock,     \* the guest's lock
    pc, text, \* [Writers]: where a call is, and what it writes
    told,     \* [Writers]: what the last call returned
    reading,  \* [Readers]: the open file and what was read of it, or None
    writes, reads, upsets

files  == <<data, target, staged>>
calls  == <<lock, pc, text, told, writes>>
vars   == <<files, running, calls, reading, reads, upsets>>

Blank == [i \in 1 .. Chunks |-> Hole]
Whole(d) == \E t \in Texts : d = [i \in 1 .. Chunks |-> t]

\* by: the process that waits for it; inode: what push has opened.
Commands == [by : Writers \cup {Nobody}, kind : {"push", "rm", "mv"},
             text : Texts, inode : Nat \cup {None}, pos : 0 .. Chunks]

Command(p, kind) == [by |-> p, kind |-> kind, text |-> text[p], inode |-> None, pos |-> 0]

Upset(what) == what \in Disturbances /\ upsets < MaxUpsets /\ upsets' = upsets + 1

Init ==
    /\ \/ data = <<>> /\ target = None
       \/ \E t \in Texts : data = <<[i \in 1 .. Chunks |-> t]>> /\ target = 1
    /\ staged = None
    /\ running = {}
    /\ lock = Nobody
    /\ pc = [p \in Writers |-> "idle"]
    /\ text = [p \in Writers |-> None]
    /\ told = [p \in Writers |-> "nothing"]
    /\ reading = [r \in Readers |-> None]
    /\ writes = 0 /\ reads = 0 /\ upsets = 0

-----------------------------------------------------------------------------
(* The commands, as the guest carries them out                             *)

Goes(c, d) == running' = (running \ {c}) \cup {d}

\* Mutant: the push goes to the file itself.
PushOpen_InPlace(c) ==
    /\ c.kind = "push" /\ c.inode = None
    /\ IF target = None
       THEN /\ data' = Append(data, Blank)
            /\ target' = Len(data) + 1
       ELSE /\ data' = [data EXCEPT ![target] = Blank]
            /\ UNCHANGED target
    /\ Goes(c, [c EXCEPT !.inode = target'])
    /\ UNCHANGED <<staged, calls, reading, reads, upsets>>

\* pct push opens the sibling: made if it is not there, truncated if it is.
PushOpen(c) ==
    /\ c.kind = "push" /\ c.inode = None
    /\ IF staged = None
       THEN /\ data' = Append(data, Blank)
            /\ staged' = Len(data) + 1
       ELSE /\ data' = [data EXCEPT ![staged] = Blank]
            /\ UNCHANGED staged
    /\ Goes(c, [c EXCEPT !.inode = staged'])
    /\ UNCHANGED <<target, calls, reading, reads, upsets>>

PushChunk(c) ==
    /\ c.kind = "push" /\ c.inode # None /\ c.pos < Chunks
    /\ data' = [data EXCEPT ![c.inode][c.pos + 1] = c.text]
    /\ Goes(c, [c EXCEPT !.pos = c.pos + 1])
    /\ UNCHANGED <<target, staged, calls, reading, reads, upsets>>

Rename(c) ==
    /\ c.kind = "mv" /\ c.pos = 0 /\ staged # None
    /\ target' = staged
    /\ staged' = None
    /\ Goes(c, [c EXCEPT !.pos = 1])
    /\ UNCHANGED <<data, calls, reading, reads, upsets>>

Remove(c) ==
    /\ c.kind = "rm" /\ c.pos = 0
    /\ staged' = None
    /\ Goes(c, [c EXCEPT !.pos = 1])
    /\ UNCHANGED <<data, target, calls, reading, reads, upsets>>

Finished(c) == IF c.kind = "push" THEN c.inode # None /\ c.pos = Chunks ELSE c.pos = 1

CommandStep(c) == PushOpen(c) \/ PushChunk(c) \/ Rename(c) \/ Remove(c)

-----------------------------------------------------------------------------
(* write_file                                                              *)

\* The command p waits for.
Mine(p) == {c \in running : c.by = p}

\* The command of the previous step is gone, the next one starts.
Runs(p, kind) ==
    /\ pc' = [pc EXCEPT ![p] = kind]
    /\ running' = (running \ Mine(p)) \cup {Command(p, kind)}
    /\ UNCHANGED <<lock, text, told, writes>>

\* The call is over, and the guest's lock given up.
Ends(p, result) ==
    /\ pc' = [pc EXCEPT ![p] = "idle"]
    /\ text' = [text EXCEPT ![p] = None]
    /\ told' = [told EXCEPT ![p] = result]
    /\ lock' = Nobody
    /\ UNCHANGED writes

Call(p, t) ==
    /\ pc[p] = "idle"
    /\ lock = Nobody
    /\ writes < MaxWrites
    /\ lock' = p
    /\ pc' = [pc EXCEPT ![p] = "copy"]
    /\ text' = [text EXCEPT ![p] = t]
    /\ told' = [told EXCEPT ![p] = "nothing"]
    /\ writes' = writes + 1
    /\ UNCHANGED <<files, running, reading, reads, upsets>>

\* The host copy is made, and the directory.
Push(p) ==
    /\ pc[p] = "copy"
    /\ Runs(p, "push")
    /\ UNCHANGED <<files, reading, reads, upsets>>

CopyFails(p) ==
    /\ pc[p] = "copy"
    /\ Upset("fail")
    /\ Ends(p, "error")
    /\ UNCHANGED <<files, running, reading, reads>>

Move(p) ==
    /\ pc[p] = "push"
    /\ \A c \in Mine(p) : Finished(c)
    /\ Runs(p, "mv")
    /\ UNCHANGED <<files, reading, reads, upsets>>

\* Mutant: the error of a push is not looked at.
PushFails_GoesOn(p) ==
    /\ pc[p] = "push"
    /\ Upset("fail")
    /\ Runs(p, "mv")
    /\ UNCHANGED <<files, reading, reads>>

\* The push fails or is killed by its deadline: the sibling is removed.
PushFails(p) ==
    /\ pc[p] = "push"
    /\ Upset("fail")
    /\ Runs(p, "rm")
    /\ UNCHANGED <<files, reading, reads>>

\* Mutant: a command past its deadline is left running.
Over_LeavesIt(p, result) ==
    /\ Ends(p, result)
    /\ UNCHANGED running

\* A call returns when its command is over, or has been killed.
Over(p, result) ==
    /\ Ends(p, result)
    /\ running' = running \ Mine(p)

\* The removal's own result is not looked at.
RemoveEnds(p) ==
    /\ pc[p] = "rm"
    /\ \/ (\A c \in Mine(p) : Finished(c)) /\ UNCHANGED upsets
       \/ Upset("fail")
    /\ Over(p, "error")
    /\ UNCHANGED <<files, reading, reads>>

MoveEnds(p) ==
    /\ pc[p] = "mv"
    /\ \A c \in Mine(p) : Finished(c)
    /\ Over(p, "ok")
    /\ UNCHANGED <<files, reading, reads, upsets>>

\* The rename fails, or its answer does not come in time; it may be done.
MoveFails(p) ==
    /\ pc[p] = "mv"
    /\ Upset("fail")
    /\ Over(p, "error")
    /\ UNCHANGED <<files, reading, reads>>

\* systemd (the watchdog, a stop) kills the daemon with its commands.
Killed(p) ==
    /\ pc[p] # "idle"
    /\ Upset("kill")
    /\ Over(p, "nothing")
    /\ UNCHANGED <<files, reading, reads>>

WriterStep(p) ==
    \/ \E t \in Texts : Call(p, t)
    \/ Push(p) \/ CopyFails(p) \/ Move(p) \/ PushFails(p) \/ RemoveEnds(p)
    \/ MoveEnds(p) \/ MoveFails(p) \/ Killed(p)

-----------------------------------------------------------------------------
(* read_file: `head' in the guest, on the file as it was when opened       *)

Open(r) ==
    /\ reading[r] = None /\ target # None
    /\ reads < MaxReads /\ reads' = reads + 1
    /\ reading' = [reading EXCEPT ![r] = [inode |-> target, seen |-> <<>>]]
    /\ UNCHANGED <<files, running, calls, upsets>>

ReadChunk(r) ==
    /\ reading[r] # None
    /\ LET f == reading[r]
       IN  /\ Len(f.seen) < Chunks
           /\ reading' = [reading EXCEPT ![r].seen =
                            Append(@, data[f.inode][Len(f.seen) + 1])]
    /\ UNCHANGED <<files, running, calls, reads, upsets>>

Close(r) ==
    /\ reading[r] # None /\ Len(reading[r].seen) = Chunks
    /\ reading' = [reading EXCEPT ![r] = None]
    /\ UNCHANGED <<files, running, calls, reads, upsets>>

Next ==
    \/ \E p \in Writers : WriterStep(p)
    \/ \E c \in running : CommandStep(c)
    \/ \E r \in Readers : Open(r) \/ ReadChunk(r) \/ Close(r)

Spec == Init /\ [][Next]_vars

-----------------------------------------------------------------------------
(* A verb at a terminal may also die alone.                                *)

\* ^C at a terminal: the command has a process group of its own and goes on.
Interrupted(p) ==
    /\ pc[p] # "idle"
    /\ Upset("interrupt")
    /\ Ends(p, "nothing")
    /\ running' = (running \ Mine(p)) \cup {[c EXCEPT !.by = Nobody] : c \in Mine(p)}
    /\ UNCHANGED <<files, reading, reads>>

\* A command nobody waits for is over.
OrphanEnds(c) ==
    /\ c.by = Nobody /\ Finished(c)
    /\ running' = running \ {c}
    /\ UNCHANGED <<files, calls, reading, reads, upsets>>

\* An orphan has taken the sibling away.
NothingToMove(p) ==
    /\ pc[p] = "mv"
    /\ staged = None /\ \E c \in Mine(p) : ~Finished(c)
    /\ Over(p, "error")
    /\ UNCHANGED <<files, reading, reads, upsets>>

NextAtTerminal ==
    \/ Next
    \/ \E p \in Writers : Interrupted(p) \/ NothingToMove(p)
    \/ \E c \in running : OrphanEnds(c)

SpecAtTerminal == Init /\ [][NextAtTerminal]_vars

-----------------------------------------------------------------------------
(* What a write promises                                                   *)

Inodes == 1 .. Len(data)

\* Every variable has its type; a process waits for the one command it runs.
FileTypeOK ==
    /\ data \in Seq([1 .. Chunks -> Texts \cup {Hole}])
    /\ target \in Inodes \cup {None} /\ staged \in Inodes \cup {None}
    /\ running \subseteq Commands
    /\ lock \in Writers \cup {Nobody}
    /\ pc \in [Writers -> {"idle", "copy", "push", "rm", "mv"}]
    /\ text \in [Writers -> Texts \cup {None}]
    /\ told \in [Writers -> {"nothing", "ok", "error"}]
    /\ \A c \in running : c.by # Nobody => c.kind = pc[c.by]
    /\ \A r \in Readers : reading[r] # None => reading[r].inode \in Inodes

\* What the file holds for whoever opens it.
Value ==
    IF target = None THEN None
    ELSE IF Whole(data[target]) THEN data[target][1] ELSE Hole

Doing == [p \in Writers |-> IF pc[p] = "idle" THEN None ELSE text[p]]

Abstract == INSTANCE AtomicFile WITH value <- Value, doing <- Doing

\* "A reader, or the next apply after a killed one, sees the old file or the
\* new one, never half of one" (pct.rs): push, rename, their failures at any
\* point and the death of whoever runs them make an atomic write, and a
\* write that reports no error is in place.
Atomic == Abstract!Spec

\* A reader that takes no lock and reads the file while it is replaced gets
\* one text from its first byte to its last.
ReadsWhole ==
    \A r \in Readers :
        reading[r] # None /\ Len(reading[r].seen) = Chunks => Whole(reading[r].seen)

-----------------------------------------------------------------------------
(* What the documentation says and a verb interrupted at a terminal breaks *)

\* "Never half of one", since "the caller holds the guest's lock, so no two
\* writes of one file run at once" (pct.rs), whoever died before.
NeverHalf == target # None => Whole(data[target])
=============================================================================
