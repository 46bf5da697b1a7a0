----------------------------- MODULE ConfigFile -----------------------------
(***************************************************************************)
(* /etc/pve/pve-compose.cfg: one file on the cluster file system, loaded   *)
(* and saved whole by `config set', `config unset' and `new' on any node,  *)
(* with no lock (config.rs, ops/configcmd.rs, ops/new.rs).  A save writes  *)
(* `<file>.tmp', which every node shares, and renames it over the file.    *)
(* A process may fail or be killed at any point of it, and a human edits   *)
(* the file by hand.                                                       *)
(***************************************************************************)
EXTENDS Sizes

CONSTANTS
    Writers,       \* processes that change the file
    Nodes,         \* the nodes of the cluster
    On,            \* [Writers -> Nodes]: where a process runs
    Storages,      \* names of storages
    SizesTyped,    \* rootfs-size values humans type
    LimitSets,     \* `limits': edited by hand only
    DefaultLimits, \* the built-in ones
    DefaultRootfs, \* in bytes
    FirstFiles,    \* what the file may be at the start
    HandTexts,     \* what a human may make of it
    MaxCalls,      \* bound on calls
    MaxUpsets,     \* bound on processes cut short and on hand edits
    Unset,         \* no storage chosen
    Keep,          \* a key a call leaves alone
    Absent, Blank, Garbled  \* no file; an empty one; one that does not load

VARIABLES
    file, tmp,  \* the two files
    pc,         \* [Writers]: where a process is
    wish,       \* [Writers]: what it was asked to change
    ctx,        \* [Writers]: the config its Ctx holds, from when it started
    mem,        \* [Writers]: the config it is about to save
    handle,     \* [Writers]: where the file it has open is by now
    met,        \* [Writers]: someone else wrote since it loaded (history)
    overlap,    \* two saves ran at once some time (history)
    calls, upsets

history == <<met, overlap>>
vars == <<file, tmp, pc, wish, ctx, mem, handle, history, calls, upsets>>

-----------------------------------------------------------------------------
(* The config and its text *)

Configs == [template : Storages \cup {Unset}, rootfs : Nat, limits : LimitSets,
            storage : [Nodes -> Storages \cup {Unset}]]

Default == [template |-> Unset, rootfs |-> DefaultRootfs, limits |-> DefaultLimits,
            storage |-> [n \in Nodes |-> Unset]]

\* A value that is the default is not written (Keep).
Texts == [template : Storages \cup {Unset}, rootfs : SizeTexts \cup {Keep},
          limits : LimitSets, storage : [Nodes -> Storages \cup {Unset}]]

Contents == Texts \cup {Absent, Blank, Garbled}

ASSUME ConfigAssumption ==
    /\ On \in [Writers -> Nodes]
    /\ SizesTyped \subseteq SizeTexts /\ \A t \in SizesTyped : Parsed(t) > 0
    /\ DefaultLimits \in LimitSets /\ DefaultRootfs \in Nat \ {0}
    /\ FirstFiles \subseteq Contents /\ HandTexts \subseteq Contents
    /\ MaxCalls \in Nat /\ MaxUpsets \in Nat
    /\ Unset \notin Storages /\ Keep \notin Storages /\ Keep # Unset
    /\ Keep \notin Nat /\ Keep \notin SizeTexts
    /\ Texts \cap {Absent, Blank, Garbled} = {}
    /\ Absent # Blank /\ Absent # Garbled /\ Blank # Garbled

\* Nobody empties the file on purpose.
ASSUME NotEmptied == Blank \notin FirstFiles \cup HandTexts

\* Config::save_to: what is serialized.
Saved(c) ==
    [template |-> c.template, limits |-> c.limits, storage |-> c.storage,
     rootfs |-> IF c.rootfs = DefaultRootfs THEN Keep ELSE Printed(c.rootfs)]

\* Config::load_from: a file that is not there or empty is the default.
Loads(f) == f # Garbled

Loaded(f) ==
    IF f \in {Absent, Blank} THEN Default
    ELSE [template |-> f.template, limits |-> f.limits, storage |-> f.storage,
          rootfs |-> IF f.rootfs = Keep THEN DefaultRootfs ELSE Parsed(f.rootfs)]

\* Mutant: keys that were not asked for are stored as well.
Change_Unasked(c, n, w) ==
    [c EXCEPT !.template = w.template, !.rootfs = w.rootfs, !.storage[n] = w.storage]

\* config::set and unset, and the closure of `new': the keys asked for.
Change(c, n, w) ==
    [c EXCEPT !.template = IF w.template = Keep THEN @ ELSE w.template,
              !.rootfs = IF w.rootfs = Keep THEN @ ELSE w.rootfs,
              !.storage[n] = IF w.storage = Keep THEN @ ELSE w.storage]

Wishes == [template : Storages \cup {Unset, Keep}, rootfs : Nat \cup {Keep},
           storage : Storages \cup {Unset, Keep}]

NoWish == [template |-> Keep, rootfs |-> Keep, storage |-> Keep]

\* One key: set to a value, or back to its default.
OneKey ==
    {[NoWish EXCEPT !.template = s] : s \in Storages \cup {Unset}}
        \cup {[NoWish EXCEPT !.storage = s] : s \in Storages \cup {Unset}}
        \cup {[NoWish EXCEPT !.rootfs = b] :
                 b \in {Parsed(t) : t \in SizesTyped} \cup {DefaultRootfs}}

\* What `new' asks about and may store: the storages its config lacks.
Answers(c, n) ==
    {w \in [template : Storages \cup {Keep}, rootfs : {Keep}, storage : Storages \cup {Keep}] :
        /\ c.template # Unset => w.template = Keep
        /\ c.storage[n] # Unset => w.storage = Keep
        /\ w # NoWish}

Init ==
    /\ file \in FirstFiles
    /\ tmp = Absent
    /\ pc = [w \in Writers |-> "idle"]
    /\ wish = [w \in Writers |-> NoWish]
    /\ ctx = [w \in Writers |-> Default]
    /\ mem = [w \in Writers |-> Default]
    /\ handle = [w \in Writers |-> "none"]
    /\ met = [w \in Writers |-> FALSE]
    /\ overlap = FALSE
    /\ calls = 0 /\ upsets = 0

-----------------------------------------------------------------------------
(* A call *)

Goto(w, label) == pc' = [pc EXCEPT ![w] = label]

\* The process ends, and with it what it knew.
Return(w) ==
    /\ Goto(w, "idle")
    /\ wish' = [wish EXCEPT ![w] = NoWish]
    /\ ctx' = [ctx EXCEPT ![w] = Default]
    /\ mem' = [mem EXCEPT ![w] = Default]

\* The labels from the load to the rename.
Saving == {"open", "fill", "rename"}

\* A write to either file: every other save under way has met it.
Writes(w) ==
    /\ met' = [v \in Writers |-> met[v] \/ (v # w /\ pc[v] \in Saving)]
    /\ UNCHANGED overlap

\* Ctx::load, when any verb starts; a file that does not load ends it.
StartSet(w, change) ==
    /\ pc[w] = "idle" /\ calls < MaxCalls /\ Loads(file)
    /\ calls' = calls + 1
    /\ wish' = [wish EXCEPT ![w] = change]
    /\ ctx' = [ctx EXCEPT ![w] = Loaded(file)]
    /\ Goto(w, "load")
    /\ UNCHANGED <<file, tmp, mem, handle, history, upsets>>

\* `new' asks at the terminal, on what its Ctx lacks, and waits.
StartNew(w) ==
    /\ pc[w] = "idle" /\ calls < MaxCalls /\ Loads(file)
    /\ Answers(Loaded(file), On[w]) # {}
    /\ calls' = calls + 1
    /\ ctx' = [ctx EXCEPT ![w] = Loaded(file)]
    /\ Goto(w, "ask")
    /\ UNCHANGED <<file, tmp, wish, mem, handle, history, upsets>>

\* The questions are answered, and an answer is to be stored.
Answer(w) ==
    /\ pc[w] = "ask"
    /\ \E a \in Answers(ctx[w], On[w]) : wish' = [wish EXCEPT ![w] = a]
    /\ Goto(w, "load")
    /\ UNCHANGED <<file, tmp, ctx, mem, handle, history, calls, upsets>>

\* No answer, or none to be stored: the file is not touched.
NoAnswer(w) ==
    /\ pc[w] = "ask"
    /\ Return(w)
    /\ UNCHANGED <<file, tmp, handle, history, calls, upsets>>

Alone(w) == \A v \in Writers \ {w} : pc[v] \notin Saving

\* Mutant: the change is made to the config the process started with.
Load_FromCtx(w) ==
    /\ pc[w] = "load" /\ Loads(file)
    /\ mem' = [mem EXCEPT ![w] = Change(ctx[w], On[w], wish[w])]
    /\ met' = [met EXCEPT ![w] = ~Alone(w)]
    /\ overlap' = (overlap \/ ~Alone(w))
    /\ Goto(w, "open")
    /\ UNCHANGED <<file, tmp, wish, ctx, handle, calls, upsets>>

\* set and unset, Config::update: loaded (again), and changed in memory.
Load(w) ==
    /\ pc[w] = "load" /\ Loads(file)
    /\ mem' = [mem EXCEPT ![w] = Change(Loaded(file), On[w], wish[w])]
    /\ met' = [met EXCEPT ![w] = ~Alone(w)]
    /\ overlap' = (overlap \/ ~Alone(w))
    /\ Goto(w, "open")
    /\ UNCHANGED <<file, tmp, wish, ctx, handle, calls, upsets>>

\* "bad configuration": nothing is written over a file that does not load.
LoadFails(w) ==
    /\ pc[w] = "load" /\ ~Loads(file)
    /\ Return(w)
    /\ UNCHANGED <<file, tmp, handle, history, calls, upsets>>

\* fs::write, first half: created, or truncated with what another left in it.
Open(w) ==
    /\ pc[w] = "open"
    /\ tmp' = Blank
    /\ handle' = [handle EXCEPT ![w] = "tmp"]
    /\ Writes(w)
    /\ Goto(w, "fill")
    /\ UNCHANGED <<file, wish, ctx, mem, calls, upsets>>

\* A text over nothing is the text; over another's, that one's tail may stay.
Over(text, old) == IF old = Blank THEN {text} ELSE {text, Garbled}

\* fs::write, second half, into the file that was opened.
Fill(w) ==
    /\ pc[w] = "fill" /\ handle[w] # "gone"
    /\ \/ handle[w] = "tmp" /\ tmp' \in Over(Saved(mem[w]), tmp) /\ UNCHANGED file
       \/ handle[w] = "file" /\ file' \in Over(Saved(mem[w]), file) /\ UNCHANGED tmp
    /\ handle' = [handle EXCEPT ![w] = "none"]
    /\ Writes(w)
    /\ Goto(w, "rename")
    /\ UNCHANGED <<wish, ctx, mem, calls, upsets>>

\* The file that was opened has been renamed, on another node at that, or
\* replaced: the write fails.
FillFails(w) ==
    /\ pc[w] = "fill" /\ handle[w] # "tmp"
    /\ handle' = [handle EXCEPT ![w] = "none"]
    /\ Return(w)
    /\ UNCHANGED <<file, tmp, history, calls, upsets>>

\* Who has the renamed file open keeps it; the one under its name is gone.
AfterRename(h) == IF h = "tmp" THEN "file" ELSE IF h = "file" THEN "gone" ELSE h

Replace == file' = tmp /\ tmp' = Absent /\ handle' = [v \in Writers |-> AfterRename(handle[v])]

Rename(w) ==
    /\ pc[w] = "rename" /\ tmp # Absent
    /\ Replace
    /\ Writes(w)
    /\ Return(w)
    /\ UNCHANGED <<calls, upsets>>

\* Another save has renamed the shared `.tmp'.
RenameFails(w) ==
    /\ pc[w] = "rename" /\ tmp = Absent
    /\ Return(w)
    /\ UNCHANGED <<file, tmp, handle, history, calls, upsets>>

\* What a process that fails or dies at a label may have done.
HalfDone(w) ==
    \/ UNCHANGED <<file, tmp>> /\ handle' = [handle EXCEPT ![w] = "none"]
    \/ pc[w] = "open" /\ tmp' = Blank /\ UNCHANGED <<file, handle>>
    \/ pc[w] = "rename" /\ tmp # Absent /\ Replace

\* Mutant: an error of fs::write does not end the save.
CutShort_GoesOn(w) ==
    /\ pc[w] # "idle" /\ upsets < MaxUpsets
    /\ upsets' = upsets + 1
    /\ HalfDone(w)
    /\ Writes(w)
    /\ IF pc[w] \in {"open", "fill"}
       THEN Goto(w, "rename") /\ UNCHANGED <<wish, ctx, mem>>
       ELSE Return(w)
    /\ UNCHANGED calls

\* A call fails or the process is killed, wherever it is: `.tmp' stays.
CutShort(w) ==
    /\ pc[w] # "idle" /\ upsets < MaxUpsets
    /\ upsets' = upsets + 1
    /\ HalfDone(w)
    /\ Writes(w)
    /\ Return(w)
    /\ UNCHANGED calls

\* A human saves the file: limits, the daemon's periods, a mistake.
HandEdit(t) ==
    /\ upsets < MaxUpsets /\ t # file
    /\ upsets' = upsets + 1
    /\ file' = t
    /\ met' = [v \in Writers |-> met[v] \/ pc[v] \in Saving]
    /\ UNCHANGED <<tmp, pc, wish, ctx, mem, handle, overlap, calls>>

Writer(w) ==
    \/ \E change \in OneKey : StartSet(w, change)
    \/ StartNew(w) \/ Answer(w) \/ NoAnswer(w)
    \/ Load(w) \/ LoadFails(w) \/ Open(w) \/ Fill(w) \/ FillFails(w)
    \/ Rename(w) \/ RenameFails(w) \/ CutShort(w)

Next == (\E w \in Writers : Writer(w)) \/ (\E t \in HandTexts : HandEdit(t))

Spec == Init /\ [][Next]_vars

-----------------------------------------------------------------------------
(* What the file promises *)

\* Every variable has its type.
ConfigTypeOK ==
    /\ file \in Contents /\ tmp \in Contents
    /\ pc \in [Writers -> {"idle", "ask", "load"} \cup Saving]
    /\ wish \in [Writers -> Wishes]
    /\ ctx \in [Writers -> Configs] /\ mem \in [Writers -> Configs]
    /\ handle \in [Writers -> {"none", "tmp", "file", "gone"}]
    /\ met \in [Writers -> BOOLEAN] /\ overlap \in BOOLEAN
    /\ calls \in Nat /\ upsets \in Nat

\* "A writer that loaded the config a while ago must not clobber what
\* another node wrote in between" (config.rs): a save nobody else wrote
\* beside leaves the file as it was but for the keys it was asked for,
\* however long ago its process read the config, whatever an earlier one
\* left in `.tmp', and it never replaces a file that does not load.  That
\* includes the sizes: "bytes inside, so the two never disagree" (size.rs).
ChangesOnlyItsKeys ==
    [][\A w \in Writers :
          pc[w] = "rename" /\ pc'[w] = "idle" /\ ~met[w] /\ file' # file
              => /\ Loads(file) /\ Loads(file')
                 /\ Loaded(file') = Change(Loaded(file), On[w], wish[w])]_vars

\* An empty file is the default config, without a word of warning: only two
\* saves at once can leave one, never a failure or a death in one of them.
NeverBlank == file = Blank => overlap

\* The root disk PVE makes of the size the file says is within one MiB of
\* it, which is what the plan takes for no difference (disk_size_satisfied).
RootDiskFits ==
    Loads(file) =>
        LET want == Loaded(file).rootfs
            have == Allocated(ToPctGib(want))
        IN  have + MIB >= want /\ want + MIB >= have
=============================================================================
