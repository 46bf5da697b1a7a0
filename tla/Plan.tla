-------------------------------- MODULE Plan --------------------------------
(***************************************************************************)
(* The pct half in detail (plan.rs, pct.rs): build compares the volumes of *)
(* a document with one reading of the guest's PVE config, execute runs the *)
(* operations one `pct' command at a time.  PVE locks the config for each  *)
(* command, not for the plan: between two of them a human may change it,   *)
(* and any of them may fail or be cut short.  There is one run at a time   *)
(* (OneWriter in module Apply).                                            *)
(*                                                                         *)
(* A disk has an identity, given by PVE when it is allocated, and a size   *)
(* of its own, which the `size=' of its mountpoint line repeats.           *)
(***************************************************************************)
EXTENDS Sequences, FiniteSetsExt

CONSTANTS
    Paths,          \* mount paths under the volumes directory
    Elsewhere,      \* a path of the guest outside of it
    Storages,       \* storages of the node
    HostPaths,      \* directories of the node a bind may name
    Nowhere,        \* no storage
    DefaultStorage, \* config.storage_for(node), or Nowhere
    TagSelector,    \* the prefix selects on a tag (FALSE: `all: true')
    FirstConfigs,   \* the PVE configs a behaviour may start with
    FirstSizes,     \* the sizes of the disks they name, a sequence
    Documents,      \* sequences of volumes with distinct paths
    Slack,          \* sizes this close are the same (1 MiB)
    LastIndex,      \* the last mpN of PVE
    HumanOps,       \* what a human at `pct' does meanwhile
    MaxSize,        \* bound on what a human grows a disk to
    MaxRuns,        \* bound on runs of the half
    MaxUpsets,      \* bound on human changes and failures
    NoMount, NoOp

Keys == 0 .. LastIndex

\* Mountpoint lines (size 0: the line says none), and x-pve volumes of a
\* document.  keyed: the keys nesting and keyctl are there.
Mounts == [path : Paths \cup {Elsewhere}, from : Storages \cup HostPaths, size : Nat,
           backup : BOOLEAN, bind : BOOLEAN, disk : Nat]
VolumeRecords == [path : Paths, kind : {"disk", "bind", "plain"},
                  from : Storages \cup HostPaths \cup {Nowhere}, size : Nat,
                  backup : BOOLEAN]
PveConfigs == [template : BOOLEAN, keyed : BOOLEAN, fuse : BOOLEAN,
               tags : SUBSET {"compose", "mine"}, mounts : [Keys -> Mounts \cup {NoMount}]]

\* The operations of a plan; NoOp is none of them.
Ops == [op : {"features"}, fuse : BOOLEAN]
          \cup [op : {"tag"}, tags : SUBSET {"compose", "mine"}]
          \cup [op : {"create"}, path : Paths, from : Storages \cup HostPaths, size : Nat,
                backup : BOOLEAN]
          \cup [op : {"bind"}, path : Paths, from : Storages \cup HostPaths]
          \cup [op : {"resize"}, key : Keys, size : Nat]
          \cup [op : {"backup"}, key : Keys, mount : Mounts]

ASSUME PlanAssumption ==
    /\ Slack \in Nat /\ LastIndex \in Nat
    /\ MaxSize \in Nat /\ MaxRuns \in Nat /\ MaxUpsets \in Nat
    /\ FirstConfigs \subseteq PveConfigs
    /\ FirstSizes \in Seq(Nat)
    /\ \A d \in Documents :
          /\ d \in Seq(VolumeRecords)
          /\ \A i, j \in 1 .. Len(d) : d[i].path = d[j].path => i = j
          /\ \A i \in 1 .. Len(d) : d[i].kind = "bind" => d[i].from # Nowhere
    /\ HumanOps \subseteq {"grow", "detach", "attach", "tags"}
    /\ DefaultStorage \in Storages \cup {Nowhere}
    /\ TagSelector \in BOOLEAN
    /\ Elsewhere \notin Paths /\ NoMount \notin Mounts /\ NoOp \notin Ops
    /\ "features" \notin Paths /\ "tag" \notin Paths

\* The mountpoints of a config.
UsedKeys(c) == {k \in Keys : c.mounts[k] # NoMount}

\* A line that names a disk names one of those allocated, a bind has neither
\* a disk nor a backup flag.
LineKnown(m, sizes) ==
    IF m.bind THEN m.disk = 0 /\ ~m.backup ELSE m.disk \in 1 .. Len(sizes)

DisksKnown(c, sizes) == \A k \in UsedKeys(c) : LineKnown(c.mounts[k], sizes)

\* PVE takes no two mountpoints at one path.
PathsDistinct(c) ==
    \A k, l \in UsedKeys(c) : c.mounts[k].path = c.mounts[l].path => k = l

ASSUME FirstAssumption ==
    \A c \in FirstConfigs : DisksKnown(c, FirstSizes) /\ PathsDistinct(c)

VARIABLES
    conf,     \* the guest's PVE config
    real,     \* the sizes of the disks allocated so far, by identity
    snap,     \* GuestConfig: the config as the run read it
    vols,     \* the volumes of the document the run is for
    plan,     \* the operations still to run, by their place in the order
    next,     \* where take_index goes on
    pc,       \* "idle" or "exec"
    runs, upsets,
    touched,  \* someone else changed the config since it was read (history)
    theirs    \* the keys a human attached a disk at since then (history)

seen == <<touched, theirs>>
vars == <<conf, real, snap, vols, plan, next, pc, runs, upsets, seen>>

-----------------------------------------------------------------------------
(* plan::build *)

\* Mutant: a bind mount does not count as the volume's mount.
KeysAt_DisksOnly(c, path) ==
    {k \in Keys : c.mounts[k] # NoMount /\ c.mounts[k].path = path /\ ~c.mounts[k].bind}

\* GuestConfig::mount_at: the mounts at a path (the code takes the first).
KeysAt(c, path) == {k \in Keys : c.mounts[k] # NoMount /\ c.mounts[k].path = path}

\* The volume's own storage, or the node's.
StorageOf(v) == IF v.from = Nowhere THEN DefaultStorage ELSE v.from

\* Mutant: no tolerance for the rounding of the tool that made the disk.
Satisfied_Exactly(have, want) == have # 0 /\ have >= want

\* disk_size_satisfied: a line without a size satisfies nothing.
Satisfied(have, want) == have # 0 /\ have + Slack >= want

\* A key that is missing is added (or_insert_with), and what is there is kept,
\* an explicit nesting=0 too.
FeaturesOp(c) == IF c.keyed THEN NoOp ELSE [op |-> "features", fuse |-> c.fuse]

\* Only a prefix that selects on a tag has one to add.
TagOp(c) ==
    IF ~TagSelector \/ "compose" \in c.tags THEN NoOp
    ELSE [op |-> "tag", tags |-> c.tags \cup {"compose"}]

\* What mounts the volume or grows its disk.
MountOp(c, v) ==
    LET at == KeysAt(c, v.path)
    IN  CASE v.kind = "bind" /\ at = {} ->
               [op |-> "bind", path |-> v.path, from |-> v.from]
          [] v.kind = "disk" /\ at = {} ->
               [op |-> "create", path |-> v.path, from |-> StorageOf(v),
                size |-> v.size, backup |-> v.backup]
          [] v.kind = "disk" /\ at # {} /\ ~c.mounts[Min(at)].bind
                 /\ ~Satisfied(c.mounts[Min(at)].size, v.size) ->
               [op |-> "resize", key |-> Min(at), size |-> v.size]
          [] OTHER -> NoOp

\* Mutant: the flag of a bind is compared, and set, like a disk's.
BackupOp_AnyMount(c, v) ==
    LET at == KeysAt(c, v.path)
    IN  IF v.kind = "disk" /\ at # {} /\ c.mounts[Min(at)].backup # v.backup
        THEN [op |-> "backup", key |-> Min(at),
              mount |-> [c.mounts[Min(at)] EXCEPT !.backup = v.backup]]
        ELSE NoOp

\* The rewrite of the mountpoint's line, as it was read, with the new flag.
BackupOp(c, v) ==
    LET at == KeysAt(c, v.path)
    IN  IF v.kind = "disk" /\ at # {} /\ ~c.mounts[Min(at)].bind
           /\ c.mounts[Min(at)].backup # v.backup
        THEN [op |-> "backup", key |-> Min(at),
              mount |-> [c.mounts[Min(at)] EXCEPT !.backup = v.backup]]
        ELSE NoOp

\* A template is refused; a disk needs a storage, whether it is there already
\* or not.
Buildable(c, d) ==
    /\ ~c.template
    /\ \A i \in 1 .. Len(d) : d[i].kind = "disk" => StorageOf(d[i]) # Nowhere

\* The operations, each at its place in the plan's order: features first,
\* then the tag, then the volumes as they are declared.
OpAt(c, d, i) ==
    CASE i = 1           -> FeaturesOp(c)
      [] i = 2           -> TagOp(c)
      [] i > 2 /\ i % 2 = 1 -> MountOp(c, d[(i - 1) \div 2])
      [] i > 2 /\ i % 2 = 0 -> BackupOp(c, d[(i - 2) \div 2])

Build(c, d) ==
    [i \in {p \in 1 .. 2 * Len(d) + 2 : OpAt(c, d, p) # NoOp} |-> OpAt(c, d, i)]

NoPlan == [i \in {} |-> NoOp]

\* The plan's next operation, and what is left after it.
Place(p) == Min(DOMAIN p)
First(p) == p[Place(p)]
Rest(p)  == [i \in DOMAIN p \ {Place(p)} |-> p[i]]

-----------------------------------------------------------------------------
(* plan::execute *)

\* Mutant: an index is only looked at, never skipped.
TakeIndex_NoSkip(n) == n

\* take_index: the next index not used in the config as it was read.
TakeIndex(n) == Min({i \in n .. n + LastIndex + 1 : i \notin UsedKeys(snap)})

\* What PVE makes of a size it is asked for.
Rounded(size) == {n \in (size - Slack) .. (size + Slack) : n > 0}

Attached(c, key, mount) == [c EXCEPT !.mounts[key] = mount]

\* One pct command, as PVE carries it out; no state means that it fails.
Set(o, c, r) ==
    /\ o.op = "features" => conf' = [c EXCEPT !.keyed = TRUE, !.fuse = o.fuse]
    /\ o.op = "tag" => conf' = [c EXCEPT !.tags = o.tags]
    /\ o.op = "backup" => conf' = Attached(c, o.key, o.mount)
    /\ real' = r

Create(o, c, r) ==
    \E n \in Rounded(o.size) :
        /\ real' = Append(r, n)
        /\ conf' = Attached(c, TakeIndex(next),
                      [path |-> o.path, from |-> o.from, size |-> n,
                       backup |-> o.backup, bind |-> FALSE, disk |-> Len(r) + 1])

Bind(o, c, r) ==
    /\ conf' = Attached(c, TakeIndex(next),
                  [path |-> o.path, from |-> o.from, size |-> 0, backup |-> FALSE,
                   bind |-> TRUE, disk |-> 0])
    /\ real' = r

\* pct resize never shrinks, and needs a disk at the key; it writes the size
\* to the line, to one that had none too.
Resizable(o, c, r) ==
    /\ c.mounts[o.key] # NoMount
    /\ ~c.mounts[o.key].bind
    /\ o.size + Slack >= r[c.mounts[o.key].disk]

Resize(o, c, r) ==
    LET disk == c.mounts[o.key].disk
    IN  \E n \in Rounded(o.size) :
          /\ n >= r[disk]
          /\ real' = [r EXCEPT ![disk] = n]
          /\ conf' = [c EXCEPT !.mounts[o.key].size = n]

TakesIndex(o) == o.op \in {"create", "bind"}

Works(o) ==
    /\ TakesIndex(o) => TakeIndex(next) \in Keys
    /\ o.op = "resize" => Resizable(o, conf, real)

Carry(o) ==
    /\ Works(o)
    /\ CASE o.op = "create" -> Create(o, conf, real)
         [] o.op = "bind"   -> Bind(o, conf, real)
         [] o.op = "resize" -> Resize(o, conf, real)
         [] OTHER           -> Set(o, conf, real)

-----------------------------------------------------------------------------
Init ==
    /\ conf \in FirstConfigs
    /\ real = FirstSizes
    /\ snap = conf
    /\ vols = <<>>
    /\ plan = NoPlan
    /\ next = 0
    /\ pc = "idle"
    /\ runs = 0
    /\ upsets = 0
    /\ touched = FALSE
    /\ theirs = {}

\* pct_apply_guest: the config is read, the plan built.
Start(d) ==
    /\ pc = "idle"
    /\ runs < MaxRuns
    /\ Buildable(conf, d)
    /\ snap' = conf
    /\ vols' = d
    /\ plan' = Build(conf, d)
    /\ next' = Min((0 .. LastIndex + 1) \ UsedKeys(conf))
    /\ pc' = "exec"
    /\ runs' = runs + 1
    /\ touched' = FALSE
    /\ theirs' = {}
    /\ UNCHANGED <<conf, real, upsets>>

\* The next operation, done.
Execute ==
    /\ pc = "exec"
    /\ plan # NoPlan
    /\ Carry(First(plan))
    /\ plan' = Rest(plan)
    /\ next' = IF TakesIndex(First(plan)) THEN TakeIndex(next) + 1 ELSE next
    /\ UNCHANGED <<snap, vols, pc, runs, upsets, seen>>

\* Mutant: what PVE refuses is skipped.
Refused_GoesOn ==
    /\ pc = "exec"
    /\ plan # NoPlan
    /\ ~Works(First(plan))
    /\ plan' = Rest(plan)
    /\ UNCHANGED <<conf, real, snap, vols, next, pc, runs, upsets, seen>>

\* PVE refuses the operation: no index left, no such disk, a shrink.
Refused ==
    /\ pc = "exec"
    /\ plan # NoPlan
    /\ ~Works(First(plan))
    /\ pc' = "idle"
    /\ UNCHANGED <<conf, real, snap, vols, plan, next, runs, upsets, seen>>

\* The command fails or is cut short; it may have had its effect.
Fails ==
    /\ pc = "exec"
    /\ plan # NoPlan
    /\ upsets < MaxUpsets
    /\ Carry(First(plan)) \/ UNCHANGED <<conf, real>>
    /\ pc' = "idle"
    /\ upsets' = upsets + 1
    /\ UNCHANGED <<snap, vols, plan, next, runs, seen>>

Done ==
    /\ pc = "exec"
    /\ plan = NoPlan
    /\ pc' = "idle"
    /\ UNCHANGED <<conf, real, snap, vols, plan, next, runs, upsets, seen>>

Human(op) ==
    /\ op \in HumanOps
    /\ upsets < MaxUpsets
    /\ upsets' = upsets + 1
    /\ touched' = TRUE
    /\ UNCHANGED <<snap, vols, plan, next, pc, runs>>

\* `pct resize' by hand.
HumanGrows(k) ==
    /\ Human("grow") /\ UNCHANGED theirs
    /\ conf.mounts[k] # NoMount /\ ~conf.mounts[k].bind
    /\ \E n \in (real[conf.mounts[k].disk] + 1) .. MaxSize :
          /\ real' = [real EXCEPT ![conf.mounts[k].disk] = n]
          /\ conf' = [conf EXCEPT !.mounts[k].size = n]

\* `pct set --delete mpN'.
HumanDetaches(k) ==
    /\ Human("detach")
    /\ theirs' = theirs \ {k}
    /\ conf.mounts[k] # NoMount
    /\ conf' = Attached(conf, k, NoMount)
    /\ UNCHANGED real

\* `pct set --mpN' of a disk of their own, at an index that is free.
HumanAttaches(k) ==
    /\ Human("attach")
    /\ theirs' = theirs \cup {k}
    /\ conf.mounts[k] = NoMount
    /\ KeysAt(conf, Elsewhere) = {}
    /\ \E s \in Storages :
          conf' = Attached(conf, k, [path |-> Elsewhere, from |-> s, size |-> MaxSize,
                                     backup |-> TRUE, bind |-> FALSE,
                                     disk |-> Len(real) + 1])
    /\ real' = Append(real, MaxSize)

\* `pct set --tags'.
HumanTags ==
    /\ Human("tags") /\ UNCHANGED theirs
    /\ \E t \in SUBSET {"compose", "mine"} : conf' = [conf EXCEPT !.tags = t]
    /\ UNCHANGED real

Next ==
    \/ \E d \in Documents : Start(d)
    \/ Execute \/ Refused \/ Fails \/ Done
    \/ \E k \in Keys : HumanGrows(k) \/ HumanDetaches(k) \/ HumanAttaches(k)
    \/ HumanTags

Spec == Init /\ [][Next]_vars

-----------------------------------------------------------------------------
(* What the pct half promises *)

\* Every variable has its type, and the lines name disks that are there.
PlanTypeOK ==
    /\ conf \in PveConfigs
    /\ real \in Seq(Nat)
    /\ snap \in PveConfigs
    /\ vols \in Seq(VolumeRecords)
    /\ next \in 0 .. LastIndex + 1
    /\ pc \in {"idle", "exec"}
    /\ runs \in Nat /\ upsets \in Nat
    /\ touched \in BOOLEAN /\ theirs \subseteq Keys
    /\ DisksKnown(conf, real)

\* Two lines for one disk, or one directory, at one place.
SameDisk(m, n) ==
    m.bind = n.bind /\ m.from = n.from /\ m.disk = n.disk /\ m.path = n.path

\* "Disks grow, never shrink, never move, are never deleted by this tool"
\* (plan.rs): whatever the half does, whatever failed before, a mountpoint
\* stays where it is with the disk, the storage and the path it has, and a
\* disk is as large as it was.  Left out is what a human attached since the
\* run read the config: take_index does not know of it.
KeepsDisks ==
    [][<<pc, plan>>' # <<pc, plan>> =>
          /\ \A k \in UsedKeys(conf) \ theirs :
                /\ k \in UsedKeys(conf)'
                /\ SameDisk(conf'.mounts[k], conf.mounts[k])
          /\ \A i \in 1 .. Len(real) : real'[i] >= real[i]]_vars

\* "A managed disk is identified by its mount path, never by its index"
\* (plan.rs): whatever failed, was cut short, run again, grown, detached or
\* attached elsewhere meanwhile, no volume is mounted twice.
OneMountPerVolume == PathsDistinct(conf)

\* A run that comes to its end with nobody in between leaves nothing to do:
\* the same document plans to nothing, so the loop does not write the
\* guest's PVE config at every full pass.
Settled ==
    pc = "exec" /\ plan = NoPlan /\ ~touched => Build(conf, vols) = NoPlan

\* What is there of the features, the tag and the volumes; what the document
\* wants; and what of it the plan has still to make.
Mounted(c) == {c.mounts[k].path : k \in UsedKeys(c)} \ {Elsewhere}
Given(c)   == [features |-> c.keyed, tag |-> "compose" \in c.tags, mounts |-> Mounted(c)]
Wanted(d)  == {d[i].path : i \in {j \in 1 .. Len(d) : d[j].kind # "plain"}}
Gives(o)   == IF TakesIndex(o) THEN o.path ELSE o.op
Lacking(p) == {Gives(p[i]) : i \in {j \in DOMAIN p : p[j].op \notin {"resize", "backup"}}}

Half == INSTANCE PctHalf WITH Volumes <- Paths, wrapper <- Given(conf), wanted <- Wanted(vols),
                              todo <- IF pc = "exec" THEN Lacking(plan) ELSE {},
                              working <- pc = "exec"

\* The pct half is what the rest of the tool takes it for (ops/apply.rs): it
\* ends without an error only when all that the guest lacked has been given
\* to it, features first ("so they are set even when a later op fails"), and
\* what it finds mounted stays mounted, whatever is cut short or changed by
\* hand.
BringsThere == Half!Spec
=============================================================================
