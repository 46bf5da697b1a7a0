----------------------------- MODULE PlanProofs -----------------------------
(***************************************************************************)
(* Proofs about the pct half, for any documents, configs, sizes, indices   *)
(* and bounds.  What makes the safety properties inductive is what a run   *)
(* knows of the lines it did not read: each line in use is one it read, at *)
(* its place still, or one a human attached elsewhere since, or one it     *)
(* made for a volume that had none, and whose operation is done.  On that  *)
(* rest two more: with nobody in between, what has left the plan is done;  *)
(* and what was read, and what is there, are within the limits.  The last  *)
(* part is the refinement: the half as it is coded implements the half the *)
(* verbs take it for.                                                      *)
(***************************************************************************)
EXTENDS Document, SequenceTheorems, WellFoundedInduction, TLAPS

-----------------------------------------------------------------------------
(* Min as the proofs use it: a set of numbers that is not empty has a      *)
(* least member, though the set may have no bound.                         *)

LEMMA LessIsWellFounded == IsWellFoundedOn({ss \in Nat \X Nat : ss[1] < ss[2]}, Nat)
BY NatLessThanWellFounded DEF OpToRel

LEMMA LeastIsIn ==
    ASSUME NEW S \in SUBSET Nat, S # {}
    PROVE  Min(S) \in S /\ \A y \in S : Min(S) =< y
<1>1. PICK x \in S : \A y \in S : ~ (<<y, x>> \in {ss \in Nat \X Nat : ss[1] < ss[2]})
  BY LessIsWellFounded, WFMin
<1>2. ASSUME NEW y \in S PROVE x =< y
  <2>1. ~ (<<y, x>> \in {ss \in Nat \X Nat : ss[1] < ss[2]})
    BY <1>1
  <2>2. x \in Nat /\ y \in Nat
    BY <1>1
  <2>3. ~ (y < x)
    BY <2>1, <2>2
  <2> QED
    BY <2>2, <2>3
<1>3. \E z \in S : \A y \in S : z =< y
  BY <1>1, <1>2
<1> QED
  BY <1>3 DEF Min

-----------------------------------------------------------------------------
(* The operations of a plan *)

LEMMA MountsOf ==
    ASSUME NEW c \in PveConfigs, NEW k \in UsedKeys(c)
    PROVE  k \in Keys /\ c.mounts[k] \in Mounts
BY DEF PveConfigs, UsedKeys

\* The mount at a path is one of the config's, and is at that path.
LEMMA MountAt ==
    ASSUME NEW c, NEW path, KeysAt(c, path) # {}
    PROVE  Min(KeysAt(c, path)) \in UsedKeys(c) /\ c.mounts[Min(KeysAt(c, path))].path = path
<1>1. KeysAt(c, path) \in SUBSET Nat
  BY PlanAssumption DEF KeysAt, Keys
<1> QED
  BY <1>1, LeastIsIn DEF KeysAt, UsedKeys

\* The five operations, with the volume an operation of a volume is for.
NewMount(c, d, i, o) ==
    \E j \in 1 .. Len(d) :
        /\ i = 2 * j + 1
        /\ KeysAt(c, d[j].path) = {}
        /\ o.path = d[j].path
        /\ \/ o.op = "bind" /\ o.from = d[j].from /\ d[j].kind = "bind"
           \/ /\ o.op = "create" /\ o.from = StorageOf(d[j]) /\ d[j].kind = "disk"
              /\ o.size = d[j].size /\ o.backup = d[j].backup

Resizing(c, d, o) ==
    \E j \in 1 .. Len(d) :
        o.op = "resize" /\ o.size = d[j].size /\ d[j].kind = "disk" /\ o.key \in UsedKeys(c)

Flagging(c, d, o) ==
    \E j \in 1 .. Len(d) :
        /\ o.op = "backup" /\ o.key \in UsedKeys(c)
        /\ c.mounts[o.key].path = d[j].path /\ ~c.mounts[o.key].bind
        /\ o.mount = [c.mounts[o.key] EXCEPT !.backup = d[j].backup]
        /\ d[j].kind = "disk"

LEMMA OpKinds ==
    ASSUME NEW c \in PveConfigs, NEW d, Len(d) \in Nat,
           NEW i \in 1 .. 2 * Len(d) + 2, NEW o, o = OpAt(c, d, i), o # NoOp
    PROVE  \/ o.op = "features" /\ o.fuse = c.fuse
           \/ o.op = "tag" /\ o.tags = c.tags \cup {"compose"}
           \/ NewMount(c, d, i, o)
           \/ Resizing(c, d, o)
           \/ Flagging(c, d, o)
<1>1. CASE i = 1
  BY <1>1 DEF OpAt, FeaturesOp
<1>2. CASE i = 2
  BY <1>2 DEF OpAt, TagOp
<1>3. CASE i > 2 /\ i % 2 = 1
  <2>1. PICK j \in 1 .. Len(d) : j = (i - 1) \div 2 /\ i = 2 * j + 1
    BY <1>3
  <2>2. o = MountOp(c, d[j])
    BY <1>3, <2>1 DEF OpAt
  <2>3. CASE KeysAt(c, d[j].path) = {}
    <3>1. \/ /\ o = [op |-> "bind", path |-> d[j].path, from |-> d[j].from]
             /\ d[j].kind = "bind"
          \/ /\ o = [op |-> "create", path |-> d[j].path, from |-> StorageOf(d[j]),
                      size |-> d[j].size, backup |-> d[j].backup]
             /\ d[j].kind = "disk"
      BY <2>2, <2>3 DEF MountOp
    <3>2. /\ o.path = d[j].path
          /\ \/ o.op = "bind" /\ o.from = d[j].from /\ d[j].kind = "bind"
             \/ /\ o.op = "create" /\ o.from = StorageOf(d[j]) /\ d[j].kind = "disk"
                /\ o.size = d[j].size /\ o.backup = d[j].backup
      BY <3>1
    <3>3. NewMount(c, d, i, o)
      BY <2>1, <2>3, <3>2 DEF NewMount
    <3> QED
      BY <3>3
  <2>4. CASE KeysAt(c, d[j].path) # {}
    <3>1. Min(KeysAt(c, d[j].path)) \in UsedKeys(c)
      BY <2>4, MountAt
    <3>2. /\ o = [op |-> "resize", key |-> Min(KeysAt(c, d[j].path)), size |-> d[j].size]
          /\ d[j].kind = "disk"
      BY <2>2, <2>4 DEF MountOp
    <3>3. o.op = "resize" /\ o.size = d[j].size /\ o.key \in UsedKeys(c)
      BY <3>1, <3>2
    <3>4. Resizing(c, d, o)
      BY <3>2, <3>3 DEF Resizing
    <3> QED
      BY <3>4
  <2> QED
    BY <2>3, <2>4
<1>4. CASE i > 2 /\ i % 2 = 0
  <2>1. PICK j \in 1 .. Len(d) : j = (i - 2) \div 2 /\ i = 2 * j + 2
    BY <1>4
  <2>2. o = BackupOp(c, d[j])
    BY <1>4, <2>1 DEF OpAt
  <2> DEFINE k == Min(KeysAt(c, d[j].path))
  <2>3. /\ KeysAt(c, d[j].path) # {} /\ d[j].kind = "disk" /\ ~c.mounts[k].bind
        /\ o = [op |-> "backup", key |-> k,
                mount |-> [c.mounts[k] EXCEPT !.backup = d[j].backup]]
    BY <2>2 DEF BackupOp
  <2>4. k \in UsedKeys(c) /\ c.mounts[k].path = d[j].path
    BY <2>3, MountAt
  <2>5. /\ o.op = "backup" /\ o.key = k
        /\ o.mount = [c.mounts[k] EXCEPT !.backup = d[j].backup]
    BY <2>3
  <2>6. Flagging(c, d, o)
    BY <2>1, <2>3, <2>4, <2>5 DEF Flagging
  <2> QED
    BY <2>6
<1> QED
  BY <1>1, <1>2, <1>3, <1>4

-----------------------------------------------------------------------------
(* The inductive invariant *)

\* The run is for a document that is accepted, and what is left of its plan
\* is what build made of the config that was read.
Planned ==
    /\ vols \in Documents /\ Buildable(snap, vols)
    /\ plan = [i \in DOMAIN plan |-> OpAt(snap, vols, i)]
    /\ \A i \in DOMAIN plan : i \in 1 .. 2 * Len(vols) + 2 /\ OpAt(snap, vols, i) # NoOp

\* A line in use is still where it was read, or a human's own, or one that
\* the run added below the next index, for a volume whose turn is over.
Added(k) ==
    /\ k \notin UsedKeys(snap) /\ k < next
    /\ \E j \in 1 .. Len(vols) :
          /\ conf.mounts[k].path = vols[j].path
          /\ KeysAt(snap, vols[j].path) = {}
          /\ 2 * j + 1 \notin DOMAIN plan

Known(k) ==
    \/ k \in UsedKeys(snap) /\ SameDisk(conf.mounts[k], snap.mounts[k])
    \/ k \in theirs /\ conf.mounts[k].path = Elsewhere
    \/ Added(k)

Running ==
    pc = "exec" =>
        /\ Planned
        /\ DisksKnown(snap, real) /\ PathsDistinct(snap)
        /\ \A k \in UsedKeys(conf) : Known(k)

PlanInv == PlanTypeOK /\ OneMountPerVolume /\ Running

-----------------------------------------------------------------------------
(* What one command may do *)

Grown(r, s) == s \in Seq(Nat) /\ Len(s) >= Len(r) /\ \A i \in 1 .. Len(r) : s[i] >= r[i]

\* A line is put at a key: one that was read, with a new flag; a new one, at
\* the next index; the one there is, with a new size.
Puts(k, m) == conf' = Attached(conf, k, m) /\ LineKnown(m, real')

Rewrites(k, m) == k \in UsedKeys(snap) /\ SameDisk(m, snap.mounts[k]) /\ m.path \in Paths

Adds(k, m) ==
    /\ TakesIndex(First(plan)) /\ k = TakeIndex(next)
    /\ \E j \in 1 .. Len(vols) :
          /\ Place(plan) = 2 * j + 1
          /\ m.path = vols[j].path
          /\ KeysAt(snap, vols[j].path) = {}
          /\ vols[j].kind = IF m.bind THEN "bind" ELSE "disk"
          /\ m.from = IF m.bind THEN vols[j].from ELSE StorageOf(vols[j])

Resizes(k, m) == k \in UsedKeys(conf) /\ SameDisk(m, conf.mounts[k])

LEMMA AttachedIs ==
    ASSUME NEW c \in PveConfigs, NEW k \in Keys, NEW m \in Mounts \cup {NoMount}
    PROVE  /\ Attached(c, k, m) \in PveConfigs
           /\ Attached(c, k, m).mounts = [c.mounts EXCEPT ![k] = m]
BY DEF Attached, PveConfigs

LEMMA UsedAfter ==
    ASSUME NEW c \in PveConfigs, NEW k \in Keys, NEW m \in Mounts
    PROVE  /\ UsedKeys(Attached(c, k, m)) = UsedKeys(c) \cup {k}
           /\ Attached(c, k, m).mounts[k] = m
           /\ \A l \in Keys \ {k} : Attached(c, k, m).mounts[l] = c.mounts[l]
<1>1. c.mounts \in [Keys -> Mounts \cup {NoMount}]
  BY DEF PveConfigs
<1>2. m # NoMount
  BY PlanAssumption
<1>3. Attached(c, k, m).mounts = [c.mounts EXCEPT ![k] = m]
  BY AttachedIs
<1> QED
  BY <1>1, <1>2, <1>3 DEF UsedKeys

LEMMA FreshIndex ==
    ASSUME PlanTypeOK
    PROVE  /\ TakeIndex(next) \in Nat /\ TakeIndex(next) >= next
           /\ TakeIndex(next) \notin UsedKeys(snap)
<1> DEFINE S == {i \in next .. next + LastIndex + 1 : i \notin UsedKeys(snap)}
<1>1. LastIndex \in Nat /\ next \in 0 .. LastIndex + 1
  BY PlanAssumption DEF PlanTypeOK
<1>2. LastIndex + 1 \in S
  BY <1>1 DEF UsedKeys, Keys
<1>3. S \in SUBSET Nat
  BY <1>1
<1>4. Min(S) \in S
  BY <1>2, <1>3, LeastIsIn
<1> QED
  BY <1>1, <1>4 DEF TakeIndex

\* The first operation is the one of its place.
LEMMA FirstIs ==
    ASSUME Planned, plan # NoPlan
    PROVE  /\ Place(plan) \in DOMAIN plan
           /\ Place(plan) \in 1 .. 2 * Len(vols) + 2
           /\ First(plan) = OpAt(snap, vols, Place(plan))
           /\ First(plan) # NoOp
<1>1. DOMAIN plan # {}
  <2>1. ASSUME DOMAIN plan = {} PROVE FALSE
    <3>1. plan = [i \in {} |-> OpAt(snap, vols, i)]
      BY <2>1 DEF Planned
    <3>2. [i \in {} |-> OpAt(snap, vols, i)] = NoPlan
      BY DEF NoPlan
    <3> QED
      BY <3>1, <3>2
  <2> QED
    BY <2>1
<1>2. DOMAIN plan \in SUBSET Nat
  <2>1. Len(vols) \in Nat
    BY PlanAssumption DEF Planned
  <2> QED
    BY <2>1 DEF Planned
<1>3. Place(plan) \in DOMAIN plan
  BY <1>1, <1>2, LeastIsIn DEF Place
<1>4. \A i \in DOMAIN plan : plan[i] = OpAt(snap, vols, i)
  BY DEF Planned
<1> QED
  BY <1>3, <1>4 DEF Planned, First

\* What a command does, by the kind of its operation.
Effect ==
    \/ conf' \in PveConfigs /\ conf'.mounts = conf.mounts
    \/ \E k \in Keys, m \in Mounts :
          Puts(k, m) /\ (Rewrites(k, m) \/ Adds(k, m) \/ Resizes(k, m))

LEMMA DocumentTypes ==
    ASSUME Planned, NEW j \in 1 .. Len(vols)
    PROVE  /\ vols \in Seq(VolumeRecords) /\ Len(vols) \in Nat
           /\ vols[j] \in VolumeRecords
           /\ \A i \in 1 .. Len(vols) : vols[i].path = vols[j].path => i = j
           /\ vols[j].kind = "bind" => vols[j].from # Nowhere
           /\ vols[j].kind = "disk" => StorageOf(vols[j]) # Nowhere
<1>1. vols \in Seq(VolumeRecords) /\ Len(vols) \in Nat
  BY PlanAssumption DEF Planned
<1>2. vols[j] \in VolumeRecords
  BY <1>1
<1> QED
  BY <1>1, <1>2, PlanAssumption DEF Planned, Buildable

LEMMA ResizeEffect ==
    ASSUME PlanTypeOK, NEW o, o.op = "resize", o.key \in Keys, o.size \in Nat, Carry(o)
    PROVE  Grown(real, real') /\ \E m \in Mounts : Puts(o.key, m) /\ Resizes(o.key, m)
<1> DEFINE k == o.key
           line == conf.mounts[k]
<1>1. Resizable(o, conf, real) /\ Resize(o, conf, real)
  BY DEF Carry, Works
<1>2. k \in UsedKeys(conf) /\ line \in Mounts /\ ~line.bind
  <2>1. k \in UsedKeys(conf)
    BY <1>1 DEF Resizable, UsedKeys
  <2> QED
    BY <2>1, <1>1, MountsOf DEF PlanTypeOK, Resizable
<1>3. line.disk \in 1 .. Len(real) /\ real \in Seq(Nat)
  BY <1>2 DEF PlanTypeOK, DisksKnown, LineKnown
<1>4. PICK n \in Rounded(o.size) :
        /\ n >= real[line.disk]
        /\ real' = [real EXCEPT ![line.disk] = n]
        /\ conf' = [conf EXCEPT !.mounts[k].size = n]
  BY <1>1 DEF Resize
<1>5. n \in Nat
  BY <1>4, PlanAssumption DEF Rounded
<1>6. Grown(real, real')
  BY <1>3, <1>4, <1>5 DEF Grown
<1> DEFINE m == [line EXCEPT !.size = n]
<1>7. m \in Mounts /\ SameDisk(m, line) /\ LineKnown(m, real')
  <2>1. m \in Mounts /\ SameDisk(m, line)
    BY <1>2, <1>5 DEF Mounts, SameDisk
  <2>2. Len(real') = Len(real)
    BY <1>3, <1>4, <1>5
  <2>3. m.bind = line.bind /\ m.disk = line.disk
    BY <2>1 DEF SameDisk
  <2> QED
    BY <1>2, <1>3, <2>1, <2>2, <2>3 DEF LineKnown
<1>8. conf' = Attached(conf, k, m)
  BY <1>2, <1>4 DEF Attached, PlanTypeOK, PveConfigs
<1>9. Puts(k, m) /\ Resizes(k, m)
  BY <1>2, <1>7, <1>8 DEF Puts, Resizes
<1> QED
  BY <1>6, <1>7, <1>9

LEMMA NewMountEffect ==
    ASSUME PlanTypeOK, Planned, plan # NoPlan, Carry(First(plan)),
           NewMount(snap, vols, Place(plan), First(plan))
    PROVE  Grown(real, real') /\ \E k \in Keys, m \in Mounts : Puts(k, m) /\ Adds(k, m)
<1> DEFINE o == First(plan)
           k == TakeIndex(next)
<1>1. PICK j \in 1 .. Len(vols) :
        /\ Place(plan) = 2 * j + 1
        /\ KeysAt(snap, vols[j].path) = {}
        /\ o.path = vols[j].path
        /\ \/ o.op = "bind" /\ o.from = vols[j].from /\ vols[j].kind = "bind"
           \/ /\ o.op = "create" /\ o.from = StorageOf(vols[j]) /\ vols[j].kind = "disk"
              /\ o.size = vols[j].size /\ o.backup = vols[j].backup
  BY DEF NewMount
<1>2. vols[j] \in VolumeRecords /\ real \in Seq(Nat)
  BY DocumentTypes DEF PlanTypeOK
<1>3. TakesIndex(o) /\ k \in Keys
  BY <1>1 DEF TakesIndex, Carry, Works
<1>4. CASE o.op = "bind"
  <2> DEFINE m == [path |-> o.path, from |-> o.from, size |-> 0, backup |-> FALSE,
                   bind |-> TRUE, disk |-> 0]
  <2>1. conf' = Attached(conf, k, m) /\ real' = real
    BY <1>4 DEF Carry, Bind
  <2>2. o.from \in Storages \cup HostPaths
    BY <1>1, <1>2, <1>4, DocumentTypes DEF VolumeRecords
  <2>3. m \in Mounts /\ m.path = vols[j].path /\ LineKnown(m, real')
    BY <1>1, <1>2, <2>2 DEF Mounts, VolumeRecords, LineKnown
  <2>4. Grown(real, real')
    BY <1>2, <2>1 DEF Grown
  <2>5. Puts(k, m) /\ Adds(k, m)
    BY <1>1, <1>3, <1>4, <2>1, <2>3 DEF Puts, Adds
  <2> QED
    BY <1>3, <2>3, <2>4, <2>5
<1>5. CASE o.op = "create"
  <2>1. PICK n \in Rounded(o.size) :
          /\ real' = Append(real, n)
          /\ conf' = Attached(conf, k,
                        [path |-> o.path, from |-> o.from, size |-> n,
                         backup |-> o.backup, bind |-> FALSE, disk |-> Len(real) + 1])
    BY <1>5 DEF Carry, Create
  <2> DEFINE m == [path |-> o.path, from |-> o.from, size |-> n,
                   backup |-> o.backup, bind |-> FALSE, disk |-> Len(real) + 1]
  <2>2. n \in Nat
    BY <1>1, <1>2, <1>5, <2>1, PlanAssumption DEF Rounded, VolumeRecords
  <2>3. o.from \in Storages \cup HostPaths
    BY <1>1, <1>2, <1>5, DocumentTypes, PlanAssumption DEF VolumeRecords, StorageOf
  <2>4. Grown(real, real') /\ Len(real) + 1 \in 1 .. Len(real')
    BY <1>2, <2>1, <2>2 DEF Grown
  <2>5. m \in Mounts /\ m.path = vols[j].path
    BY <1>1, <1>2, <1>5, <2>2, <2>3 DEF Mounts, VolumeRecords
  <2>6. LineKnown(m, real')
    BY <2>4 DEF LineKnown
  <2>7. Puts(k, m) /\ Adds(k, m)
    BY <1>1, <1>3, <1>5, <2>1, <2>5, <2>6 DEF Puts, Adds
  <2> QED
    BY <1>3, <2>4, <2>5, <2>7
<1> QED
  BY <1>1, <1>4, <1>5

LEMMA FlagEffect ==
    ASSUME PlanTypeOK, Planned, DisksKnown(snap, real), NEW o, Carry(o),
           Flagging(snap, vols, o)
    PROVE  /\ Grown(real, real')
           /\ o.key \in Keys /\ o.mount \in Mounts
           /\ Puts(o.key, o.mount) /\ Rewrites(o.key, o.mount)
<1>1. PICK j \in 1 .. Len(vols) :
        /\ o.op = "backup" /\ o.key \in UsedKeys(snap)
        /\ snap.mounts[o.key].path = vols[j].path /\ ~snap.mounts[o.key].bind
        /\ o.mount = [snap.mounts[o.key] EXCEPT !.backup = vols[j].backup]
  BY DEF Flagging
<1>2. conf' = Attached(conf, o.key, o.mount) /\ real' = real
  BY <1>1 DEF Carry, Set
<1>3. o.key \in Keys /\ snap.mounts[o.key] \in Mounts
  BY <1>1, MountsOf DEF PlanTypeOK
<1>4. vols[j] \in VolumeRecords /\ real \in Seq(Nat)
  BY DocumentTypes DEF PlanTypeOK
<1>5. LineKnown(snap.mounts[o.key], real)
  BY <1>1 DEF DisksKnown
<1>6. /\ o.mount \in Mounts /\ SameDisk(o.mount, snap.mounts[o.key])
      /\ o.mount.path \in Paths /\ LineKnown(o.mount, real')
  BY <1>1, <1>2, <1>3, <1>4, <1>5 DEF Mounts, SameDisk, VolumeRecords, LineKnown
<1>7. Grown(real, real')
  BY <1>2, <1>4 DEF Grown
<1>8. Puts(o.key, o.mount) /\ Rewrites(o.key, o.mount)
  BY <1>1, <1>2, <1>6 DEF Puts, Rewrites
<1> QED
  BY <1>3, <1>6, <1>7, <1>8

LEMMA Command ==
    ASSUME PlanTypeOK, Planned, DisksKnown(snap, real), plan # NoPlan, Carry(First(plan))
    PROVE  Grown(real, real') /\ Effect
<1> DEFINE o == First(plan)
           i == Place(plan)
<1>1. /\ i \in 1 .. 2 * Len(vols) + 2 /\ o = OpAt(snap, vols, i) /\ o # NoOp
      /\ snap \in PveConfigs /\ conf \in PveConfigs /\ real \in Seq(Nat)
  BY FirstIs DEF PlanTypeOK
<1>2. Len(vols) \in Nat
  BY PlanAssumption DEF Planned
<1>3. \/ o.op = "features" /\ o.fuse = snap.fuse
      \/ o.op = "tag" /\ o.tags = snap.tags \cup {"compose"}
      \/ NewMount(snap, vols, i, o)
      \/ Resizing(snap, vols, o)
      \/ Flagging(snap, vols, o)
  BY <1>1, <1>2, OpKinds
<1>4. CASE o.op = "features" /\ o.fuse = snap.fuse
  <2>1. conf' = [conf EXCEPT !.keyed = TRUE, !.fuse = snap.fuse] /\ real' = real
    BY <1>4 DEF Carry, Set
  <2>2. Grown(real, real')
    BY <1>1, <2>1 DEF Grown
  <2> QED
    BY <1>1, <2>1, <2>2 DEF Effect, PveConfigs
<1>5. CASE o.op = "tag" /\ o.tags = snap.tags \cup {"compose"}
  <2>1. conf' = [conf EXCEPT !.tags = snap.tags \cup {"compose"}] /\ real' = real
    BY <1>5 DEF Carry, Set
  <2>2. Grown(real, real')
    BY <1>1, <2>1 DEF Grown
  <2> QED
    BY <1>1, <2>1, <2>2 DEF Effect, PveConfigs
<1>6. CASE NewMount(snap, vols, i, o)
  BY <1>6, NewMountEffect DEF Effect
<1>7. CASE Resizing(snap, vols, o)
  <2>1. PICK j \in 1 .. Len(vols) :
          o.op = "resize" /\ o.size = vols[j].size /\ o.key \in UsedKeys(snap)
    BY <1>7 DEF Resizing
  <2>2. o.key \in Keys /\ o.size \in Nat
    BY <2>1, DocumentTypes DEF UsedKeys, VolumeRecords
  <2> QED
    BY <2>1, <2>2, ResizeEffect DEF Effect
<1>8. CASE Flagging(snap, vols, o)
  BY <1>8, FlagEffect DEF Effect
<1> QED
  BY <1>3, <1>4, <1>5, <1>6, <1>7, <1>8

-----------------------------------------------------------------------------
(* What a command leaves as it was *)

\* A line that is put is at a path that no other line has.
LEMMA PathFree ==
    ASSUME PlanInv, pc = "exec", plan # NoPlan,
           NEW k \in Keys, NEW m \in Mounts,
           Rewrites(k, m) \/ Adds(k, m) \/ Resizes(k, m),
           NEW l \in UsedKeys(conf) \ {k}
    PROVE  conf.mounts[l].path # m.path
<1>1. Known(l) /\ Planned /\ PathsDistinct(snap) /\ PathsDistinct(conf)
  BY DEF PlanInv, Running, OneMountPerVolume
<1>2. CASE Resizes(k, m)
  BY <1>1, <1>2 DEF Resizes, SameDisk, PathsDistinct
<1>3. CASE Rewrites(k, m)
  <2>1. k \in KeysAt(snap, m.path) /\ m.path # Elsewhere
    BY <1>3, PlanAssumption DEF Rewrites, SameDisk, KeysAt, UsedKeys
  <2>2. CASE l \in UsedKeys(snap) /\ SameDisk(conf.mounts[l], snap.mounts[l])
    BY <1>1, <1>3, <2>2 DEF PathsDistinct, Rewrites, SameDisk
  <2> QED
    BY <1>1, <2>1, <2>2 DEF Known, Added
<1>4. CASE Adds(k, m)
  <2>1. PICK j \in 1 .. Len(vols) :
          /\ Place(plan) = 2 * j + 1
          /\ m.path = vols[j].path
          /\ KeysAt(snap, vols[j].path) = {}
    BY <1>4 DEF Adds
  <2>2. /\ vols[j].path # Elsewhere
        /\ \A i \in 1 .. Len(vols) : vols[i].path = vols[j].path => i = j
    BY <1>1, DocumentTypes, PlanAssumption DEF VolumeRecords
  <2>3. Place(plan) \in DOMAIN plan
    BY <1>1, FirstIs
  <2>4. CASE l \in UsedKeys(snap) /\ SameDisk(conf.mounts[l], snap.mounts[l])
    BY <2>1, <2>4 DEF UsedKeys, KeysAt, SameDisk
  <2> QED
    BY <1>1, <2>1, <2>2, <2>3, <2>4 DEF Known, Added
<1> QED
  BY <1>2, <1>3, <1>4

Kept ==
    /\ \A k \in UsedKeys(conf) \ theirs :
          k \in UsedKeys(conf)' /\ SameDisk(conf'.mounts[k], conf.mounts[k])
    /\ \A i \in 1 .. Len(real) : real'[i] >= real[i]

\* The line at the key, unless a human's, is the one that is put.
LEMMA KeyKept ==
    ASSUME PlanInv, pc = "exec", plan # NoPlan,
           NEW k \in UsedKeys(conf) \ theirs, NEW m \in Mounts,
           Rewrites(k, m) \/ Adds(k, m) \/ Resizes(k, m)
    PROVE  SameDisk(m, conf.mounts[k])
<1>1. Known(k)
  BY DEF PlanInv, Running
<1>2. CASE Rewrites(k, m)
  BY <1>1, <1>2 DEF Known, Added, Rewrites, SameDisk
<1>3. CASE Adds(k, m)
  <2>1. k \notin UsedKeys(snap) /\ k >= next /\ k \in Nat /\ next \in Nat
    BY <1>3, FreshIndex, PlanAssumption DEF Adds, PlanInv, PlanTypeOK
  <2> QED
    BY <1>1, <2>1 DEF Known, Added
<1> QED
  BY <1>2, <1>3 DEF Resizes

LEMMA EffectSafe ==
    ASSUME PlanInv, pc = "exec", plan # NoPlan, Grown(real, real'), Effect
    PROVE  /\ conf' \in PveConfigs /\ real' \in Seq(Nat)
           /\ DisksKnown(conf', real')
           /\ PathsDistinct(conf')
           /\ Kept
<1>1. /\ conf \in PveConfigs /\ real \in Seq(Nat) /\ Len(real) \in Nat
      /\ DisksKnown(conf, real) /\ PathsDistinct(conf)
  BY DEF PlanInv, PlanTypeOK, OneMountPerVolume
<1>2. /\ real' \in Seq(Nat) /\ Len(real') \in Nat /\ Len(real') >= Len(real)
      /\ \A i \in 1 .. Len(real) : real'[i] >= real[i]
  BY DEF Grown
<1>3. \A k \in UsedKeys(conf) : LineKnown(conf.mounts[k], real')
  BY <1>1, <1>2 DEF DisksKnown, LineKnown
<1>4. CASE conf' \in PveConfigs /\ conf'.mounts = conf.mounts
  <2>1. UsedKeys(conf') = UsedKeys(conf)
    BY <1>4 DEF UsedKeys
  <2>2. DisksKnown(conf', real') /\ PathsDistinct(conf')
    BY <1>1, <1>3, <1>4, <2>1 DEF DisksKnown, PathsDistinct
  <2>3. Kept
    BY <1>2, <1>4, <2>1 DEF Kept, SameDisk
  <2> QED
    BY <1>2, <1>4, <2>2, <2>3
<1>5. ASSUME NEW k \in Keys, NEW m \in Mounts, Puts(k, m),
             Rewrites(k, m) \/ Adds(k, m) \/ Resizes(k, m)
      PROVE  /\ conf' \in PveConfigs /\ DisksKnown(conf', real')
             /\ PathsDistinct(conf') /\ Kept
  <2>1. /\ UsedKeys(conf') = UsedKeys(conf) \cup {k}
        /\ conf'.mounts[k] = m
        /\ \A l \in Keys \ {k} : conf'.mounts[l] = conf.mounts[l]
    BY <1>1, <1>5, UsedAfter DEF Puts
  <2>2. conf' \in PveConfigs
    BY <1>1, <1>5, AttachedIs DEF Puts
  <2>3. \A l \in UsedKeys(conf) : l \in Keys
    BY DEF UsedKeys
  <2>4. DisksKnown(conf', real')
    BY <1>3, <1>5, <2>1, <2>3 DEF DisksKnown, Puts
  <2>5. \A l \in UsedKeys(conf) \ {k} : conf.mounts[l].path # m.path
    BY <1>5, PathFree
  <2>6. PathsDistinct(conf')
    BY <1>1, <2>1, <2>3, <2>5 DEF PathsDistinct
  <2>7. k \in UsedKeys(conf) \ theirs => SameDisk(m, conf.mounts[k])
    BY <1>5, KeyKept
  <2>8. Kept
    BY <1>2, <2>1, <2>3, <2>7 DEF Kept, SameDisk
  <2> QED
    BY <2>2, <2>4, <2>6, <2>8
<1> QED
  BY <1>2, <1>4, <1>5 DEF Effect

\* After the command and the step of take_index, every line is known.
LEMMA EffectKnown ==
    ASSUME PlanInv, PlanTypeOK, pc = "exec", plan # NoPlan, Effect,
           plan' = Rest(plan), UNCHANGED <<snap, vols, theirs>>,
           next' = IF TakesIndex(First(plan)) THEN TakeIndex(next) + 1 ELSE next
    PROVE  \A l \in UsedKeys(conf') : Known(l)'
<1>1. /\ conf \in PveConfigs /\ next \in Nat /\ Planned
      /\ \A l \in UsedKeys(conf) : Known(l) /\ l \in Nat
  BY PlanAssumption DEF PlanInv, PlanTypeOK, Running, UsedKeys, Keys
<1>2. next' \in Nat /\ next' >= next
  BY <1>1, FreshIndex
<1>3. DOMAIN plan' = DOMAIN plan \ {Place(plan)}
  BY DEF Rest
<1>4. ASSUME NEW l \in UsedKeys(conf), SameDisk(conf'.mounts[l], conf.mounts[l])
      PROVE  Known(l)'
  <2>1. l \in UsedKeys(snap) /\ SameDisk(conf.mounts[l], snap.mounts[l]) => Known(l)'
    BY <1>4 DEF Known, SameDisk
  <2>2. l \in theirs /\ conf.mounts[l].path = Elsewhere => Known(l)'
    BY <1>4 DEF Known, SameDisk
  <2>3. Added(l) => Known(l)'
    BY <1>1, <1>2, <1>3, <1>4 DEF Known, Added, SameDisk
  <2> QED
    BY <1>1, <2>1, <2>2, <2>3 DEF Known
<1>5. CASE conf' \in PveConfigs /\ conf'.mounts = conf.mounts
  BY <1>4, <1>5 DEF UsedKeys, SameDisk
<1>6. ASSUME NEW k \in Keys, NEW m \in Mounts, Puts(k, m),
             Rewrites(k, m) \/ Adds(k, m) \/ Resizes(k, m)
      PROVE  \A l \in UsedKeys(conf') : Known(l)'
  <2>1. /\ UsedKeys(conf') = UsedKeys(conf) \cup {k}
        /\ conf'.mounts[k] = m
        /\ \A l \in Keys \ {k} : conf'.mounts[l] = conf.mounts[l]
    BY <1>1, <1>6, UsedAfter DEF Puts
  <2>2. ASSUME NEW l \in UsedKeys(conf) \ {k} PROVE Known(l)'
    <3>1. SameDisk(conf'.mounts[l], conf.mounts[l])
      BY <2>1 DEF UsedKeys, SameDisk
    <3> QED
      BY <1>4, <3>1
  <2>3. Resizes(k, m) => Known(k)'
    BY <1>4, <2>1 DEF Resizes
  <2>4. Rewrites(k, m) => Known(k)'
    BY <2>1 DEF Rewrites, Known
  <2>5. ASSUME Adds(k, m) PROVE Known(k)'
    <3>1. k \notin UsedKeys(snap) /\ k < next' /\ k \in Nat
      BY <2>5, FreshIndex DEF Adds
    <3>2. PICK j \in 1 .. Len(vols) :
            /\ Place(plan) = 2 * j + 1
            /\ m.path = vols[j].path
            /\ KeysAt(snap, vols[j].path) = {}
      BY <2>5 DEF Adds
    <3>3. 2 * j + 1 \notin DOMAIN plan'
      BY <1>3, <3>2
    <3>4. Added(k)'
      BY <2>1, <3>1, <3>2, <3>3 DEF Added
    <3> QED
      BY <3>4 DEF Known
  <2> QED
    BY <1>6, <2>1, <2>2, <2>3, <2>4, <2>5
<1> QED
  BY <1>5, <1>6 DEF Effect

-----------------------------------------------------------------------------
(* The steps *)

LEMMA InitInv == Init => PlanInv
<1> SUFFICES ASSUME Init PROVE PlanInv
  OBVIOUS
<1>1. /\ conf \in PveConfigs /\ real \in Seq(Nat)
      /\ DisksKnown(conf, real) /\ PathsDistinct(conf)
  BY PlanAssumption, FirstAssumption DEF Init
<1>2. PlanTypeOK
  <2>1. vols \in Seq(VolumeRecords) /\ next \in 0 .. LastIndex + 1
    BY PlanAssumption DEF Init
  <2>2. touched \in BOOLEAN /\ theirs \subseteq Keys /\ pc \in {"idle", "exec"}
    BY DEF Init
  <2>3. snap \in PveConfigs /\ runs \in Nat /\ upsets \in Nat
    BY <1>1 DEF Init
  <2> QED
    BY <1>1, <2>1, <2>2, <2>3 DEF PlanTypeOK
<1> QED
  BY <1>1, <1>2 DEF Init, PlanInv, OneMountPerVolume, Running

LEMMA StartInv ==
    ASSUME PlanInv, NEW d \in Documents, Start(d)
    PROVE  PlanInv'
<1>1. /\ LastIndex \in Nat /\ runs \in Nat /\ d \in Seq(VolumeRecords)
      /\ conf \in PveConfigs /\ DisksKnown(conf, real) /\ PathsDistinct(conf)
  BY PlanAssumption DEF PlanInv, PlanTypeOK, OneMountPerVolume
<1>2. next' \in 0 .. LastIndex + 1
  <2> DEFINE S == (0 .. LastIndex + 1) \ UsedKeys(conf)
  <2>1. LastIndex + 1 \in S /\ S \in SUBSET Nat
    BY <1>1 DEF UsedKeys, Keys
  <2>2. Min(S) \in S
    BY <2>1, LeastIsIn
  <2> QED
    BY <2>2 DEF Start
<1>3. PlanTypeOK'
  <2>1. touched' \in BOOLEAN /\ theirs' \subseteq Keys /\ pc' \in {"idle", "exec"}
    BY DEF Start
  <2>2. /\ conf' = conf /\ snap' = conf /\ real' = real /\ vols' = d
        /\ runs' \in Nat /\ upsets' = upsets
    BY <1>1 DEF Start
  <2> QED
    BY <1>1, <1>2, <2>1, <2>2 DEF PlanInv, PlanTypeOK
<1>4. Planned'
  <2>1. plan' = Build(conf, d) /\ snap' = conf /\ vols' = d /\ Buildable(conf, d)
    BY DEF Start
  <2>2. plan' = [i \in DOMAIN plan' |-> OpAt(conf, d, i)]
    BY <2>1 DEF Build
  <2>3. \A i \in DOMAIN plan' : i \in 1 .. 2 * Len(d) + 2 /\ OpAt(conf, d, i) # NoOp
    BY <2>1 DEF Build
  <2> QED
    BY <2>1, <2>2, <2>3 DEF Planned
<1>5. \A k \in UsedKeys(conf) : Known(k)'
  BY DEF Start, Known, SameDisk
<1>6. /\ UsedKeys(conf') = UsedKeys(conf) /\ PathsDistinct(conf')
      /\ DisksKnown(snap', real') /\ PathsDistinct(snap')
  BY <1>1 DEF Start
<1> QED
  BY <1>3, <1>4, <1>5, <1>6 DEF PlanInv, Running, OneMountPerVolume

LEMMA CommandSafe ==
    ASSUME PlanInv, pc = "exec", plan # NoPlan, Carry(First(plan))
    PROVE  /\ conf' \in PveConfigs /\ real' \in Seq(Nat)
           /\ DisksKnown(conf', real')
           /\ PathsDistinct(conf')
           /\ Kept
           /\ Grown(real, real') /\ Effect
<1>1. Planned /\ DisksKnown(snap, real) /\ PlanTypeOK
  BY DEF PlanInv, Running
<1>2. Grown(real, real') /\ Effect
  BY <1>1, Command
<1> QED
  BY <1>2, EffectSafe

LEMMA DisksStayKnown ==
    ASSUME NEW c, NEW r, DisksKnown(c, r), NEW s, Len(r) \in Nat, Len(s) \in Nat,
           Len(s) >= Len(r)
    PROVE  DisksKnown(c, s)
BY DEF DisksKnown, LineKnown

LEMMA ExecuteInv ==
    ASSUME PlanInv, Execute
    PROVE  PlanInv'
<1>1. /\ pc = "exec" /\ plan # NoPlan /\ Carry(First(plan)) /\ plan' = Rest(plan)
      /\ next' = IF TakesIndex(First(plan)) THEN TakeIndex(next) + 1 ELSE next
      /\ UNCHANGED <<snap, vols, pc, runs, upsets, touched, theirs>>
  BY DEF Execute, seen
<1>2. /\ conf' \in PveConfigs /\ real' \in Seq(Nat)
      /\ DisksKnown(conf', real') /\ PathsDistinct(conf')
      /\ Grown(real, real') /\ Effect
  BY <1>1, CommandSafe
<1>3. PlanTypeOK /\ Planned /\ DisksKnown(snap, real) /\ PathsDistinct(snap)
  BY <1>1 DEF PlanInv, Running
<1>4. next' \in 0 .. LastIndex + 1
  <2>1. TakesIndex(First(plan)) => TakeIndex(next) \in 0 .. LastIndex
    BY <1>1 DEF Carry, Works, Keys
  <2> QED
    BY <1>1, <1>3, <2>1, PlanAssumption DEF PlanTypeOK
<1>5. PlanTypeOK'
  BY <1>1, <1>2, <1>3, <1>4 DEF PlanTypeOK
<1>6. Planned'
  <2>1. DOMAIN plan' = DOMAIN plan \ {Place(plan)}
    BY <1>1 DEF Rest
  <2>2. \A i \in DOMAIN plan : plan[i] = OpAt(snap, vols, i)
    BY <1>3 DEF Planned
  <2>3. plan' = [i \in DOMAIN plan' |-> OpAt(snap, vols, i)]
    BY <1>1, <2>1, <2>2 DEF Rest
  <2> QED
    BY <1>1, <1>3, <2>1, <2>3 DEF Planned
<1>7. DisksKnown(snap', real') /\ PathsDistinct(snap')
  <2>1. Len(real) \in Nat /\ Len(real') \in Nat /\ Len(real') >= Len(real)
    BY <1>2, <1>3 DEF PlanTypeOK, Grown
  <2> QED
    BY <1>1, <1>3, <2>1, DisksStayKnown
<1>8. \A l \in UsedKeys(conf') : Known(l)'
  BY <1>1, <1>2, <1>3, EffectKnown
<1> QED
  BY <1>2, <1>5, <1>6, <1>7, <1>8 DEF PlanInv, Running, OneMountPerVolume

LEMMA FailsInv ==
    ASSUME PlanInv, Fails
    PROVE  PlanInv'
<1>1. /\ pc = "exec" /\ plan # NoPlan /\ pc' = "idle" /\ upsets' = upsets + 1
      /\ Carry(First(plan)) \/ UNCHANGED <<conf, real>>
      /\ UNCHANGED <<snap, vols, plan, next, runs, touched, theirs>>
  BY DEF Fails, seen
<1>2. PlanTypeOK /\ PathsDistinct(conf)
  BY DEF PlanInv, OneMountPerVolume
<1>3. /\ conf' \in PveConfigs /\ real' \in Seq(Nat)
      /\ DisksKnown(conf', real') /\ PathsDistinct(conf')
  BY <1>1, <1>2, CommandSafe DEF PlanTypeOK
<1>4. PlanTypeOK'
  BY <1>1, <1>2, <1>3 DEF PlanTypeOK
<1> QED
  BY <1>1, <1>3, <1>4 DEF PlanInv, Running, OneMountPerVolume

LEMMA EndInv ==
    ASSUME PlanInv, Refused \/ Done
    PROVE  PlanInv'
BY DEF PlanInv, PlanTypeOK, OneMountPerVolume, Running, Refused, Done, seen

-----------------------------------------------------------------------------
(* What a human does meanwhile *)

\* A human changes nothing of the run; what is left to show is of the config.
LEMMA HumanInv ==
    ASSUME PlanInv, UNCHANGED <<snap, vols, plan, next, pc, runs>>, upsets' \in Nat,
           touched' \in BOOLEAN, theirs' \subseteq Keys,
           conf' \in PveConfigs, real' \in Seq(Nat), Len(real') >= Len(real),
           DisksKnown(conf', real'), PathsDistinct(conf'),
           ASSUME pc = "exec"
           PROVE  \A k \in UsedKeys(conf') : Known(k)'
    PROVE  PlanInv'
<1>1. PlanTypeOK'
  BY DEF PlanInv, PlanTypeOK
<1>2. pc = "exec" => Planned' /\ PathsDistinct(snap')
  BY DEF PlanInv, Running, Planned
<1>3. pc = "exec" => DisksKnown(snap', real')
  <2>1. Len(real) \in Nat /\ Len(real') \in Nat
    BY DEF PlanInv, PlanTypeOK
  <2> QED
    BY <2>1, DisksStayKnown DEF PlanInv, Running
<1> QED
  BY <1>1, <1>2, <1>3 DEF PlanInv, Running, OneMountPerVolume

LEMMA HumanFacts ==
    ASSUME PlanInv, NEW op, Human(op)
    PROVE  /\ UNCHANGED <<snap, vols, plan, next, pc, runs>> /\ upsets' \in Nat
           /\ touched' \in BOOLEAN
           /\ conf \in PveConfigs /\ real \in Seq(Nat) /\ theirs \subseteq Keys
           /\ DisksKnown(conf, real) /\ PathsDistinct(conf)
           /\ pc = "exec" => \A k \in UsedKeys(conf) : Known(k)
BY DEF Human, PlanInv, PlanTypeOK, OneMountPerVolume, Running

\* A line a human leaves alone stays known.
LEMMA StaysKnown ==
    ASSUME PlanInv, UNCHANGED <<snap, vols, plan, next>>, NEW k, Known(k),
           SameDisk(conf'.mounts[k], conf.mounts[k]), k \in theirs => k \in theirs'
    PROVE  Known(k)'
BY DEF Known, Added, SameDisk

LEMMA GrowsInv ==
    ASSUME PlanInv, NEW k \in Keys, HumanGrows(k)
    PROVE  PlanInv'
<1>1. /\ UNCHANGED <<snap, vols, plan, next, pc, runs>> /\ upsets' \in Nat
      /\ touched' \in BOOLEAN /\ theirs' = theirs /\ theirs' \subseteq Keys
      /\ conf \in PveConfigs /\ real \in Seq(Nat)
      /\ DisksKnown(conf, real) /\ PathsDistinct(conf)
      /\ pc = "exec" => \A l \in UsedKeys(conf) : Known(l)
  BY HumanFacts DEF HumanGrows
<1> DEFINE line == conf.mounts[k]
<1>2. k \in UsedKeys(conf) /\ line \in Mounts /\ ~line.bind
  BY <1>1, MountsOf DEF HumanGrows, UsedKeys
<1>3. line.disk \in 1 .. Len(real)
  BY <1>1, <1>2 DEF DisksKnown, LineKnown
<1>4. PICK n \in (real[line.disk] + 1) .. MaxSize :
        /\ real' = [real EXCEPT ![line.disk] = n]
        /\ conf' = [conf EXCEPT !.mounts[k].size = n]
  BY DEF HumanGrows
<1>5. n \in Nat
  BY <1>1, <1>3, <1>4, PlanAssumption
<1> DEFINE m == [line EXCEPT !.size = n]
<1>6. m \in Mounts /\ SameDisk(m, line)
  BY <1>2, <1>5 DEF Mounts, SameDisk
<1>7. conf' = Attached(conf, k, m)
  BY <1>1, <1>4 DEF Attached, PveConfigs
<1> HIDE DEF m
<1>8. real' \in Seq(Nat) /\ Len(real') = Len(real)
  BY <1>1, <1>3, <1>4, <1>5
<1>9. /\ UsedKeys(conf') = UsedKeys(conf)
      /\ \A l \in UsedKeys(conf) : SameDisk(conf'.mounts[l], conf.mounts[l])
  <2>1. /\ UsedKeys(conf') = UsedKeys(conf) \cup {k} /\ conf'.mounts[k] = m
        /\ \A l \in Keys \ {k} : conf'.mounts[l] = conf.mounts[l]
    BY <1>1, <1>6, <1>7, UsedAfter
  <2> QED
    BY <1>2, <1>6, <2>1 DEF UsedKeys, SameDisk
<1>10. PathsDistinct(conf')
  BY <1>1, <1>9 DEF PathsDistinct, SameDisk
<1>11. DisksKnown(conf', real')
  <2>1. ASSUME NEW l \in UsedKeys(conf), l # k PROVE LineKnown(conf'.mounts[l], real')
    <3>1. conf'.mounts[l] = conf.mounts[l]
      BY <1>1, <1>6, <1>7, <2>1, UsedAfter DEF UsedKeys
    <3> QED
      BY <1>1, <1>8, <3>1 DEF DisksKnown, LineKnown
  <2>2. LineKnown(conf'.mounts[k], real')
    BY <1>2, <1>3, <1>8, <1>9 DEF SameDisk, LineKnown
  <2> QED
    BY <1>9, <2>1, <2>2 DEF DisksKnown
<1>12. conf' \in PveConfigs
  BY <1>1, <1>6, <1>7, AttachedIs
<1>13. pc = "exec" => \A l \in UsedKeys(conf') : Known(l)'
  BY <1>1, <1>9, StaysKnown
<1>14. Len(real') >= Len(real)
  BY <1>1, <1>8
<1> QED
  BY <1>1, <1>8, <1>10, <1>11, <1>12, <1>13, <1>14, HumanInv

LEMMA DetachesInv ==
    ASSUME PlanInv, NEW k \in Keys, HumanDetaches(k)
    PROVE  PlanInv'
<1>1. /\ UNCHANGED <<snap, vols, plan, next, pc, runs>> /\ upsets' \in Nat
      /\ touched' \in BOOLEAN /\ theirs' = theirs \ {k} /\ theirs' \subseteq Keys
      /\ conf \in PveConfigs /\ real \in Seq(Nat) /\ real' = real
      /\ DisksKnown(conf, real) /\ PathsDistinct(conf)
      /\ pc = "exec" => \A l \in UsedKeys(conf) : Known(l)
  BY HumanFacts DEF HumanDetaches
<1>2. /\ conf' \in PveConfigs
      /\ conf'.mounts = [conf.mounts EXCEPT ![k] = NoMount]
  BY <1>1, AttachedIs DEF HumanDetaches
<1>3. /\ UsedKeys(conf') = UsedKeys(conf) \ {k}
      /\ \A l \in UsedKeys(conf') : conf'.mounts[l] = conf.mounts[l]
  BY <1>1, <1>2 DEF UsedKeys, PveConfigs
<1>4. DisksKnown(conf', real') /\ PathsDistinct(conf')
  BY <1>1, <1>3 DEF DisksKnown, PathsDistinct
<1>5. pc = "exec" => \A l \in UsedKeys(conf') : Known(l)'
  BY <1>1, <1>3, StaysKnown DEF SameDisk
<1>6. real' \in Seq(Nat) /\ Len(real') >= Len(real)
  BY <1>1
<1> QED
  BY <1>1, <1>2, <1>4, <1>5, <1>6, HumanInv

LEMMA AttachesInv ==
    ASSUME PlanInv, NEW k \in Keys, HumanAttaches(k)
    PROVE  PlanInv'
<1>1. /\ UNCHANGED <<snap, vols, plan, next, pc, runs>> /\ upsets' \in Nat
      /\ touched' \in BOOLEAN /\ theirs' = theirs \cup {k} /\ theirs' \subseteq Keys
      /\ conf \in PveConfigs /\ real \in Seq(Nat) /\ real' = Append(real, MaxSize)
      /\ DisksKnown(conf, real) /\ PathsDistinct(conf)
      /\ pc = "exec" => \A l \in UsedKeys(conf) : Known(l)
      /\ k \notin UsedKeys(conf)
  BY HumanFacts DEF HumanAttaches, UsedKeys
<1>2. PICK s \in Storages :
        conf' = Attached(conf, k, [path |-> Elsewhere, from |-> s, size |-> MaxSize,
                                   backup |-> TRUE, bind |-> FALSE,
                                   disk |-> Len(real) + 1])
  BY DEF HumanAttaches
<1> DEFINE m == [path |-> Elsewhere, from |-> s, size |-> MaxSize,
                 backup |-> TRUE, bind |-> FALSE, disk |-> Len(real) + 1]
<1>3. /\ real' \in Seq(Nat) /\ Len(real') = Len(real) + 1
      /\ m \in Mounts /\ m.path = Elsewhere /\ LineKnown(m, real')
      /\ conf' = Attached(conf, k, m)
  <2>1. real' \in Seq(Nat) /\ Len(real') = Len(real) + 1 /\ Len(real) \in Nat
    BY <1>1, PlanAssumption
  <2>2. m \in Mounts /\ m.path = Elsewhere
    BY <2>1, PlanAssumption DEF Mounts
  <2>3. LineKnown(m, real')
    BY <2>1 DEF LineKnown
  <2> QED
    BY <1>2, <2>1, <2>2, <2>3
<1> HIDE DEF m
<1>4. /\ conf' \in PveConfigs
      /\ UsedKeys(conf') = UsedKeys(conf) \cup {k} /\ conf'.mounts[k] = m
      /\ \A l \in UsedKeys(conf) : conf'.mounts[l] = conf.mounts[l]
  <2>1. conf' \in PveConfigs
    BY <1>1, <1>3, AttachedIs
  <2>2. /\ UsedKeys(conf') = UsedKeys(conf) \cup {k} /\ conf'.mounts[k] = m
        /\ \A l \in Keys \ {k} : conf'.mounts[l] = conf.mounts[l]
    BY <1>1, <1>3, UsedAfter
  <2> QED
    BY <1>1, <2>1, <2>2 DEF UsedKeys
<1>5. DisksKnown(conf', real')
  <2>1. \A l \in UsedKeys(conf) : LineKnown(conf.mounts[l], real')
    BY <1>1, <1>3 DEF DisksKnown, LineKnown
  <2> QED
    BY <1>3, <1>4, <2>1 DEF DisksKnown
<1>6. PathsDistinct(conf')
  <2>1. \A l \in UsedKeys(conf) : conf.mounts[l].path # Elsewhere
    BY DEF HumanAttaches, KeysAt, UsedKeys
  <2> QED
    BY <1>1, <1>3, <1>4, <2>1 DEF PathsDistinct
<1>7. pc = "exec" => \A l \in UsedKeys(conf') : Known(l)'
  <2>1. Known(k)'
    BY <1>1, <1>3, <1>4 DEF Known
  <2>2. ASSUME pc = "exec", NEW l \in UsedKeys(conf) PROVE Known(l)'
    BY <1>1, <1>4, <2>2, StaysKnown DEF SameDisk
  <2> QED
    BY <1>4, <2>1, <2>2
<1>8. Len(real') >= Len(real)
  BY <1>3
<1> QED
  BY <1>1, <1>3, <1>4, <1>5, <1>6, <1>7, <1>8, HumanInv

LEMMA TagsInv ==
    ASSUME PlanInv, HumanTags
    PROVE  PlanInv'
<1>1. /\ UNCHANGED <<snap, vols, plan, next, pc, runs>> /\ upsets' \in Nat
      /\ touched' \in BOOLEAN /\ theirs' = theirs /\ theirs' \subseteq Keys
      /\ conf \in PveConfigs /\ real \in Seq(Nat) /\ real' = real
      /\ DisksKnown(conf, real) /\ PathsDistinct(conf)
      /\ pc = "exec" => \A l \in UsedKeys(conf) : Known(l)
  BY HumanFacts DEF HumanTags
<1>2. conf' \in PveConfigs /\ conf'.mounts = conf.mounts
  BY <1>1 DEF HumanTags, PveConfigs
<1>3. UsedKeys(conf') = UsedKeys(conf)
  BY <1>2 DEF UsedKeys
<1>4. DisksKnown(conf', real') /\ PathsDistinct(conf')
  BY <1>1, <1>2, <1>3 DEF DisksKnown, PathsDistinct
<1>5. pc = "exec" => \A l \in UsedKeys(conf') : Known(l)'
  BY <1>1, <1>2, <1>3, StaysKnown DEF SameDisk
<1>6. real' \in Seq(Nat) /\ Len(real') >= Len(real)
  BY <1>1
<1> QED
  BY <1>1, <1>2, <1>4, <1>5, <1>6, HumanInv

-----------------------------------------------------------------------------
(* The theorems *)

LEMMA NextInv == PlanInv /\ [Next]_vars => PlanInv'
<1> SUFFICES ASSUME PlanInv, [Next]_vars PROVE PlanInv'
  OBVIOUS
<1>1. CASE \E d \in Documents : Start(d)
  BY <1>1, StartInv
<1>2. CASE Execute \/ Fails \/ Refused \/ Done
  BY <1>2, ExecuteInv, FailsInv, EndInv
<1>3. CASE \E k \in Keys : HumanGrows(k) \/ HumanDetaches(k) \/ HumanAttaches(k)
  BY <1>3, GrowsInv, DetachesInv, AttachesInv
<1>4. CASE HumanTags
  BY <1>4, TagsInv
<1>5. CASE UNCHANGED vars
  BY <1>5 DEF PlanInv, PlanTypeOK, OneMountPerVolume, Running, Planned, Known, Added, vars,
              seen
<1> QED
  BY <1>1, <1>2, <1>3, <1>4, <1>5 DEF Next

LEMMA Invariance == Spec => []PlanInv
<1>1. Init => PlanInv
  BY InitInv
<1>2. PlanInv /\ [Next]_vars => PlanInv'
  BY NextInv
<1> QED
  BY <1>1, <1>2, PTL DEF Spec

\* Every variable of the pct half keeps its type, and a line that names a
\* disk names one that was allocated, whatever a human does meanwhile.
THEOREM PlanTypeCorrect == Spec => []PlanTypeOK
<1>1. PlanInv => PlanTypeOK
  BY DEF PlanInv
<1> QED
  BY <1>1, Invariance, PTL

\* Whatever fails, is cut short, run again, grown, detached or attached
\* meanwhile, execute mounts no volume twice (plan.rs).
THEOREM MountsEachVolumeOnce == Spec => []OneMountPerVolume
<1>1. PlanInv => OneMountPerVolume
  BY DEF PlanInv
<1> QED
  BY <1>1, Invariance, PTL

\* A command of the half keeps what it is not about, and only grows a disk.
LEMMA StepKeeps ==
    ASSUME PlanInv, [Next]_vars, <<pc, plan>>' # <<pc, plan>>
    PROVE  Kept
<1>1. CASE UNCHANGED <<conf, real>>
  BY <1>1 DEF Kept, SameDisk, PlanInv, PlanTypeOK
<1>2. CASE Execute \/ Fails
  <2>1. pc = "exec" /\ plan # NoPlan
    BY <1>2 DEF Execute, Fails
  <2>2. CASE Carry(First(plan))
    BY <2>1, <2>2, CommandSafe
  <2> QED
    BY <1>1, <1>2, <2>2 DEF Execute, Fails
<1>3. CASE (\E d \in Documents : Start(d)) \/ Refused \/ Done
  BY <1>1, <1>3 DEF Start, Refused, Done
<1>4. CASE (\E k \in Keys : HumanGrows(k) \/ HumanDetaches(k) \/ HumanAttaches(k))
             \/ HumanTags \/ UNCHANGED vars
  BY <1>4 DEF HumanGrows, HumanDetaches, HumanAttaches, HumanTags, Human, vars
<1> QED
  BY <1>2, <1>3, <1>4 DEF Next

\* "Disks grow, never shrink, never move, are never deleted by this tool"
\* (plan.rs), for any document and any config it meets.
THEOREM DisksAreKept == Spec => KeepsDisks
<1>1. PlanInv /\ [Next]_vars => (<<pc, plan>>' # <<pc, plan>> => Kept)
  BY StepKeeps
<1>2. [<<pc, plan>>' # <<pc, plan>> => Kept]_vars
        => [<<pc, plan>>' # <<pc, plan>> =>
              /\ \A k \in UsedKeys(conf) \ theirs :
                    /\ k \in UsedKeys(conf)'
                    /\ SameDisk(conf'.mounts[k], conf.mounts[k])
              /\ \A i \in 1 .. Len(real) : real'[i] >= real[i]]_vars
  BY DEF Kept
<1> QED
  BY <1>1, <1>2, Invariance, PTL DEF Spec, KeepsDisks

-----------------------------------------------------------------------------
(* The places of a plan, and the lines they ask for *)

\* The order of a plan: the features, the tag, then two places a volume.
LEMMA Places ==
    ASSUME NEW n \in Nat, NEW i \in 1 .. 2 * n + 2
    PROVE  i = 1 \/ i = 2 \/ \E j \in 1 .. n : i = 2 * j + 1 \/ i = 2 * j + 2
<1>1. CASE i % 2 = 1 /\ i # 1
  <2>1. (i - 1) \div 2 \in 1 .. n /\ i = 2 * ((i - 1) \div 2) + 1
    BY <1>1
  <2> QED
    BY <2>1
<1>2. CASE i % 2 = 0 /\ i # 2
  <2>1. (i - 2) \div 2 \in 1 .. n /\ i = 2 * ((i - 2) \div 2) + 2
    BY <1>2
  <2> QED
    BY <2>1
<1> QED
  BY <1>1, <1>2

LEMMA GuestPlaces ==
    ASSUME NEW c, NEW d
    PROVE  OpAt(c, d, 1) = FeaturesOp(c) /\ OpAt(c, d, 2) = TagOp(c)
BY DEF OpAt

LEMMA VolumePlaces ==
    ASSUME NEW c, NEW d, Len(d) \in Nat, NEW j \in 1 .. Len(d)
    PROVE  /\ OpAt(c, d, 2 * j + 1) = MountOp(c, d[j])
           /\ OpAt(c, d, 2 * j + 2) = BackupOp(c, d[j])
           /\ 2 * j + 1 \in 1 .. 2 * Len(d) + 2 /\ 2 * j + 2 \in 1 .. 2 * Len(d) + 2
<1>1. /\ 2 * j + 1 > 2 /\ (2 * j + 1) % 2 = 1 /\ (2 * j + 1 - 1) \div 2 = j
      /\ 2 * j + 1 # 1 /\ 2 * j + 1 # 2
  OBVIOUS
<1>2. /\ 2 * j + 2 > 2 /\ (2 * j + 2) % 2 = 0 /\ (2 * j + 2 - 2) \div 2 = j
      /\ 2 * j + 2 # 1 /\ 2 * j + 2 # 2
  OBVIOUS
<1>3. OpAt(c, d, 2 * j + 1) = MountOp(c, d[j])
  BY <1>1 DEF OpAt
<1>4. OpAt(c, d, 2 * j + 2) = BackupOp(c, d[j])
  BY <1>2 DEF OpAt
<1> QED
  BY <1>3, <1>4

\* The one line at a path is the one that counts.
LEMMA OneAt ==
    ASSUME NEW c, PathsDistinct(c), NEW k \in UsedKeys(c)
    PROVE  KeysAt(c, c.mounts[k].path) = {k} /\ Min({k}) = k
<1>1. KeysAt(c, c.mounts[k].path) = {k}
  BY DEF PathsDistinct, KeysAt, UsedKeys
<1>2. {k} \in SUBSET Nat
  BY PlanAssumption DEF UsedKeys, Keys
<1> QED
  BY <1>1, <1>2, LeastIsIn

\* A volume whose line is as it asks has nothing left to do.
LEMMA LineSettles ==
    ASSUME NEW c, PathsDistinct(c), NEW k \in UsedKeys(c), NEW v,
           c.mounts[k].path = v.path
    PROVE  /\ v.kind # "disk" \/ c.mounts[k].bind \/ Satisfied(c.mounts[k].size, v.size)
                 => MountOp(c, v) = NoOp
           /\ v.kind # "disk" \/ c.mounts[k].bind \/ c.mounts[k].backup = v.backup
                 => BackupOp(c, v) = NoOp
<1>1. KeysAt(c, v.path) = {k} /\ Min({k}) = k /\ {k} # {}
  BY OneAt
<1> QED
  BY <1>1 DEF MountOp, BackupOp

\* What the operations of a volume read of a config.
LEMMA SameOps ==
    ASSUME NEW c, NEW e, NEW v, KeysAt(c, v.path) = KeysAt(e, v.path),
           \A k \in KeysAt(c, v.path) : c.mounts[k] = e.mounts[k]
    PROVE  MountOp(c, v) = MountOp(e, v) /\ BackupOp(c, v) = BackupOp(e, v)
<1>1. CASE KeysAt(c, v.path) = {}
  BY <1>1 DEF MountOp, BackupOp
<1>2. CASE KeysAt(c, v.path) # {}
  <2>1. KeysAt(c, v.path) \in SUBSET Nat
    BY PlanAssumption DEF KeysAt, Keys
  <2>2. Min(KeysAt(c, v.path)) \in KeysAt(c, v.path)
    BY <1>2, <2>1, LeastIsIn
  <2>3. c.mounts[Min(KeysAt(c, v.path))] = e.mounts[Min(KeysAt(e, v.path))]
    BY <2>2
  <2> QED
    BY <2>3 DEF MountOp, BackupOp
<1> QED
  BY <1>1, <1>2

-----------------------------------------------------------------------------
(* Nobody in between *)

\* One volume has its disk grown and its flag set in one plan: the line of
\* the flag is the one that was read, with the size from before (run backup).
GrowsAndFlips ==
    \E j \in 1 .. Len(vols) : {2 * j + 1, 2 * j + 2} \subseteq DOMAIN Build(snap, vols)

\* What has left the plan is done, and stays done.
Undone(c) == {i \in 1 .. 2 * Len(vols) + 2 : OpAt(c, vols, i) # NoOp}

Settling ==
    /\ ~touched => theirs = {}
    /\ pc = "exec" /\ ~touched /\ ~GrowsAndFlips => Undone(conf) \subseteq DOMAIN plan

\* A line put for one volume says nothing of the others.
LEMMA OthersSettled ==
    ASSUME PlanInv, pc = "exec", NEW j \in 1 .. Len(vols), NEW k \in Keys, NEW m \in Mounts,
           conf' = Attached(conf, k, m), m.path = vols[j].path,
           k \in UsedKeys(conf) => conf.mounts[k].path = vols[j].path,
           NEW i \in 1 .. 2 * Len(vols) + 2, i # 2 * j + 1, i # 2 * j + 2
    PROVE  OpAt(conf', vols, i) = OpAt(conf, vols, i)
<1>1. /\ conf \in PveConfigs /\ Planned /\ Len(vols) \in Nat
      /\ \A l \in 1 .. Len(vols) : vols[l].path = vols[j].path => l = j
  BY DocumentTypes DEF PlanInv, PlanTypeOK, Running
<1>2. conf'.keyed = conf.keyed /\ conf'.fuse = conf.fuse /\ conf'.tags = conf.tags
  BY <1>1 DEF Attached, PveConfigs
<1>3. /\ UsedKeys(conf') = UsedKeys(conf) \cup {k}
      /\ conf'.mounts[k] = m
      /\ \A l \in Keys \ {k} : conf'.mounts[l] = conf.mounts[l]
  BY <1>1, UsedAfter
<1>4. CASE i \in {1, 2}
  <2>1. FeaturesOp(conf') = FeaturesOp(conf) /\ TagOp(conf') = TagOp(conf)
    BY <1>2 DEF FeaturesOp, TagOp
  <2>2. /\ OpAt(conf, vols, 1) = FeaturesOp(conf) /\ OpAt(conf, vols, 2) = TagOp(conf)
        /\ OpAt(conf', vols, 1) = FeaturesOp(conf') /\ OpAt(conf', vols, 2) = TagOp(conf')
    BY GuestPlaces
  <2> QED
    BY <1>4, <2>1, <2>2
<1>5. ASSUME NEW l \in 1 .. Len(vols), i = 2 * l + 1 \/ i = 2 * l + 2
      PROVE  OpAt(conf', vols, i) = OpAt(conf, vols, i)
  <2>1. vols[l].path # vols[j].path
    BY <1>1, <1>5
  <2>2. /\ KeysAt(conf, vols[l].path) = {n \in UsedKeys(conf) : conf.mounts[n].path = vols[l].path}
        /\ KeysAt(conf', vols[l].path) =
              {n \in UsedKeys(conf') : conf'.mounts[n].path = vols[l].path}
    BY DEF KeysAt, UsedKeys
  <2>3. \A n \in UsedKeys(conf) : n \in Keys
    BY DEF UsedKeys
  <2>4. k \notin KeysAt(conf, vols[l].path) /\ k \notin KeysAt(conf', vols[l].path)
    BY <1>3, <2>1, <2>2
  <2>5. KeysAt(conf', vols[l].path) = KeysAt(conf, vols[l].path)
    BY <1>3, <2>2, <2>3, <2>4
  <2>6. \A n \in KeysAt(conf, vols[l].path) : conf.mounts[n] = conf'.mounts[n]
    BY <1>3, <2>2, <2>3, <2>4
  <2>7. MountOp(conf', vols[l]) = MountOp(conf, vols[l])
        /\ BackupOp(conf', vols[l]) = BackupOp(conf, vols[l])
    BY <2>5, <2>6, SameOps
  <2>8. /\ OpAt(conf, vols, 2 * l + 1) = MountOp(conf, vols[l])
        /\ OpAt(conf, vols, 2 * l + 2) = BackupOp(conf, vols[l])
        /\ OpAt(conf', vols, 2 * l + 1) = MountOp(conf', vols[l])
        /\ OpAt(conf', vols, 2 * l + 2) = BackupOp(conf', vols[l])
    BY <1>1, VolumePlaces
  <2> QED
    BY <1>5, <2>7, <2>8
<1> QED
  BY <1>1, <1>4, <1>5, Places

\* A place whose operation is done asks for nothing, nor its volume's other.
Settles(j, k, m) ==
    /\ conf' = Attached(conf, k, m) /\ m.path = vols[j].path
    /\ k \in UsedKeys(conf) => conf.mounts[k].path = vols[j].path
    /\ Place(plan) = 2 * j + 1 =>
          /\ vols[j].kind # "disk" \/ m.bind \/ Satisfied(m.size, vols[j].size)
          /\ \/ vols[j].kind # "disk" \/ m.bind \/ m.backup = vols[j].backup
             \/ k \in UsedKeys(conf) /\ m.backup = conf.mounts[k].backup
                  /\ m.bind = conf.mounts[k].bind
    /\ Place(plan) = 2 * j + 2 =>
          \/ vols[j].kind # "disk" \/ m.bind
          \/ m.backup = vols[j].backup /\ Satisfied(m.size, vols[j].size)

\* The line that is read for a volume is still the volume's.
LEMMA StillThere ==
    ASSUME PlanInv, pc = "exec", theirs = {}, NEW k \in UsedKeys(snap), k \in UsedKeys(conf)
    PROVE  SameDisk(conf.mounts[k], snap.mounts[k])
BY DEF PlanInv, Running, Known, Added

LEMMA SizedEnough ==
    ASSUME NEW size \in Nat, NEW n \in Rounded(size)
    PROVE  n \in Nat /\ Satisfied(n, size)
BY PlanAssumption DEF Rounded, Satisfied

LEMMA MountSettles ==
    ASSUME PlanInv, pc = "exec", theirs = {}, plan # NoPlan, Carry(First(plan)),
           NEW j \in 1 .. Len(vols), Place(plan) = 2 * j + 1
    PROVE  \E k \in Keys, m \in Mounts : Settles(j, k, m)
<1> DEFINE v == vols[j]
           o == First(plan)
<1>1. /\ PlanTypeOK /\ Planned /\ conf \in PveConfigs /\ snap \in PveConfigs
      /\ PathsDistinct(snap) /\ \A k \in UsedKeys(conf) : Known(k)
  BY DEF PlanInv, PlanTypeOK, Running
<1>2. /\ v \in VolumeRecords /\ Len(vols) \in Nat
      /\ \A i \in 1 .. Len(vols) : vols[i].path = v.path => i = j
  BY <1>1, DocumentTypes
<1>3. o = MountOp(snap, v) /\ o # NoOp /\ Place(plan) \in DOMAIN plan
  <2>1. OpAt(snap, vols, 2 * j + 1) = MountOp(snap, v)
    BY <1>2, VolumePlaces
  <2> QED
    BY <1>1, <2>1, FirstIs
<1>4. CASE KeysAt(snap, v.path) = {}
  <2> DEFINE k == TakeIndex(next)
  <2>1. \/ /\ o = [op |-> "bind", path |-> v.path, from |-> v.from]
           /\ v.kind = "bind"
        \/ /\ o = [op |-> "create", path |-> v.path, from |-> StorageOf(v),
                    size |-> v.size, backup |-> v.backup]
           /\ v.kind = "disk"
    BY <1>3, <1>4 DEF MountOp
  <2>2. TakesIndex(o) /\ k \in Keys
    BY <2>1 DEF TakesIndex, Carry, Works
  <2>3. k \notin UsedKeys(conf)
    BY <1>1, <2>2, FreshIndex, PlanAssumption DEF Known, Added, PlanTypeOK, Keys
  <2>4. CASE o.op = "bind"
    <3> DEFINE m == [path |-> o.path, from |-> o.from, size |-> 0, backup |-> FALSE,
                     bind |-> TRUE, disk |-> 0]
    <3>1. conf' = Attached(conf, k, m)
      BY <2>4 DEF Carry, Bind
    <3>2. v.kind = "bind" /\ o.path = v.path /\ o.from \in Storages \cup HostPaths
      BY <1>1, <1>2, <2>1, <2>4, DocumentTypes DEF VolumeRecords
    <3>3. m \in Mounts
      BY <1>2, <3>2 DEF Mounts, VolumeRecords
    <3>4. Settles(j, k, m)
      BY <2>3, <3>1, <3>2, PlanAssumption DEF Settles
    <3> QED
      BY <2>2, <3>3, <3>4
  <2>5. CASE o.op = "create"
    <3>1. /\ v.kind = "disk" /\ o.path = v.path /\ o.from = StorageOf(v)
          /\ o.size = v.size /\ o.backup = v.backup
      BY <2>1, <2>5
    <3>2. PICK n \in Rounded(v.size) :
            conf' = Attached(conf, k,
                      [path |-> v.path, from |-> StorageOf(v), size |-> n,
                       backup |-> v.backup, bind |-> FALSE, disk |-> Len(real) + 1])
      BY <2>5, <3>1 DEF Carry, Create
    <3> DEFINE m == [path |-> v.path, from |-> StorageOf(v), size |-> n,
                     backup |-> v.backup, bind |-> FALSE, disk |-> Len(real) + 1]
    <3>3. v.size \in Nat /\ v.path \in Paths /\ v.backup \in BOOLEAN
      BY <1>2 DEF VolumeRecords
    <3>4. n \in Nat /\ Satisfied(n, v.size)
      BY <3>2, <3>3, SizedEnough
    <3>5. StorageOf(v) \in Storages \cup HostPaths
      BY <1>1, <1>2, <3>1, DocumentTypes, PlanAssumption DEF StorageOf, VolumeRecords
    <3>6. Len(real) + 1 \in Nat
      BY <1>1 DEF PlanTypeOK
    <3>7. m \in Mounts
      BY <3>3, <3>4, <3>5, <3>6 DEF Mounts
    <3>8. Settles(j, k, m)
      BY <1>2, <2>3, <3>2, <3>4 DEF Settles
    <3> QED
      BY <2>2, <3>7, <3>8
  <2> QED
    BY <2>1, <2>4, <2>5
<1>5. CASE KeysAt(snap, v.path) # {}
  <2> DEFINE k == Min(KeysAt(snap, v.path))
             line == conf.mounts[k]
  <2>1. o = [op |-> "resize", key |-> k, size |-> v.size] /\ v.kind = "disk"
    BY <1>3, <1>5 DEF MountOp
  <2>2. k \in UsedKeys(snap) /\ snap.mounts[k].path = v.path
    BY <1>5, MountAt
  <2>3. o.op = "resize" /\ o.key = k /\ o.size = v.size
    BY <2>1
  <2>4. Resizable(o, conf, real) /\ Resize(o, conf, real)
    BY <2>3 DEF Carry, Works
  <2>5. k \in UsedKeys(conf) /\ ~line.bind
    BY <2>2, <2>3, <2>4 DEF Resizable, UsedKeys
  <2>6. line.path = v.path
    BY <2>2, <2>5, StillThere DEF SameDisk
  <2>7. PICK n \in Rounded(v.size) : conf' = [conf EXCEPT !.mounts[k].size = n]
    BY <2>3, <2>4 DEF Resize
  <2>8. n \in Nat /\ Satisfied(n, v.size)
    BY <1>2, SizedEnough DEF VolumeRecords
  <2> DEFINE m == [line EXCEPT !.size = n]
  <2>9. k \in Keys /\ line \in Mounts
    BY <1>1, <2>5, MountsOf
  <2>10. /\ m \in Mounts /\ m.path = line.path /\ m.bind = line.bind
         /\ m.backup = line.backup /\ m.size = n
    BY <2>8, <2>9 DEF Mounts
  <2>11. conf' = Attached(conf, k, m)
    BY <1>1, <2>7, <2>9 DEF Attached, PveConfigs
  <2>12. Settles(j, k, m)
    BY <1>2, <2>5, <2>6, <2>8, <2>10, <2>11 DEF Settles
  <2> QED
    BY <2>9, <2>10, <2>12
<1> QED
  BY <1>4, <1>5

LEMMA FlagSettles ==
    ASSUME PlanInv, pc = "exec", theirs = {}, ~GrowsAndFlips,
           plan # NoPlan, Carry(First(plan)),
           NEW j \in 1 .. Len(vols), Place(plan) = 2 * j + 2
    PROVE  \E k \in Keys, m \in Mounts : Settles(j, k, m)
<1> DEFINE v == vols[j]
           o == First(plan)
           k == Min(KeysAt(snap, v.path))
           line == snap.mounts[k]
           m == [line EXCEPT !.backup = v.backup]
<1>1. /\ PlanTypeOK /\ Planned /\ conf \in PveConfigs /\ snap \in PveConfigs
      /\ PathsDistinct(snap)
  BY DEF PlanInv, PlanTypeOK, Running
<1>2. v \in VolumeRecords /\ Len(vols) \in Nat
  BY <1>1, DocumentTypes
<1>3. o = BackupOp(snap, v) /\ o # NoOp /\ OpAt(snap, vols, 2 * j + 2) # NoOp
  <2>1. OpAt(snap, vols, 2 * j + 2) = BackupOp(snap, v)
    BY <1>2, VolumePlaces
  <2> QED
    BY <1>1, <2>1, FirstIs
<1>4. /\ KeysAt(snap, v.path) # {} /\ v.kind = "disk" /\ ~line.bind
      /\ o = [op |-> "backup", key |-> k, mount |-> m]
  BY <1>3 DEF BackupOp
<1>5. k \in UsedKeys(snap) /\ line.path = v.path
  BY <1>4, MountAt
<1>6. k \in Keys /\ line \in Mounts
  BY <1>1, <1>5, MountsOf
<1>7. /\ m \in Mounts /\ m.path = v.path /\ m.bind = line.bind
      /\ m.backup = v.backup /\ m.size = line.size
  BY <1>2, <1>5, <1>6 DEF Mounts, VolumeRecords
<1>8. conf' = Attached(conf, k, m)
  BY <1>4 DEF Carry, Set
<1>9. k \in UsedKeys(conf) => conf.mounts[k].path = v.path
  BY <1>5, StillThere DEF SameDisk
<1>10. Satisfied(line.size, v.size)
  <2>1. OpAt(snap, vols, 2 * j + 1) = NoOp
    <3>1. 2 * j + 1 \in 1 .. 2 * Len(vols) + 2 /\ 2 * j + 2 \in 1 .. 2 * Len(vols) + 2
      BY <1>2, VolumePlaces
    <3> QED
      BY <1>3, <3>1 DEF GrowsAndFlips, Build
  <2>2. MountOp(snap, v) = NoOp
    BY <1>2, <2>1, VolumePlaces
  <2>3. ASSUME ~Satisfied(line.size, v.size)
        PROVE  MountOp(snap, v) = [op |-> "resize", key |-> k, size |-> v.size]
    BY <1>4, <2>3 DEF MountOp
  <2>4. [op |-> "resize", key |-> k, size |-> v.size] # NoOp
    BY <1>2, <1>6, PlanAssumption DEF Ops, VolumeRecords
  <2> QED
    BY <2>2, <2>3, <2>4
<1>11. Settles(j, k, m)
  BY <1>2, <1>7, <1>8, <1>9, <1>10 DEF Settles
<1> QED
  BY <1>6, <1>7, <1>11

\* Once the line of a volume is put, neither of its places asks for more.
LEMMA VolumeSettles ==
    ASSUME PlanInv, PathsDistinct(conf'), pc = "exec",
           NEW j \in 1 .. Len(vols), Place(plan) \in {2 * j + 1, 2 * j + 2},
           NEW k \in Keys, NEW m \in Mounts, Settles(j, k, m)
    PROVE  /\ OpAt(conf', vols, Place(plan)) = NoOp
           /\ \A i \in 1 .. 2 * Len(vols) + 2 :
                 OpAt(conf, vols, i) = NoOp => OpAt(conf', vols, i) = NoOp
<1> DEFINE v == vols[j]
<1>1. /\ conf \in PveConfigs /\ Len(vols) \in Nat /\ v \in VolumeRecords
      /\ PathsDistinct(conf)
  BY DocumentTypes DEF PlanInv, PlanTypeOK, Running, OneMountPerVolume
<1>2. UsedKeys(conf') = UsedKeys(conf) \cup {k} /\ conf'.mounts[k] = m
  BY <1>1, UsedAfter DEF Settles
<1>3. k \in UsedKeys(conf') /\ conf'.mounts[k].path = v.path
  BY <1>2 DEF Settles
<1>4. /\ v.kind # "disk" \/ m.bind \/ Satisfied(m.size, v.size) => MountOp(conf', v) = NoOp
      /\ v.kind # "disk" \/ m.bind \/ m.backup = v.backup => BackupOp(conf', v) = NoOp
  BY <1>2, <1>3, LineSettles
<1>5. /\ OpAt(conf, vols, 2 * j + 1) = MountOp(conf, v)
      /\ OpAt(conf, vols, 2 * j + 2) = BackupOp(conf, v)
      /\ OpAt(conf', vols, 2 * j + 1) = MountOp(conf', v)
      /\ OpAt(conf', vols, 2 * j + 2) = BackupOp(conf', v)
  BY <1>1, VolumePlaces
<1>6. ASSUME NEW i \in 1 .. 2 * Len(vols) + 2, i # 2 * j + 1, i # 2 * j + 2
      PROVE  OpAt(conf', vols, i) = OpAt(conf, vols, i)
  BY <1>6, OthersSettled DEF Settles
<1>7. CASE Place(plan) = 2 * j + 1
  <2>1. MountOp(conf', v) = NoOp
    BY <1>4, <1>7 DEF Settles
  <2>2. BackupOp(conf, v) = NoOp => BackupOp(conf', v) = NoOp
    <3>1. CASE /\ k \in UsedKeys(conf) /\ m.backup = conf.mounts[k].backup
               /\ m.bind = conf.mounts[k].bind
      <4> DEFINE line == conf.mounts[k]
                 set == [op |-> "backup", key |-> k, mount |-> [line EXCEPT !.backup = v.backup]]
      <4>1. line.path = v.path /\ line \in Mounts
        BY <1>1, <3>1, MountsOf DEF Settles
      <4>2. KeysAt(conf, v.path) = {k} /\ Min({k}) = k
        BY <1>1, <3>1, <4>1, OneAt
      <4>3. v.kind = "disk" /\ ~line.bind /\ line.backup # v.backup => BackupOp(conf, v) = set
        BY <4>2 DEF BackupOp
      <4>4. set # NoOp
        <5>1. [line EXCEPT !.backup = v.backup] \in Mounts
          BY <1>1, <4>1 DEF Mounts, VolumeRecords
        <5>2. set \in [op : {"backup"}, key : Keys, mount : Mounts]
          BY <5>1
        <5> QED
          BY <5>2, PlanAssumption DEF Ops
      <4> QED
        BY <1>4, <3>1, <4>3, <4>4
    <3> QED
      BY <1>4, <1>7, <3>1 DEF Settles
  <2> QED
    BY <1>5, <1>6, <1>7, <2>1, <2>2
<1>8. CASE Place(plan) = 2 * j + 2
  <2>1. MountOp(conf', v) = NoOp /\ BackupOp(conf', v) = NoOp
    <3>1. 2 * j + 1 # 2 * j + 2
      OBVIOUS
    <3> QED
      BY <1>4, <1>8, <3>1 DEF Settles
  <2> QED
    BY <1>5, <1>6, <1>8, <2>1
<1> QED
  BY <1>7, <1>8

LEMMA ExecuteSettles ==
    ASSUME PlanInv, PathsDistinct(conf'), pc = "exec", theirs = {}, ~GrowsAndFlips,
           plan # NoPlan, Carry(First(plan)), Undone(conf) \subseteq DOMAIN plan
    PROVE  Undone(conf') \subseteq DOMAIN plan \ {Place(plan)}
<1> DEFINE o == First(plan)
<1>1. /\ PlanTypeOK /\ Planned /\ conf \in PveConfigs /\ snap \in PveConfigs
  BY DEF PlanInv, PlanTypeOK, Running
<1>2. Len(vols) \in Nat
  BY <1>1, PlanAssumption DEF Planned
<1>3. /\ Place(plan) \in 1 .. 2 * Len(vols) + 2 /\ o = OpAt(snap, vols, Place(plan))
      /\ o # NoOp
  BY <1>1, FirstIs
<1>4. SUFFICES /\ OpAt(conf', vols, Place(plan)) = NoOp
               /\ \A i \in 1 .. 2 * Len(vols) + 2 :
                     OpAt(conf, vols, i) = NoOp => OpAt(conf', vols, i) = NoOp
  BY DEF Undone
<1>5. ASSUME Place(plan) \in {1, 2}
      PROVE  /\ OpAt(conf', vols, Place(plan)) = NoOp
             /\ \A i \in 1 .. 2 * Len(vols) + 2 :
                   OpAt(conf, vols, i) = NoOp => OpAt(conf', vols, i) = NoOp
  <2>1. /\ conf'.mounts = conf.mounts
        /\ Place(plan) = 1 => conf'.keyed /\ conf'.tags = conf.tags
        /\ Place(plan) = 2 => /\ "compose" \in conf'.tags
                              /\ conf'.keyed = conf.keyed /\ conf'.fuse = conf.fuse
    <3>1. CASE Place(plan) = 1
      <4>1. o = FeaturesOp(snap)
        BY <1>3, <3>1, GuestPlaces
      <4>2. o.op = "features"
        BY <1>3, <4>1 DEF FeaturesOp
      <4>3. conf' = [conf EXCEPT !.keyed = TRUE, !.fuse = o.fuse]
        BY <4>2 DEF Carry, Set
      <4> QED
        BY <1>1, <3>1, <4>3 DEF PveConfigs
    <3>2. CASE Place(plan) = 2
      <4>1. o = TagOp(snap)
        BY <1>3, <3>2, GuestPlaces
      <4>2. o.op = "tag" /\ o.tags = snap.tags \cup {"compose"}
        BY <1>3, <4>1 DEF TagOp
      <4>3. conf' = [conf EXCEPT !.tags = o.tags]
        BY <4>2 DEF Carry, Set
      <4> QED
        BY <1>1, <3>2, <4>2, <4>3 DEF PveConfigs
    <3> QED
      BY <1>5, <3>1, <3>2
  <2>2. /\ OpAt(conf, vols, 1) = FeaturesOp(conf) /\ OpAt(conf, vols, 2) = TagOp(conf)
        /\ OpAt(conf', vols, 1) = FeaturesOp(conf') /\ OpAt(conf', vols, 2) = TagOp(conf')
    BY GuestPlaces
  <2>3. \A j \in 1 .. Len(vols) :
           MountOp(conf', vols[j]) = MountOp(conf, vols[j])
           /\ BackupOp(conf', vols[j]) = BackupOp(conf, vols[j])
    <3> SUFFICES ASSUME NEW j \in 1 .. Len(vols)
                 PROVE  MountOp(conf', vols[j]) = MountOp(conf, vols[j])
                        /\ BackupOp(conf', vols[j]) = BackupOp(conf, vols[j])
      OBVIOUS
    <3>1. KeysAt(conf', vols[j].path) = KeysAt(conf, vols[j].path)
      BY <2>1 DEF KeysAt
    <3> QED
      BY <2>1, <3>1, SameOps
  <2>4. \A j \in 1 .. Len(vols) :
           /\ OpAt(conf', vols, 2 * j + 1) = OpAt(conf, vols, 2 * j + 1)
           /\ OpAt(conf', vols, 2 * j + 2) = OpAt(conf, vols, 2 * j + 2)
    <3> SUFFICES ASSUME NEW j \in 1 .. Len(vols)
                 PROVE  /\ OpAt(conf', vols, 2 * j + 1) = OpAt(conf, vols, 2 * j + 1)
                        /\ OpAt(conf', vols, 2 * j + 2) = OpAt(conf, vols, 2 * j + 2)
      OBVIOUS
    <3>1. /\ OpAt(conf, vols, 2 * j + 1) = MountOp(conf, vols[j])
          /\ OpAt(conf, vols, 2 * j + 2) = BackupOp(conf, vols[j])
          /\ OpAt(conf', vols, 2 * j + 1) = MountOp(conf', vols[j])
          /\ OpAt(conf', vols, 2 * j + 2) = BackupOp(conf', vols[j])
      BY <1>2, VolumePlaces
    <3> QED
      BY <2>3, <3>1
  <2>5. /\ OpAt(conf, vols, 1) = NoOp => OpAt(conf', vols, 1) = NoOp
        /\ OpAt(conf, vols, 2) = NoOp => OpAt(conf', vols, 2) = NoOp
        /\ OpAt(conf', vols, Place(plan)) = NoOp
    <3>1. CASE Place(plan) = 1
      <4>1. FeaturesOp(conf') = NoOp /\ TagOp(conf') = TagOp(conf)
        BY <2>1, <3>1 DEF FeaturesOp, TagOp
      <4> QED
        BY <2>2, <3>1, <4>1
    <3>2. CASE Place(plan) = 2
      <4>1. FeaturesOp(conf') = FeaturesOp(conf) /\ TagOp(conf') = NoOp
        BY <2>1, <3>2 DEF FeaturesOp, TagOp
      <4> QED
        BY <2>2, <3>2, <4>1
    <3> QED
      BY <1>5, <3>1, <3>2
  <2>6. \A i \in 1 .. 2 * Len(vols) + 2 :
           OpAt(conf, vols, i) = NoOp => OpAt(conf', vols, i) = NoOp
    <3> SUFFICES ASSUME NEW i \in 1 .. 2 * Len(vols) + 2, OpAt(conf, vols, i) = NoOp
                 PROVE  OpAt(conf', vols, i) = NoOp
      OBVIOUS
    <3>1. i = 1 \/ i = 2 \/ \E j \in 1 .. Len(vols) : i = 2 * j + 1 \/ i = 2 * j + 2
      BY <1>2, Places
    <3>2. CASE i \in {1, 2}
      BY <2>5, <3>2
    <3>3. CASE \E j \in 1 .. Len(vols) : i = 2 * j + 1 \/ i = 2 * j + 2
      BY <2>4, <3>3
    <3> QED
      BY <3>1, <3>2, <3>3
  <2> QED
    BY <2>5, <2>6
<1>6. ASSUME NEW j \in 1 .. Len(vols), Place(plan) \in {2 * j + 1, 2 * j + 2}
      PROVE  /\ OpAt(conf', vols, Place(plan)) = NoOp
             /\ \A i \in 1 .. 2 * Len(vols) + 2 :
                   OpAt(conf, vols, i) = NoOp => OpAt(conf', vols, i) = NoOp
  <2>1. PICK k \in Keys, m \in Mounts : Settles(j, k, m)
    BY <1>6, MountSettles, FlagSettles
  <2> QED
    BY <1>6, <2>1, VolumeSettles
<1> QED
  BY <1>2, <1>3, <1>5, <1>6, Places

LEMMA StepSettles == PlanInv /\ Settling /\ [Next]_vars => Settling'
<1> SUFFICES ASSUME PlanInv, Settling, [Next]_vars PROVE Settling'
  OBVIOUS
<1>1. PlanInv'
  BY NextInv
<1>2. ASSUME NEW d \in Documents, Start(d) PROVE Settling'
  <2>1. Undone(conf)' \subseteq DOMAIN plan'
    BY <1>2 DEF Start, Undone, Build
  <2> QED
    BY <1>2, <2>1 DEF Start, Settling
<1>3. CASE Execute
  <2>1. /\ pc = "exec" /\ plan # NoPlan /\ Carry(First(plan)) /\ plan' = Rest(plan)
        /\ UNCHANGED <<snap, vols, touched, theirs>>
    BY <1>3 DEF Execute, seen
  <2>2. DOMAIN plan' = DOMAIN plan \ {Place(plan)}
    BY <2>1 DEF Rest
  <2>3. GrowsAndFlips' = GrowsAndFlips
    BY <2>1 DEF GrowsAndFlips
  <2>4. PathsDistinct(conf')
    BY <1>1 DEF PlanInv, OneMountPerVolume
  <2>5. CASE ~touched /\ ~GrowsAndFlips
    <3>1. Undone(conf') \subseteq DOMAIN plan \ {Place(plan)}
      BY <2>1, <2>4, <2>5, ExecuteSettles DEF Settling
    <3>2. Undone(conf)' = Undone(conf')
      BY <2>1 DEF Undone
    <3> QED
      BY <2>1, <2>2, <2>5, <3>1, <3>2 DEF Settling
  <2> QED
    BY <2>1, <2>3, <2>5 DEF Settling
<1>4. CASE Refused \/ Fails \/ Done
  BY <1>4 DEF Refused, Fails, Done, Settling, seen
<1>5. CASE (\E k \in Keys : HumanGrows(k) \/ HumanDetaches(k) \/ HumanAttaches(k)) \/ HumanTags
  BY <1>5 DEF HumanGrows, HumanDetaches, HumanAttaches, HumanTags, Human, Settling
<1>6. CASE UNCHANGED vars
  BY <1>6 DEF vars, seen, Settling, Undone, GrowsAndFlips
<1> QED
  BY <1>2, <1>3, <1>4, <1>5, <1>6 DEF Next

\* A run with nobody in between, over a document that changes no volume's
\* size and flag at once, leaves nothing to do: planned again, the same
\* document plans to nothing (plan::build after plan::execute).
THEOREM RunsSettle == Spec => [](~GrowsAndFlips => Settled)
<1>1. Init => Settling
  BY DEF Init, Settling
<1>2. PlanInv /\ Settling => (~GrowsAndFlips => Settled)
  <2> SUFFICES ASSUME PlanInv, Settling, ~GrowsAndFlips, pc = "exec", plan = NoPlan, ~touched
               PROVE  Build(conf, vols) = NoPlan
    BY DEF Settled
  <2>1. DOMAIN plan = {}
    BY DEF NoPlan
  <2>2. {i \in 1 .. 2 * Len(vols) + 2 : OpAt(conf, vols, i) # NoOp} = {}
    BY <2>1 DEF Settling, Undone
  <2>3. Build(conf, vols) = [i \in {} |-> OpAt(conf, vols, i)]
    BY <2>2 DEF Build
  <2> QED
    BY <2>3 DEF NoPlan
<1> QED
  BY <1>1, <1>2, Invariance, StepSettles, PTL DEF Spec

-----------------------------------------------------------------------------
(* Counting up to a number, and what a recursive function of the model is  *)

\* What holds of 0, and of each number if of the one before.
LEMMA UpTo ==
    ASSUME NEW N \in Nat, NEW S, 0 \in S, \A n \in 1 .. N : n - 1 \in S => n \in S
    PROVE  0 .. N \subseteq S
<1> DEFINE Out == {n \in 0 .. N : n \notin S}
<1> SUFFICES ASSUME Out # {} PROVE FALSE
  OBVIOUS
<1>1. Min(Out) \in Out /\ \A n \in Out : Min(Out) <= n
  BY LeastIsIn
<1>2. Min(Out) \in 1 .. N /\ Min(Out) - 1 \notin S
  BY <1>1
<1>3. Min(Out) - 1 \in Out
  BY <1>1, <1>2
<1> QED
  BY <1>1, <1>3

\* Every value has a next one; what goes from the first to the last of them.
HasNext(N, T, R) == \A n \in 1 .. N : \A x \in T : \E y \in T : <<n, x, y>> \in R

Chains(N, T, first, R) ==
    {g \in [0 .. N -> T] : g[0] = first /\ \A n \in 1 .. N : <<n, g[n - 1], g[n]>> \in R}

LEMMA StepByStep ==
    ASSUME NEW N \in Nat, NEW T, NEW first \in T, NEW R, HasNext(N, T, R)
    PROVE  Chains(N, T, first, R) # {}
<1> DEFINE Upto(n) == Chains(n, T, first, R)
           S == {n \in 0 .. N : Upto(n) # {}}
<1>1. 0 \in S
  <2>1. [i \in 0 .. 0 |-> first] \in Upto(0)
    BY DEF Chains
  <2> QED
    BY <2>1
<1>2. ASSUME NEW n \in 1 .. N, n - 1 \in S PROVE n \in S
  <2>1. PICK g \in [0 .. (n - 1) -> T] :
          g[0] = first /\ \A i \in 1 .. (n - 1) : <<i, g[i - 1], g[i]>> \in R
    BY <1>2 DEF Chains
  <2>2. PICK y \in T : <<n, g[n - 1], y>> \in R
    <3>1. n - 1 \in 0 .. (n - 1)
      OBVIOUS
    <3>2. g[n - 1] \in T
      BY <2>1, <3>1
    <3> QED
      BY <3>2 DEF HasNext
  <2> DEFINE h == [i \in 0 .. n |-> IF i = n THEN y ELSE g[i]]
  <2>3. h \in [0 .. n -> T] /\ h[0] = first
    BY <2>1
  <2>4. h[n] = y /\ \A i \in 0 .. (n - 1) : h[i] = g[i]
    OBVIOUS
  <2> HIDE DEF h
  <2>5. ASSUME NEW i \in 1 .. n PROVE <<i, h[i - 1], h[i]>> \in R
    <3>1. CASE i = n
      BY <2>2, <2>4, <3>1
    <3>2. CASE i # n
      <4>1. i \in 1 .. (n - 1) /\ h[i] = g[i] /\ h[i - 1] = g[i - 1]
        BY <2>4, <3>2
      <4> QED
        BY <2>1, <4>1
    <3> QED
      BY <3>1, <3>2
  <2>6. h \in Upto(n)
    BY <2>3, <2>5 DEF Chains
  <2> QED
    BY <2>6
<1>3. 0 .. N \subseteq S
  <2> HIDE DEF S
  <2> QED
    BY <1>1, <1>2, UpTo
<1> QED
  BY <1>3

-----------------------------------------------------------------------------
(* Paths without dots lead where they say *)

LEMMA CleanResolved ==
    ASSUME NEW p \in HostPathTexts, CheckCleanAbsolute(p)
    PROVE  Resolved(p) = p.segs
<1> DEFINE N == Len(p.segs)
           Walks(f) == f = [n \in 0 .. N |-> IF n = 0 THEN <<>>
                                             ELSE Follow(f[n - 1], p.segs[n])]
           g == [n \in 0 .. N |-> SubSeq(p.segs, 1, n)]
           after == CHOOSE f : Walks(f)
<1>1. /\ p.segs \in Seq(Segments \cup Odd) /\ N \in Nat /\ DOMAIN p.segs = 1 .. N
      /\ \A i \in 1 .. N : p.segs[i] \notin Odd
  BY DEF HostPathTexts, CheckCleanAbsolute
<1>2. Resolved(p) = after[N]
  BY DEF Resolved
<1>3. ASSUME NEW n \in 1 .. N
      PROVE  Follow(SubSeq(p.segs, 1, n - 1), p.segs[n]) = SubSeq(p.segs, 1, n)
  <2>1. p.segs[n] \notin Odd /\ p.segs[n] \in Segments \cup Odd
    BY <1>1
  <2>2. SubSeq(p.segs, 1, n) = SubSeq(p.segs, 1, n - 1) \o <<p.segs[n]>>
    BY <1>1, SubSeqRecursiveSecond
  <2>3. SubSeq(p.segs, 1, n - 1) \in Seq(Segments \cup Odd)
    BY <1>1, SubSeqProperties
  <2>4. Append(SubSeq(p.segs, 1, n - 1), p.segs[n]) = SubSeq(p.segs, 1, n)
    BY <2>1, <2>2, <2>3, AppendIsConcat
  <2> QED
    BY <2>1, <2>4 DEF Follow, Odd
<1>4. SubSeq(p.segs, 1, 0) = <<>> /\ SubSeq(p.segs, 1, N) = p.segs
  BY <1>1, SubSeqEmpty, SubSeqFull
<1>5. \E f : Walks(f)
  <2>1. ASSUME NEW n \in 0 .. N
        PROVE  g[n] = IF n = 0 THEN <<>> ELSE Follow(g[n - 1], p.segs[n])
    <3>1. CASE n = 0
      BY <1>4, <3>1
    <3>2. CASE n # 0
      <4>1. n \in 1 .. N /\ n - 1 \in 0 .. N
        BY <1>1, <3>2
      <4>2. g[n] = SubSeq(p.segs, 1, n) /\ g[n - 1] = SubSeq(p.segs, 1, n - 1)
        BY <4>1
      <4> QED
        BY <1>3, <3>2, <4>1, <4>2
    <3> QED
      BY <3>1, <3>2
  <2>2. g = [n \in 0 .. N |-> g[n]]
    OBVIOUS
  <2> HIDE DEF g
  <2>3. Walks(g)
    BY <2>1, <2>2
  <2> QED
    BY <2>3
<1>6. Walks(after)
  <2> HIDE DEF Walks
  <2> QED
    BY <1>5
<1> HIDE DEF after
<1> DEFINE S == {n \in 0 .. N : after[n] = SubSeq(p.segs, 1, n)}
<1>7. 0 \in S
  BY <1>1, <1>4, <1>6
<1>8. ASSUME NEW n \in 1 .. N, n - 1 \in S PROVE n \in S
  <2>1. after[n] = Follow(after[n - 1], p.segs[n])
    BY <1>1, <1>6
  <2> QED
    <3>1. after[n - 1] = SubSeq(p.segs, 1, n - 1)
      BY <1>8
    <3>2. after[n] = SubSeq(p.segs, 1, n)
      BY <1>3, <2>1, <3>1
    <3> QED
      BY <3>2
<1> HIDE DEF S
<1>9. 0 .. N \subseteq S
  BY <1>1, <1>7, <1>8, UpTo
<1>10. N \in S
  BY <1>1, <1>9
<1> QED
  BY <1>2, <1>4, <1>10 DEF S

-----------------------------------------------------------------------------
(* What a document is read as asks for what its definitions ask for *)

LEMMA VolumesAre ==
    ASSUME NEW d, Len(d) \in Nat
    PROVE  VolumesOf(d) \in Seq({VolumeOf(d[i]) : i \in {k \in 1 .. Len(d) : Managed(d[k])}})
<1> DEFINE N == Len(d)
           V == {VolumeOf(d[i]) : i \in {k \in 1 .. Len(d) : Managed(d[k])}}
           Next1(n, at) == IF Managed(d[n]) THEN Append(at, VolumeOf(d[n])) ELSE at
           Reads(f) == f = [n \in 0 .. N |-> IF n = 0 THEN <<>>
                               ELSE IF Managed(d[n]) THEN Append(f[n - 1], VolumeOf(d[n]))
                               ELSE f[n - 1]]
           upto == CHOOSE f : Reads(f)
           R == {r \in (1 .. N) \X Seq(V) \X Seq(V) : r[3] = Next1(r[1], r[2])}
<1>1. VolumesOf(d) = upto[N]
  BY DEF VolumesOf
<1>2. ASSUME NEW n \in 1 .. N, NEW at \in Seq(V) PROVE Next1(n, at) \in Seq(V)
  <2>1. CASE Managed(d[n])
    <3>1. VolumeOf(d[n]) \in V
      BY <2>1
    <3> QED
      BY <2>1, <3>1
  <2> QED
    BY <2>1
<1>3. ASSUME NEW n \in 1 .. N, NEW at \in Seq(V)
      PROVE  \E y \in Seq(V) : <<n, at, y>> \in R
  <2> HIDE DEF V, Next1
  <2>1. <<n, at, Next1(n, at)>> \in R
    BY <1>2
  <2> QED
    BY <1>2, <2>1
<1>4. PICK g \in [0 .. N -> Seq(V)] :
        g[0] = <<>> /\ \A n \in 1 .. N : <<n, g[n - 1], g[n]>> \in R
  <2>1. HasNext(N, Seq(V), R)
    BY <1>3 DEF HasNext
  <2>2. Chains(N, Seq(V), <<>>, R) # {}
    <3> DEFINE T == Seq(V)
               empty == <<>>
    <3>1. N \in Nat /\ empty \in T /\ HasNext(N, T, R)
      BY <2>1
    <3> HIDE DEF R, N, T, empty
    <3>2. Chains(N, T, empty, R) # {}
      BY <3>1, StepByStep
    <3> QED
      BY <3>2 DEF T, empty
  <2> HIDE DEF V, R
  <2> QED
    BY <2>2 DEF Chains
<1>5. Reads(g)
  <2>1. ASSUME NEW n \in 1 .. N PROVE g[n] = Next1(n, g[n - 1])
    <3> HIDE DEF V, Next1
    <3> QED
      BY <1>4
  <2>2. g = [n \in 0 .. N |-> g[n]]
    OBVIOUS
  <2>3. ASSUME NEW n \in 0 .. N
        PROVE  g[n] = IF n = 0 THEN <<>>
                      ELSE IF Managed(d[n]) THEN Append(g[n - 1], VolumeOf(d[n]))
                      ELSE g[n - 1]
    <3>1. CASE n = 0
      BY <1>4, <3>1
    <3>2. CASE n # 0
      <4>1. n \in 1 .. N
        BY <3>2
      <4>2. g[n] = Next1(n, g[n - 1])
        BY <2>1, <4>1
      <4> HIDE DEF V
      <4> QED
        BY <3>2, <4>2
    <3> QED
      BY <3>1, <3>2
  <2> QED
    BY <2>2, <2>3
<1>6. Reads(upto)
  <2>1. \E f : Reads(f)
    BY <1>5
  <2> HIDE DEF Reads
  <2> QED
    BY <2>1
<1> HIDE DEF upto
<1> DEFINE S == {n \in 0 .. N : upto[n] \in Seq(V)}
<1>7. 0 \in S
  BY <1>6
<1>8. ASSUME NEW n \in 1 .. N, n - 1 \in S PROVE n \in S
  <2>1. upto[n - 1] \in Seq(V)
    BY <1>8
  <2>2. upto[n] = Next1(n, upto[n - 1])
    <3>1. n \in 0 .. N /\ n # 0
      OBVIOUS
    <3>2. upto[n] = IF n = 0 THEN <<>>
                    ELSE IF Managed(d[n]) THEN Append(upto[n - 1], VolumeOf(d[n]))
                    ELSE upto[n - 1]
      BY <1>6, <3>1
    <3> QED
      BY <3>1, <3>2
  <2>3. upto[n] \in Seq(V)
    BY <1>2, <2>1, <2>2
  <2> QED
    BY <2>3
<1>9. 0 .. N \subseteq S
  <2> HIDE DEF S
  <2> QED
    BY <1>7, <1>8, UpTo
<1> QED
  BY <1>1, <1>9

\* What a document may ask for.
Allowed(v) ==
    /\ v.kind = "bind" => \E i \in DOMAIN LimitsInUse.bind_roots :
                             Beneath(LimitsInUse.bind_roots[i], v.from)
    /\ v.kind = "disk" => /\ StorageOf(v) \in LimitsInUse.storages \cup {DefaultStorage}
                          /\ v.size <= LimitsInUse.max_disk

LEMMA LimitsForKeeps ==
    LET l == LimitsFor(LimitsInUse, DefaultStorage)
    IN  /\ l.bind_roots = LimitsInUse.bind_roots /\ l.max_disk = LimitsInUse.max_disk
        /\ l.bind_roots \in Seq(HostPathTexts)
        /\ l.storages \subseteq LimitsInUse.storages \cup {DefaultStorage}
BY DocumentAssumption DEF LimitsFor, LimitRecords

LEMMA BindsBeneath ==
    ASSUME NEW l, l.bind_roots \in Seq(HostPathTexts), NEW p \in HostPathTexts,
           CheckBindPath(p, l)
    PROVE  \E i \in DOMAIN l.bind_roots : Beneath(l.bind_roots[i], p)
<1>1. PICK i \in DOMAIN l.bind_roots :
        Under(l.bind_roots[i], p) /\ \A j \in 1 .. i : CheckCleanAbsolute(l.bind_roots[j])
  BY DEF CheckBindPath
<1>2. i \in 1 .. Len(l.bind_roots) /\ l.bind_roots[i] \in HostPathTexts
  OBVIOUS
<1>3. Resolved(p) = p.segs
  BY CleanResolved DEF CheckBindPath
<1>4. CheckCleanAbsolute(l.bind_roots[i])
  BY <1>1, <1>2
<1>5. Resolved(l.bind_roots[i]) = l.bind_roots[i].segs
  BY <1>2, <1>4, CleanResolved
<1> QED
  BY <1>1, <1>3, <1>5 DEF Beneath, Under

LEMMA AcceptedAllowed ==
    ASSUME NEW v \in Definitions, Managed(v), Accepted(v, LimitsFor(LimitsInUse, DefaultStorage))
    PROVE  Allowed(VolumeOf(v))
<1> DEFINE l == LimitsFor(LimitsInUse, DefaultStorage)
           kind == KindOf(v.x)
<1>1. /\ l.bind_roots = LimitsInUse.bind_roots /\ l.max_disk = LimitsInUse.max_disk
      /\ l.bind_roots \in Seq(HostPathTexts)
      /\ l.storages \subseteq LimitsInUse.storages \cup {DefaultStorage}
  BY LimitsForKeeps
<1>2. VolumeOf(v).kind = kind
  BY DEF VolumeOf
<1> HIDE DEF l
<1>3. CASE kind = "bind"
  <2>1. v.x # Omitted /\ v.x.path # Omitted
    BY <1>3 DEF KindOf
  <2>2. v.x.path \in HostPathTexts
    BY <2>1, DocumentAssumption DEF Definitions, XPves
  <2>3. CheckBindPath(v.x.path, l)
    BY <1>3, <2>1 DEF Managed, Accepted, l
  <2>4. VolumeOf(v).from = v.x.path
    BY <1>3 DEF VolumeOf
  <2> QED
    BY <1>1, <1>2, <1>3, <2>2, <2>3, <2>4, BindsBeneath DEF Allowed
<1>4. CASE kind = "disk"
  <2>1. v.x # Omitted
    BY <1>4 DEF KindOf
  <2>2. v.x.size <= l.max_disk /\ CheckStorage(v.x.storage, l)
    BY <1>4, <2>1 DEF Managed, Accepted, l
  <2>3. /\ VolumeOf(v).from = IF v.x.storage = Omitted THEN Nowhere ELSE v.x.storage
        /\ VolumeOf(v).size = v.x.size
    BY <1>4 DEF VolumeOf
  <2> QED
    BY <1>1, <1>2, <1>4, <2>2, <2>3 DEF Allowed, CheckStorage, StorageOf
<1> QED
  BY <1>2, <1>3, <1>4 DEF Allowed

LEMMA DocumentAllowed ==
    ASSUME NEW d \in Documents, NEW j \in 1 .. Len(d)
    PROVE  Allowed(d[j])
<1>1. PICK t \in Readable(LimitsFor(LimitsInUse, DefaultStorage)) : d = VolumesOf(t)
  BY DocumentAssumption
<1>2. /\ t \in Seq(Definitions) /\ Len(t) \in Nat /\ DOMAIN t = 1 .. Len(t)
      /\ \A i \in DOMAIN t : Accepted(t[i], LimitsFor(LimitsInUse, DefaultStorage))
  BY DocumentAssumption DEF Readable
<1> DEFINE V == {VolumeOf(t[i]) : i \in {k \in 1 .. Len(t) : Managed(t[k])}}
<1>3. d \in Seq(V)
  BY <1>1, <1>2, VolumesAre
<1>4. d[j] \in V
  <2> HIDE DEF V
  <2> QED
    BY <1>3
<1>5. PICK i \in 1 .. Len(t) : Managed(t[i]) /\ d[j] = VolumeOf(t[i])
  BY <1>4
<1> QED
  BY <1>2, <1>5, AcceptedAllowed

-----------------------------------------------------------------------------
(* The limits hold of what was read and of what is there *)

LimitsInv == ConfigWithin(conf) /\ (pc = "exec" => ConfigWithin(snap))

LEMMA SameLineWithin ==
    ASSUME NEW m, NEW n, SameDisk(m, n), LineWithin(n)
    PROVE  LineWithin(m)
BY DEF SameDisk, LineWithin

LEMMA PlannedAllowed ==
    ASSUME Planned, NEW j \in 1 .. Len(vols)
    PROVE  Allowed(vols[j])
BY DocumentAllowed DEF Planned

\* With one line put, the config is within as far as that line is.
LEMMA PutWithin ==
    ASSUME PlanTypeOK, ConfigWithin(conf), NEW k \in Keys, NEW m \in Mounts,
           conf' = Attached(conf, k, m), LineWithin(m)
    PROVE  ConfigWithin(conf')
<1>1. /\ UsedKeys(conf') = UsedKeys(conf) \cup {k}
      /\ conf'.mounts[k] = m
      /\ \A l \in Keys \ {k} : conf'.mounts[l] = conf.mounts[l]
  BY UsedAfter DEF PlanTypeOK
<1>2. \A l \in UsedKeys(conf) : l \in Keys
  BY DEF UsedKeys
<1> QED
  BY <1>1, <1>2 DEF ConfigWithin

LEMMA SameMountsWithin ==
    ASSUME NEW c, NEW e, e.mounts = c.mounts, ConfigWithin(c)
    PROVE  ConfigWithin(e)
BY DEF ConfigWithin, UsedKeys

LEMMA CommandWithin ==
    ASSUME PlanInv, LimitsInv, pc = "exec", plan # NoPlan, Carry(First(plan))
    PROVE  ConfigWithin(conf')
<1>1. Effect /\ PlanTypeOK /\ Planned
  BY CommandSafe DEF PlanInv, Running
<1>2. CASE conf' \in PveConfigs /\ conf'.mounts = conf.mounts
  BY <1>2, SameMountsWithin DEF LimitsInv
<1>3. ASSUME NEW k \in Keys, NEW m \in Mounts, Puts(k, m),
             Rewrites(k, m) \/ Adds(k, m) \/ Resizes(k, m)
      PROVE  ConfigWithin(conf')
  <2>1. CASE Rewrites(k, m)
    <3>1. LineWithin(snap.mounts[k]) /\ SameDisk(m, snap.mounts[k])
      BY <2>1 DEF Rewrites, LimitsInv, ConfigWithin
    <3> QED
      BY <1>1, <1>3, <3>1, SameLineWithin, PutWithin DEF Puts, LimitsInv
  <2>2. CASE Resizes(k, m)
    <3>1. LineWithin(conf.mounts[k]) /\ SameDisk(m, conf.mounts[k])
      BY <2>2 DEF Resizes, LimitsInv, ConfigWithin
    <3> QED
      BY <1>1, <1>3, <3>1, SameLineWithin, PutWithin DEF Puts, LimitsInv
  <2>3. CASE Adds(k, m)
    <3>1. PICK j \in 1 .. Len(vols) :
            /\ vols[j].kind = IF m.bind THEN "bind" ELSE "disk"
            /\ m.from = IF m.bind THEN vols[j].from ELSE StorageOf(vols[j])
      BY <2>3 DEF Adds
    <3>2. Allowed(vols[j])
      BY <1>1, PlannedAllowed
    <3>3. LineWithin(m)
      BY <3>1, <3>2 DEF Allowed, LineWithin
    <3> QED
      BY <1>1, <1>3, <3>3, PutWithin DEF Puts, LimitsInv
  <2> QED
    BY <1>3, <2>1, <2>2, <2>3
<1> QED
  BY <1>1, <1>2, <1>3 DEF Effect

\* What a human does, at a volume's place, is to grow it or to take it away.
LEMMA HumanWithin ==
    ASSUME PlanInv, ConfigWithin(conf), NEW k \in Keys,
           HumanGrows(k) \/ HumanDetaches(k) \/ HumanAttaches(k)
    PROVE  ConfigWithin(conf')
<1>1. PlanTypeOK /\ conf \in PveConfigs /\ real \in Seq(Nat) /\ Len(real) \in Nat
  BY DEF PlanInv, PlanTypeOK
<1>2. CASE HumanGrows(k)
  <2> DEFINE line == conf.mounts[k]
  <2>1. k \in UsedKeys(conf) /\ line \in Mounts
    BY <1>1, <1>2, MountsOf DEF HumanGrows, UsedKeys
  <2>2. PICK n \in (real[line.disk] + 1) .. MaxSize : conf' = [conf EXCEPT !.mounts[k].size = n]
    BY <1>2 DEF HumanGrows
  <2>3. line.disk \in 1 .. Len(real)
    BY <1>1, <1>2, <2>1 DEF HumanGrows, PlanTypeOK, DisksKnown, LineKnown
  <2>4. n \in Nat
    BY <1>1, <2>2, <2>3, PlanAssumption
  <2> DEFINE m == [line EXCEPT !.size = n]
  <2>5. m \in Mounts /\ SameDisk(m, line)
    BY <2>1, <2>4 DEF Mounts, SameDisk
  <2>6. conf' = Attached(conf, k, m)
    BY <1>1, <2>2 DEF Attached, PveConfigs
  <2>7. LineWithin(line)
    BY <2>1 DEF ConfigWithin
  <2> HIDE DEF m
  <2>8. LineWithin(m)
    BY <2>5, <2>7, SameLineWithin
  <2> QED
    BY <1>1, <2>5, <2>6, <2>8, PutWithin
<1>3. CASE HumanDetaches(k)
  <2>1. conf'.mounts = [conf.mounts EXCEPT ![k] = NoMount]
    BY <1>1, <1>3, AttachedIs DEF HumanDetaches
  <2>2. /\ UsedKeys(conf') \subseteq UsedKeys(conf)
        /\ \A l \in UsedKeys(conf') : conf'.mounts[l] = conf.mounts[l]
    BY <1>1, <2>1 DEF UsedKeys, PveConfigs
  <2> QED
    BY <2>2 DEF ConfigWithin
<1>4. CASE HumanAttaches(k)
  <2>1. PICK s \in Storages :
          conf' = Attached(conf, k, [path |-> Elsewhere, from |-> s, size |-> MaxSize,
                                     backup |-> TRUE, bind |-> FALSE,
                                     disk |-> Len(real) + 1])
    BY <1>4 DEF HumanAttaches
  <2> DEFINE m == [path |-> Elsewhere, from |-> s, size |-> MaxSize,
                   backup |-> TRUE, bind |-> FALSE, disk |-> Len(real) + 1]
  <2>2. m \in Mounts /\ m.path = Elsewhere
    BY <1>1, PlanAssumption DEF Mounts
  <2>3. conf' = Attached(conf, k, m)
    BY <2>1
  <2> HIDE DEF m
  <2>4. LineWithin(m)
    BY <2>2 DEF LineWithin
  <2> QED
    BY <1>1, <2>2, <2>3, <2>4, PutWithin
<1> QED
  BY <1>2, <1>3, <1>4

LEMMA LimitsStep == PlanInv /\ LimitsInv /\ [Next]_vars => LimitsInv'
<1> SUFFICES ASSUME PlanInv, LimitsInv, [Next]_vars PROVE LimitsInv'
  OBVIOUS
<1>1. CASE \E d \in Documents : Start(d)
  BY <1>1 DEF Start, LimitsInv
<1>2. CASE Execute \/ Fails
  <2>1. pc = "exec" /\ plan # NoPlan /\ snap' = snap /\ (Carry(First(plan)) \/ conf' = conf)
    BY <1>2 DEF Execute, Fails
  <2> QED
    BY <2>1, CommandWithin DEF LimitsInv
<1>3. CASE Refused \/ Done
  BY <1>3 DEF Refused, Done, LimitsInv
<1>4. CASE \E k \in Keys : HumanGrows(k) \/ HumanDetaches(k) \/ HumanAttaches(k)
  <2>1. ConfigWithin(conf')
    BY <1>4, HumanWithin DEF LimitsInv
  <2>2. UNCHANGED <<snap, pc>>
    BY <1>4 DEF HumanGrows, HumanDetaches, HumanAttaches, Human
  <2> QED
    BY <2>1, <2>2 DEF LimitsInv
<1>5. CASE HumanTags
  <2>1. conf'.mounts = conf.mounts
    BY <1>5 DEF HumanTags, PlanInv, PlanTypeOK, PveConfigs
  <2>2. ConfigWithin(conf')
    BY <2>1, SameMountsWithin DEF LimitsInv
  <2>3. UNCHANGED <<snap, pc>>
    BY <1>5 DEF HumanTags, Human
  <2> QED
    BY <2>2, <2>3 DEF LimitsInv
<1>6. CASE UNCHANGED vars
  BY <1>6 DEF vars, LimitsInv
<1> QED
  BY <1>1, <1>2, <1>3, <1>4, <1>5, <1>6 DEF Next

\* No operation of a plan asks for more than a document may.
LEMMA SizesWithin ==
    ASSUME PlanInv, pc = "exec", NEW i \in DOMAIN plan, plan[i].op \in {"create", "resize"}
    PROVE  plan[i].size <= LimitsInUse.max_disk
<1>1. /\ Planned /\ snap \in PveConfigs /\ Len(vols) \in Nat
      /\ i \in 1 .. 2 * Len(vols) + 2 /\ plan[i] = OpAt(snap, vols, i) /\ plan[i] # NoOp
  BY PlanAssumption DEF PlanInv, PlanTypeOK, Running, Planned
<1>2. \/ plan[i].op = "features" \/ plan[i].op = "tag"
      \/ NewMount(snap, vols, i, plan[i])
      \/ Resizing(snap, vols, plan[i])
      \/ Flagging(snap, vols, plan[i])
  BY <1>1, OpKinds
<1>3. \E j \in 1 .. Len(vols) : vols[j].kind = "disk" /\ plan[i].size = vols[j].size
  BY <1>2 DEF NewMount, Resizing, Flagging
<1> QED
  BY <1>1, <1>3, PlannedAllowed DEF Allowed

\* The operator's limits hold of the guest's PVE config at every moment, for
\* any documents, limits and paths, and whatever fails or is changed by hand,
\* if they hold of the config that was there before (spec::volumes).
THEOREM LimitsHold ==
    ASSUME \A c \in FirstConfigs : ConfigWithin(c)
    PROVE  Spec => []WithinLimits
<1>1. Init => LimitsInv
  BY DEF Init, LimitsInv
<1>2. PlanInv /\ LimitsInv => WithinLimits
  BY SizesWithin DEF LimitsInv, WithinLimits
<1> QED
  BY <1>1, <1>2, Invariance, LimitsStep, PTL DEF Spec

-----------------------------------------------------------------------------
(* The pct half as the rest of the tool sees it                            *)

\* The volumes a config mounts are those that have a line.
LEMMA MountedAt ==
    ASSUME NEW c, NEW path \in Paths
    PROVE  path \in Mounted(c) <=> KeysAt(c, path) # {}
BY PlanAssumption DEF Mounted, KeysAt, UsedKeys

\* What an operation gives the guest, at a place of its own: the features, the
\* tag, a volume that has no line; or nothing that the guest lacked.
GivesGuest(i, o) ==
    \/ i = 1 /\ o.op = "features" /\ Gives(o) = "features"
    \/ i = 2 /\ o.op = "tag" /\ Gives(o) = "tag"

GivesVolume(c, d, i, o, j) ==
    /\ i = 2 * j + 1 /\ o.op \in {"create", "bind"}
    /\ o.path = d[j].path /\ Gives(o) = d[j].path
    /\ d[j].kind # "plain" /\ KeysAt(c, d[j].path) = {}

Rewriting(c, d, o, j) ==
    /\ o.op = "backup"
    /\ d[j].kind # "plain" /\ KeysAt(c, d[j].path) # {}
    /\ o.key = Min(KeysAt(c, d[j].path))
    /\ o.mount = [c.mounts[o.key] EXCEPT !.backup = d[j].backup]

LEMMA GivesWhat ==
    ASSUME NEW c, NEW d \in Documents, NEW i \in 1 .. 2 * Len(d) + 2,
           NEW o, o = OpAt(c, d, i), o # NoOp
    PROVE  \/ GivesGuest(i, o)
           \/ \E j \in 1 .. Len(d) : GivesVolume(c, d, i, o, j)
           \/ i > 2 /\ o.op = "resize"
           \/ i > 2 /\ \E j \in 1 .. Len(d) : Rewriting(c, d, o, j)
<1>1. Len(d) \in Nat
  BY PlanAssumption
<1>2. CASE i = 1
  <2>1. o = [op |-> "features", fuse |-> c.fuse]
    BY <1>2, GuestPlaces DEF FeaturesOp
  <2> QED
    BY <1>2, <2>1 DEF Gives, TakesIndex, GivesGuest
<1>3. CASE i = 2
  <2>1. o = [op |-> "tag", tags |-> c.tags \cup {"compose"}]
    BY <1>3, GuestPlaces DEF TagOp
  <2> QED
    BY <1>3, <2>1 DEF Gives, TakesIndex, GivesGuest
<1>4. ASSUME NEW j \in 1 .. Len(d), i = 2 * j + 1
      PROVE  (i > 2 /\ o.op = "resize") \/ GivesVolume(c, d, i, o, j)
  <2>1. o = MountOp(c, d[j]) /\ i > 2
    BY <1>1, <1>4, VolumePlaces
  <2>2. CASE KeysAt(c, d[j].path) = {}
    <3>1. \/ /\ o = [op |-> "bind", path |-> d[j].path, from |-> d[j].from]
             /\ d[j].kind = "bind"
          \/ /\ o = [op |-> "create", path |-> d[j].path, from |-> StorageOf(d[j]),
                      size |-> d[j].size, backup |-> d[j].backup]
             /\ d[j].kind = "disk"
      BY <2>1, <2>2 DEF MountOp
    <3>2. o.op \in {"create", "bind"} /\ o.path = d[j].path /\ d[j].kind # "plain"
      BY <3>1
    <3> QED
      BY <1>4, <2>2, <3>2 DEF Gives, TakesIndex, GivesVolume
  <2>3. CASE KeysAt(c, d[j].path) # {}
    <3>1. o = [op |-> "resize", key |-> Min(KeysAt(c, d[j].path)), size |-> d[j].size]
      BY <2>1, <2>3 DEF MountOp
    <3> QED
      BY <2>1, <3>1
  <2> QED
    BY <2>2, <2>3
<1>5. ASSUME NEW j \in 1 .. Len(d), i = 2 * j + 2
      PROVE  i > 2 /\ Rewriting(c, d, o, j)
  <2>1. o = BackupOp(c, d[j]) /\ i > 2
    BY <1>1, <1>5, VolumePlaces
  <2> DEFINE key == Min(KeysAt(c, d[j].path))
  <2>2. /\ d[j].kind = "disk" /\ KeysAt(c, d[j].path) # {}
        /\ o = [op |-> "backup", key |-> key,
                mount |-> [c.mounts[key] EXCEPT !.backup = d[j].backup]]
    BY <2>1 DEF BackupOp
  <2>3. /\ o.op = "backup" /\ o.key = key
        /\ o.mount = [c.mounts[key] EXCEPT !.backup = d[j].backup]
    BY <2>2
  <2> QED
    BY <2>1, <2>2, <2>3 DEF Rewriting
<1> QED
  BY <1>1, <1>2, <1>3, <1>4, <1>5, Places

\* No operation is none.
LEMMA GivesSome ==
    ASSUME NEW c \in PveConfigs, NEW d \in Documents, Buildable(c, d)
    PROVE  /\ ~c.keyed => OpAt(c, d, 1) # NoOp
           /\ TagSelector /\ "compose" \notin c.tags => OpAt(c, d, 2) # NoOp
           /\ \A j \in 1 .. Len(d) :
                 d[j].kind # "plain" /\ KeysAt(c, d[j].path) = {}
                     => OpAt(c, d, 2 * j + 1) # NoOp
<1>1. Len(d) \in Nat /\ d \in Seq(VolumeRecords)
  BY PlanAssumption
<1>2. [op |-> "features", fuse |-> c.fuse] # NoOp
  BY PlanAssumption DEF Ops, PveConfigs
<1>3. [op |-> "tag", tags |-> c.tags \cup {"compose"}] # NoOp
  <2>1. [op |-> "tag", tags |-> c.tags \cup {"compose"}]
          \in [op : {"tag"}, tags : SUBSET {"compose", "mine"}]
    BY DEF PveConfigs
  <2> QED
    BY <2>1, PlanAssumption DEF Ops
<1>4. ASSUME NEW j \in 1 .. Len(d), d[j].kind # "plain", KeysAt(c, d[j].path) = {}
      PROVE  OpAt(c, d, 2 * j + 1) # NoOp
  <2> DEFINE v == d[j]
  <2>1. v \in VolumeRecords /\ OpAt(c, d, 2 * j + 1) = MountOp(c, v)
    BY <1>1, VolumePlaces
  <2>2. CASE v.kind = "bind"
    <3>1. v.from \in Storages \cup HostPaths /\ v.path \in Paths
      BY <1>1, <2>1, <2>2, PlanAssumption DEF VolumeRecords
    <3>2. MountOp(c, v) = [op |-> "bind", path |-> v.path, from |-> v.from]
      BY <1>4, <2>2 DEF MountOp
    <3>3. MountOp(c, v) \in [op : {"bind"}, path : Paths, from : Storages \cup HostPaths]
      BY <3>1, <3>2
    <3> QED
      BY <2>1, <3>3, PlanAssumption DEF Ops
  <2>3. CASE v.kind = "disk"
    <3>1. /\ StorageOf(v) \in Storages \cup HostPaths /\ v.path \in Paths
          /\ v.size \in Nat /\ v.backup \in BOOLEAN
      BY <2>1, <2>3, PlanAssumption DEF VolumeRecords, StorageOf, Buildable
    <3>2. MountOp(c, v) = [op |-> "create", path |-> v.path, from |-> StorageOf(v),
                           size |-> v.size, backup |-> v.backup]
      BY <1>4, <2>3 DEF MountOp
    <3>3. MountOp(c, v) \in [op : {"create"}, path : Paths, from : Storages \cup HostPaths,
                             size : Nat, backup : BOOLEAN]
      BY <3>1, <3>2
    <3> QED
      BY <2>1, <3>3, PlanAssumption DEF Ops
  <2> QED
    BY <1>4, <2>1, <2>2, <2>3 DEF VolumeRecords
<1>5. OpAt(c, d, 1) = FeaturesOp(c) /\ OpAt(c, d, 2) = TagOp(c)
  BY GuestPlaces
<1>6. /\ ~c.keyed => FeaturesOp(c) = [op |-> "features", fuse |-> c.fuse]
      /\ TagSelector /\ "compose" \notin c.tags
            => TagOp(c) = [op |-> "tag", tags |-> c.tags \cup {"compose"}]
  BY DEF FeaturesOp, TagOp
<1> QED
  BY <1>2, <1>3, <1>4, <1>5, <1>6

\* plan::build asks for what the guest lacks of the document, and no more.
LEMMA BuildLacks ==
    ASSUME NEW c \in PveConfigs, NEW d \in Documents, Buildable(c, d)
    PROVE  Lacking(Build(c, d)) = Half!Missing(Given(c), Wanted(d))
<1> DEFINE p == Build(c, d)
<1>1. Len(d) \in Nat /\ d \in Seq(VolumeRecords)
  BY PlanAssumption
<1>2. /\ DOMAIN p = {i \in 1 .. 2 * Len(d) + 2 : OpAt(c, d, i) # NoOp}
      /\ \A i \in DOMAIN p : p[i] = OpAt(c, d, i)
  BY DEF Build
<1>3. /\ 1 \in 1 .. 2 * Len(d) + 2 /\ 2 \in 1 .. 2 * Len(d) + 2
      /\ \A j \in 1 .. Len(d) : 2 * j + 1 \in 1 .. 2 * Len(d) + 2 /\ d[j].path \in Paths
  <2>1. \A j \in 1 .. Len(d) : d[j] \in VolumeRecords
    BY <1>1
  <2> QED
    BY <1>1, <2>1 DEF VolumeRecords
<1>4. /\ Given(c).features <=> c.keyed
      /\ Given(c).tag <=> "compose" \in c.tags
      /\ Given(c).mounts = Mounted(c)
  BY DEF Given, PveConfigs
<1>5. ASSUME NEW x \in Lacking(p)
      PROVE  x \in Half!Missing(Given(c), Wanted(d))
  <2>1. PICK i \in DOMAIN p : p[i].op \notin {"resize", "backup"} /\ x = Gives(p[i])
    BY DEF Lacking
  <2>2. p[i] = OpAt(c, d, i) /\ p[i] # NoOp /\ i \in 1 .. 2 * Len(d) + 2
    BY <1>2, <2>1
  <2>3. CASE i = 1 /\ x = "features"
    <3>1. ~c.keyed
      BY <2>2, <2>3, GuestPlaces DEF FeaturesOp
    <3> QED
      BY <1>4, <2>3, <3>1 DEF Half!Missing
  <2>4. CASE i = 2 /\ x = "tag"
    <3>1. TagSelector /\ "compose" \notin c.tags
      BY <2>2, <2>4, GuestPlaces DEF TagOp
    <3> QED
      BY <1>4, <2>4, <3>1 DEF Half!Missing
  <2>5. ASSUME NEW j \in 1 .. Len(d), GivesVolume(c, d, i, p[i], j)
        PROVE  x \in Half!Missing(Given(c), Wanted(d))
    <3>1. x = d[j].path /\ x \in Wanted(d) /\ KeysAt(c, x) = {} /\ x \in Paths
      BY <1>3, <2>1, <2>5 DEF GivesVolume, Wanted
    <3>2. x \notin Mounted(c)
      BY <3>1, MountedAt
    <3> QED
      BY <1>4, <3>1, <3>2 DEF Half!Missing
  <2>6. \/ GivesGuest(i, p[i])
        \/ \E j \in 1 .. Len(d) : GivesVolume(c, d, i, p[i], j)
        \/ \E j \in 1 .. Len(d) : Rewriting(c, d, p[i], j)
    BY <2>1, <2>2, GivesWhat
  <2>7. \A j \in 1 .. Len(d) : ~Rewriting(c, d, p[i], j)
    BY <2>1 DEF Rewriting
  <2> QED
    BY <2>1, <2>3, <2>4, <2>5, <2>6, <2>7 DEF GivesGuest
<1>6. ASSUME NEW x \in Half!Missing(Given(c), Wanted(d))
      PROVE  x \in Lacking(p)
  <2>1. \/ x = "features" /\ ~c.keyed
        \/ x = "tag" /\ TagSelector /\ "compose" \notin c.tags
        \/ x \in Wanted(d) /\ x \notin Mounted(c)
    BY <1>4 DEF Half!Missing
  <2>2. ASSUME NEW i \in 1 .. 2 * Len(d) + 2, OpAt(c, d, i) # NoOp,
               OpAt(c, d, i).op \notin {"resize", "backup"}, Gives(OpAt(c, d, i)) = x
        PROVE  x \in Lacking(p)
    <3>1. i \in DOMAIN p /\ p[i] = OpAt(c, d, i)
      BY <1>2, <2>2
    <3> HIDE DEF p
    <3> QED
      BY <2>2, <3>1 DEF Lacking
  <2>3. CASE x = "features" /\ ~c.keyed
    <3>1. OpAt(c, d, 1) # NoOp
      BY <2>3, GivesSome
    <3>2. OpAt(c, d, 1) = [op |-> "features", fuse |-> c.fuse]
      BY <2>3, GuestPlaces DEF FeaturesOp
    <3>3. OpAt(c, d, 1).op = "features" /\ Gives(OpAt(c, d, 1)) = "features"
      BY <3>2 DEF Gives, TakesIndex
    <3> QED
      BY <1>3, <2>2, <2>3, <3>1, <3>3
  <2>4. CASE x = "tag" /\ TagSelector /\ "compose" \notin c.tags
    <3>1. OpAt(c, d, 2) # NoOp
      BY <2>4, GivesSome
    <3>2. OpAt(c, d, 2) = [op |-> "tag", tags |-> c.tags \cup {"compose"}]
      BY <2>4, GuestPlaces DEF TagOp
    <3>3. OpAt(c, d, 2).op = "tag" /\ Gives(OpAt(c, d, 2)) = "tag"
      BY <3>2 DEF Gives, TakesIndex
    <3> QED
      BY <1>3, <2>2, <2>4, <3>1, <3>3
  <2>5. CASE x \in Wanted(d) /\ x \notin Mounted(c)
    <3>1. PICK j \in 1 .. Len(d) : x = d[j].path /\ d[j].kind # "plain"
      BY <2>5 DEF Wanted
    <3>2. KeysAt(c, d[j].path) = {}
      BY <1>3, <2>5, <3>1, MountedAt
    <3>3. OpAt(c, d, 2 * j + 1) # NoOp
      BY <3>1, <3>2, GivesSome
    <3>4. /\ OpAt(c, d, 2 * j + 1) = MountOp(c, d[j])
          /\ \/ MountOp(c, d[j]) = [op |-> "bind", path |-> d[j].path, from |-> d[j].from]
             \/ MountOp(c, d[j]) = [op |-> "create", path |-> d[j].path,
                                    from |-> StorageOf(d[j]), size |-> d[j].size,
                                    backup |-> d[j].backup]
             \/ MountOp(c, d[j]) = NoOp
      BY <1>1, <3>2, VolumePlaces DEF MountOp
    <3>5. /\ OpAt(c, d, 2 * j + 1).op \in {"create", "bind"}
          /\ OpAt(c, d, 2 * j + 1).path = d[j].path
      BY <3>3, <3>4
    <3>6. Gives(OpAt(c, d, 2 * j + 1)) = x
      BY <3>1, <3>5 DEF Gives, TakesIndex
    <3> QED
      BY <1>3, <2>2, <3>3, <3>5, <3>6
  <2> QED
    BY <2>1, <2>3, <2>4, <2>5
<1> QED
  BY <1>5, <1>6

\* No two operations of a plan give the same.
LEMMA GivesOnce ==
    ASSUME Planned, NEW i \in DOMAIN plan, NEW l \in DOMAIN plan, i # l,
           plan[i].op \notin {"resize", "backup"}, plan[l].op \notin {"resize", "backup"}
    PROVE  Gives(plan[i]) # Gives(plan[l])
<1>1. /\ plan[i] = OpAt(snap, vols, i) /\ plan[i] # NoOp /\ i \in 1 .. 2 * Len(vols) + 2
      /\ plan[l] = OpAt(snap, vols, l) /\ plan[l] # NoOp /\ l \in 1 .. 2 * Len(vols) + 2
      /\ vols \in Documents
  BY DEF Planned
<1>2. \A j \in 1 .. Len(vols) :
         ~Rewriting(snap, vols, plan[i], j) /\ ~Rewriting(snap, vols, plan[l], j)
  BY DEF Rewriting
<1>3. \/ GivesGuest(i, plan[i])
      \/ \E j \in 1 .. Len(vols) : GivesVolume(snap, vols, i, plan[i], j)
  BY <1>1, <1>2, GivesWhat
<1>4. \/ GivesGuest(l, plan[l])
      \/ \E j \in 1 .. Len(vols) : GivesVolume(snap, vols, l, plan[l], j)
  BY <1>1, <1>2, GivesWhat
<1>5. \A j \in 1 .. Len(vols) :
        /\ vols[j].path \notin {"features", "tag"}
        /\ \A n \in 1 .. Len(vols) : vols[n].path = vols[j].path => n = j
  BY DocumentTypes, PlanAssumption DEF VolumeRecords
<1>6. CASE GivesGuest(i, plan[i]) /\ GivesGuest(l, plan[l])
  BY <1>6 DEF GivesGuest
<1>7. ASSUME NEW j \in 1 .. Len(vols), GivesVolume(snap, vols, i, plan[i], j)
      PROVE  Gives(plan[i]) # Gives(plan[l])
  BY <1>4, <1>5, <1>7 DEF GivesGuest, GivesVolume
<1>8. ASSUME NEW j \in 1 .. Len(vols), GivesVolume(snap, vols, l, plan[l], j)
      PROVE  Gives(plan[i]) # Gives(plan[l])
  BY <1>3, <1>5, <1>8 DEF GivesGuest, GivesVolume
<1> QED
  BY <1>3, <1>4, <1>6, <1>7, <1>8

\* What is left of a plan gives what it gave, but for what the first gives.
LEMMA RestLacks ==
    ASSUME Planned, plan # NoPlan
    PROVE  /\ First(plan).op \in {"resize", "backup"} => Lacking(Rest(plan)) = Lacking(plan)
           /\ First(plan).op \notin {"resize", "backup"} =>
                 /\ Gives(First(plan)) \in Lacking(plan)
                 /\ Lacking(Rest(plan)) = Lacking(plan) \ {Gives(First(plan))}
<1> DEFINE f == Place(plan)
<1>1. f \in DOMAIN plan /\ First(plan) = plan[f]
  BY FirstIs DEF First
<1>2. /\ DOMAIN Rest(plan) = DOMAIN plan \ {f}
      /\ \A i \in DOMAIN plan \ {f} : Rest(plan)[i] = plan[i]
  BY DEF Rest
<1>3. \A i \in DOMAIN plan :
        i # f /\ plan[i].op \notin {"resize", "backup"} /\ plan[f].op \notin {"resize", "backup"}
          => Gives(plan[i]) # Gives(plan[f])
  BY <1>1, GivesOnce
<1> HIDE DEF f
<1>4. CASE plan[f].op \in {"resize", "backup"}
  <2>1. {i \in DOMAIN Rest(plan) : Rest(plan)[i].op \notin {"resize", "backup"}}
          = {i \in DOMAIN plan : plan[i].op \notin {"resize", "backup"}}
    BY <1>1, <1>2, <1>4
  <2>2. Lacking(Rest(plan)) = Lacking(plan)
    BY <1>1, <1>2, <1>4, <2>1 DEF Lacking
  <2> QED
    BY <1>1, <1>4, <2>2
<1>5. CASE plan[f].op \notin {"resize", "backup"}
  <2>1. Gives(plan[f]) \in Lacking(plan)
    BY <1>1, <1>5 DEF Lacking
  <2>2. ASSUME NEW x \in Lacking(Rest(plan)) PROVE x \in Lacking(plan) \ {Gives(plan[f])}
    <3>1. PICK i \in DOMAIN Rest(plan) :
            Rest(plan)[i].op \notin {"resize", "backup"} /\ x = Gives(Rest(plan)[i])
      BY DEF Lacking
    <3>2. i \in DOMAIN plan /\ i # f /\ Rest(plan)[i] = plan[i]
      BY <1>2, <3>1
    <3> QED
      BY <1>3, <1>5, <3>1, <3>2 DEF Lacking
  <2>3. ASSUME NEW x \in Lacking(plan) \ {Gives(plan[f])} PROVE x \in Lacking(Rest(plan))
    <3>1. PICK i \in DOMAIN plan :
            plan[i].op \notin {"resize", "backup"} /\ x = Gives(plan[i])
      BY DEF Lacking
    <3>2. i \in DOMAIN Rest(plan) /\ Rest(plan)[i] = plan[i]
      BY <1>2, <2>3, <3>1
    <3> QED
      BY <3>1, <3>2 DEF Lacking
  <2> QED
    BY <1>1, <1>5, <2>1, <2>2, <2>3
<1> QED
  BY <1>4, <1>5

\* The first operation has its turn: the features, then the tag, then the
\* volumes.
LEMMA FirstsTurn ==
    ASSUME Planned, plan # NoPlan
    PROVE  /\ First(plan).op \notin {"resize", "backup"} =>
                 Gives(First(plan)) \in Half!Turn(Lacking(plan))
           /\ Place(plan) > 2 => Lacking(plan) \subseteq Paths
           /\ Lacking(plan) \subseteq {"features", "tag"} \cup Paths
<1> DEFINE f == Place(plan)
<1>1. f \in DOMAIN plan /\ First(plan) = plan[f] /\ f \in 1 .. 2 * Len(vols) + 2
  BY FirstIs DEF First
<1>2. vols \in Documents /\ Len(vols) \in Nat
  BY PlanAssumption DEF Planned
<1>3. \A i \in DOMAIN plan : i \in Nat /\ i >= f
  <2>1. DOMAIN plan \in SUBSET Nat /\ DOMAIN plan # {}
    BY <1>1, <1>2 DEF Planned
  <2> QED
    BY <2>1, LeastIsIn DEF Place
<1> HIDE DEF f
<1>4. ASSUME NEW x \in Lacking(plan)
      PROVE  \/ x = "features" /\ f = 1
             \/ x = "tag" /\ f \in {1, 2}
             \/ x \in Paths
  <2>1. PICK i \in DOMAIN plan : plan[i].op \notin {"resize", "backup"} /\ x = Gives(plan[i])
    BY DEF Lacking
  <2>2. /\ plan[i] = OpAt(snap, vols, i) /\ plan[i] # NoOp
        /\ i \in 1 .. 2 * Len(vols) + 2
    BY DEF Planned
  <2>3. \A j \in 1 .. Len(vols) : ~Rewriting(snap, vols, plan[i], j)
    BY <2>1 DEF Rewriting
  <2>4. \/ GivesGuest(i, plan[i])
        \/ \E j \in 1 .. Len(vols) : GivesVolume(snap, vols, i, plan[i], j)
    BY <1>2, <2>1, <2>2, <2>3, GivesWhat
  <2>5. CASE GivesGuest(i, plan[i])
    BY <1>1, <1>3, <2>1, <2>5 DEF GivesGuest
  <2>6. ASSUME NEW j \in 1 .. Len(vols), GivesVolume(snap, vols, i, plan[i], j)
        PROVE  x \in Paths
    BY <2>1, <2>6, DocumentTypes DEF GivesVolume, VolumeRecords
  <2> QED
    BY <2>4, <2>5, <2>6
<1>5. f > 2 => Lacking(plan) \subseteq Paths
  BY <1>4
<1>6. ASSUME plan[f].op \notin {"resize", "backup"}
      PROVE  Gives(plan[f]) \in Half!Turn(Lacking(plan))
  <2>1. Gives(plan[f]) \in Lacking(plan)
    BY <1>1, <1>6, RestLacks
  <2>2. /\ plan[f] = OpAt(snap, vols, f) /\ plan[f] # NoOp
        /\ \A j \in 1 .. Len(vols) : ~Rewriting(snap, vols, plan[f], j)
    BY <1>1, <1>6 DEF Planned, Rewriting
  <2>3. \/ GivesGuest(f, plan[f])
        \/ \E j \in 1 .. Len(vols) : GivesVolume(snap, vols, f, plan[f], j)
    BY <1>1, <1>2, <1>6, <2>2, GivesWhat
  <2>4. CASE GivesGuest(f, plan[f])
    BY <1>4, <2>1, <2>4, PlanAssumption DEF GivesGuest, Half!Turn
  <2>5. ASSUME NEW j \in 1 .. Len(vols), GivesVolume(snap, vols, f, plan[f], j)
        PROVE  Gives(plan[f]) \in Half!Turn(Lacking(plan))
    <3>1. f > 2
      BY <1>2, <2>5 DEF GivesVolume
    <3>2. "features" \notin Lacking(plan) /\ "tag" \notin Lacking(plan)
      BY <1>5, <3>1, PlanAssumption
    <3> QED
      BY <2>1, <3>2 DEF Half!Turn
  <2> QED
    BY <2>3, <2>4, <2>5
<1>7. Lacking(plan) \subseteq {"features", "tag"} \cup Paths
  BY <1>4
<1> QED
  BY <1>1, <1>5, <1>6, <1>7 DEF f

\* The line that is put where one is in use is at the same path, or takes the
\* index of a human's own.
LEMMA SamePlace ==
    ASSUME PlanInv, pc = "exec", plan # NoPlan,
           NEW k \in UsedKeys(conf), NEW m \in Mounts,
           Rewrites(k, m) \/ Adds(k, m) \/ Resizes(k, m)
    PROVE  conf.mounts[k].path \in {m.path, Elsewhere}
<1>1. Known(k)
  BY DEF PlanInv, Running
<1>2. CASE Rewrites(k, m)
  BY <1>1, <1>2 DEF Known, Added, Rewrites, SameDisk
<1>3. CASE Adds(k, m)
  <2>1. k \notin UsedKeys(snap) /\ k >= next /\ k \in Nat /\ next \in Nat
    BY <1>3, FreshIndex, PlanAssumption DEF Adds, PlanInv, PlanTypeOK
  <2> QED
    BY <1>1, <2>1 DEF Known, Added
<1> QED
  BY <1>2, <1>3 DEF Resizes, SameDisk

LEMMA PutMounts ==
    ASSUME PlanInv, pc = "exec", plan # NoPlan, NEW k \in Keys, NEW m \in Mounts,
           Rewrites(k, m) \/ Adds(k, m) \/ Resizes(k, m), conf' = Attached(conf, k, m)
    PROVE  /\ Mounted(conf') = Mounted(conf) \cup ({m.path} \ {Elsewhere})
           /\ conf'.keyed = conf.keyed /\ conf'.tags = conf.tags
<1>1. conf \in PveConfigs
  BY DEF PlanInv, PlanTypeOK
<1>2. /\ UsedKeys(conf') = UsedKeys(conf) \cup {k}
      /\ conf'.mounts[k] = m
      /\ \A l \in Keys \ {k} : conf'.mounts[l] = conf.mounts[l]
  BY <1>1, UsedAfter
<1>3. k \in UsedKeys(conf) => conf.mounts[k].path \in {m.path, Elsewhere}
  BY SamePlace
<1>4. \A l \in UsedKeys(conf) : l \in Keys
  BY DEF UsedKeys
<1>5. ASSUME NEW x \in Mounted(conf') PROVE x \in Mounted(conf) \cup ({m.path} \ {Elsewhere})
  <2>1. PICK l \in UsedKeys(conf') : x = conf'.mounts[l].path /\ x # Elsewhere
    BY DEF Mounted
  <2>2. CASE l = k
    BY <1>2, <2>1, <2>2
  <2>3. CASE l # k
    <3>1. l \in UsedKeys(conf) /\ conf.mounts[l].path = x
      BY <1>2, <1>4, <2>1, <2>3
    <3> QED
      BY <2>1, <3>1 DEF Mounted
  <2> QED
    BY <2>2, <2>3
<1>6. ASSUME NEW x \in Mounted(conf) PROVE x \in Mounted(conf')
  <2>1. PICK l \in UsedKeys(conf) : x = conf.mounts[l].path /\ x # Elsewhere
    BY DEF Mounted
  <2>2. l \in UsedKeys(conf') /\ conf'.mounts[l].path = x
    BY <1>2, <1>3, <1>4, <2>1
  <2> QED
    BY <2>1, <2>2 DEF Mounted
<1>7. m.path # Elsewhere => m.path \in Mounted(conf')
  BY <1>2 DEF Mounted
<1>8. conf'.keyed = conf.keyed /\ conf'.tags = conf.tags
  BY <1>1 DEF Attached, PveConfigs
<1> QED
  BY <1>5, <1>6, <1>7, <1>8

\* One command gives what its operation is for, mounts a line again that was
\* there when the config was read, or gives nothing.
LEMMA CommandGives ==
    ASSUME PlanInv, pc = "exec", plan # NoPlan, Carry(First(plan))
    PROVE  \/ First(plan).op = "resize" /\ Given(conf') = Given(conf)
           \/ /\ First(plan).op = "backup" /\ Place(plan) > 2
              /\ \E v \in Wanted(vols) \ Lacking(plan) :
                    v \in Paths /\ Given(conf') = Half!After(Given(conf), v)
           \/ /\ First(plan).op \notin {"resize", "backup"}
              /\ Given(conf') = Half!After(Given(conf), Gives(First(plan)))
<1> DEFINE o == First(plan)
           i == Place(plan)
           w == Given(conf)
           tagged == "compose" \in conf.tags
<1>1. /\ Planned /\ conf \in PveConfigs /\ snap \in PveConfigs /\ vols \in Documents
      /\ Len(vols) \in Nat /\ PlanTypeOK
  BY PlanAssumption DEF PlanInv, PlanTypeOK, Running, Planned
<1>2. /\ i \in DOMAIN plan /\ i \in 1 .. 2 * Len(vols) + 2
      /\ o = OpAt(snap, vols, i) /\ o # NoOp
  BY <1>1, FirstIs
<1>3. w = [features |-> conf.keyed, tag |-> tagged, mounts |-> Mounted(conf)]
  BY DEF Given
<1> HIDE DEF o, i, tagged, w
<1>4. CASE o.op = "features" /\ Gives(o) = "features"
  <2>1. conf' = [conf EXCEPT !.keyed = TRUE, !.fuse = o.fuse]
    BY <1>4 DEF Carry, Set, o
  <2>2. /\ conf'.keyed = TRUE /\ conf'.tags = conf.tags /\ conf'.mounts = conf.mounts
    BY <1>1, <2>1 DEF PveConfigs
  <2>3. Mounted(conf') = Mounted(conf)
    BY <2>2 DEF Mounted, UsedKeys
  <2>4. Given(conf') = [features |-> TRUE, tag |-> tagged, mounts |-> Mounted(conf)]
    BY <2>2, <2>3 DEF Given, tagged
  <2>5. Half!After(w, "features") = [features |-> TRUE, tag |-> tagged,
                                     mounts |-> Mounted(conf)]
    BY <1>3 DEF Half!After
  <2>6. Given(conf') = Half!After(w, Gives(o))
    BY <1>4, <2>4, <2>5
  <2> QED
    BY <1>4, <2>6 DEF o, w
<1>5. CASE o.op = "tag" /\ Gives(o) = "tag" /\ i = 2
  <2>1. o.tags = snap.tags \cup {"compose"}
    BY <1>2, <1>5, GuestPlaces DEF TagOp
  <2>2. conf' = [conf EXCEPT !.tags = o.tags]
    BY <1>5 DEF Carry, Set, o
  <2>3. /\ conf'.keyed = conf.keyed /\ "compose" \in conf'.tags
        /\ conf'.mounts = conf.mounts
    BY <1>1, <2>1, <2>2 DEF PveConfigs
  <2>4. Mounted(conf') = Mounted(conf)
    BY <2>3 DEF Mounted, UsedKeys
  <2>5. Given(conf') = [features |-> conf.keyed, tag |-> TRUE, mounts |-> Mounted(conf)]
    BY <2>3, <2>4 DEF Given
  <2>6. Half!After(w, "tag") = [features |-> conf.keyed, tag |-> TRUE,
                                mounts |-> Mounted(conf)]
    BY <1>3 DEF Half!After
  <2>7. Given(conf') = Half!After(w, Gives(o))
    BY <1>5, <2>5, <2>6
  <2> QED
    BY <1>5, <2>7 DEF o, w
<1>6. ASSUME NEW k \in Keys, NEW m \in Mounts, conf' = Attached(conf, k, m), m.path \in Paths,
             Rewrites(k, m) \/ Adds(k, m) \/ Resizes(k, m)
      PROVE  Given(conf') = Half!After(w, m.path)
  <2>1. /\ Mounted(conf') = Mounted(conf) \cup {m.path}
        /\ conf'.keyed = conf.keyed /\ conf'.tags = conf.tags
    BY <1>6, PutMounts, PlanAssumption
  <2>2. Given(conf') = [features |-> conf.keyed, tag |-> tagged,
                        mounts |-> Mounted(conf) \cup {m.path}]
    BY <2>1 DEF Given, tagged
  <2>3. Half!After(w, m.path) = [w EXCEPT !.mounts = @ \cup {m.path}]
    BY <1>6, PlanAssumption DEF Half!After
  <2> QED
    BY <1>3, <2>2, <2>3
<1>7. ASSUME NEW j \in 1 .. Len(vols), GivesVolume(snap, vols, i, o, j)
      PROVE  Given(conf') = Half!After(w, Gives(o)) /\ o.op \notin {"resize", "backup"}
  <2>1. /\ i = 2 * j + 1 /\ o.op \in {"create", "bind"} /\ o.path = vols[j].path
        /\ Gives(o) = vols[j].path /\ KeysAt(snap, vols[j].path) = {}
    BY <1>7 DEF GivesVolume
  <2>2. o.op \notin {"features", "tag", "resize", "backup"}
    BY <2>1
  <2>3. NewMount(snap, vols, i, o) /\ vols[j].path \in Paths
    <3>1. ~Resizing(snap, vols, o) /\ ~Flagging(snap, vols, o)
      BY <2>2 DEF Resizing, Flagging
    <3>2. NewMount(snap, vols, i, o)
      BY <1>1, <1>2, <2>2, <3>1, OpKinds
    <3> QED
      BY <1>1, <3>2, DocumentTypes DEF VolumeRecords
  <2>4. PICK k \in Keys, m \in Mounts : Puts(k, m) /\ Adds(k, m)
    BY <1>1, <2>3, NewMountEffect DEF o, i
  <2>5. m.path = vols[j].path
    BY <1>1, <2>1, <2>4 DEF Adds, i
  <2>6. conf' = Attached(conf, k, m)
    BY <2>4 DEF Puts
  <2> QED
    BY <1>6, <2>1, <2>2, <2>3, <2>4, <2>5, <2>6
<1>8. ASSUME o.op = "resize"
      PROVE  Given(conf') = Given(conf)
  <2>1. o.key \in Keys /\ o.size \in Nat
    <3>1. ~NewMount(snap, vols, i, o) /\ ~Flagging(snap, vols, o)
      BY <1>8 DEF NewMount, Flagging
    <3>2. Resizing(snap, vols, o)
      BY <1>1, <1>2, <1>8, <3>1, OpKinds
    <3>3. PICK j \in 1 .. Len(vols) : o.size = vols[j].size /\ o.key \in UsedKeys(snap)
      BY <3>2 DEF Resizing
    <3> QED
      BY <1>1, <3>3, DocumentTypes DEF UsedKeys, VolumeRecords
  <2>2. PICK m \in Mounts : Puts(o.key, m) /\ Resizes(o.key, m)
    BY <1>1, <1>8, <2>1, ResizeEffect DEF o
  <2>3. conf' = Attached(conf, o.key, m) /\ o.key \in UsedKeys(conf)
        /\ m.path = conf.mounts[o.key].path
    BY <2>2 DEF Puts, Resizes, SameDisk
  <2>4. /\ Mounted(conf') = Mounted(conf) \cup ({m.path} \ {Elsewhere})
        /\ conf'.keyed = conf.keyed /\ conf'.tags = conf.tags
    BY <2>1, <2>2, <2>3, PutMounts
  <2>5. Mounted(conf') = Mounted(conf)
    BY <2>3, <2>4 DEF Mounted
  <2> QED
    BY <2>4, <2>5 DEF Given
<1>9. ASSUME NEW j \in 1 .. Len(vols), Rewriting(snap, vols, o, j), i > 2
      PROVE  \E v \in Wanted(vols) \ Lacking(plan) :
                v \in Paths /\ Given(conf') = Half!After(w, v)
  <2> DEFINE v == vols[j].path
  <2>1. /\ o.op = "backup" /\ vols[j].kind # "plain" /\ KeysAt(snap, v) # {}
        /\ o.key = Min(KeysAt(snap, v))
        /\ o.mount = [snap.mounts[o.key] EXCEPT !.backup = vols[j].backup]
    BY <1>9 DEF Rewriting
  <2>2. v \in Paths /\ v \in Wanted(vols)
    BY <1>1, <2>1, DocumentTypes DEF Wanted, VolumeRecords
  <2>3. o.key \in UsedKeys(snap) /\ snap.mounts[o.key].path = v
    BY <2>1, MountAt
  <2>4. o.mount.path = v
    <3>1. snap.mounts[o.key] \in Mounts
      BY <1>1, <2>3, MountsOf
    <3> QED
      BY <2>1, <2>3, <3>1 DEF Mounts
  <2>5. Flagging(snap, vols, o) /\ DisksKnown(snap, real)
    <3>1. ~NewMount(snap, vols, i, o) /\ ~Resizing(snap, vols, o)
      BY <2>1 DEF NewMount, Resizing
    <3> QED
      BY <1>1, <1>2, <2>1, <3>1, OpKinds DEF PlanInv, Running
  <2>6. /\ o.key \in Keys /\ o.mount \in Mounts
        /\ Puts(o.key, o.mount) /\ Rewrites(o.key, o.mount)
    BY <1>1, <2>5, FlagEffect DEF o
  <2>7. Given(conf') = Half!After(w, v)
    BY <1>6, <2>2, <2>4, <2>6 DEF Puts
  <2>8. v \notin Lacking(plan)
    <3>1. ASSUME v \in Lacking(plan) PROVE FALSE
      <4>1. PICK l \in DOMAIN plan :
              plan[l].op \notin {"resize", "backup"} /\ v = Gives(plan[l])
        BY <3>1 DEF Lacking
      <4>2. /\ plan[l] = OpAt(snap, vols, l) /\ plan[l] # NoOp
            /\ l \in 1 .. 2 * Len(vols) + 2
            /\ \A n \in 1 .. Len(vols) : ~Rewriting(snap, vols, plan[l], n)
        BY <1>1, <4>1 DEF Planned, Rewriting
      <4>3. \/ GivesGuest(l, plan[l])
            \/ \E n \in 1 .. Len(vols) : GivesVolume(snap, vols, l, plan[l], n)
        BY <1>1, <4>1, <4>2, GivesWhat
      <4> QED
        BY <2>1, <2>2, <4>1, <4>3, PlanAssumption DEF GivesGuest, GivesVolume
    <3> QED
      BY <3>1
  <2> QED
    BY <2>2, <2>7, <2>8
<1>10. \/ GivesGuest(i, o)
       \/ \E j \in 1 .. Len(vols) : GivesVolume(snap, vols, i, o, j)
       \/ i > 2 /\ o.op = "resize"
       \/ i > 2 /\ \E j \in 1 .. Len(vols) : Rewriting(snap, vols, o, j)
  BY <1>1, <1>2, GivesWhat
<1>11. CASE GivesGuest(i, o)
  BY <1>4, <1>5, <1>11 DEF GivesGuest
<1>12. CASE \E j \in 1 .. Len(vols) : GivesVolume(snap, vols, i, o, j)
  BY <1>7, <1>12 DEF o, w
<1>13. CASE i > 2 /\ o.op = "resize"
  BY <1>8, <1>13 DEF o
<1>14. CASE i > 2 /\ \E j \in 1 .. Len(vols) : Rewriting(snap, vols, o, j)
  BY <1>9, <1>14 DEF Rewriting, o, i, w
<1> QED
  BY <1>10, <1>11, <1>12, <1>13, <1>14

\* The same, as the abstract half sees it.
LEMMA CommandsTurn ==
    ASSUME PlanInv, pc = "exec", plan # NoPlan, Carry(First(plan))
    PROVE  \/ First(plan).op = "resize" /\ Given(conf') = Given(conf)
           \/ \E x \in {"features", "tag"} \cup Paths :
                 /\ x \in Half!Turn(Lacking(plan)) \cup Half!Rewritable
                 /\ Given(conf') = Half!After(Given(conf), x)
                 /\ Lacking(Rest(plan)) = Lacking(plan) \ {x}
<1>1. Planned
  BY DEF PlanInv, Running
<1>2. ASSUME First(plan).op = "backup", Place(plan) > 2,
             NEW v \in Wanted(vols) \ Lacking(plan), v \in Paths,
             Given(conf') = Half!After(Given(conf), v)
      PROVE  \E x \in {"features", "tag"} \cup Paths :
                 /\ x \in Half!Turn(Lacking(plan)) \cup Half!Rewritable
                 /\ Given(conf') = Half!After(Given(conf), x)
                 /\ Lacking(Rest(plan)) = Lacking(plan) \ {x}
  <2>1. Lacking(plan) \subseteq Paths
    BY <1>1, <1>2, FirstsTurn
  <2>2. v \in Half!Rewritable
    BY <1>2, <2>1 DEF Half!Rewritable
  <2>3. Lacking(Rest(plan)) = Lacking(plan)
    BY <1>1, <1>2, RestLacks
  <2>4. Lacking(Rest(plan)) = Lacking(plan) \ {v}
    BY <1>2, <2>3
  <2> QED
    BY <1>2, <2>2, <2>4
<1>3. ASSUME First(plan).op \notin {"resize", "backup"},
             Given(conf') = Half!After(Given(conf), Gives(First(plan)))
      PROVE  \E x \in {"features", "tag"} \cup Paths :
                 /\ x \in Half!Turn(Lacking(plan)) \cup Half!Rewritable
                 /\ Given(conf') = Half!After(Given(conf), x)
                 /\ Lacking(Rest(plan)) = Lacking(plan) \ {x}
  <2>1. /\ Gives(First(plan)) \in Half!Turn(Lacking(plan))
        /\ Lacking(plan) \subseteq {"features", "tag"} \cup Paths
    BY <1>1, <1>3, FirstsTurn
  <2>2. /\ Gives(First(plan)) \in Lacking(plan)
        /\ Lacking(Rest(plan)) = Lacking(plan) \ {Gives(First(plan))}
    BY <1>1, <1>3, RestLacks
  <2> QED
    BY <1>3, <2>1, <2>2
<1> QED
  BY <1>2, <1>3, CommandGives

LEMMA MountedPaths ==
    ASSUME NEW c \in PveConfigs
    PROVE  Mounted(c) \subseteq Paths
<1>1. \A k \in UsedKeys(c) : c.mounts[k].path \in Paths \cup {Elsewhere}
  BY MountsOf DEF Mounts
<1> QED
  BY <1>1 DEF Mounted

LEMMA HalfInit == Init => Half!Init
<1> SUFFICES ASSUME Init PROVE Half!Init
  OBVIOUS
<1>1. conf \in PveConfigs /\ vols = <<>> /\ pc = "idle"
  BY PlanAssumption DEF Init
<1>2. Given(conf) \in Half!Wrappers
  BY <1>1, MountedPaths DEF Given, Half!Wrappers, PveConfigs
<1>3. Wanted(vols) = {}
  BY <1>1 DEF Wanted
<1> QED
  BY <1>1, <1>2, <1>3 DEF Half!Init

LEMMA StartBegins ==
    ASSUME PlanInv, NEW d \in Documents, Start(d)
    PROVE  Half!Next
<1>1. conf \in PveConfigs /\ d \in Seq(VolumeRecords)
  BY PlanAssumption DEF PlanInv, PlanTypeOK
<1>2. /\ pc # "exec" /\ pc' = "exec" /\ Buildable(conf, d)
      /\ conf' = conf /\ vols' = d /\ plan' = Build(conf, d)
  BY DEF Start
<1>3. Lacking(plan') = Half!Missing(Given(conf), Wanted(d))
  BY <1>1, <1>2, BuildLacks
<1>4. Wanted(d) \in SUBSET Paths
  <2>1. \A j \in 1 .. Len(d) : d[j] \in VolumeRecords
    BY <1>1
  <2>2. \A j \in 1 .. Len(d) : d[j].path \in Paths
    BY <2>1 DEF VolumeRecords
  <2> QED
    BY <2>2 DEF Wanted
<1>5. Half!Begin(Wanted(d))
  BY <1>2, <1>3 DEF Half!Begin
<1> QED
  BY <1>4, <1>5 DEF Half!Next

LEMMA ExecuteCommands ==
    ASSUME PlanInv, Execute
    PROVE  Half!Next \/ UNCHANGED Half!vars
<1>1. /\ pc = "exec" /\ plan # NoPlan /\ Carry(First(plan)) /\ pc' = "exec"
      /\ plan' = Rest(plan) /\ vols' = vols
  BY DEF Execute
<1>2. CASE First(plan).op = "resize" /\ Given(conf') = Given(conf)
  <2>1. Lacking(plan') = Lacking(plan)
    BY <1>1, <1>2, RestLacks DEF PlanInv, Running
  <2> QED
    BY <1>1, <1>2, <2>1 DEF Half!vars
<1>3. ASSUME NEW x \in {"features", "tag"} \cup Paths,
             x \in Half!Turn(Lacking(plan)) \cup Half!Rewritable,
             Given(conf') = Half!After(Given(conf), x),
             Lacking(Rest(plan)) = Lacking(plan) \ {x}
      PROVE  Half!Next
  <2>1. Half!Command(x)
    BY <1>1, <1>3 DEF Half!Command
  <2> QED
    BY <2>1 DEF Half!Next
<1> QED
  BY <1>1, <1>2, <1>3, CommandsTurn

LEMMA EndsOrGivesUp ==
    ASSUME PlanInv, Done \/ Refused \/ Fails
    PROVE  Half!Next
<1>1. CASE Done
  <2>1. Lacking(plan) = {}
    BY <1>1 DEF Done, NoPlan, Lacking
  <2>2. Half!End
    BY <1>1, <2>1 DEF Done, Half!End
  <2> QED
    BY <2>2 DEF Half!Next
<1>2. CASE Refused
  <2>1. Half!GivesUp
    BY <1>2 DEF Refused, Half!GivesUp
  <2> QED
    BY <2>1 DEF Half!Next
<1>3. CASE Fails
  <2>1. /\ pc = "exec" /\ plan # NoPlan /\ pc' = "idle" /\ vols' = vols
        /\ Carry(First(plan)) \/ conf' = conf
    BY <1>3 DEF Fails
  <2>2. \/ Given(conf') = Given(conf)
        \/ \E x \in Half!Turn(Lacking(plan)) \cup Half!Rewritable :
              Given(conf') = Half!After(Given(conf), x)
    BY <2>1, CommandsTurn
  <2>3. Half!GivesUp
    BY <2>1, <2>2 DEF Half!GivesUp
  <2> QED
    BY <2>3 DEF Half!Next
<1> QED
  BY <1>1, <1>2, <1>3

\* What a human may change of what the guest has been given.
LEMMA DetachTakes ==
    ASSUME PlanInv, NEW k \in Keys, HumanDetaches(k)
    PROVE  /\ conf.mounts[k].path \in Paths \cup {Elsewhere}
           /\ Mounted(conf') = Mounted(conf) \ {conf.mounts[k].path}
           /\ conf'.keyed = conf.keyed /\ conf'.tags = conf.tags
<1>1. conf \in PveConfigs /\ PathsDistinct(conf) /\ k \in UsedKeys(conf)
  BY DEF PlanInv, PlanTypeOK, OneMountPerVolume, HumanDetaches, UsedKeys
<1>2. conf' = Attached(conf, k, NoMount)
  BY DEF HumanDetaches
<1>3. /\ conf'.mounts = [conf.mounts EXCEPT ![k] = NoMount]
      /\ conf'.keyed = conf.keyed /\ conf'.tags = conf.tags
  BY <1>1, <1>2 DEF Attached, PveConfigs
<1>4. /\ UsedKeys(conf') = UsedKeys(conf) \ {k}
      /\ \A l \in UsedKeys(conf') : conf'.mounts[l] = conf.mounts[l]
  BY <1>1, <1>3 DEF UsedKeys, PveConfigs
<1>5. Mounted(conf') = Mounted(conf) \ {conf.mounts[k].path}
  BY <1>1, <1>4 DEF Mounted, PathsDistinct
<1>6. conf.mounts[k].path \in Paths \cup {Elsewhere}
  BY <1>1, MountsOf DEF Mounts
<1> QED
  BY <1>3, <1>5, <1>6

LEMMA HumanChanges ==
    ASSUME PlanInv, NEW k \in Keys, HumanGrows(k) \/ HumanAttaches(k)
    PROVE  Given(conf') = Given(conf)
<1>1. conf \in PveConfigs
  BY DEF PlanInv, PlanTypeOK
<1>2. ASSUME NEW m \in Mounts, conf' = Attached(conf, k, m), m.path = Elsewhere,
             k \notin UsedKeys(conf)
      PROVE  Given(conf') = Given(conf)
  <2>1. /\ UsedKeys(conf') = UsedKeys(conf) \cup {k} /\ conf'.mounts[k] = m
        /\ \A l \in UsedKeys(conf) : conf'.mounts[l] = conf.mounts[l]
    BY <1>1, <1>2, UsedAfter DEF UsedKeys
  <2>2. Mounted(conf') = Mounted(conf)
    BY <1>2, <2>1 DEF Mounted
  <2>3. conf'.keyed = conf.keyed /\ conf'.tags = conf.tags
    BY <1>1, <1>2 DEF Attached, PveConfigs
  <2> QED
    BY <2>2, <2>3 DEF Given
<1>3. CASE HumanAttaches(k)
  <2>1. PICK s \in Storages :
          conf' = Attached(conf, k, [path |-> Elsewhere, from |-> s, size |-> MaxSize,
                                     backup |-> TRUE, bind |-> FALSE,
                                     disk |-> Len(real) + 1])
    BY <1>3 DEF HumanAttaches
  <2> DEFINE m == [path |-> Elsewhere, from |-> s, size |-> MaxSize,
                   backup |-> TRUE, bind |-> FALSE, disk |-> Len(real) + 1]
  <2>2. m \in Mounts /\ m.path = Elsewhere
    BY PlanAssumption DEF Mounts, PlanInv, PlanTypeOK
  <2>3. k \notin UsedKeys(conf)
    BY <1>3 DEF HumanAttaches, UsedKeys
  <2> HIDE DEF m
  <2>4. conf' = Attached(conf, k, m)
    BY <2>1 DEF m
  <2> QED
    BY <1>2, <2>2, <2>3, <2>4
<1>4. CASE HumanGrows(k)
  <2>1. PICK n \in (real[conf.mounts[k].disk] + 1) .. MaxSize :
          conf' = [conf EXCEPT !.mounts[k].size = n]
    BY <1>4 DEF HumanGrows
  <2>2. conf.mounts[k] \in Mounts /\ k \in UsedKeys(conf)
    BY <1>1, <1>4, MountsOf DEF HumanGrows, UsedKeys
  <2>3. /\ conf'.mounts = [conf.mounts EXCEPT ![k].size = n]
        /\ conf'.keyed = conf.keyed /\ conf'.tags = conf.tags
    BY <1>1, <2>1 DEF PveConfigs
  <2>4. /\ conf'.mounts[k] = [conf.mounts[k] EXCEPT !.size = n]
        /\ \A l \in Keys \ {k} : conf'.mounts[l] = conf.mounts[l]
    BY <1>1, <2>3 DEF PveConfigs
  <2>5. conf'.mounts[k] # NoMount /\ conf'.mounts[k].path = conf.mounts[k].path
    <3>1. [conf.mounts[k] EXCEPT !.size = n] \in Mounts
      <4>1. n \in Nat
        <5>1. real \in Seq(Nat) /\ conf.mounts[k].disk \in 1 .. Len(real)
          BY <1>4, <2>2 DEF PlanInv, PlanTypeOK, HumanGrows, DisksKnown, LineKnown
        <5>2. real[conf.mounts[k].disk] \in Nat
          BY <5>1
        <5> QED
          BY <2>1, <5>2, PlanAssumption
      <4> QED
        BY <2>2, <4>1 DEF Mounts
    <3> QED
      BY <2>2, <2>4, <3>1, PlanAssumption DEF Mounts
  <2>6. /\ UsedKeys(conf') = UsedKeys(conf)
        /\ \A l \in UsedKeys(conf) : conf'.mounts[l].path = conf.mounts[l].path
    BY <2>2, <2>4, <2>5 DEF UsedKeys
  <2>7. Mounted(conf') = Mounted(conf)
    BY <2>6 DEF Mounted
  <2> QED
    BY <2>3, <2>7 DEF Given
<1> QED
  BY <1>3, <1>4

LEMMA HumanSteps ==
    ASSUME PlanInv, UNCHANGED <<vols, plan, pc>>,
           \/ Given(conf') = Given(conf)
           \/ \E v \in Paths : Given(conf') = [Given(conf) EXCEPT !.mounts = @ \ {v}]
           \/ \E tagged \in BOOLEAN : Given(conf') = [Given(conf) EXCEPT !.tag = tagged]
    PROVE  Half!Next \/ UNCHANGED Half!vars
<1>1. CASE Given(conf') = Given(conf)
  BY <1>1 DEF Half!vars
<1>2. CASE Given(conf') # Given(conf)
  <2>1. Half!Human
    BY <1>2 DEF Half!Human
  <2> QED
    BY <2>1 DEF Half!Next
<1> QED
  BY <1>1, <1>2

LEMMA HumanMaps ==
    ASSUME PlanInv,
           \/ \E k \in Keys : HumanGrows(k) \/ HumanDetaches(k) \/ HumanAttaches(k)
           \/ HumanTags
    PROVE  Half!Next \/ UNCHANGED Half!vars
<1>1. UNCHANGED <<vols, plan, pc>>
  BY DEF HumanGrows, HumanDetaches, HumanAttaches, HumanTags, Human
<1>2. CASE \E k \in Keys : HumanGrows(k) \/ HumanAttaches(k)
  BY <1>1, <1>2, HumanChanges, HumanSteps
<1>3. ASSUME NEW k \in Keys, HumanDetaches(k)
      PROVE  Half!Next \/ UNCHANGED Half!vars
  <2> DEFINE v == conf.mounts[k].path
  <2>1. /\ v \in Paths \cup {Elsewhere}
        /\ Mounted(conf') = Mounted(conf) \ {v}
        /\ conf'.keyed = conf.keyed /\ conf'.tags = conf.tags
    BY <1>3, DetachTakes
  <2> HIDE DEF v
  <2>2. Given(conf') = [Given(conf) EXCEPT !.mounts = @ \ {v}]
    BY <2>1 DEF Given
  <2>3. v = Elsewhere => Given(conf') = Given(conf)
    BY <2>1 DEF Given, Mounted
  <2> QED
    BY <1>1, <2>1, <2>2, <2>3, HumanSteps
<1>4. CASE HumanTags
  <2>1. conf \in PveConfigs
    BY DEF PlanInv, PlanTypeOK
  <2>2. PICK t \in SUBSET {"compose", "mine"} : conf' = [conf EXCEPT !.tags = t]
    BY <1>4 DEF HumanTags
  <2>3. /\ conf'.keyed = conf.keyed /\ conf'.mounts = conf.mounts /\ conf'.tags = t
    BY <2>1, <2>2 DEF PveConfigs
  <2>4. Mounted(conf') = Mounted(conf)
    BY <2>3 DEF Mounted, UsedKeys
  <2> DEFINE tagged == "compose" \in t
  <2>5. Given(conf') = [Given(conf) EXCEPT !.tag = tagged]
    BY <2>3, <2>4 DEF Given
  <2>6. tagged \in BOOLEAN
    OBVIOUS
  <2> HIDE DEF tagged
  <2> QED
    BY <1>1, <2>5, <2>6, HumanSteps
<1> QED
  BY <1>2, <1>3, <1>4

LEMMA HalfStep == PlanInv /\ [Next]_vars => [Half!Next]_(Half!vars)
<1> SUFFICES ASSUME PlanInv, [Next]_vars PROVE Half!Next \/ UNCHANGED Half!vars
  OBVIOUS
<1>1. CASE \E d \in Documents : Start(d)
  BY <1>1, StartBegins
<1>2. CASE Execute
  BY <1>2, ExecuteCommands
<1>3. CASE Done \/ Refused \/ Fails
  BY <1>3, EndsOrGivesUp
<1>4. CASE (\E k \in Keys : HumanGrows(k) \/ HumanDetaches(k) \/ HumanAttaches(k)) \/ HumanTags
  BY <1>4, HumanMaps
<1>5. CASE UNCHANGED vars
  BY <1>5 DEF vars, Half!vars
<1> QED
  BY <1>1, <1>2, <1>3, <1>4, <1>5 DEF Next

\* The pct half as it is coded, with an index taken at a time, lines that
\* are rewritten, disks that grow, commands that fail with their effect and a
\* human at the same config, is the half the verbs take it for: each of its
\* steps brings one thing the guest lacked, in its turn, mounts a line again
\* that was mounted when the config was read, or changes nothing the verbs
\* look at; and it comes to its end with nothing left that was missing.
THEOREM HalfBringsThere == Spec => BringsThere
<1>1. Init => Half!Init
  BY HalfInit
<1>2. PlanInv /\ [Next]_vars => [Half!Next]_(Half!vars)
  BY HalfStep
<1> QED
  BY <1>1, <1>2, Invariance, PTL DEF Spec, BringsThere, Half!Spec
=============================================================================
