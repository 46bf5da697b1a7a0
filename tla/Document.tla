------------------------------ MODULE Document ------------------------------
(***************************************************************************)
(* spec::volumes: which volumes of a compose document this tool manages,   *)
(* and what the operator's limits let a document ask for.  "Writing a      *)
(* document takes VM.Config.Options on that guest, which is not what PVE   *)
(* asks for a bind mount" (config.rs): whatever the limits refuse must     *)
(* never reach the guest's PVE config.                                     *)
(*                                                                         *)
(* A definition under spec.volumes is a record; a path is whether it       *)
(* starts with `/' and what stands between the slashes after it.           *)
(***************************************************************************)
EXTENDS Plan, SequencesExt

CONSTANTS
    Segments,    \* what may stand between two slashes of a path
    DocTexts,    \* sequences of definitions with distinct names
    LimitsInUse, \* Ctx::limits: config.limits_for(node)
    Omitted      \* a key that is not there

Odd == {"", ".", ".."}

HostPathTexts == [abs : BOOLEAN, segs : Seq(Segments \cup Odd)]

\* x: the x-pve map, or Omitted.  owner_ok: owner is `uid:gid', or not there.
XPves == [path : HostPaths \cup {Omitted}, storage : Storages \cup {Omitted},
          size : Nat \cup {Omitted}, backup : BOOLEAN \cup {Omitted}, owner_ok : BOOLEAN]
Definitions == [name : Paths, usable : BOOLEAN, external : BOOLEAN, x : XPves \cup {Omitted}]
LimitRecords == [bind_roots : Seq(HostPathTexts), storages : SUBSET Storages,
                 max_disk : Nat]

\* Mutant: only the first segment is looked at.
CheckCleanAbsolute_First(p) ==
    p.abs /\ (p.segs # <<>> => Head(p.segs) \notin Odd)

\* check_clean_absolute
CheckCleanAbsolute(p) == p.abs /\ \A i \in DOMAIN p.segs : p.segs[i] \notin Odd

\* under, for paths that are clean: `/' is above everything.
Under(root, p) == IsPrefix(root.segs, p.segs)

\* check_bind_path: the roots in turn; one that is not clean refuses all.
CheckBindPath(p, l) ==
    /\ CheckCleanAbsolute(p)
    /\ \E i \in DOMAIN l.bind_roots :
          /\ Under(l.bind_roots[i], p)
          /\ \A j \in 1 .. i : CheckCleanAbsolute(l.bind_roots[j])

\* Which keys go together: a bind, a disk, or neither.
KindOf(x) ==
    IF x = Omitted THEN "plain"
    ELSE CASE x.path # Omitted    -> "bind"
           [] x.size # Omitted    -> "disk"
           [] x.storage # Omitted -> "storage needs a size"
           [] OTHER               -> "plain"

\* check_storage; the node's own storage needs no permission.
CheckStorage(s, l) == s = Omitted \/ s \in l.storages

\* One definition that spec::volumes does not refuse.
Accepted(v, l) ==
    /\ v.usable
    /\ v.external \/ v.x = Omitted \/
          /\ v.x.owner_ok
          /\ KindOf(v.x) # "storage needs a size"
          /\ KindOf(v.x) = "bind" =>
                /\ v.x.storage = Omitted /\ v.x.size = Omitted /\ v.x.backup = Omitted
                /\ CheckBindPath(v.x.path, l)
          /\ KindOf(v.x) = "disk" => v.x.size <= l.max_disk /\ CheckStorage(v.x.storage, l)

\* The Volume made of it, in the plan's terms.
VolumeOf(v) ==
    LET kind == KindOf(v.x)
        Or(value, default) == IF value = Omitted THEN default ELSE value
    IN  [path |-> v.name, kind |-> kind,
         from |-> CASE kind = "bind" -> v.x.path
                    [] kind = "disk" -> Or(v.x.storage, Nowhere)
                    [] OTHER         -> Nowhere,
         size |-> IF kind = "disk" THEN v.x.size ELSE 0,
         backup |-> IF v.x = Omitted THEN TRUE ELSE Or(v.x.backup, TRUE)]

Managed(v) == ~v.external

\* The volumes of the definitions that are managed, in their order.
VolumesOf(d) ==
    LET upto[n \in 0 .. Len(d)] ==
          IF n = 0 THEN <<>>
          ELSE IF Managed(d[n]) THEN Append(upto[n - 1], VolumeOf(d[n])) ELSE upto[n - 1]
    IN  upto[Len(d)]

\* One definition refused refuses the document.
Readable(l) == {d \in DocTexts : \A i \in DOMAIN d : Accepted(d[i], l)}

\* Config::limits_for
LimitsFor(limits, own) ==
    IF limits.storages = {} /\ own # Nowhere
    THEN [limits EXCEPT !.storages = {own}] ELSE limits

\* The documents of module Plan are the ones that are read and not refused.
ASSUME DocumentAssumption ==
    /\ HostPaths \subseteq HostPathTexts
    /\ LimitsInUse \in LimitRecords
    /\ DocTexts \subseteq Seq(Definitions)
    /\ Documents = {VolumesOf(d) : d \in Readable(LimitsFor(LimitsInUse, DefaultStorage))}

-----------------------------------------------------------------------------
(* Where a path leads, whatever it is made of: the reference               *)

Follow(at, seg) ==
    IF seg \in {"", "."} THEN at
    ELSE IF seg # ".." THEN Append(at, seg)
    ELSE IF at = <<>> THEN at ELSE Front(at)

Resolved(p) ==
    LET after[n \in 0 .. Len(p.segs)] ==
          IF n = 0 THEN <<>> ELSE Follow(after[n - 1], p.segs[n])
    IN  after[Len(p.segs)]

Beneath(root, p) == IsPrefix(Resolved(root), Resolved(p))

\* A line at a volume's place is one a document may ask for.
LineWithin(m) ==
    m.path # Elsewhere =>
       IF m.bind
       THEN \E i \in DOMAIN LimitsInUse.bind_roots : Beneath(LimitsInUse.bind_roots[i], m.from)
       ELSE m.from \in LimitsInUse.storages \cup {DefaultStorage}

ConfigWithin(c) == \A k \in UsedKeys(c) : LineWithin(c.mounts[k])

\* `x-pve' is held to the limits (README, "Trust"): after any number of runs
\* over any documents, whatever failed between, the guest's PVE config binds
\* no directory that is not beneath a root the operator listed, once its
\* dots are followed, has managed disks only on storages a document may
\* name or on the node's own, and no run asks PVE for more than max_disk_gib.
WithinLimits ==
    /\ ConfigWithin(conf)
    /\ pc = "exec" =>
          \A i \in DOMAIN plan :
             plan[i].op \in {"create", "resize"} => plan[i].size <= LimitsInUse.max_disk
=============================================================================
