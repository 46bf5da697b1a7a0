------------------------------- MODULE MCPlan -------------------------------
(* Small instances of Document and Plan: two volumes in a document, three  *)
(* indices.                                                                *)
EXTENDS Document

CONSTANTS db, data, cache, local, nas, tape

\* The operator allows /srv/media, after a root that is a mistake.
Host(s) == [abs |-> TRUE, segs |-> s]
Media == <<"srv", "media">>
MCLimits == [bind_roots |-> <<Host(<<"home">>), Host(Media), Host(<<"srv", "">>)>>,
             storages |-> {}, max_disk |-> 7]
NasToo == [MCLimits EXCEPT !.storages = {nas}]

\* Every path of up to three segments, and some that do not start at `/'.
MCHostPaths ==
    LET segs == {"srv", "media", "..", "."}
        upto == UNION {[1 .. n -> segs] : n \in 0 .. 3}
    IN  {Host(s) : s \in upto} \cup {[abs |-> FALSE, segs |-> Media], Host(<<"srv", "">>),
          Host(Media \o <<"..", "..">>)}

X(path, storage, size, backup) ==
    [path |-> path, storage |-> storage, size |-> size, backup |-> backup, owner_ok |-> TRUE]
Volume(name, x) == [name |-> name, usable |-> TRUE, external |-> FALSE, x |-> x]

Disk(p, s, n, b) == Volume(p, X(Omitted, s, n, b))
HostDir(p, h) == Volume(p, X(h, Omitted, Omitted, Omitted))
Dir(p) == Volume(p, Omitted)

Line(p, s, d, n) ==
    [path |-> p, from |-> s, size |-> n, backup |-> TRUE, bind |-> FALSE, disk |-> d]
BindLine(p, h) ==
    [path |-> p, from |-> h, size |-> 0, backup |-> FALSE, bind |-> TRUE, disk |-> 0]

Config(keyed, t, m) ==
    [template |-> FALSE, keyed |-> keyed, fuse |-> FALSE, tags |-> t, mounts |-> m]

\* A container made by hand, and a template of one; one with a disk at mp1;
\* one with a disk whose line says no size; one with a host bind; one with a
\* volume no document has any more and a disk of somebody's own, which leave
\* one index.
MCFirstConfigs ==
    {Config(FALSE, {"mine"}, [k \in Keys |-> NoMount]),
     [Config(FALSE, {"mine"}, [k \in Keys |-> NoMount]) EXCEPT !.template = TRUE],
     Config(TRUE, {"mine"}, [k \in Keys |-> IF k = 0 THEN Line(data, nas, 1, 0)
                                             ELSE NoMount]),
     Config(TRUE, {"compose"}, [k \in Keys |-> IF k = 1 THEN Line(db, local, 1, 4)
                                                ELSE NoMount]),
     Config(TRUE, {"compose"}, [k \in Keys |-> IF k = 0 THEN BindLine(data, Host(Media))
                                                ELSE NoMount]),
     Config(TRUE, {"compose"}, [k \in Keys |-> CASE k = 0 -> Line(cache, local, 1, 4)
                                                 [] k = 2 -> Line(Elsewhere, local, 2, 8)
                                                 [] OTHER -> NoMount])}

\* The disk of db changes its backup flag, the one of data its size; and
\* every path, storage and size that a document may try.
MCDocTexts ==
    {<<Disk(db, Omitted, 4, TRUE), Disk(data, nas, 4, TRUE)>>,
     <<Disk(data, nas, 7, Omitted), Disk(db, Omitted, 4, FALSE)>>,
     <<HostDir(data, Host(Media)), Dir(db)>>,
     <<Disk(db, local, 8, TRUE)>>,
     <<Disk(db, tape, 4, TRUE)>>,
     <<Volume(db, X(Omitted, nas, Omitted, TRUE))>>,
     <<Volume(db, X(Host(Media), Omitted, 4, Omitted))>>,
     <<[HostDir(db, Host(<<"srv">>)) EXCEPT !.external = TRUE], Dir(data)>>}
        \cup {<<HostDir(data, h), Dir(db)>> : h \in MCHostPaths}

\* One volume that changes both at once.
BothTexts == {<<Disk(db, Omitted, 4, TRUE)>>, <<Disk(db, Omitted, 7, FALSE)>>}
FirstOnly == {Config(TRUE, {"compose"}, [k \in Keys |-> NoMount])}

MCDocuments == {VolumesOf(d) : d \in Readable(LimitsFor(LimitsInUse, DefaultStorage))}

TwoDisks == <<4, 8>>
NoDisks == <<>>
=============================================================================
