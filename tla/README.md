# pve-compose, formally

TLA+ modules that model pve-compose as far as its code can be checked, the TLC
configurations that check them on small instances, and theorems about them that
TLAPS proves for every instance. The modules are translated from the Rust source;
`PROJECT.json` names, for every definition, the lines it stands for.

## The system

pve-compose runs on every node of a Proxmox VE cluster. A *guest* is an LXC container; its
*document* (the `compose` subtree in pve-meta) says what compose stack it should run and which
volumes it needs; the tool brings the guest there.

| component | state it keeps | operations | interacts through |
|---|---|---|---|
| verbs (`ops/apply.rs`, `ops/upgrade.rs`, `main.rs`) | none; a process per verb | `apply`, `pct apply`, `docker apply`, `upgrade`, `docker <verb>` | the guest's lock, `pct`, files in the guest |
| reconcile loop (`ops/daemon.rs`) | memo of digests, last token, time of the last full pass, its copy of the config; all in memory | poll, pass, one guest of a pass | the same lock and the same two halves as the verbs |
| guest lock (`lock.rs`) | a flock per vmid on the node | take with a deadline, dropped with the process | - |
| pct half (`plan.rs`, `pct.rs`) | the guest's PVE config | build a plan, execute it | `pct set`, `pct resize`; humans use the same `pct` |
| docker half (`ops/apply.rs`, `stack.rs`, `ops/provision.rs`) | `compose.yaml`, `applied.yaml` (the facts), docker and its containers | install, layout, write, pull, up, record | `pct exec`, `pct push` |
| file writes (`pct.rs`) | the file, its sibling, a host copy | `write_file`, `read_file` | the guest's lock for writers, nothing for readers |
| command runner (`cmd.rs`) | per call: a child, two threads, a flag, a deadline | `run_status_within`, `stream_within` | pipes, signals to a process group |
| document (`doc.rs`, `spec.rs`) | in pve-meta | read, parse, check its volumes against the limits | token and digests |
| operator config (`config.rs`, `ops/configcmd.rs`) | `/etc/pve/pve-compose.cfg`, shared by all nodes | load, change a key, save | `new` stores answers in it; the loop reads it again |
| sizes (`size.rs`) | none | parse, print, convert for PVE | documents, config, `pct set` |
| `new`, templates, prompts (`ops/new.rs`, `ops/template.rs`, `prompt.rs`) | none | settle, make a wrapper, its document, its stack | everything above |
| `status`, `diff` (`ops/status.rs`, `ops/diff.rs`) | none | read and print | reads of everything, without a lock |
| watchdog (`notify.rs`, the unit) | - | ping | systemd kills and restarts the daemon |
| forwarding (`main.rs`) | - | ssh to the owning node | - |

### What is hard about it

* **Interleaving.** The loop, hand-run verbs, humans at `pct`, humans inside the guest and edits
  of the document act on one guest. One lock keeps the tool's own processes apart; everybody else
  is outside of it, and even the tool reads some things before it has the lock.
* **Partial failure.** A reconcile is a dozen commands. Any can fail, time out after having had
  its effect, or be killed with the process that runs it. What an apply leaves is read by the
  next one, which must start over from there.
* **Staleness.** What was applied is remembered in three places (the memo, the facts, the file)
  and plans are made from a config read earlier. `new` waits on a human, then on a download,
  between its checks and what it checked for.
* **One file, no lock.** The operator's config is loaded and saved whole from every node, through
  one temporary file that all of them share.
* **Liveness.** The loop is single-threaded: one guest, one command or one lock that never lets
  go must not hold the others, and "retried" must mean retried.

What makes each part correct, in short: verbs take turns and never go back to an older document;
volumes are mounted before compose binds them; the facts never say more than what is in place;
the loop lands every document it can, starts nothing, and obeys the policies; no disk moves,
shrinks or is mounted twice, and nothing outside the operator's limits reaches a guest; a file is
the old text or the new one; a command ends, and its output is whole; a save of the config changes
its own keys; nobody acts on a guest `new` is making; a row that says applied is true.
`PROJECT.json` lists the hazards one by one, each at its line, with the properties that are about
it or the reason why none is.

## The modules

```
Apply --+-- Daemon --+-- New ---- MCNew          Sizes -- ConfigFile -- MCConfigFile
        |            `-- MCDaemon --^                        `-- ConfigFileProofs
        +-- Status -- MCApply
        |     `-- StatusProofs                   AtomicFile <--refines-- FileWrite -- MCFileWrite
        `-- ApplyProofs -- DaemonProofs -- NewProofs (of New)
                                                                            `-- FileWriteProofs

PctHalf <--refines-- Plan -- Document -- MCPlan  CmdRunner -- MCCmdRunner
                                 `-- PlanProofs      `-- CmdRunnerProofs
```

`Daemon`, `New` and `Status` extend `Apply`: the loop, `new` and `status` are more processes in the
same world, and the first two take the verbs' own steps once they have the lock. The others are
zooms into single steps of `Apply`: `Plan` into what `PctOp` does to the PVE config, `Document` into
which documents `LoadConfig` accepts, `FileWrite` into `Write` and `RecordFacts`, `ConfigFile` into
`ChangeConfig`, `CmdRunner` into every command. What a zoom shows is what justifies the coarser step:

* `FileWrite` implements `AtomicFile`, so a write of a file is one step that happens or does not
  (`Write`, `RecordFacts`, and `Interrupted` for one that is cut short);
* `CmdRunner`'s `Ends` and `KilledWhole` give a command an end and an effect that stops with it;
* `Plan` implements `PctHalf`, which is what the verbs take the half for and how `PctOp` has it: a
  set of things a guest lacks, brought there one command at a time, features and tag first, with an
  end that means that nothing is left. `OneMountPerVolume` and `KeepsDisks` let `Apply` treat the
  mounts as a set that grows; that a human may detach one is in `PctHalf` and not in `Apply`;
* `ConfigFile`'s `ChangesOnlyItsKeys` lets `ChangeConfig` put one whole config for another.

### Apply - the verbs, the lock and the world

One step is one command the code runs to its end; between two commands anything may happen.
State: `doc` and `token` (pve-meta), `cfg` (the operator's config), `wrapper` (the PVE config and
power state of a guest), `stack` (what is in it: docker, `compose.yaml`, the text the running
containers were made from, the facts), `lock`, and per process a label `pc` and what it knows,
`job`. A document is a record of what the code's control depends on - its four policies, whether
it has services, whether docker compose accepts what it renders to, its volumes - and is its own
digest; `rev` dates a text for one property and no guard looks at it.

| code | actions |
|---|---|
| `main::run`, `GuestLock::take` | `StartVerb`, `TakeLock`, `Busy`, `Return` |
| `require_running`, `ops::load`, `load_with` and `plan::build` | `RequireRunning`, `LoadDocument`, `LoadConfig`, `Refuse` |
| `plan::execute`, `pct_apply_guest` | `PctOp` (in the plan's order), `PctDone` (changed features end the job) |
| `docker_apply_guest` | `EnsureDocker`, `InstallFails`, `EnsureLayout`, `Decide`, `Write`, `Pull`, `Up`, `RecordFacts` |
| `stack::passthrough` | `Passthrough` |
| an error returned with `?` | `GuestFails` (the guest cannot), `CommandFails` (anything else, with or without the effect) |
| death of the process | `Crash`: the flock goes with the descriptor |
| humans, other nodes | `EditDocument`, `ChangeConfig`, `Stop`, `Start`, `Untag`, `ComposeByHand`, `EditFile` |

`features` is the keys nesting and keyctl in the PVE config: the plan adds a key that is missing and
keeps one that is there, a `nesting=0` too, with which docker may not start; that one is left out. A
template never runs, so `require_running` refuses it before the plan does (`Plan` has both).

First states: a guest `new` has just made, a container made by hand with neither nesting nor tag,
and a guest whose document an earlier apply put in place.

`OneWriter`, `MountsFirst`, `NeverRegresses`, `ApplyConverges`, `VerbEnds` are its promises, each
stated and explained where it is defined.

### Daemon - the reconcile loop

Adds the loop's memory (`ctx`, `lastToken`, `todo`, `memo`) and its steps: `Poll` (token, full
pass, config re-read, listing), `Visit` (the document is read *before* the lock is asked for),
`LoopLoad`/`LoopRefuses`, the halves of `Apply` (`LoopHalves`), `CheckFacts`, `Handled` (remembered
either way), `EndPass`, the two failures that skip a guest or a pass, and `LoopCrash`, after which
systemd starts it with nothing in memory.

Promises: `DocumentsLand` (level-triggered: again and again, either a guest cannot be brought to
its document or it is there), `LoopNeverStarts`, `PolicyObeyed`, besides those of `Apply`.

### New - making a guest

A vmid exists in PVE or not (`exists`), and may have a document without existing: an earlier guest's.
`stage` says how far a `new` is; from `Lock` on it has the lock, and the halves are `Apply`'s.

| code | actions |
|---|---|
| `new`: the Ctx, the vmid is free | `StartNew` |
| `settle_storage`, `template::resolve` | `Settle` (asked, stored or not, or given up), `Resolve` (found, downloaded, or none) |
| `create_wrapper` | `Create`: refused when somebody took the vmid meanwhile (`Taken`) |
| `doc::write_initial` | `WriteInitial`: refused where there is a document; the wrapper stays |
| `GuestLock::take`, `pct::start`, `wait_ready` | `Lock`, `Boot`, `WaitReady` |
| `apply_locked`, then the facts with the template | `Halves`, `Facts`, `WriteTemplate`, `NotReady` |
| errors, death | `CutShort` before the lock, `Breaks` from there on |

Promises: `FirstApplyIsNews` (the loop's next pass, and every verb, waits) and `IntentKept` (no first
document replaces another).

### Status - a row without a lock

`List`, `ReadDocument`, `ReadConfig`, `ReadFacts`, `AskPs`, `ShowRow` are the reads of
`ops/status.rs` in their order, each a step of its own, at the three levels of the command.
`AppliedAtOnce`: a row that says applied was true of one moment.

### Plan - the pct half in detail

Mountpoints with index, disk identity, size, storage and backup flag; `Build` is `plan::build` with
its order (features, tag, then per volume the mount or resize and the flag); a plan is a function
from the places of that order to operations, of which the least is the next. `Execute` is
`plan::execute` one `pct` command at a time against the config *as it is by then*, with indexes
taken from the config *as it was read*. `Refused` is PVE saying no (no index left, no such disk, a
shrink); a template, or a disk without a storage, is refused before that (`Buildable`). `Fails` is a
command that fails or is cut short, with its effect or without; `HumanGrows`, `HumanDetaches`,
`HumanAttaches` and `HumanTags` act in between. Sizes are small numbers, `Slack` stands for the 1
MiB of `disk_size_satisfied`, and PVE may round a size by as much.

`touched` and `theirs` are history: what somebody else did since the run read the config. A human's
new disk is at a path outside the volumes directory: PVE takes two mounts at one path, and a human
who mounts a volume's own path in the middle of a plan gets a second mount.

### PctHalf - the pct half as the verbs see it

`wrapper` is what the guest has been given (features, tag, the volumes mounted), `todo` what it lacked
when the half looked and has not got yet. `Begin` looks, `Command` brings one thing in its turn, `End`
comes when `todo` is empty, `GivesUp` at any command, with its effect or without; `Human` detaches a
volume or sets the tags. Nothing else takes away what is mounted. `Plan`'s `BringsThere == Half!Spec`
is the refinement: `wrapper` is `Given(conf)`, `todo` is what the operations left are for (`Lacking`);
a resize, a human's own disk and a size grown by hand are stutters. One thing the abstract half must
allow that a reader might not expect: a flag's operation writes the volume's line again, which mounts
the volume again if a human has detached it since the config was read (`Rewritable`).

### Document - what a document may ask for

`spec::volumes` with its limits, definition by definition: which keys go together, the storage, the
size, and the bind path, which the code compares segment by segment with the operator's roots in
turn (`CheckCleanAbsolute`, `Under`, `CheckBindPath`). `Plan`'s documents are those that are read and
not refused. The reference is `Resolved`, where a path leads once its dots are followed, and
`WithinLimits` is about what ends up in the guest's PVE config, not about the check: after any runs
over any documents, whatever failed between, no bind outside the roots, no managed disk on another
storage, no size above the limit.

### Sizes and ConfigFile - the operator's config

`Sizes` is `size.rs`: a number of bytes, read from and printed as a decimal with a unit, handed to
PVE as GiB with six decimals. `Kilo` stands for 1024, so that bytes stay countable.

`ConfigFile` is the file and its `.tmp` under every process that saves it. A call loads the config
when it starts (`StartSet`, `StartNew`), `new` waits for its answers (`Answer`, `NoAnswer`), the file
is loaded again and changed in memory (`Load`), and saved: `Open` creates or truncates the `.tmp`,
`Fill` writes into whatever the opened file is called by then (`handle`), `Rename` takes the name.
`CutShort` fails or kills a process at any of these, `HandEdit` is a human with an editor. Three keys
stand for all: a storage (a string), a size (a number with a text of its own), a per-node storage (a
map entry), and `limits` for what is only ever edited by hand. `met` and `overlap` are history.

### AtomicFile and FileWrite - writing a file in a guest

`AtomicFile` is what callers are promised: the file has one whole text, a call changes it at one
moment or never, and a call that returned no error has left its text there. `FileWrite` is how it
is done: host copy and `mkdir`, `pct push` to a sibling (opened and truncated, filled chunk by
chunk), `mv` over the file, `rm` of the sibling when the push failed; inodes are explicit, so a
reader that has the file open keeps the old one. Every command may fail at any point or be killed
at its deadline; a daemon may die with its commands (systemd kills the whole cgroup).
`Atomic == Abstract!Spec` is the refinement, with `value` mapped to what an opener would find and
`doing` to the calls not yet returned.

`SpecAtTerminal` adds the other death: ^C ends the verb, while its command, in a process group of
its own, goes on without it and without the lock.

### CmdRunner - one command

The calling thread's loop line by line (`CheckOver`, `CheckExit`, `WaitFails`, `CheckDone`,
`CheckLate`, `Reap`), the two reading threads with their caps, the command, a helper it may leave
behind (which may leave the process group, or keep the pipes, or both) and the clock. Three modes:
captured, streamed, and streamed at a terminal, where the deadline kills the command alone. A
SIGKILL is taken to be carried out: the code waits for the killed command (`cmd.rs:131`, `142`), and
one that the kernel never lets out of an uninterruptible sleep would hold the call. When the command
cannot be waited for (`WaitFails`: the `?` at `cmd.rs:135`), the call ends in an error and kills
nothing.

## The runs

| run | question | instance | states |
|---|---|---|---|
| `verbs` | do verbs take turns, mount first, never go back, and is a row of `status` true? | 2 shells, 1 guest, 3 documents, 2 edits, 1 upset of any kind | 4.2 million |
| `loop` | does the loop land documents by itself, whoever holds a lock for ever? | loop and shell, 2 guests of 2 kinds, 1 edit, 1 upset | 240 000, with liveness |
| `loop_shell` | loop, shell and `new`: order, policies, convergence, the first apply | 1 guest that is there or not, 1 shell with 3 verbs and `new`, documents of every policy and one compose refuses, 2 edits, 1 upset | 3.7 million |
| `plan` | what may three plans and a human do to the disks, and a document to the limits; is the half what the verbs take it for? | 2 volumes in a document, 3 paths, 3 indexes, 6 first configs, every bind path of up to three segments, 3 storages, 2 upsets | 2.3 million |
| `config` | does a save change its own keys, and who can empty the file? | 2 writers on 2 nodes, 3 calls, 1 upset, `Kilo` = 4 | 1.8 million |
| `files` | is a write atomic? | 2 writers, 1 reader, 2 chunks, 3 writes, 2 upsets | 470 000 |
| `runner` | does a command end, whole or killed whole? | 3 modes, caps of 2 and 1, 3 written | 37 000, with liveness |

Why the bounds are enough. The lock makes the processes of one guest take turns, so two processes
show every hand-over, and a third would repeat the second; the loop visits guests in order and keeps
nothing across two of them but `todo`, so two guests show what one does to the next. Two edits are
what it takes for a reader of the first to meet the third text. One or two upsets let a failure
follow a failure, which is the most that reaches a state a single one does not: after any of them
the process has returned and only the world is left, whose states after one upset are again first
states of the next verb. Three runs of the pct half: one that fails, one that repeats it, one for
the next document. One of the first configs is a template, one has a line without a size, and one
leaves a single index, so that a document with two new volumes meets the end of `take_index`. Three
segments are the least for a path that goes into an allowed root, out of it and down again. Chunks:
two is the least with a half. Config: two saves and a call before or after them; a process that
waits on a question is one of the two. With `Kilo` = 4 a KiB, a MiB and a GiB still differ by more
than what a decimal rounds away, and a tenth of a GiB is no whole number of KiB, as with 1024. The
runner's caps are met, exceeded by one and exceeded by a chunk of two. `verbs`, `plan`, `config`,
`files` and `runner` do not check for deadlock: their bounds let a behaviour come to an end.

`verbs` uses symmetry over its shells (no liveness is checked there, and the shells are
interchangeable in every property).

What the runs leave out, on purpose:

* `loop_shell` has no stopping guest and no human inside it: the loop decides to bring a stack up on
  what `docker compose ps` said before the write and the pull, and a `compose down` typed in the
  guest meanwhile is undone. `docs/DESIGN.md` says that a manual down sticks; through the tool's own
  passthrough, which takes the lock, it does. Nor does anybody start the guest a `new` is making.
* `loop` has no document that is taken back, none that compose refuses, and no hand edit of the
  file: the first two are the run `revert` and a note below, and the loop never looks at a file
  whose facts match.
* `ApplyConverges` is checked without a human who edits the file between the write and the facts;
  `AppliedAtOnce` without one who detaches a mount between two reads of a row.
* `config` has no human who empties the file, which is a way to ask for the defaults, and its sizes
  are whole numbers of KiB: the others are the run `rootfs`. `ChangesOnlyItsKeys` is about saves
  nobody wrote beside; what becomes of two at once is a note below.
* `plan` has a list of allowed storages that is not empty: that an empty one means the node's own
  is in the theorem `LimitsHold`, and in no run.

### Fairness

`Daemon`: weak fairness of the loop's own steps and of its poll - one thread that sleeps and goes
on - and strong fairness of the full pass, which happens at some poll again and again, although a
poll that is not full comes between. A shell's verb, once it runs, goes on (weak fairness of
`VerbSteps`); a passthrough need not end, a human need not do anything, nothing need fail. That a
single command ends is `Ends` of `CmdRunner`. `CmdRunner`: the three threads run and time passes;
the command itself may do nothing for ever. The other specifications have no fairness and no
liveness property.

### Where the code and its documentation disagree

Five runs expect a violation, each of one property and each with the line it contradicts:

* `revert`: the facts alone decide whether the docker half runs. A document compose refuses is
  written to the file and cannot be brought up, which leaves the facts at the one before it; take it
  back, and the refused file stays for good, though nothing failed that was not to fail.
* `stale`: the loop waits for the lock with a document it read before, and applies it over the newer
  one the holder of the lock applied.
* `backup`: a volume that grows and changes its backup flag in one plan gets its old `size=` back.
* `orphan`: ^C at a terminal leaves a rename running that renames the next verb's half-pushed file.
* `rootfs`: a size that is no whole number of KiB (`1.3G`) is printed without a unit when the config
  is saved, and a number without a unit is GiB when it is loaded again.

Seen while modelling, and not run:

* before it writes the new file the loop asks `docker compose ps`, which loads the old one
  (`ops/apply.rs:146`): a file compose refuses keeps the loop from ever applying the corrected
  document (`docs/DESIGN.md:147` and `README.md:260` promise a retry);
* two saves of the config at once put each other's keys back (`config.rs:252`: each loads the file
  before the other's rename), or fail on the `.tmp` they share, or leave it half written;
  `docs/DESIGN.md:49-50` says two nodes do not clobber each other;
* a busy guest is remembered as handled, so it is not retried on the next pass (`README.md:263` says
  it is); a changed config clears the memo but starts no pass (`ops/daemon.rs:16` says "at the next
  poll"); a changed default owner never reaches a file whose facts match;
* a guest stopped, or untagged, between the listing and its turn is still acted on;
* a cap exceeded after the runner's own look at it ends the call without a kill;
* one guest may take several 30-minute commands, above `WatchdogSec=45min` (`README.md:255`).

Each is a hazard in `PROJECT.json`.

## What is proved

`ApplyProofs` proves about `Apply`'s `Spec`, for every set of guests, processes, documents, verbs
and disturbances and every bound:

| theorem | statement |
|---|---|
| `TypeCorrect` | `Spec => []TypeOK` |
| `MutualExclusion` | `Spec => []OneWriter` |
| `VolumesBeforeCompose` | `Spec => []MountsFirst` |
| `VerbsNeverRegress` | `Spec => NeverRegresses` |
| `VerbsConverge` | `Spec => ApplyConverges`, where the tool alone touches the stack |

`DaemonProofs` about `DaemonSpec`, the same world with the loop in it:

| theorem | statement |
|---|---|
| `DaemonTypeCorrect` | `DaemonSpec => []DaemonTypeOK` |
| `LoopTakesTurns` | `DaemonSpec => []OneWriter` |
| `LoopMountsFirst` | `DaemonSpec => []MountsFirst` |
| `LoopObeysPolicy` | `DaemonSpec => PolicyObeyed` |
| `LoopStartsNothing` | `DaemonSpec => LoopNeverStarts`, where nobody touches containers past the lock |
| `LoopConverges` | `DaemonSpec => ApplyConverges`, where the tool alone touches the stack |

`NewProofs` about `NewSpec`, that world with guests being made in it, by any number of `new` at once
(the run has one):

| theorem | statement |
|---|---|
| `IntentIsKept` | `NewSpec => IntentKept` |
| `FirstApply` | `NewSpec => FirstApplyIsNews`, where nobody acts on guests past the tool |
| `NewTakesTurns` | `NewSpec => []OneWriter` |
| `NewMountsFirst` | `NewSpec => []MountsFirst` |
| `NewObeysPolicy` | `NewSpec => PolicyObeyed` |
| `NewStartsNothing` | `NewSpec => LoopNeverStarts`, where nobody touches containers past the lock |
| `NewConverges` | `NewSpec => ApplyConverges`, where the tool alone touches the stack |

`StatusProofs` about `StatusSpec`:

| theorem | statement |
|---|---|
| `AppliedIsTrue` | `StatusSpec => AppliedAtOnce` |
| `StatusOnlyReads` | `StatusSpec => Spec`, so that the theorems of the verbs hold beside `status` |

`PlanProofs` about `Plan`'s `Spec`, for every set of first configs, documents, limits, storages and
paths, every `LastIndex` and `Slack`, and every bound:

| theorem | statement |
|---|---|
| `PlanTypeCorrect` | `Spec => []PlanTypeOK` |
| `MountsEachVolumeOnce` | `Spec => []OneMountPerVolume` |
| `DisksAreKept` | `Spec => KeepsDisks` |
| `RunsSettle` | `Spec => [](~GrowsAndFlips => Settled)` |
| `LimitsHold` | `Spec => []WithinLimits`, if the first configs are within the limits |
| `HalfBringsThere` | `Spec => BringsThere`, that is, `Spec => Half!Spec` |

`FileWriteProofs` about `FileWrite`'s `Spec`, for every set of writers, readers and texts, every
number of chunks and every bound:

| theorem | statement |
|---|---|
| `FileTypeCorrect` | `Spec => []FileTypeOK` |
| `WritesAreAtomic` | `Spec => Atomic`, that is, `Spec => Abstract!Spec` |
| `ReadersSeeOneText` | `Spec => []ReadsWhole` |

`CmdRunnerProofs` about `CmdRunner`'s `Spec`, for all caps, modes and amounts of output:

| theorem | statement |
|---|---|
| `RunnerTypeCorrect` | `Spec => []RunnerTypeOK` |
| `OutputIsWhole` | `Spec => []OkIsWhole` |
| `KillsTheGroup` | `Spec => []KilledWhole` |

and `ConfigFileProofs` about `ConfigFile`'s `Spec`, for every set of writers, nodes and storages,
every `Kilo`, `Tenths` and `Digits`, and every bound:

| theorem | statement |
|---|---|
| `SizesRoundTrip` | a whole number of KiB is read back from its printed form as itself |
| `ConfigTypeCorrect` | `Spec => []ConfigTypeOK` |
| `NeverEmptiedAlone` | `Spec => []NeverBlank` |
| `SavesChangeTheirKeys` | `Spec => ChangesOnlyItsKeys`, where every size is a whole number of KiB |
| `RootDiskIsThatSize` | `Spec => []RootDiskFits`, under the same, with digits as fine as PVE's |

The assumptions are those the modules name. For `Apply`: guests are numbers, the documents' fields
have their types, `Nobody` is no process, the volumes are not called "features" or "tag". For
`Daemon`: the loop is one of the processes. For `New`: the first document and those left behind are
documents. For `Plan`: the volumes of a document have distinct paths,
all of them inside the volumes directory, and a behaviour starts from a config PVE can have written:
its lines name disks there are, no two of them are at one path (`FirstAssumption`); no volume is called
"features" or "tag", and `NoOp` is no operation. For `ConfigFile`: the markers of its model (no file, an
empty one, a key left alone) are no values, and nobody empties the file by hand (`NotEmptied`). TLC
evaluates them in every run. Some theorems have a hypothesis of their own, each what the run's instance
has, and without which the property does not hold:

* `LoopStartsNothing` and `NewStartsNothing`: no guest is power-cycled and nobody types compose commands
  inside one (`Disturbances`). `VerbsConverge`, `LoopConverges` and `NewConverges`: besides, nobody edits
  the file in a guest (`StackLeftAlone`). `FirstApply`: besides, nobody takes a tag off (`HandsOff`).
* `SavesChangeTheirKeys` and `RootDiskIsThatSize`: sizes are whole numbers of KiB (`AllWhole`; the run
  `rootfs` shows what happens to others). The latter needs too that half a digit of what `pct` is told
  is less than a KiB (`FineDigits`), which six decimals of a GiB are, and the run's `Kilo` and `Digits`.
* `RunsSettle`: no volume grows and changes its flag in one plan (`GrowsAndFlips`). That is the finding
  of run `backup`; the theorem says that it is the only way not to settle.
* `LimitsHold`: what was mounted before the tool came is within the limits. The tool takes nothing away,
  so a line somebody else made outside of them stays.

The argument. `OneWriter` is not inductive: nothing in it says what a process that has not got the
lock may do. What is inductive is that a process at a label under the lock is the one the lock of
its guest names; two such processes on one guest would be one. `MountsFirst` needs more: while a job
that includes the pct half is executing its plan, every volume of its document is mounted or still
in the plan, and nesting is set or still in the plan; with an empty plan that is the property. It is
kept by the other processes because they hold no lock on this guest (`OneWriter` again) and because
mounts are only added and features only set. A plan that contained the features ends the job, which
is `~restart`. `NeverRegresses` needs that the facts of a guest are no newer than the text the
process holding its lock has read, from the moment it has read it, and never newer than the
document: reading happens under the lock, so nobody can record in between. That is the one the loop
breaks by reading first (run `stale`), and the reason why the theorem is about `Apply`'s `Spec` and
not about `DaemonSpec`.

The loop takes the verbs' steps inside the halves, and `[Next]_vars` holds of every step it shares,
so `DaemonProofs` uses `ApplyProofs`' step lemmas and has only the loop's own steps to look at: they
change nothing of any guest, and nobody else (`OwnKeeps`). Three things are new. Between the halves the
loop looks at the facts, so what `MountedFor` says of the docker half must hold at the label `check`
already (`Checked`). The policies are read before the lock and obeyed long after it: `LoopJob` says
which labels a document's policies let the loop be at, and is kept because nobody else changes what
the loop has read. And `LoopNeverStarts` needs that what `ps` said is still so at `up`: from the
decision on the loop holds the lock (`LockInv`), and a process that has not the lock of a guest leaves
its stack alone (`StackLocked`). That a pass visits guests only needs that a set of numbers has a
least one (`LeastIsIn`, from the library's well-foundedness of `<`).

`ApplyConverges` needs what each label of the docker half has done: from `pull` on the file is what the
document renders to, and at `facts` the containers run it if the job was to start them (`ConvergedFor`).
Others leave that alone because they have not the lock (`StackLocked`), and the jobs that skip a step
skip it because what it makes is there, which is what `Decide` looks at. The same holds where the command
that writes the facts fails after having had its effect, and at `new`'s own facts (`FactsLand`): what
counts is that the facts changed.

`new` takes the lock late, after it has made the guest and written its document, and nobody is kept
out until then. What keeps the guest as it was made is that it is cold (`Cold`): it does not run, so
the loop does not list it, and a verb that gets its lock finds it stopped and lets go; the only step
that would start it is `Boot`, and of two `new` for one vmid only one was not refused by PVE (`Made`).
So a guest that is not there yet, or not yet booted, stays cold (`ColdInv`), until its `new` boots it
with the lock; from there on it is the lock alone (`LockInv`). The promises of the verbs and the loop
hold beside any number of `new` by their own step lemmas: each step of `NewNext` is one of `DaemonNext`,
or one of `new`'s own, which claim no lock, change no containers and no policy; only `Create` makes a
wrapper over what was there, for a vmid nobody has a job in (`NewMountsInv`). That the first document
replaces none needs no more than where each step writes.

A row of `status` is right because its one negative answer keeps: when the plan found nothing to do,
nothing of the tool can undo it (`WrapperGrows`), so it still holds when the facts are read. And each
step of `status` is a stutter of `Apply` (`ReadsOnly`), which is all of `StatusOnlyReads`.

`Plan` acts on the config as it is by then with indexes and lines of the config as it was read, so its
invariant says how far the two may have drifted apart: each line in use (`Known`) is one the run read,
with the same disk at the same place; or a human's own, outside the volumes directory; or one the run
added, at an index below the next, for a volume that had no mount and whose operation is done
(`Added`). So an index that `take_index` hands out is no line that is left but a human's
(`FreshIndex`, `KeyKept`), and a path that is mounted is at no other key (`PathFree`), also when the
backup flag rewrites a line that was detached since. What an operation may be is read off `build` once
(`OpKinds`), what a command does once (`Effect`); the rest of the proof is about effects.

Three more things rest on that invariant. *A run settles* because what has left the plan is done
(`Settling`: what `build` would still ask for is in the plan), and a later command does not undo it: a
line that is put is for one volume and says nothing of the others (`OthersSettled`), and of its own
volume the mount is done when the flag's line is written, unless that line takes an old size back
(`GrowsAndFlips`). The tolerance matters here: a disk that PVE made one MiB short is satisfied
(`SizedEnough`). *The limits hold* because every line at a volume's path is a first one, or one made
for a volume of a document that passed the check, or a rewrite of either (`LimitsInv`). What the check
says of a path it compares segment by segment is that it has no dots, that a path without dots leads
where it says (`CleanResolved`), and so that it is below a root (`BindsBeneath`). The reference follows
a path by a recursive function. That such a function is what its equation says is proved without the
library's induction theorems: the functions up to `n` that obey the equation are a set, and the least
`n` for which it is empty has none before it (`UpTo`, `StepByStep`). *The refinement* says of each
operation what it gives and at which place (`GivesWhat`); so what `build` asks for is what the guest
lacks (`BuildLacks`), no two operations give the same (`GivesOnce`, by the distinct paths of a
document), and the least place has its turn (`FirstsTurn`). That a command gives the abstract guest that
very thing and takes nothing away (`CommandGives`, `PutMounts`) needs `Known` again: the line it writes
is at the path of the one it replaces, or replaces a human's own.

`FileWrite` has one invariant, `Inv`, for its three theorems. A call holds the guest's lock from its
first step to its last (`Held`), so at most one command runs and it is the one its process waits for
(`OneCommand`); what has been pushed so far is in the sibling, a rename that has not happened finds
the whole text there, one that has happened has left it in the file (`Progress`); the file is whole
and is never the sibling (`TargetWhole`); what a reader has open is whole and is not the sibling
either (`ReadersKeep`). The refinement follows: only `Rename` changes `Value`, to the text of the
call it belongs to (`Land`); a return without an error comes after a rename that is done; every
other step is a stutter. `OneCommand` is where `Spec` and `SpecAtTerminal` part: an orphan of an
interrupted verb runs under nobody's lock, and the run `orphan` shows what becomes of the file.

The config file's proofs follow a save that is alone. As long as no two have run at once, there is
one at most, it fills the `.tmp` it has opened, and what it renames is not empty (`OneSave`; a
process has a file open only between the two halves of the write, `OpenWhileFilling`): so nobody
leaves an empty file. A save nobody wrote beside has in its memory the file with its change, and in
the `.tmp` that memory's text (`AloneInv`): so what it renames differs from the file in its own
keys, as text and memory name the same config. That last step is `SizesRoundTrip`, and where the
sizes must be whole numbers of KiB (`WholeInv`). `RootDiskIsThatSize` uses that a file that loads
has a root disk of whole KiB, and is arithmetic from there on: six decimals of a GiB are half a
digit off at most, which is less than a KiB, and PVE's rounding to whole MiB loses less than one.

The command runner loses nothing without saying so: what was written is in the pipe or in the buffer as
long as the thread has not raised `over`, and a thread is at its end only when nobody is left who could
write (`NothingLost`); so when both threads are at their end, the buffers are the output. A call is at a
label that reports a kill only where the group is dead (`Reported`). `over` may be raised at any moment
after the caller's look at it, and the invariant holds all the same: such a call ends in an error that
reports no kill.

Only model-checked: liveness under fairness (`DocumentsLand`, `VerbEnds`, `Ends`), which is out of the
prover's reach, as is `ENABLED`. Every safety property that a passing run checks is proved, under the
hypotheses above. `NeverRegresses` is false of the loop, `NeverHalf` at a terminal: these are runs
that expect a violation. The modules that theorems are about declare no RECURSIVE operator.

## What is not modelled

* Cluster: forwarding a verb to the owning node by ssh, and a guest that migrates while a verb runs.
  The lock is per node; a migrating container is locked by PVE.
* Time. A command has an end (`CmdRunner`) and no duration, so the watchdog's 45 minutes against
  several commands of 30 are a note above; each death it causes is `LoopCrash`.
* `diff` makes the reads of `status` and prints what it read; its line diff is a pure function
  nothing else depends on.
* Text: the YAML of a document around what decides, the variables substituted in what is rendered,
  JSON from `pct` and `docker`, which storages and templates `new` offers, notes and colours.
* Owners of volume directories, and files above the 1 MiB that a read accepts: sizes of texts and
  file owners are in no model.
* Orphans of an interrupted verb in `Apply`: only `FileWrite` has them. `OneWriter` is about
  processes, not about commands that outlive them.
* A guest that is destroyed, and its document with it or not: `New` starts from what that leaves.
* Power loss of the node: nothing is synced before the rename, and the claim in the code is about a
  killed apply.

## Plan

Done: `Apply`, `Daemon`, `Plan`, `FileWrite`, `CmdRunner`, in the order of what would hurt most; then
`Document`, `Sizes` and `ConfigFile`, `New`, `Status`, `PctHalf`; and the proofs of every safety
property the passing runs check. Next, in this order:

1. The converse of `LockInv`: a lock that is held is held by a process at a label under it, so that no
   death leaves one behind.
2. That `Apply`'s own pct half, of the process that has a guest's lock, implements `PctHalf` too: so far
   that `PctOp` is its `Command` is read off the two definitions.
3. `Watchdog`: time in ticks, commands with their deadlines, `WatchdogSec`.
4. `LineDiff` as an operator against its reference: a diff whose two projections are its two texts.
