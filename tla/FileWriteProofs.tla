-------------------------- MODULE FileWriteProofs ---------------------------
(* Proofs about write_file and read_file, for any writers, readers, texts   *)
(* and bounds, under Spec: no command outlives the process that runs it.    *)
EXTENDS FileWrite, SequenceTheorems, TLAPS

-----------------------------------------------------------------------------
(* The inductive invariant                                                 *)

Pieces == [1 .. Chunks -> Texts \cup {Hole}]
Full(t) == [i \in 1 .. Chunks |-> t]

\* What a reader has open is an inode, and what it has seen is texts.
ReadType == reading \in [Readers -> [inode : Nat, seen : Seq(Texts)] \cup {None}]

\* A call is made under the guest's lock, from its first step to its last.
Held == \A p \in Writers : pc[p] # "idle" => lock = p /\ text[p] \in Texts

\* One command runs at most, for the step its process is at.
OneCommand ==
    /\ \A c \in running : c.by \in Writers /\ c.kind = pc[c.by] /\ c.text = text[c.by]
    /\ \A c, d \in running : c = d
    /\ \A p \in Writers : pc[p] \in {"push", "rm", "mv"} => \E c \in running : c.by = p

\* What the command has done of its work.
Progress ==
    \A c \in running :
        /\ c.kind = "push" /\ c.inode = None => c.pos = 0
        /\ c.kind = "push" /\ c.inode # None =>
              c.inode = staged /\ \A i \in 1 .. c.pos : data[staged][i] = c.text
        /\ c.kind = "mv" /\ c.pos = 0 => staged # None /\ data[staged] = Full(c.text)
        /\ c.kind = "mv" /\ c.pos = 1 => target # None /\ data[target] = Full(c.text)

\* The file is whole, and the sibling is another one.
TargetWhole ==
    target # None => target # staged /\ \E t \in Texts : data[target] = Full(t)

\* What a reader has open is whole, and no push writes to it.
ReadersKeep ==
    \A r \in Readers :
        reading[r] # None =>
            /\ reading[r].inode \in Inodes
            /\ reading[r].inode # staged
            /\ Len(reading[r].seen) <= Chunks
            /\ \E t \in Texts : /\ data[reading[r].inode] = Full(t)
                                /\ \A i \in 1 .. Len(reading[r].seen) :
                                      reading[r].seen[i] = t

Inv ==
    /\ FileTypeOK /\ ReadType
    /\ Held /\ OneCommand /\ Progress
    /\ TargetWhole /\ ReadersKeep

-----------------------------------------------------------------------------
(* Texts and inodes                                                        *)

LEMMA FullType == ASSUME NEW t \in Texts PROVE Full(t) \in Pieces
BY DEF Full, Pieces

LEMMA BlankType == Blank \in Pieces
BY DEF Blank, Pieces

\* A piece whose chunks are all of one text is that text.
LEMMA FullFrom ==
    ASSUME NEW d \in Pieces, NEW t, \A i \in 1 .. Chunks : d[i] = t
    PROVE  d = Full(t)
BY DEF Full, Pieces

LEMMA FullWhole ==
    ASSUME NEW t \in Texts
    PROVE  Whole(Full(t)) /\ Full(t)[1] = t
BY FileAssumption DEF Full, Whole

\* A new inode leaves the others as they are.
LEMMA AppendInode ==
    ASSUME NEW d \in Seq(Pieces), NEW x \in Pieces
    PROVE  /\ Append(d, x) \in Seq(Pieces)
           /\ Len(Append(d, x)) = Len(d) + 1
           /\ \A i \in 1 .. Len(d) : Append(d, x)[i] = d[i]
           /\ Append(d, x)[Len(d) + 1] = x
BY AppendProperties

\* So does a change to one.
LEMMA ExceptInode ==
    ASSUME NEW d \in Seq(Pieces), NEW k \in 1 .. Len(d), NEW x \in Pieces
    PROVE  /\ [d EXCEPT ![k] = x] \in Seq(Pieces)
           /\ Len([d EXCEPT ![k] = x]) = Len(d)
           /\ \A i \in 1 .. Len(d) : i # k => [d EXCEPT ![k] = x][i] = d[i]
           /\ [d EXCEPT ![k] = x][k] = x
BY ExceptSeq

-----------------------------------------------------------------------------
(* Whose step it is                                                        *)

\* While a process is in a call no other one is, and the commands are its own.
LEMMA Alone ==
    ASSUME Inv, NEW p \in Writers, pc[p] # "idle"
    PROVE  /\ lock = p /\ text[p] \in Texts /\ p # Nobody
           /\ \A q \in Writers : pc[q] # "idle" => q = p
           /\ \A c \in running : c.by = p
           /\ Mine(p) = running
<1>1. lock = p /\ text[p] \in Texts /\ \A q \in Writers : pc[q] # "idle" => q = p
  BY DEF Inv, Held
<1>2. ASSUME NEW c \in running PROVE c.by = p
  <2>1. c.by \in Writers /\ c.kind = pc[c.by] /\ c \in Commands
    BY DEF Inv, OneCommand, FileTypeOK
  <2>2. c.kind # "idle"
    BY <2>1 DEF Commands
  <2> QED
    BY <1>1, <2>1, <2>2
<1> QED
  BY <1>1, <1>2, FileAssumption DEF Mine

LEMMA InitInv == Init => Inv
<1> SUFFICES ASSUME Init PROVE Inv
  OBVIOUS
<1>1. /\ running = {} /\ staged = None /\ lock = Nobody
      /\ pc = [p \in Writers |-> "idle"] /\ text = [p \in Writers |-> None]
      /\ told = [p \in Writers |-> "nothing"] /\ reading = [r \in Readers |-> None]
  BY DEF Init
<1>2. /\ data \in Seq(Pieces)
      /\ target \in Inodes \cup {None}
      /\ TargetWhole
  <2>1. CASE data = <<>> /\ target = None
    BY <2>1 DEF TargetWhole
  <2>2. CASE \E t \in Texts : data = <<[i \in 1 .. Chunks |-> t]>> /\ target = 1
    <3>1. PICK t \in Texts : data = <<Full(t)>> /\ target = 1
      BY <2>2 DEF Full
    <3> QED
      BY <1>1, <3>1, FullType, FileAssumption DEF TargetWhole, Inodes
  <2> QED
    BY <2>1, <2>2 DEF Init
<1>3. FileTypeOK
  BY <1>1, <1>2 DEF FileTypeOK, Pieces
<1> QED
  BY <1>1, <1>2, <1>3 DEF Inv, ReadType, Held, OneCommand, Progress, ReadersKeep

-----------------------------------------------------------------------------
(* The steps of the commands                                               *)

\* The command that runs, and whose it is.
LEMMA TheCommand ==
    ASSUME Inv, NEW c \in running
    PROVE  /\ c \in Commands /\ running = {c}
           /\ c.by \in Writers /\ c.kind = pc[c.by] /\ pc[c.by] # "idle"
           /\ c.text = text[c.by] /\ c.text \in Texts
<1>1. c \in Commands /\ running = {c} /\ c.by \in Writers /\ c.kind = pc[c.by]
      /\ c.text = text[c.by]
  BY DEF Inv, OneCommand, FileTypeOK
<1> QED
  BY <1>1 DEF Commands

\* What a step of command c to d has to show: the rest of the invariant does
\* not depend on it.
LEMMA CommandKeeps ==
    ASSUME Inv, NEW c \in running, NEW d \in Commands, Goes(c, d),
           d.by = c.by, d.kind = c.kind, d.text = c.text,
           UNCHANGED <<calls, reading>>,
           data' \in Seq(Pieces), Len(data') >= Len(data),
           target' \in 1 .. Len(data') \cup {None},
           staged' \in 1 .. Len(data') \cup {None}
    PROVE  /\ FileTypeOK' /\ ReadType' /\ Held' /\ OneCommand'
           /\ running' = {d}
<1>1. running' = {d}
  BY TheCommand DEF Goes
<1>2. FileTypeOK'
  <2>1. \A r \in Readers : reading'[r] # None => reading'[r].inode \in Inodes'
    <3>1. Len(data) \in Nat /\ Len(data') \in Nat
      BY LenProperties DEF Inv, FileTypeOK
    <3> QED
      BY <3>1 DEF Inv, FileTypeOK, Inodes
  <2>2. /\ data' \in Seq([1 .. Chunks -> Texts \cup {Hole}])
        /\ target' \in Inodes' \cup {None} /\ staged' \in Inodes' \cup {None}
    BY DEF Pieces, Inodes
  <2>3. running' \subseteq Commands /\ \A e \in running' : e.kind = pc'[e.by]
    BY <1>1, TheCommand DEF calls
  <2> QED
    BY <2>1, <2>2, <2>3 DEF Inv, FileTypeOK, calls
<1>3. OneCommand'
  BY <1>1, TheCommand DEF Inv, OneCommand, calls
<1> QED
  BY <1>1, <1>2, <1>3 DEF Inv, ReadType, Held, calls

LEMMA PushOpenInv ==
    ASSUME Inv, NEW c \in running, PushOpen(c)
    PROVE  Inv'
<1> DEFINE d == [c EXCEPT !.inode = staged']
<1>1. /\ c \in Commands /\ c.text \in Texts /\ c.kind = "push" /\ c.inode = None
      /\ c.pos = 0 /\ Goes(c, d) /\ UNCHANGED <<target, calls, reading>>
  BY TheCommand DEF PushOpen, Inv, Progress
<1>2. /\ data' \in Seq(Pieces) /\ Len(data') \in Nat /\ Len(data) \in Nat
      /\ Len(data') >= Len(data)
      /\ staged' \in 1 .. Len(data')
      /\ \A i \in Inodes : i # staged => data'[i] = data[i] /\ i # staged'
  <2>1. data \in Seq(Pieces) /\ staged \in Inodes \cup {None} /\ Len(data) \in Nat
    BY LenProperties DEF Inv, FileTypeOK, Pieces
  <2>2. CASE staged = None
    <3>1. data' = Append(data, Blank) /\ staged' = Len(data) + 1
      BY <2>2 DEF PushOpen
    <3> QED
      BY <2>1, <3>1, BlankType, AppendInode DEF Inodes
  <2>3. CASE staged # None
    <3>1. data' = [data EXCEPT ![staged] = Blank] /\ staged' = staged
      BY <2>3 DEF PushOpen
    <3>2. staged \in 1 .. Len(data)
      BY <2>1, <2>3 DEF Inodes
    <3> QED
      BY <2>1, <3>1, <3>2, BlankType, ExceptInode DEF Inodes
  <2> QED
    BY <2>2, <2>3
<1>3. d \in Commands /\ d.by = c.by /\ d.kind = c.kind /\ d.text = c.text
      /\ d.inode = staged' /\ d.pos = 0
  BY <1>1, <1>2 DEF Commands
<1> HIDE DEF d
<1>4. target' \in 1 .. Len(data') \cup {None}
  BY <1>1, <1>2 DEF Inv, FileTypeOK, Inodes
<1>5. FileTypeOK' /\ ReadType' /\ Held' /\ OneCommand' /\ running' = {d}
  BY <1>1, <1>2, <1>3, <1>4, CommandKeeps
<1>6. Progress'
  BY <1>1, <1>3, <1>5 DEF Progress
<1>7. TargetWhole'
  BY <1>1, <1>2 DEF Inv, TargetWhole, FileTypeOK
<1>8. ReadersKeep'
  BY <1>1, <1>2 DEF Inv, ReadersKeep, Inodes
<1> QED
  BY <1>5, <1>6, <1>7, <1>8 DEF Inv

LEMMA PushChunkInv ==
    ASSUME Inv, NEW c \in running, PushChunk(c)
    PROVE  Inv'
<1> DEFINE d == [c EXCEPT !.pos = c.pos + 1]
           piece == [data[c.inode] EXCEPT ![c.pos + 1] = c.text]
<1>1. /\ c \in Commands /\ c.text \in Texts /\ c.kind = "push" /\ c.inode # None
      /\ c.inode = staged /\ c.pos \in 0 .. Chunks /\ c.pos < Chunks
      /\ \A i \in 1 .. c.pos : data[staged][i] = c.text
      /\ Goes(c, d) /\ UNCHANGED <<target, staged, calls, reading>>
      /\ data' = [data EXCEPT ![staged] = piece]
  BY TheCommand DEF PushChunk, Inv, Progress, Commands
<1>2. data \in Seq(Pieces) /\ staged \in 1 .. Len(data) /\ Len(data) \in Nat
  BY <1>1, LenProperties DEF Inv, FileTypeOK, Pieces, Inodes
<1>3. data[staged] \in Pieces
  BY <1>2, ElementOfSeq
<1>4. piece \in Pieces /\ \A i \in 1 .. c.pos + 1 : piece[i] = c.text
  BY <1>1, <1>3, FileAssumption DEF Pieces
<1>5. /\ data' \in Seq(Pieces) /\ Len(data') = Len(data) /\ data'[staged] = piece
      /\ \A i \in Inodes : i # staged => data'[i] = data[i]
  BY <1>1, <1>2, <1>4, ExceptInode DEF Inodes
<1>6. d \in Commands /\ d.by = c.by /\ d.kind = c.kind /\ d.text = c.text
      /\ d.inode = c.inode /\ d.pos = c.pos + 1
  BY <1>1, FileAssumption DEF Commands
<1> HIDE DEF d, piece
<1>7. FileTypeOK' /\ ReadType' /\ Held' /\ OneCommand' /\ running' = {d}
  <2>1. /\ target' \in 1 .. Len(data') \cup {None}
        /\ staged' \in 1 .. Len(data') \cup {None}
    BY <1>1, <1>2, <1>5 DEF Inv, FileTypeOK, Inodes
  <2> QED
    BY <1>1, <1>2, <1>5, <1>6, <2>1, CommandKeeps
<1>8. Progress'
  BY <1>1, <1>4, <1>5, <1>6, <1>7 DEF Progress
<1>9. TargetWhole'
  BY <1>1, <1>5 DEF Inv, TargetWhole, FileTypeOK
<1>10. ReadersKeep'
  BY <1>1, <1>5 DEF Inv, ReadersKeep, Inodes
<1> QED
  BY <1>7, <1>8, <1>9, <1>10 DEF Inv

LEMMA RenameInv ==
    ASSUME Inv, NEW c \in running, Rename(c)
    PROVE  Inv' /\ data'[target'] = Full(c.text) /\ target' # None
<1> DEFINE d == [c EXCEPT !.pos = 1]
<1>1. /\ c \in Commands /\ c.text \in Texts /\ c.kind = "mv" /\ c.pos = 0
      /\ staged # None /\ data[staged] = Full(c.text)
      /\ Goes(c, d) /\ UNCHANGED <<data, calls, reading>>
      /\ target' = staged /\ staged' = None
  BY TheCommand DEF Rename, Inv, Progress
<1>2. data \in Seq(Pieces) /\ staged \in 1 .. Len(data) /\ Len(data) \in Nat
  BY <1>1, LenProperties DEF Inv, FileTypeOK, Pieces, Inodes
<1>3. d \in Commands /\ d.by = c.by /\ d.kind = c.kind /\ d.text = c.text /\ d.pos = 1
  BY <1>1, FileAssumption DEF Commands
<1> HIDE DEF d
<1>4. FileTypeOK' /\ ReadType' /\ Held' /\ OneCommand' /\ running' = {d}
  BY <1>1, <1>2, <1>3, CommandKeeps
<1>5. Progress' /\ TargetWhole'
  BY <1>1, <1>3, <1>4 DEF Progress, TargetWhole
<1>6. ReadersKeep'
  BY <1>1, <1>2, FileAssumption DEF Inv, ReadersKeep, Inodes
<1> QED
  BY <1>1, <1>4, <1>5, <1>6 DEF Inv

LEMMA RemoveInv ==
    ASSUME Inv, NEW c \in running, Remove(c)
    PROVE  Inv'
<1> DEFINE d == [c EXCEPT !.pos = 1]
<1>1. /\ c \in Commands /\ c.kind = "rm" /\ Goes(c, d)
      /\ UNCHANGED <<data, target, calls, reading>> /\ staged' = None
  BY TheCommand DEF Remove
<1>2. data \in Seq(Pieces) /\ Len(data) \in Nat
  BY LenProperties DEF Inv, FileTypeOK, Pieces
<1>3. d \in Commands /\ d.by = c.by /\ d.kind = c.kind /\ d.text = c.text
  BY <1>1, FileAssumption DEF Commands
<1> HIDE DEF d
<1>4. FileTypeOK' /\ ReadType' /\ Held' /\ OneCommand' /\ running' = {d}
  <2>1. target' \in 1 .. Len(data') \cup {None}
    BY <1>1 DEF Inv, FileTypeOK, Inodes
  <2> QED
    BY <1>1, <1>2, <1>3, <2>1, CommandKeeps
<1>5. Progress' /\ TargetWhole'
  BY <1>1, <1>3, <1>4 DEF Inv, Progress, TargetWhole
<1>6. ReadersKeep'
  BY <1>1, FileAssumption DEF Inv, ReadersKeep, Inodes
<1> QED
  BY <1>4, <1>5, <1>6 DEF Inv

-----------------------------------------------------------------------------
(* The steps of the writers                                                *)

\* A call that returns, or dies, leaves nothing behind that runs.
LEMMA EndsInv ==
    ASSUME Inv, NEW p \in Writers, pc[p] # "idle",
           NEW result \in {"nothing", "ok", "error"}, Ends(p, result),
           running' = running \ Mine(p), UNCHANGED <<files, reading>>
    PROVE  Inv'
<1>1. running' = {} /\ \A q \in Writers : pc'[q] = "idle"
  BY Alone DEF Inv, FileTypeOK, Ends
<1>2. FileTypeOK'
  BY <1>1 DEF Inv, FileTypeOK, Ends, files, Inodes
<1>3. Held' /\ OneCommand' /\ Progress'
  BY <1>1 DEF Held, OneCommand, Progress
<1> QED
  BY <1>2, <1>3 DEF Inv, ReadType, TargetWhole, ReadersKeep, files, Inodes

\* The next command of a call has done nothing yet; a rename has what to move.
LEMMA RunsInv ==
    ASSUME Inv, NEW p \in Writers, pc[p] # "idle",
           NEW kind \in {"push", "rm", "mv"}, Runs(p, kind),
           kind = "mv" => staged # None /\ data[staged] = Full(text[p]),
           UNCHANGED <<files, reading>>
    PROVE  Inv'
<1> DEFINE d == Command(p, kind)
<1>1. /\ running' = {d} /\ pc' = [pc EXCEPT ![p] = kind]
      /\ UNCHANGED <<lock, text, told>>
  BY Alone DEF Runs
<1>2. /\ d \in Commands /\ d.by = p /\ d.kind = kind /\ d.text = text[p]
      /\ d.inode = None /\ d.pos = 0
  BY Alone, FileAssumption DEF Command, Commands
<1> HIDE DEF d
<1>3. pc'[p] = kind /\ \A q \in Writers : q # p => pc'[q] = "idle"
  BY <1>1, Alone DEF Inv, FileTypeOK
<1>4. FileTypeOK'
  <2>1. running' \subseteq Commands /\ \A c \in running' : c.kind = pc'[c.by]
    BY <1>1, <1>2, <1>3
  <2> QED
    BY <1>1, <2>1 DEF Inv, FileTypeOK, files, Inodes
<1>5. Held'
  BY <1>1, <1>3, Alone DEF Held
<1>6. OneCommand'
  BY <1>1, <1>2, <1>3 DEF OneCommand
<1>7. Progress'
  BY <1>1, <1>2 DEF Progress, files
<1> QED
  BY <1>4, <1>5, <1>6, <1>7 DEF Inv, ReadType, TargetWhole, ReadersKeep, files, Inodes

LEMMA CallInv ==
    ASSUME Inv, NEW p \in Writers, NEW t \in Texts, Call(p, t)
    PROVE  Inv'
<1>1. \A q \in Writers : pc[q] = "idle"
  BY FileAssumption DEF Call, Inv, Held
<1>2. running = {}
  BY <1>1 DEF Inv, OneCommand, FileTypeOK, Commands
<1>3. running' = {} /\ lock' = p /\ text'[p] = t
      /\ \A q \in Writers : IF q = p THEN pc'[q] = "copy" ELSE pc'[q] = "idle"
  BY <1>1, <1>2 DEF Call, Inv, FileTypeOK
<1>4. FileTypeOK'
  BY <1>3 DEF Inv, FileTypeOK, Call, files, Inodes
<1>5. Held' /\ OneCommand' /\ Progress'
  BY <1>3 DEF Held, OneCommand, Progress
<1> QED
  BY <1>4, <1>5 DEF Inv, Call, ReadType, TargetWhole, ReadersKeep, files, Inodes

\* A push that is finished has filled the sibling.
LEMMA PushedWhole ==
    ASSUME Inv, NEW p \in Writers, pc[p] = "push", \A c \in Mine(p) : Finished(c)
    PROVE  staged # None /\ data[staged] = Full(text[p])
<1>1. PICK c \in running : c.by = p
  BY DEF Inv, OneCommand
<1>2. /\ c.kind = "push" /\ c.text = text[p] /\ c.inode # None /\ c.pos = Chunks
      /\ staged = c.inode /\ \A i \in 1 .. Chunks : data[staged][i] = text[p]
  BY <1>1, TheCommand DEF Mine, Finished, Inv, Progress
<1>3. data[staged] \in Pieces
  BY <1>2, ElementOfSeq DEF Inv, FileTypeOK, Pieces, Inodes
<1> QED
  BY <1>2, <1>3, FullFrom

LEMMA WriterInv ==
    ASSUME Inv, NEW p \in Writers, WriterStep(p)
    PROVE  Inv'
<1>1. CASE \E t \in Texts : Call(p, t)
  BY <1>1, CallInv
<1>2. CASE Push(p)
  BY <1>2, RunsInv DEF Push
<1>3. CASE CopyFails(p)
  <2>1. Mine(p) = {}
    BY <1>3, TheCommand DEF CopyFails, Mine, Commands
  <2>2. Ends(p, "error") /\ running' = running \ Mine(p) /\ UNCHANGED <<files, reading>>
    BY <1>3, <2>1 DEF CopyFails
  <2> QED
    BY <1>3, <2>2, EndsInv DEF CopyFails
<1>4. CASE Move(p)
  BY <1>4, RunsInv, PushedWhole DEF Move
<1>5. CASE PushFails(p)
  BY <1>5, RunsInv DEF PushFails
<1>6. CASE RemoveEnds(p) \/ MoveFails(p)
  BY <1>6, EndsInv DEF RemoveEnds, MoveFails, Over
<1>7. CASE MoveEnds(p)
  BY <1>7, EndsInv DEF MoveEnds, Over
<1>8. CASE Killed(p)
  BY <1>8, EndsInv DEF Killed, Over
<1> QED
  BY <1>1, <1>2, <1>3, <1>4, <1>5, <1>6, <1>7, <1>8 DEF WriterStep

-----------------------------------------------------------------------------
(* The steps of the readers                                                *)

\* They change nothing but what they have read.
LEMMA ReaderRest ==
    ASSUME Inv, NEW r \in Readers, NEW f,
           f = None \/ (f.inode \in Inodes /\ f \in [inode : Nat, seen : Seq(Texts)]),
           reading' = [reading EXCEPT ![r] = f],
           UNCHANGED <<files, running, calls>>
    PROVE  /\ FileTypeOK' /\ ReadType' /\ Held' /\ OneCommand' /\ Progress'
           /\ TargetWhole'
           /\ \A q \in Readers : IF q = r THEN reading'[q] = f ELSE reading'[q] = reading[q]
<1>1. \A q \in Readers : IF q = r THEN reading'[q] = f ELSE reading'[q] = reading[q]
  BY DEF Inv, ReadType
<1>2. ReadType'
  BY DEF Inv, ReadType
<1>3. FileTypeOK'
  BY <1>1 DEF Inv, FileTypeOK, files, calls, Inodes
<1>4. Held' /\ OneCommand' /\ Progress' /\ TargetWhole'
  BY DEF Inv, Held, OneCommand, Progress, TargetWhole, files, calls
<1> QED
  BY <1>1, <1>2, <1>3, <1>4

LEMMA OpenInv == ASSUME Inv, NEW r \in Readers, Open(r) PROVE Inv'
<1> DEFINE f == [inode |-> target, seen |-> <<>>]
<1>1. /\ target \in Inodes /\ target \in Nat /\ target # staged
      /\ reading' = [reading EXCEPT ![r] = f] /\ UNCHANGED <<files, running, calls>>
  BY DEF Open, Inv, FileTypeOK, TargetWhole, Inodes
<1>2. PICK t \in Texts : data[target] = Full(t)
  BY DEF Open, Inv, TargetWhole
<1>3. f \in [inode : Nat, seen : Seq(Texts)] /\ f.inode = target /\ Len(f.seen) = 0
  BY <1>1
<1> HIDE DEF f
<1>4. /\ FileTypeOK' /\ ReadType' /\ Held' /\ OneCommand' /\ Progress' /\ TargetWhole'
      /\ \A q \in Readers : IF q = r THEN reading'[q] = f ELSE reading'[q] = reading[q]
  BY <1>1, <1>3, ReaderRest
<1>5. ReadersKeep'
  BY <1>1, <1>2, <1>3, <1>4, FileAssumption DEF Inv, ReadersKeep, files, Inodes
<1> QED
  BY <1>4, <1>5 DEF Inv

LEMMA ReadChunkInv == ASSUME Inv, NEW r \in Readers, ReadChunk(r) PROVE Inv'
<1> DEFINE old == reading[r]
           chunk == data[old.inode][Len(old.seen) + 1]
           f == [old EXCEPT !.seen = Append(@, chunk)]
<1>1. /\ old \in [inode : Nat, seen : Seq(Texts)] /\ Len(old.seen) < Chunks
      /\ old.inode \in Inodes /\ old.inode # staged
      /\ reading' = [reading EXCEPT ![r] = f] /\ UNCHANGED <<files, running, calls>>
  BY DEF ReadChunk, Inv, ReadType, ReadersKeep
<1>2. PICK t \in Texts : /\ data[old.inode] = Full(t)
                         /\ \A i \in 1 .. Len(old.seen) : old.seen[i] = t
  BY DEF ReadChunk, Inv, ReadersKeep
<1>3. old.seen \in Seq(Texts) /\ Len(old.seen) \in Nat
  BY <1>1, LenProperties
<1>4. chunk = t
  BY <1>1, <1>2, <1>3, FileAssumption DEF Full
<1>5. /\ Append(old.seen, chunk) \in Seq(Texts)
      /\ Len(Append(old.seen, chunk)) = Len(old.seen) + 1
      /\ \A i \in 1 .. Len(old.seen) + 1 : Append(old.seen, chunk)[i] = t
  BY <1>2, <1>3, <1>4, AppendProperties
<1>6. /\ f \in [inode : Nat, seen : Seq(Texts)] /\ f.inode = old.inode
      /\ Len(f.seen) = Len(old.seen) + 1 /\ \A i \in 1 .. Len(f.seen) : f.seen[i] = t
  BY <1>1, <1>5
<1> HIDE DEF f, chunk
<1>7. /\ FileTypeOK' /\ ReadType' /\ Held' /\ OneCommand' /\ Progress' /\ TargetWhole'
      /\ \A q \in Readers : IF q = r THEN reading'[q] = f ELSE reading'[q] = reading[q]
  BY <1>1, <1>6, ReaderRest
<1>8. f.inode \in Inodes /\ f.inode # staged /\ Len(f.seen) <= Chunks
      /\ data[f.inode] = Full(t)
  BY <1>1, <1>2, <1>3, <1>6, FileAssumption
<1> HIDE DEF old
<1>9. ReadersKeep'
  <2>1. ASSUME NEW q \in Readers, q # r, reading[q] # None
        PROVE  /\ reading[q].inode \in Inodes /\ reading[q].inode # staged
               /\ Len(reading[q].seen) <= Chunks
               /\ \E u \in Texts : /\ data[reading[q].inode] = Full(u)
                                   /\ \A i \in 1 .. Len(reading[q].seen) :
                                         reading[q].seen[i] = u
    BY <2>1 DEF Inv, ReadersKeep
  <2>2. UNCHANGED <<data, staged>> /\ Inodes' = Inodes
    BY <1>1 DEF files, Inodes
  <2> QED
    BY <1>6, <1>7, <1>8, <2>1, <2>2 DEF ReadersKeep
<1> QED
  BY <1>7, <1>9 DEF Inv

LEMMA CloseInv == ASSUME Inv, NEW r \in Readers, Close(r) PROVE Inv'
<1>1. /\ FileTypeOK' /\ ReadType' /\ Held' /\ OneCommand' /\ Progress' /\ TargetWhole'
      /\ \A q \in Readers :
            IF q = r THEN reading'[q] = None ELSE reading'[q] = reading[q]
  BY ReaderRest DEF Close
<1>2. ReadersKeep'
  BY <1>1 DEF Close, Inv, ReadersKeep, files, Inodes
<1> QED
  BY <1>1, <1>2 DEF Inv

LEMMA InvStep == Inv /\ [Next]_vars => Inv'
<1> SUFFICES ASSUME Inv, [Next]_vars PROVE Inv'
  OBVIOUS
<1>1. CASE \E p \in Writers : WriterStep(p)
  BY <1>1, WriterInv
<1>2. CASE \E c \in running : CommandStep(c)
  BY <1>2, PushOpenInv, PushChunkInv, RenameInv, RemoveInv DEF CommandStep
<1>3. CASE \E r \in Readers : Open(r) \/ ReadChunk(r) \/ Close(r)
  BY <1>3, OpenInv, ReadChunkInv, CloseInv
<1>4. CASE UNCHANGED vars
  BY <1>4 DEF vars, files, calls, Inv, FileTypeOK, ReadType, Held, OneCommand,
              Progress, TargetWhole, ReadersKeep, Inodes
<1> QED
  BY <1>1, <1>2, <1>3, <1>4 DEF Next

LEMMA Invariant == Spec => []Inv
BY InitInv, InvStep, PTL DEF Spec

\* Every reachable state is well typed, and a process that waits for a
\* command waits for the one it has started.
THEOREM FileTypeCorrect == Spec => []FileTypeOK
<1>1. Inv => FileTypeOK
  BY DEF Inv
<1> QED
  BY <1>1, Invariant, PTL

\* A reader gets one text from its first byte to its last, while the file is
\* replaced: what it has open is never written to.
THEOREM ReadersSeeOneText == Spec => []ReadsWhole
<1>1. Inv => ReadsWhole
  <2> SUFFICES ASSUME Inv, NEW r \in Readers, reading[r] # None,
                      Len(reading[r].seen) = Chunks
               PROVE  Whole(reading[r].seen)
    BY DEF ReadsWhole
  <2>1. reading[r].seen \in Seq(Texts)
    BY DEF Inv, ReadType
  <2>2. PICK t \in Texts : \A i \in 1 .. Chunks : reading[r].seen[i] = t
    BY DEF Inv, ReadersKeep
  <2>3. reading[r].seen = [i \in 1 .. Chunks |-> t]
    BY <2>1, <2>2
  <2> QED
    BY <2>3 DEF Whole
<1> QED
  BY <1>1, Invariant, PTL

-----------------------------------------------------------------------------
(* The atomic file                                                         *)

\* What the file holds, where it is whole.
LEMMA ValueOf ==
    ASSUME Inv
    PROVE  /\ Value \in Texts \cup {None}
           /\ \A t \in Texts : target # None /\ data[target] = Full(t) => Value = t
<1>1. \A t \in Texts : target # None /\ data[target] = Full(t) => Value = t
  BY FullWhole DEF Value
<1> QED
  BY <1>1 DEF Inv, TargetWhole, Value

\* The file changes with its name and with what is in it, and in no other way.
LEMMA SameValue ==
    ASSUME target' = target, target # None => data'[target] = data[target]
    PROVE  Value' = Value
BY DEF Value, Whole

LEMMA SameDoing == ASSUME UNCHANGED <<pc, text>> PROVE Doing' = Doing
BY DEF Doing

\* Only the rename of a whole sibling changes the file, to what its call writes.
LEMMA CommandImplements ==
    ASSUME Inv, NEW c \in running, CommandStep(c)
    PROVE  UNCHANGED <<Value, Doing, told>> \/ \E p \in Writers : Abstract!Land(p)
<1>1. UNCHANGED <<pc, text, told>>
  BY DEF CommandStep, PushOpen, PushChunk, Rename, Remove, calls
<1>2. Doing' = Doing
  BY <1>1, SameDoing
<1>3. data \in Seq(Pieces) /\ target \in 1 .. Len(data) \cup {None}
      /\ staged \in 1 .. Len(data) \cup {None} /\ (target # None => target # staged)
  BY DEF Inv, FileTypeOK, TargetWhole, Pieces, Inodes
<1>4. CASE PushOpen(c)
  <2>1. target' = target
    BY <1>4 DEF PushOpen
  <2>2. ASSUME target # None PROVE data'[target] = data[target]
    BY <1>3, <1>4, <2>2, BlankType, AppendInode, ExceptInode DEF PushOpen
  <2> QED
    BY <1>1, <1>2, <2>1, <2>2, SameValue
<1>5. CASE PushChunk(c)
  <2>1. target' = target /\ c.inode = staged
        /\ data' = [data EXCEPT ![staged] = [data[staged] EXCEPT ![c.pos + 1] = c.text]]
    BY <1>5, TheCommand DEF PushChunk, Inv, Progress
  <2>2. ASSUME target # None PROVE data'[target] = data[target]
    BY <1>3, <2>1, <2>2
  <2> QED
    BY <1>1, <1>2, <2>1, <2>2, SameValue
<1>6. CASE Remove(c)
  BY <1>1, <1>2, <1>6, SameValue DEF Remove
<1>7. CASE Rename(c)
  <2>1. Inv' /\ target' # None /\ data'[target'] = Full(c.text)
    BY <1>7, RenameInv
  <2>2. Value' = c.text
    <3>1. c.text \in Texts
      BY TheCommand
    <3>2. Whole(data'[target']) /\ data'[target'][1] = c.text
      BY <2>1, <3>1, FullWhole
    <3> QED
      BY <2>1, <3>2 DEF Value, Whole
  <2>3. c.by \in Writers /\ Doing[c.by] = c.text /\ c.text # None
    BY TheCommand, FileAssumption DEF Doing
  <2> QED
    BY <1>1, <1>2, <2>2, <2>3 DEF Abstract!Land
<1> QED
  BY <1>4, <1>5, <1>6, <1>7 DEF CommandStep

\* A call that returns is a return; without an error, its text is in place.
LEMMA EndsImplements ==
    ASSUME Inv, NEW p \in Writers, pc[p] # "idle",
           NEW result \in {"nothing", "ok", "error"}, Ends(p, result),
           UNCHANGED files, result = "ok" => Value = text[p]
    PROVE  Abstract!Return(p, result)
<1>1. Doing[p] = text[p] /\ Doing[p] # None
  BY Alone, FileAssumption DEF Doing
<1>2. Doing' = [Doing EXCEPT ![p] = None]
  BY DEF Ends, Doing, Inv, FileTypeOK
<1>3. Value' = Value
  BY SameValue DEF files
<1> QED
  BY <1>1, <1>2, <1>3 DEF Ends, Abstract!Return

\* The steps inside a call are not seen.
LEMMA RunsImplements ==
    ASSUME Inv, NEW p \in Writers, pc[p] # "idle",
           NEW kind \in {"push", "rm", "mv"}, Runs(p, kind), UNCHANGED files
    PROVE  UNCHANGED <<Value, Doing, told>>
<1>1. Doing' = Doing
  BY DEF Runs, Doing, Inv, FileTypeOK
<1>2. Value' = Value
  BY SameValue DEF files
<1> QED
  BY <1>1, <1>2 DEF Runs

\* A rename that is finished has put the text in place.
LEMMA MovedWhole ==
    ASSUME Inv, NEW p \in Writers, MoveEnds(p)
    PROVE  Value = text[p]
<1>1. PICK c \in running : c.by = p
  BY DEF MoveEnds, Inv, OneCommand
<1>2. /\ c.kind = "mv" /\ c.text = text[p] /\ c.text \in Texts /\ c.pos = 1
      /\ target # None /\ data[target] = Full(text[p])
  BY <1>1, TheCommand DEF MoveEnds, Mine, Finished, Inv, Progress
<1> QED
  BY <1>2, ValueOf

LEMMA WriterImplements ==
    ASSUME Inv, NEW p \in Writers, WriterStep(p)
    PROVE  \/ UNCHANGED <<Value, Doing, told>>
           \/ \E t \in Texts : Abstract!Call(p, t)
           \/ \E result \in {"ok", "error", "nothing"} : Abstract!Return(p, result)
<1>1. ASSUME NEW t \in Texts, Call(p, t) PROVE Abstract!Call(p, t)
  <2>1. Doing[p] = None /\ Doing' = [Doing EXCEPT ![p] = t]
    BY <1>1 DEF Call, Doing, Inv, FileTypeOK
  <2>2. Value' = Value
    BY <1>1, SameValue DEF Call, files
  <2> QED
    BY <1>1, <2>1, <2>2 DEF Call, Abstract!Call
<1>2. CASE Push(p) \/ Move(p) \/ PushFails(p)
  BY <1>2, RunsImplements DEF Push, Move, PushFails
<1>3. CASE CopyFails(p) \/ RemoveEnds(p) \/ MoveFails(p) \/ Killed(p)
  BY <1>3, EndsImplements DEF CopyFails, RemoveEnds, MoveFails, Killed, Over
<1>4. CASE MoveEnds(p)
  BY <1>4, EndsImplements, MovedWhole DEF MoveEnds, Over
<1> QED
  BY <1>1, <1>2, <1>3, <1>4 DEF WriterStep

LEMMA InitImplements == Init => Abstract!Init
<1> SUFFICES ASSUME Init PROVE Abstract!Init
  OBVIOUS
<1>1. Value \in Texts \cup {None}
  BY InitInv, ValueOf
<1>2. Doing = [p \in Writers |-> None] /\ told = [p \in Writers |-> "nothing"]
  BY DEF Init, Doing
<1> QED
  BY <1>1, <1>2 DEF Abstract!Init

LEMMA StepImplements == Inv /\ [Next]_vars => [Abstract!Next]_(Abstract!vars)
<1> SUFFICES ASSUME Inv, [Next]_vars
             PROVE  Abstract!Next \/ UNCHANGED <<Value, Doing, told>>
  BY DEF Abstract!vars
<1>1. CASE \E p \in Writers : WriterStep(p)
  BY <1>1, WriterImplements DEF Abstract!Next
<1>2. CASE \E c \in running : CommandStep(c)
  BY <1>2, CommandImplements DEF Abstract!Next
<1>3. CASE (\E r \in Readers : Open(r) \/ ReadChunk(r) \/ Close(r)) \/ UNCHANGED vars
  <2>1. UNCHANGED <<data, target, pc, text, told>>
    BY <1>3 DEF Open, ReadChunk, Close, vars, files, calls
  <2> QED
    BY <2>1, SameValue, SameDoing
<1> QED
  BY <1>1, <1>2, <1>3 DEF Next

\* write_file makes an atomic write of push, rename and removal: the file
\* changes at the rename or never, and is in place when the call says so.
THEOREM WritesAreAtomic == Spec => Atomic
BY InitImplements, StepImplements, Invariant, PTL DEF Spec, Atomic, Abstract!Spec
=============================================================================
