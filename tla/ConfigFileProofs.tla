-------------------------- MODULE ConfigFileProofs --------------------------
(***************************************************************************)
(* Proofs about ConfigFile: its variables keep their types, no save that   *)
(* runs alone empties the file, and one that nobody wrote beside changes   *)
(* the keys it was asked for and no others, as long as the sizes that are  *)
(* typed are whole numbers of KiB; then too the root disk that is asked    *)
(* for in GiB has room for what the file says, and less than one more.     *)
(***************************************************************************)
EXTENDS ConfigFile, TLAPS

(* Sizes *)

\* Products of positive numbers are positive, and a number is no larger
\* than a multiple of it.
LEMMA Products ==
    ASSUME NEW x \in Nat \ {0}, NEW y \in Nat \ {0}
    PROVE  x * y \in Nat \ {0} /\ y <= x * y
  OBVIOUS

\* The units are positive, each no smaller than the one before.
LEMMA UnitsPositive ==
    /\ KIB \in Nat \ {0} /\ MIB \in Nat \ {0} /\ GIB \in Nat \ {0} /\ TIB \in Nat \ {0}
    /\ KIB <= MIB /\ MIB <= GIB /\ GIB <= TIB
<1>1. Kilo \in Nat \ {0} /\ KIB \in Nat \ {0}
  BY SizeAssumption DEF KIB
<1>2. MIB \in Nat \ {0} /\ KIB <= MIB
  BY <1>1, Products DEF MIB
<1>3. GIB \in Nat \ {0} /\ MIB <= GIB
  BY <1>1, <1>2, Products DEF GIB
<1>4. TIB \in Nat \ {0} /\ GIB <= TIB
  BY <1>1, <1>3, Products DEF TIB
<1> QED
  BY <1>1, <1>2, <1>3, <1>4

LEMMA UnitBytesPositive ==
    ASSUME NEW u \in Units
    PROVE  UnitBytes(u) \in Nat \ {0}
  BY UnitsPositive DEF UnitBytes, Units

\* A size as text: a bare number of bytes, or the units it is a multiple of.
LEMMA PrintedForms ==
    ASSUME NEW b \in Nat
    PROVE  \/ /\ b = 0 \/ b % KIB # 0
              /\ Printed(b) = [parts |-> Tenths * b, unit |-> "bare"]
           \/ \E u \in {"K", "M", "G", "T"} :
                 /\ b % UnitBytes(u) = 0
                 /\ Printed(b) = [parts |-> Tenths * (b \div UnitBytes(u)), unit |-> u]
<1> DEFINE fits == {u \in {"K", "M", "G", "T"} : b % UnitBytes(u) = 0}
           best == CHOOSE u \in fits : \A v \in fits : UnitBytes(v) <= UnitBytes(u)
<1>1. CASE b = 0 \/ fits = {}
  <2>1. UnitBytes("K") = KIB
    BY DEF UnitBytes
  <2>2. b = 0 \/ b % KIB # 0
    BY <1>1, <2>1
  <2>3. Printed(b) = [parts |-> Tenths * b, unit |-> "bare"]
    BY <1>1 DEF Printed
  <2> QED
    BY <2>2, <2>3
<1>2. CASE b # 0 /\ fits # {}
  <2>1. /\ UnitBytes("K") = KIB /\ UnitBytes("M") = MIB
        /\ UnitBytes("G") = GIB /\ UnitBytes("T") = TIB
    BY DEF UnitBytes
  <2>2. \E u \in fits : \A v \in fits : UnitBytes(v) <= UnitBytes(u)
    <3>1. CASE "T" \in fits
      BY <3>1, <2>1, UnitsPositive
    <3>2. CASE "T" \notin fits /\ "G" \in fits
      BY <3>2, <2>1, UnitsPositive
    <3>3. CASE "T" \notin fits /\ "G" \notin fits /\ "M" \in fits
      BY <3>3, <2>1, UnitsPositive
    <3>4. CASE "T" \notin fits /\ "G" \notin fits /\ "M" \notin fits
      BY <3>4, <2>1, <1>2, UnitsPositive
    <3> QED
      BY <3>1, <3>2, <3>3, <3>4
  <2>3. best \in fits
    BY <2>2
  <2>4. Printed(b) = [parts |-> Tenths * (b \div UnitBytes(best)), unit |-> best]
    BY <1>2 DEF Printed
  <2> QED
    BY <2>3, <2>4
<1> QED
  BY <1>1, <1>2

LEMMA PrintedType ==
    ASSUME NEW b \in Nat
    PROVE  Printed(b) \in SizeTexts
<1>1. Tenths \in Nat /\ Tenths * b \in Nat
  BY SizeAssumption
<1>2. ASSUME NEW u \in {"K", "M", "G", "T"}
      PROVE  Tenths * (b \div UnitBytes(u)) \in Nat /\ u \in Units
  <2>1. UnitBytes(u) \in Nat \ {0} /\ u \in Units
    BY UnitBytesPositive DEF Units
  <2>2. b \div UnitBytes(u) \in Nat
    BY <2>1
  <2> QED
    BY <1>1, <2>1, <2>2
<1>3. "bare" \in Units
  BY DEF Units
<1> QED
  BY <1>1, <1>2, <1>3, PrintedForms DEF SizeTexts

LEMMA ParsedType ==
    ASSUME NEW t \in SizeTexts
    PROVE  Parsed(t) \in Nat
<1>1. t.parts \in Nat /\ UnitBytes(t.unit) \in Nat
  BY UnitBytesPositive DEF SizeTexts
<1>2. t.parts * UnitBytes(t.unit) \in Nat
  BY <1>1
<1> QED
  BY <1>2, SizeAssumption DEF Parsed, RoundedDiv

\* Sizes that are whole numbers of KiB.
Whole == {b \in Nat \ {0} : b % KIB = 0}

\* x parts in Tenths of a number of bytes is that number, rounded or not.
LEMMA RoundsBack ==
    ASSUME NEW b \in Nat
    PROVE  RoundedDiv(Tenths * b, Tenths) = b
<1> DEFINE d == 2 * Tenths
<1>1. Tenths \in Nat \ {0} /\ d \in Nat \ {0}
  BY SizeAssumption
<1>2. 2 * (Tenths * b) + Tenths = b * d + Tenths
  BY <1>1
<1>3. Tenths < d
  BY <1>1
<1>4. (b * d + Tenths) \div d = b
  BY <1>1, <1>3
<1> QED
  BY <1>2, <1>4 DEF RoundedDiv

\* "One type, bytes inside, so the two never disagree by rounding" (size.rs),
\* for sizes that are whole numbers of KiB: what is printed is read back.
THEOREM SizesRoundTrip ==
    ASSUME NEW b \in Whole
    PROVE  Parsed(Printed(b)) = b
<1>1. b \in Nat \ {0} /\ b % KIB = 0
  BY DEF Whole
<1>2. PICK u \in {"K", "M", "G", "T"} :
            /\ b % UnitBytes(u) = 0
            /\ Printed(b) = [parts |-> Tenths * (b \div UnitBytes(u)), unit |-> u]
  BY <1>1, PrintedForms
<1>3. UnitBytes(u) \in Nat \ {0}
  BY UnitBytesPositive DEF Units
<1> DEFINE q == b \div UnitBytes(u)
<1>4. q \in Nat /\ b = q * UnitBytes(u)
  BY <1>1, <1>2, <1>3
<1>5. (Tenths * q) * UnitBytes(u) = Tenths * b
  BY <1>3, <1>4, SizeAssumption
<1> HIDE DEF q
<1>6. Parsed(Printed(b)) = RoundedDiv(Tenths * b, Tenths)
  BY <1>2, <1>5 DEF Parsed, q
<1> QED
  BY <1>1, <1>6, RoundsBack

-----------------------------------------------------------------------------
(* Types *)

LEMMA Distinct ==
    /\ Absent \notin Texts /\ Blank \notin Texts /\ Garbled \notin Texts
    /\ Absent # Blank /\ Absent # Garbled /\ Blank # Garbled
  BY ConfigAssumption

LEMMA DefaultType == Default \in Configs
  BY ConfigAssumption DEF Default, Configs

LEMMA SavedType ==
    ASSUME NEW c \in Configs
    PROVE  Saved(c) \in Texts
  BY PrintedType DEF Saved, Configs, Texts

LEMMA LoadedType ==
    ASSUME NEW f \in Contents, Loads(f)
    PROVE  Loaded(f) \in Configs
<1>1. CASE f \in {Absent, Blank}
  BY <1>1, DefaultType DEF Loaded
<1>2. CASE f \in Texts
  <2>1. f \notin {Absent, Blank}
    BY <1>2, Distinct
  <2>2. (IF f.rootfs = Keep THEN DefaultRootfs ELSE Parsed(f.rootfs)) \in Nat
    BY <1>2, ParsedType, ConfigAssumption DEF Texts
  <2> QED
    BY <1>2, <2>1, <2>2 DEF Loaded, Texts, Configs
<1> QED
  BY <1>1, <1>2 DEF Contents, Loads

LEMMA ChangeType ==
    ASSUME NEW c \in Configs, NEW n \in Nodes, NEW w \in Wishes
    PROVE  Change(c, n, w) \in Configs
  BY DEF Change, Configs, Wishes

LEMMA WishTypes ==
    /\ NoWish \in Wishes
    /\ OneKey \subseteq Wishes
    /\ \A c, n : Answers(c, n) \subseteq Wishes
<1>1. NoWish \in Wishes
  BY DEF NoWish, Wishes
<1>2. \A t \in SizesTyped : Parsed(t) \in Nat
  BY ConfigAssumption, ParsedType
<1>3. OneKey \subseteq Wishes
  BY <1>2, ConfigAssumption DEF OneKey, NoWish, Wishes
<1>4. ASSUME NEW c, NEW n
      PROVE  Answers(c, n) \subseteq Wishes
  BY DEF Answers, Wishes
<1> QED
  BY <1>1, <1>3, <1>4

LEMMA OverType ==
    ASSUME NEW c \in Configs, NEW old
    PROVE  Over(Saved(c), old) \subseteq Contents
  BY SavedType DEF Over, Contents

Labels == {"idle", "ask", "load"} \cup Saving

\* Every step of a writer keeps the types.
LEMMA WriterKeepsTypes ==
    ASSUME ConfigTypeOK, NEW w \in Writers, Writer(w)
    PROVE  ConfigTypeOK'
<1> USE DEF ConfigTypeOK, Goto, history
<1>0. /\ NoWish \in Wishes /\ Default \in Configs /\ On[w] \in Nodes
      /\ {"idle", "ask", "load", "open", "fill", "rename"} = Labels
      /\ Absent \in Contents /\ Blank \in Contents /\ Garbled \in Contents
  BY WishTypes, DefaultType, ConfigAssumption DEF Labels, Saving, Contents
<1>w. ASSUME Writes(w)
      PROVE  met' \in [Writers -> BOOLEAN] /\ overlap' \in BOOLEAN
  BY <1>w DEF Writes
<1>r. ASSUME Return(w)
      PROVE  /\ pc' \in [Writers -> Labels] /\ wish' \in [Writers -> Wishes]
             /\ ctx' \in [Writers -> Configs] /\ mem' \in [Writers -> Configs]
  BY <1>r, <1>0 DEF Return, Labels
<1>p. ASSUME Replace
      PROVE  /\ file' \in Contents /\ tmp' \in Contents
             /\ handle' \in [Writers -> {"none", "tmp", "file", "gone"}]
  BY <1>p, <1>0 DEF Replace, AfterRename
<1>1. ASSUME NEW change \in OneKey, StartSet(w, change)
      PROVE  ConfigTypeOK'
  BY <1>1, <1>0, WishTypes, LoadedType DEF StartSet, Labels
<1>2. CASE StartNew(w)
  BY <1>2, <1>0, LoadedType DEF StartNew, Labels
<1>3. CASE Answer(w)
  BY <1>3, <1>0, WishTypes DEF Answer, Labels
<1>4. CASE NoAnswer(w)
  BY <1>4, <1>r DEF NoAnswer, Labels
<1>5. CASE Load(w)
  <2>1. Change(Loaded(file), On[w], wish[w]) \in Configs
    BY <1>5, <1>0, LoadedType, ChangeType DEF Load
  <2>2. met' \in [Writers -> BOOLEAN] /\ overlap' \in BOOLEAN
    BY <1>5 DEF Load, Alone
  <2> QED
    BY <1>5, <1>0, <2>1, <2>2 DEF Load, Labels
<1>6. CASE LoadFails(w)
  BY <1>6, <1>r DEF LoadFails, Labels
<1>7. CASE Open(w)
  BY <1>7, <1>w, <1>0 DEF Open, Labels
<1>8. CASE Fill(w)
  <2>1. file' \in Contents /\ tmp' \in Contents
    BY <1>8, OverType DEF Fill
  <2> QED
    BY <1>8, <1>w, <1>0, <2>1 DEF Fill, Labels
<1>9. CASE FillFails(w)
  BY <1>9, <1>r DEF FillFails, Labels
<1>10. CASE Rename(w)
  BY <1>10, <1>p, <1>r, <1>w DEF Rename, Labels
<1>11. CASE RenameFails(w)
  BY <1>11, <1>r DEF RenameFails, Labels
<1>12. CASE CutShort(w)
  <2>1. /\ file' \in Contents /\ tmp' \in Contents
        /\ handle' \in [Writers -> {"none", "tmp", "file", "gone"}]
    BY <1>12, <1>p, <1>0 DEF CutShort, HalfDone
  <2> QED
    BY <1>12, <1>r, <1>w, <2>1 DEF CutShort, Labels
<1> QED
  BY <1>1, <1>2, <1>3, <1>4, <1>5, <1>6, <1>7, <1>8, <1>9, <1>10, <1>11, <1>12 DEF Writer

\* Every reachable state of the config file is well typed.
THEOREM ConfigTypeCorrect == Spec => []ConfigTypeOK
<1>1. Init => ConfigTypeOK
  <2> SUFFICES ASSUME Init
               PROVE  ConfigTypeOK
    OBVIOUS
  <2>1. file \in Contents /\ tmp \in Contents
    BY ConfigAssumption DEF Init, Contents
  <2>2. pc \in [Writers -> {"idle", "ask", "load"} \cup Saving]
    BY DEF Init
  <2>3. wish \in [Writers -> Wishes]
    BY WishTypes DEF Init
  <2>4. ctx \in [Writers -> Configs] /\ mem \in [Writers -> Configs]
    BY DefaultType DEF Init
  <2> QED
    BY <2>1, <2>2, <2>3, <2>4 DEF Init, ConfigTypeOK
<1>2. ConfigTypeOK /\ [Next]_vars => ConfigTypeOK'
  <2> SUFFICES ASSUME ConfigTypeOK, [Next]_vars
               PROVE  ConfigTypeOK'
    OBVIOUS
  <2>1. ASSUME NEW w \in Writers, Writer(w)
        PROVE  ConfigTypeOK'
    BY <2>1, WriterKeepsTypes
  <2>2. ASSUME NEW t \in HandTexts, HandEdit(t)
        PROVE  ConfigTypeOK'
    BY <2>2, ConfigAssumption DEF HandEdit, ConfigTypeOK
  <2>3. CASE UNCHANGED vars
    BY <2>3 DEF vars, history, ConfigTypeOK
  <2> QED
    BY <2>1, <2>2, <2>3 DEF Next
<1> QED
  BY <1>1, <1>2, PTL DEF Spec

-----------------------------------------------------------------------------
(* The empty file *)

\* A process has one of the two files open only between the two halves of
\* fs::write.
OpenWhileFilling == \A w \in Writers : handle[w] # "none" => pc[w] = "fill"

\* As long as no two saves have run at once, there is one at most; it fills
\* the `.tmp' it has opened, and what it renames is not empty.
OneSave ==
    ~overlap =>
        /\ \A v, w \in Writers : pc[v] \in Saving /\ pc[w] \in Saving => v = w
        /\ \A w \in Writers : pc[w] = "fill" => handle[w] = "tmp"
        /\ \A w \in Writers : pc[w] = "rename" => tmp # Blank

BlankInv == OpenWhileFilling /\ OneSave /\ NeverBlank

LEMMA OpenKept ==
    ASSUME ConfigTypeOK, OpenWhileFilling, [Next]_vars
    PROVE  OpenWhileFilling'
<1> USE DEF OpenWhileFilling, ConfigTypeOK, Goto
<1>1. ASSUME NEW w \in Writers, Writer(w)
      PROVE  OpenWhileFilling'
  <2>1. ASSUME NEW change \in OneKey, StartSet(w, change)
        PROVE  OpenWhileFilling'
    BY <2>1 DEF StartSet
  <2>2. CASE StartNew(w) \/ Answer(w) \/ NoAnswer(w)
    BY <2>2 DEF StartNew, Answer, NoAnswer, Return
  <2>3. CASE Load(w) \/ LoadFails(w)
    BY <2>3 DEF Load, LoadFails, Return
  <2>4. CASE Open(w)
    BY <2>4 DEF Open
  <2>5. CASE Fill(w) \/ FillFails(w)
    BY <2>5 DEF Fill, FillFails, Return
  <2>6. CASE Rename(w)
    BY <2>6 DEF Rename, Replace, AfterRename, Return
  <2>7. CASE RenameFails(w)
    BY <2>7 DEF RenameFails, Return
  <2>8. CASE CutShort(w)
    BY <2>8 DEF CutShort, HalfDone, Replace, AfterRename, Return
  <2> QED
    BY <1>1, <2>1, <2>2, <2>3, <2>4, <2>5, <2>6, <2>7, <2>8 DEF Writer
<1>2. ASSUME NEW t \in HandTexts, HandEdit(t)
      PROVE  OpenWhileFilling'
  BY <1>2 DEF HandEdit
<1>3. CASE UNCHANGED vars
  BY <1>3 DEF vars
<1> QED
  BY <1>1, <1>2, <1>3 DEF Next

\* Of the steps, Fill and the renames touch what is said of the files.
LEMMA BlankKept ==
    ASSUME ConfigTypeOK, BlankInv, [Next]_vars
    PROVE  (OneSave /\ NeverBlank)'
<1> USE DEF BlankInv, OpenWhileFilling, ConfigTypeOK, Goto
<1> DEFINE Kept == (OneSave /\ NeverBlank)'
<1>1. ASSUME NEW w \in Writers, Writer(w)
      PROVE  Kept
  <2> USE DEF OneSave, NeverBlank
  <2>1. ASSUME NEW change \in OneKey, StartSet(w, change)
        PROVE  Kept
    BY <2>1 DEF StartSet, Saving, history
  <2>2. CASE StartNew(w) \/ Answer(w) \/ NoAnswer(w)
    BY <2>2 DEF StartNew, Answer, NoAnswer, Return, Saving, history
  <2>3. CASE Load(w)
    BY <2>3 DEF Load, Alone, Saving
  <2>4. CASE LoadFails(w)
    BY <2>4 DEF LoadFails, Return, Saving, history
  <2>5. CASE Open(w)
    BY <2>5 DEF Open, Writes, Saving
  <2>6. CASE Fill(w)
    <3>1. Saved(mem[w]) # Blank /\ Garbled # Blank
      BY SavedType, Distinct
    <3>2. ASSUME ~overlap
          PROVE  file' = file /\ tmp' # Blank
      BY <3>1, <3>2, <2>6 DEF Fill, Over
    <3> QED
      BY <3>2, <2>6 DEF Fill, Writes, Saving
  <2>7. CASE FillFails(w)
    BY <2>7 DEF FillFails, Return, Saving, history
  <2>8. CASE Rename(w)
    BY <2>8 DEF Rename, Replace, AfterRename, Return, Writes, Saving
  <2>9. CASE RenameFails(w)
    BY <2>9 DEF RenameFails, Return, Saving, history
  <2>10. CASE CutShort(w)
    <3>1. CASE pc[w] = "rename" /\ Replace
      BY <2>10, <3>1 DEF CutShort, Replace, AfterRename, Return, Writes, Saving
    <3>2. CASE pc[w] = "open" /\ tmp' = Blank /\ UNCHANGED <<file, handle>>
      BY <2>10, <3>2 DEF CutShort, Return, Writes, Saving
    <3>3. CASE UNCHANGED <<file, tmp>> /\ handle' = [handle EXCEPT ![w] = "none"]
      BY <2>10, <3>3 DEF CutShort, Return, Writes, Saving
    <3> QED
      BY <2>10, <3>1, <3>2, <3>3 DEF CutShort, HalfDone
  <2> QED
    BY <1>1, <2>1, <2>2, <2>3, <2>4, <2>5, <2>6, <2>7, <2>8, <2>9, <2>10 DEF Writer
<1>2. ASSUME NEW t \in HandTexts, HandEdit(t)
      PROVE  Kept
  BY <1>2, NotEmptied DEF HandEdit, OneSave, NeverBlank
<1>3. CASE UNCHANGED vars
  BY <1>3 DEF vars, history, OneSave, NeverBlank
<1> QED
  BY <1>1, <1>2, <1>3 DEF Next

\* An empty config file, which loads as the defaults, limits included, takes
\* two saves at once: no failure or death in one save leaves it.
THEOREM NeverEmptiedAlone == Spec => []NeverBlank
<1>1. Init => BlankInv
  BY NotEmptied DEF Init, BlankInv, OpenWhileFilling, OneSave, NeverBlank, Saving
<1>2. ConfigTypeOK /\ BlankInv /\ [Next]_vars => BlankInv'
  BY OpenKept, BlankKept DEF BlankInv
<1>3. BlankInv => NeverBlank
  BY DEF BlankInv
<1> QED
  BY <1>1, <1>2, <1>3, ConfigTypeCorrect, PTL DEF Spec

-----------------------------------------------------------------------------
(* The keys *)

\* A file that loads has a root disk of whole KiB.
Sound(f) == Loads(f) => Loaded(f).rootfs \in Whole

\* Every size anybody types or edits is a whole number of KiB.
AllWhole ==
    /\ DefaultRootfs \in Whole
    /\ \A t \in SizesTyped : Parsed(t) \in Whole
    /\ \A f \in FirstFiles \cup HandTexts : Sound(f)

WholeInv ==
    /\ Sound(file) /\ Sound(tmp)
    /\ \A w \in Writers : mem[w].rootfs \in Whole
    /\ \A w \in Writers : wish[w].rootfs \in Whole \cup {Keep}

\* What a save is about to put in place, while nobody else has written.
AloneInv ==
    \A w \in Writers : pc[w] \in Saving /\ ~met[w] =>
        /\ Loads(file)
        /\ mem[w] = Change(Loaded(file), On[w], wish[w])
        /\ \A v \in Writers \ {w} : handle[v] = "none"
        /\ pc[w] = "fill" => handle[w] = "tmp" /\ tmp = Blank
        /\ pc[w] = "rename" => tmp = Saved(mem[w])

KeysInv == OpenWhileFilling /\ WholeInv /\ AloneInv

LEMMA Reread ==
    ASSUME NEW c \in Configs, c.rootfs \in Whole
    PROVE  Loads(Saved(c)) /\ Loaded(Saved(c)) = c
<1>1. Saved(c) \in Texts /\ Loads(Saved(c)) /\ Saved(c) \notin {Absent, Blank}
  BY SavedType, Distinct DEF Loads
<1>2. (IF Saved(c).rootfs = Keep THEN DefaultRootfs ELSE Parsed(Saved(c).rootfs)) = c.rootfs
  <2>1. CASE c.rootfs = DefaultRootfs
    BY <2>1 DEF Saved
  <2>2. CASE c.rootfs # DefaultRootfs
    <3>1. Printed(c.rootfs) # Keep /\ Parsed(Printed(c.rootfs)) = c.rootfs
      BY SizesRoundTrip, PrintedType, ConfigAssumption DEF Whole
    <3> QED
      BY <2>2, <3>1 DEF Saved
  <2> QED
    BY <2>1, <2>2
<1>3. Loaded(Saved(c)) = [template |-> c.template, limits |-> c.limits,
                          storage |-> c.storage, rootfs |-> c.rootfs]
  BY <1>1, <1>2 DEF Loaded, Saved
<1> QED
  BY <1>1, <1>3 DEF Configs

LEMMA ChangeWhole ==
    ASSUME NEW c \in Configs, NEW n \in Nodes, NEW w \in Wishes,
           c.rootfs \in Whole, w.rootfs \in Whole \cup {Keep}
    PROVE  Change(c, n, w).rootfs \in Whole
  BY DEF Change, Configs

\* The sizes in memory and in both files stay whole.
LEMMA WholeKept ==
    ASSUME AllWhole, ConfigTypeOK, WholeInv, [Next]_vars
    PROVE  WholeInv'
<1> USE DEF ConfigTypeOK, Goto
<1>0. /\ Default.rootfs \in Whole /\ NoWish.rootfs = Keep
      /\ Sound(Absent) /\ Sound(Blank) /\ Sound(Garbled)
  BY Distinct DEF AllWhole, Default, NoWish, Sound, Loads, Loaded
<1>1. ASSUME NEW w \in Writers, Writer(w)
      PROVE  WholeInv'
  <2>r. ASSUME Return(w)
        PROVE  /\ \A v \in Writers : mem'[v].rootfs \in Whole
               /\ \A v \in Writers : wish'[v].rootfs \in Whole \cup {Keep}
    BY <2>r, <1>0 DEF Return, WholeInv
  <2>1. ASSUME NEW change \in OneKey, StartSet(w, change)
        PROVE  WholeInv'
    <3>1. change.rootfs \in Whole \cup {Keep}
      BY DEF OneKey, NoWish, AllWhole
    <3> QED
      BY <2>1, <3>1 DEF StartSet, WholeInv, Sound, Loads, Loaded
  <2>2. CASE StartNew(w)
    BY <2>2 DEF StartNew, WholeInv, Sound, Loads, Loaded
  <2>3. CASE Answer(w)
    <3>1. wish'[w].rootfs = Keep
      BY <2>3 DEF Answer, Answers
    <3> QED
      BY <2>3, <3>1 DEF Answer, WholeInv, Sound, Loads, Loaded
  <2>4. CASE NoAnswer(w) \/ LoadFails(w) \/ FillFails(w) \/ RenameFails(w)
    BY <2>4, <2>r DEF NoAnswer, LoadFails, FillFails, RenameFails, WholeInv, Sound, Loads, Loaded
  <2>5. CASE Load(w)
    <3>1. Change(Loaded(file), On[w], wish[w]).rootfs \in Whole
      BY <2>5, LoadedType, ChangeWhole, ConfigAssumption DEF Load, WholeInv, Sound
    <3> QED
      BY <2>5, <3>1 DEF Load, WholeInv, Sound, Loads, Loaded
  <2>6. CASE Open(w)
    BY <2>6, <1>0 DEF Open, WholeInv, Sound, Loads, Loaded
  <2>7. CASE Fill(w)
    <3>1. Sound(Saved(mem[w]))
      BY Reread DEF WholeInv, Sound
    <3>2. \A f : \A t \in Over(Saved(mem[w]), f) : Sound(t)
      BY <3>1, <1>0 DEF Over
    <3>3. Sound(file') /\ Sound(tmp')
      BY <2>7, <3>2 DEF Fill, WholeInv
    <3> QED
      BY <2>7, <3>3 DEF Fill, WholeInv, Sound, Loads, Loaded
  <2>8. ASSUME Replace
        PROVE  Sound(file') /\ Sound(tmp')
    BY <2>8, <1>0 DEF Replace, WholeInv
  <2>9. CASE Rename(w)
    BY <2>9, <2>r, <2>8 DEF Rename, WholeInv, Sound, Loads, Loaded
  <2>10. CASE CutShort(w)
    <3>1. Sound(file') /\ Sound(tmp')
      BY <2>10, <2>8, <1>0 DEF CutShort, HalfDone, WholeInv
    <3> QED
      BY <2>10, <2>r, <3>1 DEF CutShort, WholeInv, Sound, Loads, Loaded
  <2> QED
    BY <1>1, <2>1, <2>2, <2>3, <2>4, <2>5, <2>6, <2>7, <2>9, <2>10 DEF Writer
<1>2. ASSUME NEW t \in HandTexts, HandEdit(t)
      PROVE  WholeInv'
  <2>1. Sound(file')
    BY <1>2 DEF HandEdit, AllWhole
  <2> QED
    BY <1>2, <2>1 DEF HandEdit, WholeInv, Sound, Loads, Loaded
<1>3. CASE UNCHANGED vars
  BY <1>3 DEF vars, WholeInv, Sound, Loads, Loaded
<1> QED
  BY <1>1, <1>2, <1>3 DEF Next

\* A save that nobody wrote beside holds the file as it is, but for the keys
\* it was asked for.
LEMMA AloneKept ==
    ASSUME ConfigTypeOK, OpenWhileFilling, AloneInv, [Next]_vars
    PROVE  AloneInv'
<1> USE DEF ConfigTypeOK, Goto, OpenWhileFilling
<1> DEFINE Holds(w) ==
        /\ Loads(file)
        /\ mem[w] = Change(Loaded(file), On[w], wish[w])
        /\ \A v \in Writers \ {w} : handle[v] = "none"
        /\ pc[w] = "fill" => handle[w] = "tmp" /\ tmp = Blank
        /\ pc[w] = "rename" => tmp = Saved(mem[w])
<1>1. ASSUME NEW u \in Writers, Writer(u), NEW w \in Writers,
             pc'[w] \in Saving, ~met'[w]
      PROVE  Holds(w)'
  <2>h. ASSUME pc[w] \in Saving, ~met[w]
        PROVE  Holds(w)
    BY <2>h DEF AloneInv
  <2>w. ASSUME Writes(u), u # w, pc[w] \in Saving
        PROVE  FALSE
    BY <1>1, <2>w DEF Writes
  <2>r. ASSUME Return(u)
        PROVE  /\ u # w /\ pc[w] \in Saving
               /\ pc'[w] = pc[w] /\ mem'[w] = mem[w] /\ wish'[w] = wish[w]
    BY <1>1, <2>r DEF Return, Saving
  <2>1. ASSUME NEW change \in OneKey, StartSet(u, change)
        PROVE  Holds(w)'
    BY <1>1, <2>1, <2>h DEF StartSet, Saving, history, Loads, Loaded
  <2>2. CASE StartNew(u) \/ Answer(u)
    BY <1>1, <2>2, <2>h DEF StartNew, Answer, Saving, history, Loads, Loaded
  <2>3. CASE NoAnswer(u) \/ LoadFails(u) \/ FillFails(u) \/ RenameFails(u)
    BY <1>1, <2>3, <2>h, <2>r
       DEF NoAnswer, LoadFails, FillFails, RenameFails, Saving, history, Loads, Loaded
  <2>4. CASE Load(u)
    <3>1. CASE u = w
      BY <1>1, <2>4, <3>1 DEF Load, Alone, Saving, Loads, Loaded
    <3>2. CASE u # w
      BY <1>1, <2>4, <3>2, <2>h DEF Load, Saving, Loads, Loaded
    <3> QED
      BY <3>1, <3>2
  <2>5. CASE Open(u)
    <3>1. u = w
      BY <1>1, <2>5, <2>w DEF Open, Saving
    <3> QED
      BY <1>1, <2>5, <3>1, <2>h DEF Open, Writes, Saving, Loads, Loaded
  <2>6. CASE Fill(u)
    <3>1. u = w
      BY <1>1, <2>6, <2>w DEF Fill, Saving
    <3>2. Holds(w)
      BY <1>1, <2>6, <3>1, <2>h DEF Fill, Writes, Saving
    <3>3. tmp' = Saved(mem[w]) /\ file' = file
      BY <2>6, <3>1, <3>2 DEF Fill, Over
    <3> QED
      BY <1>1, <2>6, <3>1, <3>2, <3>3 DEF Fill, Saving, Loads, Loaded
  <2>7. CASE Rename(u)
    BY <2>7, <2>r, <2>w DEF Rename
  <2>8. CASE CutShort(u)
    BY <2>8, <2>r, <2>w DEF CutShort
  <2> QED
    BY <1>1, <2>1, <2>2, <2>3, <2>4, <2>5, <2>6, <2>7, <2>8 DEF Writer
<1>2. ASSUME NEW t \in HandTexts, HandEdit(t)
      PROVE  AloneInv'
  BY <1>2 DEF HandEdit, AloneInv
<1>3. CASE UNCHANGED vars
  BY <1>3 DEF vars, history, AloneInv, Loads, Loaded
<1> QED
  BY <1>1, <1>2, <1>3 DEF Next, AloneInv

\* Only a process's own rename, finished or cut short, takes it from there to
\* its end and changes the file.
LEMMA RenamesWhatItHolds ==
    ASSUME ConfigTypeOK, KeysInv, [Next]_vars, NEW w \in Writers,
           pc[w] = "rename", pc'[w] = "idle", ~met[w], file' # file
    PROVE  /\ Loads(file) /\ Loads(file')
           /\ Loaded(file') = Change(Loaded(file), On[w], wish[w])
<1> USE DEF ConfigTypeOK, Goto
<1>1. Writer(w)
  <2>1. ASSUME NEW u \in Writers \ {w}, Writer(u)
        PROVE  pc'[w] = pc[w]
    BY <2>1 DEF Writer, StartSet, StartNew, Answer, NoAnswer, Load, LoadFails, Open,
                Fill, FillFails, Rename, RenameFails, CutShort, Return
  <2>2. ASSUME NEW t \in HandTexts, HandEdit(t)
        PROVE  pc' = pc
    BY <2>2 DEF HandEdit
  <2> QED
    BY <2>1, <2>2 DEF Next, vars
<1>2. file' = tmp
  BY <1>1 DEF Writer, StartSet, StartNew, Answer, NoAnswer, Load, LoadFails, Open,
              Fill, FillFails, Rename, RenameFails, CutShort, HalfDone, Replace
<1>3. /\ Loads(file) /\ tmp = Saved(mem[w])
      /\ mem[w] = Change(Loaded(file), On[w], wish[w])
  BY DEF KeysInv, AloneInv, Saving
<1>4. Loads(Saved(mem[w])) /\ Loaded(Saved(mem[w])) = mem[w]
  BY Reread DEF KeysInv, WholeInv
<1> QED
  BY <1>2, <1>3, <1>4

\* "A writer that loaded the config a while ago must not clobber what
\* another node wrote in between" (config.rs): where all sizes are whole
\* numbers of KiB, a save that nobody wrote beside changes its own keys of
\* the file as it was and no others, whatever failed and died before.
THEOREM SavesChangeTheirKeys ==
    ASSUME AllWhole
    PROVE  Spec => ChangesOnlyItsKeys
<1>1. Init => KeysInv
  <2> SUFFICES ASSUME Init
               PROVE  KeysInv
    OBVIOUS
  <2>1. OpenWhileFilling /\ AloneInv
    BY DEF Init, OpenWhileFilling, AloneInv, Saving
  <2>2. Sound(file) /\ Sound(tmp)
    BY Distinct DEF Init, AllWhole, Sound, Loads, Loaded, Default
  <2>3. \A w \in Writers : mem[w].rootfs \in Whole /\ wish[w].rootfs = Keep
    BY DEF Init, AllWhole, Default, NoWish
  <2> QED
    BY <2>1, <2>2, <2>3 DEF KeysInv, WholeInv
<1>2. ConfigTypeOK /\ KeysInv /\ [Next]_vars => KeysInv'
  BY OpenKept, WholeKept, AloneKept DEF KeysInv
<1>3. ConfigTypeOK /\ KeysInv /\ [Next]_vars =>
         [\A w \in Writers :
             pc[w] = "rename" /\ pc'[w] = "idle" /\ ~met[w] /\ file' # file
                 => /\ Loads(file) /\ Loads(file')
                    /\ Loaded(file') = Change(Loaded(file), On[w], wish[w])]_vars
  BY RenamesWhatItHolds
<1> QED
  BY <1>1, <1>2, <1>3, ConfigTypeCorrect, PTL DEF Spec, ChangesOnlyItsKeys

-----------------------------------------------------------------------------
(* The root disk *)

\* `pct set' is told six decimals of a GiB, one in 10^6 of 1024^3: half of one
\* is less than a KiB.
FineDigits == Kilo * Kilo <= 2 * Digits

LEMMA ProductsGrow ==
    ASSUME NEW x \in Nat, NEW y \in Nat, NEW z \in Nat, x <= y
    PROVE  x * z <= y * z /\ z * x <= z * y
  OBVIOUS

\* A quotient cut off, times the divisor.
LEMMA CutOff ==
    ASSUME NEW x \in Nat, NEW d \in Nat \ {0}
    PROVE  /\ x \div d \in Nat
           /\ (x \div d) * d <= x /\ x < (x \div d) * d + d
  OBVIOUS

\* A quotient rounded, times twice the divisor.
LEMMA Rounded ==
    ASSUME NEW x \in Nat, NEW d \in Nat \ {0}
    PROVE  /\ RoundedDiv(x, d) \in Nat
           /\ 2 * (RoundedDiv(x, d) * d) <= 2 * x + d
           /\ 2 * x < 2 * (RoundedDiv(x, d) * d) + d
<1>1. 2 * x + d \in Nat /\ 2 * d \in Nat \ {0}
  OBVIOUS
<1> DEFINE q == (2 * x + d) \div (2 * d)
<1>2. /\ q \in Nat
      /\ q * (2 * d) <= 2 * x + d /\ 2 * x + d < q * (2 * d) + 2 * d
  BY <1>1, CutOff
<1>3. RoundedDiv(x, d) = q
  BY DEF RoundedDiv
<1> HIDE DEF q
<1>4. q * (2 * d) = 2 * (q * d) /\ q * d \in Nat
  BY <1>2
<1> QED
  BY <1>2, <1>3, <1>4

\* PVE cuts off what is no whole MiB; of a size in whole KiB, told to six
\* decimals, that is less than a MiB, and it never adds as much.
LEMMA AllocatedIsNear ==
    ASSUME FineDigits, NEW b \in Whole
    PROVE  /\ Allocated(ToPctGib(b)) \in Nat
           /\ Allocated(ToPctGib(b)) + MIB >= b
           /\ b + MIB >= Allocated(ToPctGib(b))
<1> DEFINE g == ToPctGib(b)
           a == (g * Kilo) \div Digits
<1>1. /\ Kilo \in Nat \ {0} /\ Digits \in Nat \ {0} /\ b \in Nat
      /\ MIB \in Nat \ {0} /\ GIB \in Nat \ {0} /\ b * Digits \in Nat
      /\ MIB = Kilo * Kilo /\ GIB = Kilo * MIB
  BY SizeAssumption, UnitsPositive DEF Whole, MIB, KIB, GIB
<1>2. /\ g \in Nat
      /\ 2 * (g * GIB) <= 2 * (b * Digits) + GIB
      /\ 2 * (b * Digits) < 2 * (g * GIB) + GIB
  BY <1>1, Rounded DEF ToPctGib
<1>3. PICK q \in Nat : b = Kilo * q
  <2>1. b % Kilo = 0
    BY DEF Whole, KIB
  <2>2. b \div Kilo \in Nat /\ b = Kilo * (b \div Kilo)
    BY <1>1, <2>1
  <2> QED
    BY <2>2
<1> HIDE DEF g
<1>4. g * Kilo \in Nat
  BY <1>1, <1>2
<1>5. a \in Nat /\ a * Digits <= g * Kilo /\ g * Kilo < a * Digits + Digits
  BY <1>1, <1>4, CutOff
<1>6. Allocated(ToPctGib(b)) = a * MIB
  BY DEF Allocated, g
<1> HIDE DEF a
<1>7. (g * Kilo) * MIB = g * GIB /\ g * GIB \in Nat
  BY <1>1, <1>2
<1>8. /\ a * MIB \in Nat /\ (a * Digits) * MIB = Digits * (a * MIB)
      /\ Digits * (a * MIB) \in Nat /\ Digits * MIB \in Nat
  BY <1>1, <1>5
<1>9. b * Digits = Digits * b
  BY <1>1
<1>10. b + MIB >= a * MIB
  <2>1. (a * Digits) * MIB <= (g * Kilo) * MIB
    BY <1>1, <1>4, <1>5, ProductsGrow
  <2>2. 2 * (Digits * (a * MIB)) <= 2 * (Digits * b) + GIB
    BY <2>1, <1>1, <1>2, <1>7, <1>8, <1>9
  <2>3. GIB <= 2 * (Digits * MIB)
    <3>1. Kilo <= 2 * Digits
      BY <1>1, Products DEF FineDigits
    <3>2. Kilo * MIB <= (2 * Digits) * MIB
      BY <3>1, <1>1, ProductsGrow
    <3>3. (2 * Digits) * MIB = 2 * (Digits * MIB)
      BY <1>1
    <3> QED
      BY <3>2, <3>3, <1>1
  <2>4. Digits * (a * MIB) <= Digits * b + Digits * MIB
    BY <2>2, <2>3, <1>1, <1>8, <1>9
  <2>5. Digits * (b + MIB) = Digits * b + Digits * MIB
    BY <1>1
  <2>6. Digits * (a * MIB) <= Digits * (b + MIB)
    BY <2>4, <2>5
  <2>7. ASSUME b + MIB + 1 <= a * MIB
        PROVE  FALSE
    <3>1. Digits * (b + MIB + 1) <= Digits * (a * MIB)
      BY <2>7, <1>1, <1>8, ProductsGrow
    <3>2. Digits * (b + MIB + 1) = Digits * (b + MIB) + Digits
      BY <1>1
    <3> QED
      BY <3>1, <3>2, <2>6, <1>1, <1>8
  <2> QED
    BY <2>7, <1>1, <1>8
<1>11. a * MIB + MIB >= b
  <2> DEFINE y == a * Kilo + Kilo
  <2>1. y \in Nat /\ a * MIB + MIB = Kilo * y
    BY <1>1, <1>5
  <2> HIDE DEF y
  <2>2. ASSUME y + 1 <= q
        PROVE  FALSE
    <3>1. Kilo * (y + 1) <= Kilo * q
      BY <2>1, <2>2, <1>1, <1>3, ProductsGrow
    <3>2. Kilo * (y + 1) = a * MIB + MIB + Kilo
      BY <2>1, <1>1
    <3>3. a * MIB + MIB + Kilo <= b
      BY <3>1, <3>2, <1>3
    <3>4. Digits * (a * MIB + MIB + Kilo) <= Digits * b
      BY <3>3, <1>1, <1>8, ProductsGrow
    <3>5. Digits * (a * MIB + MIB + Kilo) = Digits * (a * MIB) + Digits * MIB + Digits * Kilo
      BY <1>1, <1>8
    <3>6. (g * Kilo + 1) * MIB <= (a * Digits + Digits) * MIB
      <4>1. g * Kilo + 1 <= a * Digits + Digits /\ a * Digits + Digits \in Nat
        BY <1>1, <1>4, <1>5
      <4> QED
        BY <4>1, <1>1, <1>4, ProductsGrow
    <3>7. (g * Kilo + 1) * MIB = g * GIB + MIB
      BY <1>1, <1>4, <1>7
    <3>8. (a * Digits + Digits) * MIB = Digits * (a * MIB) + Digits * MIB
      BY <1>1, <1>5, <1>8
    <3>9. g * GIB + MIB <= Digits * (a * MIB) + Digits * MIB
      BY <3>6, <3>7, <3>8
    <3>10. GIB <= 2 * (Digits * Kilo)
      <4>1. MIB <= 2 * Digits
        BY <1>1 DEF FineDigits
      <4>2. Kilo * MIB <= Kilo * (2 * Digits)
        BY <4>1, <1>1, ProductsGrow
      <4>3. Kilo * (2 * Digits) = 2 * (Digits * Kilo)
        BY <1>1
      <4> QED
        BY <4>2, <4>3, <1>1
    <3>11. Digits * Kilo \in Nat /\ Digits * b \in Nat
      BY <1>1
    <3>12. g * GIB + MIB + Digits * Kilo <= Digits * b
      BY <3>4, <3>5, <3>9, <3>11, <1>1, <1>7, <1>8
    <3> QED
      BY <3>10, <3>11, <3>12, <1>1, <1>2, <1>7, <1>9
  <2>3. q <= y
    BY <2>1, <2>2, <1>3
  <2> QED
    BY <2>1, <2>3, <1>1, <1>3, ProductsGrow
<1> QED
  BY <1>6, <1>8, <1>10, <1>11

\* "A difference under 1 MiB is no difference" (plan.rs): where all sizes are
\* whole numbers of KiB, the root disk PVE makes of the size in the file is
\* within a MiB of it, so that a new guest has what the config says it has.
THEOREM RootDiskIsThatSize ==
    ASSUME AllWhole, FineDigits
    PROVE  Spec => []RootDiskFits
<1>1. Init => WholeInv
  <2> SUFFICES ASSUME Init
               PROVE  WholeInv
    OBVIOUS
  <2>1. Sound(file) /\ Sound(tmp)
    BY Distinct DEF Init, AllWhole, Sound, Loads, Loaded, Default
  <2>2. \A w \in Writers : mem[w].rootfs \in Whole /\ wish[w].rootfs = Keep
    BY DEF Init, AllWhole, Default, NoWish
  <2> QED
    BY <2>1, <2>2 DEF WholeInv
<1>2. ConfigTypeOK /\ WholeInv /\ [Next]_vars => WholeInv'
  BY WholeKept
<1>3. WholeInv => RootDiskFits
  <2> SUFFICES ASSUME WholeInv, Loads(file)
               PROVE  LET want == Loaded(file).rootfs
                          have == Allocated(ToPctGib(want))
                      IN  have + MIB >= want /\ want + MIB >= have
    BY DEF RootDiskFits
  <2>1. Loaded(file).rootfs \in Whole
    BY DEF WholeInv, Sound
  <2> QED
    BY <2>1, AllocatedIsNear
<1> QED
  BY <1>1, <1>2, <1>3, ConfigTypeCorrect, PTL DEF Spec
=============================================================================
