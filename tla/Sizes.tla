------------------------------- MODULE Sizes -------------------------------
(***************************************************************************)
(* size::Size: a number of bytes, read from and printed as a decimal with  *)
(* a unit (`20G', `1.3M', a bare `20'), and handed to PVE as GiB.  A size  *)
(* as text is a number of Tenths-th parts of its unit.                     *)
(***************************************************************************)
EXTENDS Naturals

CONSTANTS
    Kilo,    \* bytes in a KiB, KiB in a MiB, ...: 1024
    Tenths,  \* parts the decimals of a text are written in: a power of ten
    Digits   \* parts of a GiB `pct set' is told, six decimals: 10^6

ASSUME SizeAssumption ==
    /\ Kilo \in Nat \ {0, 1} /\ Tenths \in Nat \ {0} /\ Digits \in Nat \ {0}

KIB == Kilo
MIB == Kilo * KIB
GIB == Kilo * MIB
TIB == Kilo * GIB

Units == {"bare", "B", "K", "M", "G", "T"}
SizeTexts == [parts : Nat, unit : Units]

\* A number without a unit is GiB.
UnitBytes(u) ==
    CASE u = "B" -> 1 [] u = "K" -> KIB [] u = "M" -> MIB [] u = "T" -> TIB
      [] u \in {"bare", "G"} -> GIB

\* x / d to the nearest, halves up.
RoundedDiv(x, d) == (2 * x + d) \div (2 * d)

\* FromStr: refused below one byte, which is what 0 stands for here.
Parsed(t) == RoundedDiv(t.parts * UnitBytes(t.unit), Tenths)

\* Display: whole numbers of the largest unit that divides the size.
Printed(b) ==
    LET fits == {u \in {"K", "M", "G", "T"} : b % UnitBytes(u) = 0}
        best == CHOOSE u \in fits : \A v \in fits : UnitBytes(v) <= UnitBytes(u)
    IN  IF b = 0 \/ fits = {} THEN [parts |-> Tenths * b, unit |-> "bare"]
        ELSE [parts |-> Tenths * (b \div UnitBytes(best)), unit |-> best]

\* Mutant: whole GiB only.
ToPctGib_Whole(b) == RoundedDiv(b, GIB) * Digits

\* to_pct_gib: GiB to six decimals.
ToPctGib(b) == RoundedDiv(b * Digits, GIB)

\* What PVE makes of a `storage:<GiB>': whole MiB, cut off (external).
Allocated(gib) == ((gib * Kilo) \div Digits) * MIB
=============================================================================
