---------------------------- MODULE MCConfigFile ----------------------------
(* Small instances of ConfigFile: two processes on two nodes; a KiB has    *)
(* four bytes and a MiB four KiB.                                          *)
EXTENDS ConfigFile, TLC

CONSTANTS w1, w2, n1, n2, nas

MCOn == (w1 :> n1) @@ (w2 :> n2)

Size(n, u) == [parts |-> n, unit |-> u]
Text(s, r, l) == [template |-> Unset, rootfs |-> r, limits |-> l,
                  storage |-> [n \in Nodes |-> IF n = n1 THEN s ELSE Unset]]

MCFirstFiles == {Absent, Text(Unset, Size(80, "M"), "tight")}
MCHandTexts == {Garbled, Text(nas, Keep, "tight")}

\* 1.5G, 7M and 9K; and 1.3G, which is no whole number of KiB.
WholeKiB == {Size(15, "G"), Size(70, "M"), Size(90, "K")}
Fraction == {Size(13, "G")}

MCDefaultRootfs == 8 * GIB
=============================================================================
