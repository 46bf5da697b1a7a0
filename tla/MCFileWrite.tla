---------------------------- MODULE MCFileWrite -----------------------------
(* Small instances of FileWrite: two writers, a reader, two chunks.        *)
EXTENDS FileWrite, TLC

CONSTANTS w1, w2, old, new

TextSymmetry == Permutations({w1, w2}) \cup Permutations({old, new})
=============================================================================
