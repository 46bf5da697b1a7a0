---------------------------- MODULE MCCmdRunner -----------------------------
(* Small instances of CmdRunner.                                           *)
EXTENDS CmdRunner

MCCap == [s \in Streams |-> IF s = "out" THEN 2 ELSE 1]
=============================================================================
