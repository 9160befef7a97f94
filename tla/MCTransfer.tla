----------------------------- MODULE MCTransfer -----------------------------
(***************************************************************************)
(* Instances of Transfer for TLC: files of three blocks that share their   *)
(* first, so that one is reused and a mixture of two is none of them.      *)
(***************************************************************************)
EXTENDS Transfer

CONSTANTS a, b

Files == {<<a, a, b>>, <<a, b, a>>}
=============================================================================
