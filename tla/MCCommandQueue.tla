---------------------------- MODULE MCCommandQueue ----------------------------
(***************************************************************************)
(* Instances of CommandQueue for TLC.                                      *)
(***************************************************************************)
EXTENDS CommandQueue

CONSTANTS shared, laptop, server

(* Every device was handed the same invitation file. *)
SharedInvitation == [d \in Device |-> shared]

(* Every device was handed its own. *)
OwnInvitation == [d \in Device |-> d]
=============================================================================
