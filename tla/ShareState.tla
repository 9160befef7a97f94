------------------------------ MODULE ShareState ------------------------------
(***************************************************************************)
(* What a registered share promises about its own state, whatever command  *)
(* is interrupted: its index is replaced by a checkpoint at once or not at *)
(* all, the index it had is kept whole, nobody's grant or revocation is    *)
(* undone by a replacement, and a rebuilt share gets its mode back only    *)
(* when nothing is left to reconcile.                                      *)
(***************************************************************************)
EXTENDS Naturals

CONSTANTS Peer

VARIABLES
    index,      \* the index: generation, transactions so far, recovery_pending
    kept,       \* the indexes that were replaced
    mode,       \* the direction policy
    peers       \* who may synchronize

vars == <<index, kept, mode, peers>>

Init ==
    /\ index.gen = 0 /\ index.rev = 0
    /\ kept = {}

(* A transaction of a command that has the share open. *)
Commit ==
    /\ index' = [index EXCEPT !.rev = @ + 1]
    /\ UNCHANGED <<kept, mode, peers>>

(* A session has reconciled a restored index, or the user took the authority
   to do without. *)
Settle ==
    /\ index' = [index EXCEPT !.pending = FALSE]
    /\ UNCHANGED <<kept, mode, peers>>

(* share-recover, whole.  The new generation is one that never was. *)
Replace ==
    /\ index'.gen > index.gen /\ \A old \in kept : index'.gen > old.gen
    /\ index' = [gen |-> index'.gen, rev |-> 0, pending |-> mode # "SendOnly", wal |-> FALSE]
    /\ kept' = kept \cup {index}
    /\ UNCHANGED <<mode, peers>>

Approve(p) == peers' = peers \cup {p} /\ UNCHANGED <<index, kept, mode>>

Revoke(p) == peers' = peers \ {p} /\ UNCHANGED <<index, kept, mode>>

Activate(m) ==
    /\ ~index.pending
    /\ mode' = m
    /\ UNCHANGED <<index, kept, peers>>

Next ==
    \/ Commit
    \/ Settle
    \/ Replace
    \/ \E p \in Peer : Approve(p) \/ Revoke(p)
    \/ \E m \in {"Bidirectional", "SendOnly", "ReceiveOnly"} : Activate(m)

Spec == Init /\ [][Next]_vars
===============================================================================
