----------------------------- MODULE MCCausality -----------------------------
(***************************************************************************)
(* The laws of the causal register, checked for every triple of head sets  *)
(* over a small universe.  The "system" is one arbitrary triple of sets:   *)
(* two that a device holds or receives and a third that arrives late.      *)
(***************************************************************************)
EXTENDS Causality

VARIABLES ours, theirs, late

sets == <<ours, theirs, late>>

(* The clock of all zeroes is the empty map, which validate() refuses.
   Directories join like files; they are left out to keep the universe small. *)
ValidRevisions ==
    {x \in Revision : Valid(x.clock) /\ x.content # Directory}

(* What a stored row can hold: revisions none of which dominates another; here
   one or two of them. *)
HeadSets ==
    {s \in {{x, y} : x, y \in ValidRevisions} :
        \A x, y \in s : x # y => Relation(x.clock, y.clock) = "Concurrent"}

Meet ==
    /\ ours \in HeadSets
    /\ theirs \in HeadSets
    /\ late \in HeadSets
    /\ Consistent(ours \cup theirs \cup late)

Rest == UNCHANGED sets

Meeting == Meet /\ [][Rest]_sets

-----------------------------------------------------------------------------
(* folder-sync-design.md:17, "Receiving the same input in a different order
   produces the same set": whatever the order in which three head sets meet
   through Versions::join, the surviving heads are the same. *)
DeliveryOrderIrrelevant ==
    /\ Join(Join(ours, theirs), late) = Join(ours, Join(theirs, late))
    /\ Join(Join(ours, theirs), late) = Join(Join(late, theirs), ours)

(* Join removes only revisions that a survivor saw, and keeps none that
   another survivor saw (Versions::join, the filter over the candidates). *)
JoinKeepsExactlyTheUnseen ==
    LET heads == Join(ours, theirs) IN
    /\ \A x \in ours \cup theirs :
          x \notin heads => \E y \in heads : Relation(x.clock, y.clock) = "Before"
    /\ \A x, y \in heads : x # y => Relation(x.clock, y.clock) = "Concurrent"

(* A local edit made from the heads `ours' while `theirs' is already known
   survives the join with `theirs', is refused by nobody, and drops from
   `theirs' only what `ours' had seen - provided no revision of `theirs' carries
   the editor's own next counter.  This is what scan relies on when it edits
   `observed' and joins into `versions'. *)
FreshEditSurvives ==
    \A r \in Replica :
        ( /\ CanEdit(ours, r)
          /\ \A x \in theirs : x.clock[r] <= MergeAll(ours)[r] )
        => \A content \in Content :
              LET local == Edit(ours, r, content) IN
              /\ Consistent(theirs \cup local)
              /\ local \subseteq Join(theirs, local)
              /\ \A x \in theirs \ Join(theirs, local) :
                    \A s \in Replica : x.clock[s] <= MergeAll(ours)[s]

(* An explicit resolution dominates every head it was chosen among, so that it
   replaces them all wherever it arrives (Versions::edit, merging all heads). *)
ResolutionReplacesAllHeads ==
    \A r \in Replica : CanEdit(Join(ours, theirs), r) =>
        \A content \in Content :
            LET chosen == Edit(Join(ours, theirs), r, content) IN
            Join(Join(ours, theirs), chosen) = chosen

(* folder-sync-design.md:19, "Concurrent deletion never discards a modified
   file": the visible winner of a set with a file in it is a file. *)
DeletionNeverHidesAFile ==
    LET heads == Join(ours, theirs) IN
    (\E h \in heads : h.content \in File) => Selected(heads).content \in File
=============================================================================
