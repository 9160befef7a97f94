------------------------------ MODULE Causality ------------------------------
(***************************************************************************)
(* The causal register kept for every path of a shared folder: vector      *)
(* clocks (src/versions.rs) and sets of concurrent revisions               *)
(* (src/model.rs).  Everything here is a pure operator; FolderSync runs    *)
(* the register inside devices, MCCausality checks its laws by enumeration *)
(* and CausalityProofs proves them.                                        *)
(*                                                                         *)
(* Abstractions.  A content hash is an element of File.  A replica absent  *)
(* from the map of a Rust Clock counts 0, so a clock is a total function.  *)
(* Id, the blake3 hash that orders revisions of one rank, is an arbitrary  *)
(* fixed choice.  The byte limit of a path's metadata is left out; the     *)
(* limit on the number of heads is kept.                                   *)
(***************************************************************************)
EXTENDS Integers, FiniteSets

CONSTANTS
    Replica,     \* replica names: device fingerprint and index epoch
    File,        \* content hashes of regular files
    Directory,   \* the directory marker
    Deleted,     \* the deletion tombstone; also "nothing at this path"
    MaxCounter,  \* the largest clock counter, 2^64 - 1 in the code
    MaxHeads     \* the largest number of concurrent revisions: 128 in the code,
                 \* fewer when their clocks fill 64 KiB

ASSUME CounterAssumption == MaxCounter \in Nat /\ MaxHeads \in Nat \ {0}

ASSUME ContentAssumption ==
    /\ Directory \notin File
    /\ Deleted \notin File
    /\ Directory # Deleted

Content  == File \cup {Directory, Deleted}
Counter  == 0 .. MaxCounter
Clock    == [Replica -> Counter]
Revision == [clock : Clock, content : Content]

-----------------------------------------------------------------------------
(* Clocks *)

Less(a, b) == \E r \in Replica : a[r] < b[r]

(* Mutant: dominance decided by one larger counter, forgetting that the other
   side may be larger elsewhere. *)
RelationOneSided(a, b) ==
    CASE Less(a, b)                 -> "Before"
      [] ~Less(a, b) /\ Less(b, a)  -> "After"
      [] ~Less(a, b) /\ ~Less(b, a) -> "Equal"

Relation(a, b) ==
    CASE Less(a, b) /\ Less(b, a)   -> "Concurrent"
      [] Less(a, b) /\ ~Less(b, a)  -> "Before"
      [] ~Less(a, b) /\ Less(b, a)  -> "After"
      [] ~Less(a, b) /\ ~Less(b, a) -> "Equal"

Before(a, b) == Relation(a, b) = "Before"

Valid(clock) == \E r \in Replica : clock[r] > 0

(* Mutant: an edit that starts from the selected head only. *)
MergeOne(heads) ==
    IF heads = {} THEN [r \in Replica |-> 0] ELSE (CHOOSE h \in heads : TRUE).clock

(* The pointwise maximum of the clocks of a set of revisions. *)
MergeAll(heads) ==
    [r \in Replica |->
        CHOOSE n \in {0} \cup {h.clock[r] : h \in heads} :
            \A h \in heads : h.clock[r] <= n]

CanAdvance(clock, r) == clock[r] < MaxCounter

(* Mutant: an edit reuses the merged clock. *)
AdvanceNothing(clock, r) == clock

Advance(clock, r) == [clock EXCEPT ![r] = @ + 1]

-----------------------------------------------------------------------------
(* Sets of concurrent revisions *)

(* What survives of a set of candidates: every revision no other one
   causally dominates. *)
Maximal(candidates) ==
    {x \in candidates : \A y \in candidates : ~Before(x.clock, y.clock)}

(* Mutant: the incoming side is filtered against the local one only. *)
JoinLocalFirst(a, b) ==
    a \cup {x \in b : \A y \in a : ~Before(x.clock, y.clock)}

Join(a, b) == Maximal(a \cup b)

(* Two revisions with one clock are one revision. *)
Consistent(candidates) ==
    \A x, y \in candidates :
        Relation(x.clock, y.clock) = "Equal" => x.content = y.content

CanJoin(a, b) ==
    /\ Cardinality(a) <= MaxHeads
    /\ Cardinality(b) <= MaxHeads
    /\ \A x \in a \cup b : Valid(x.clock)
    /\ Consistent(a \cup b)
    /\ Cardinality(Join(a, b)) <= MaxHeads

(* A local edit observes every head it starts from and advances the editing
   replica's own counter. *)
Edit(heads, r, content) ==
    {[clock |-> Advance(MergeAll(heads), r), content |-> content]}

CanEdit(heads, r) == CanAdvance(MergeAll(heads), r)

-----------------------------------------------------------------------------
(* The revision shown in the folder *)

(* Mutant: a tombstone wins over the file it is concurrent with. *)
RankDeletedFirst(content) ==
    CASE content \in File      -> 2
      [] content = Directory   -> 1
      [] content = Deleted     -> 0

Rank(content) ==
    CASE content \in File      -> 0
      [] content = Directory   -> 1
      [] content = Deleted     -> 2

Selected(heads) ==
    CHOOSE h \in heads : \A k \in heads : Rank(h.content) <= Rank(k.content)

(* A path is being removed when nothing but tombstones is left of it. *)
Removing(heads) == \A h \in heads : h.content = Deleted

Mode == {"SendOnly", "ReceiveOnly", "Bidirectional"}
=============================================================================
