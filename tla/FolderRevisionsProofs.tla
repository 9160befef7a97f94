------------------------- MODULE FolderRevisionsProofs -------------------------
(***************************************************************************)
(* Theorems about the revisions a folder holds: their objects, their       *)
(* clocks, what scans, choices and restored indexes may make of them, and  *)
(* where the directions let them go, for any devices, paths, files,        *)
(* directions and bounds.                                                  *)
(***************************************************************************)
EXTENDS FolderSyncProofs

-----------------------------------------------------------------------------
(* What a step writes: every head is an old one, one that was received, or    *)
(* one with the content given to the step.                                     *)

LEMMA MadeContent ==
    ASSUME NEW x \in Index, NEW d \in Device, NEW H \in SUBSET Revision,
           NEW content \in Content, CanEdit(H, <<d, x.epoch>>)
    PROVE  Made(x, d, H, content).rev.content = content
<1>1. PICK e \in Revision : Edit(H, <<d, x.epoch>>, content) = {e} /\ e.content = content
  BY ReplicaOK, EditDominates
<1>2. (CHOOSE k \in Edit(H, <<d, x.epoch>>, content) : TRUE) = e
  BY <1>1
<1> QED
  BY <1>1, <1>2 DEF Made

LEMMA JoinedOne ==
    ASSUME NEW A \in SUBSET Revision, NEW e \in Revision
    PROVE  Join(A, {e}) \subseteq A \cup {e}
<1> DEFINE B == {e}
<1>1. B \in SUBSET Revision
  OBVIOUS
<1> HIDE DEF B
<1>2. Join(A, B) \subseteq A \cup B
  BY <1>1, JoinType
<1> QED
  BY <1>2 DEF B

LEMMA EditedHeads ==
    ASSUME NEW x \in Index, NEW d \in Device, NEW p \in Path, NEW content \in Content,
           CanEdit(x.observed[p], <<d, x.epoch>>)
    PROVE  /\ \A h \in Edited(x, d, p, content).versions :
                 h \in x.versions[p] \/ h.content = content
           /\ \A m \in Edited(x, d, p, content).made : m.rev.content = content
<1> DEFINE made == Made(x, d, x.observed[p], content)
<1>1. x.versions[p] \in SUBSET Revision /\ x.observed[p] \in SUBSET Revision
  BY DEF Index
<1>2. made.rev \in Revision /\ made.rev.content = content
  <2>1. made.rev \in Revision
    BY <1>1, MadeOK
  <2>2. made.rev.content = content
    BY <1>1, MadeContent
  <2> QED
    BY <2>1, <2>2
<1> HIDE DEF made
<1>3. Join(x.versions[p], {made.rev}) \subseteq x.versions[p] \cup {made.rev}
  BY <1>1, <1>2, JoinedOne
<1>4. Edited(x, d, p, content) =
         Row(Join(x.versions[p], {made.rev}), content, {made.rev}, FALSE, {made})
  BY DEF Edited, made
<1> QED
  BY <1>2, <1>3, <1>4 DEF Row

LEMMA ScanRowCases ==
    ASSUME NEW x, NEW d, NEW p, NEW content, NEW approve \in BOOLEAN
    PROVE  \/ /\ IsEdit(x, p, content, approve)
              /\ ScanRow(x, d, p, content, approve) = Edited(x, d, p, content)
           \/ /\ ScanRow(x, d, p, content, approve).versions = x.versions[p]
              /\ ScanRow(x, d, p, content, approve).made = {}
<1> DEFINE s == Stored(x, p)
<1>1. \/ ScanRow(x, d, p, content, approve) = Adopted(x, p, content)
      \/ /\ IsEdit(x, p, content, approve)
         /\ ScanRow(x, d, p, content, approve) = Edited(x, d, p, content)
      \/ ScanRow(x, d, p, content, approve) = s
      \/ ScanRow(x, d, p, content, approve) = [s EXCEPT !.pending = FALSE]
      \/ ScanRow(x, d, p, content, approve) = [s EXCEPT !.pending = TRUE]
  BY DEF ScanRow, IsEdit
<1>2. Adopted(x, p, content).versions = x.versions[p] /\ Adopted(x, p, content).made = {}
  BY DEF Adopted, Row
<1>3. /\ s.versions = x.versions[p] /\ s.made = {}
      /\ [s EXCEPT !.pending = FALSE].versions = x.versions[p]
      /\ [s EXCEPT !.pending = FALSE].made = {}
      /\ [s EXCEPT !.pending = TRUE].versions = x.versions[p]
      /\ [s EXCEPT !.pending = TRUE].made = {}
  BY DEF Stored, Row
<1> HIDE DEF s
<1> QED
  BY <1>1, <1>2, <1>3

LEMMA ScanRowHeads ==
    ASSUME NEW x \in Index, NEW d \in Device, NEW p \in Path,
           NEW content \in Content, NEW approve \in BOOLEAN,
           IsEdit(x, p, content, approve) => CanEdit(x.observed[p], <<d, x.epoch>>)
    PROVE  /\ \A h \in ScanRow(x, d, p, content, approve).versions :
                 h \in x.versions[p] \/ h.content = content
           /\ \A m \in ScanRow(x, d, p, content, approve).made :
                 m.rev.content = content /\ IsEdit(x, p, content, approve)
BY ScanRowCases, EditedHeads

LEMMA SaveParts ==
    ASSUME NEW x \in Index, NEW row
    PROVE  \A p \in Path :
              /\ Save(x, row).versions[p] = row[p].versions
              /\ Save(x, row).history[p] = x.history[p] \cup (x.versions[p] \cup row[p].versions)
              /\ Save(x, row).observed[p] = row[p].observed
              /\ Save(x, row).materialized[p] = row[p].materialized
BY DEF Save, Write, Index

LEMMA SaveRowParts ==
    ASSUME NEW x \in Index, NEW p \in Path, NEW r
    PROVE  /\ SaveRow(x, p, r).versions[p] = r.versions
           /\ SaveRow(x, p, r).history[p] = x.history[p] \cup (x.versions[p] \cup r.versions)
           /\ SaveRow(x, p, r).observed[p] = r.observed
           /\ SaveRow(x, p, r).materialized[p] = r.materialized
           /\ \A q \in Path \ {p} :
                 /\ SaveRow(x, p, r).versions[q] = x.versions[q]
                 /\ SaveRow(x, p, r).history[q] = x.history[q] \cup x.versions[q]
                 /\ SaveRow(x, p, r).observed[q] = x.observed[q]
                 /\ SaveRow(x, p, r).materialized[q] = x.materialized[q]
<1> DEFINE row == [q \in Path |-> IF q = p THEN r ELSE Stored(x, q)]
<1>1. \A q \in Path : row[q] = IF q = p THEN r ELSE Stored(x, q)
  OBVIOUS
<1>2. SaveRow(x, p, r) = Save(x, row)
  BY DEF SaveRow
<1> HIDE DEF row
<1>3. \A q \in Path : /\ Stored(x, q).versions = x.versions[q]
                      /\ Stored(x, q).observed = x.observed[q]
                      /\ Stored(x, q).materialized = x.materialized[q]
  BY DEF Stored, Row
<1> QED
  BY <1>1, <1>2, <1>3, SaveParts

-----------------------------------------------------------------------------
(* Merged clocks *)

(* A merged counter is zero or that of one of the heads. *)
LEMMA MergeAttained ==
    ASSUME NEW H \in SUBSET Revision, NEW r \in Replica
    PROVE  MergeAll(H)[r] = 0 \/ \E h \in H : h.clock[r] = MergeAll(H)[r]
<1> DEFINE M     == {0} \cup {h.clock[r] : h \in H}
           Up(n) == {m \in M : n < m}
           U     == {Up(n) : n \in M}
<1>1. M \subseteq Counter /\ 0 \in M
  BY CounterAssumption DEF Revision, Clock, Counter
<1>2. \E n \in M : \A m \in M : m <= n
  <2> HIDE DEF M
  <2>0. IsFiniteSet(Counter)
    BY CounterAssumption, FS_Interval DEF Counter
  <2>1. IsFiniteSet(M)
    BY <1>1, <2>0, FS_Subset
  <2>2. U \subseteq FiniteSubsetsOf(M) /\ U # {}
    <3>1. \A n \in M : Up(n) \in SUBSET M /\ IsFiniteSet(Up(n))
      BY <2>1, FS_Subset
    <3> QED
      BY <1>1, <3>1 DEF FiniteSubsetsOf
  <2>3. PICK least \in U : \A other \in U : <<other, least>> \notin StrictSubsetOrdering(M)
    <3> HIDE DEF U
    <3>1. IsWellFoundedOn(StrictSubsetOrdering(M), FiniteSubsetsOf(M))
      BY <2>1, FS_StrictSubsetOrderingWellFounded
    <3> QED
      BY <2>2, <3>1, WFMin
  <2>4. PICK n \in M : least = Up(n)
    OBVIOUS
  <2>5. ASSUME NEW m \in M PROVE m <= n
    <3>1. \A k \in M : k \in Int
      BY <1>1, CounterAssumption DEF Counter
    <3>2. SUFFICES ASSUME n < m PROVE FALSE
      BY <3>1
    <3>3. Up(m) \subseteq Up(n) /\ m \in Up(n) /\ m \notin Up(m)
      BY <3>1, <3>2
    <3>4. <<Up(m), Up(n)>> \in StrictSubsetOrdering(M)
      BY <3>3 DEF StrictSubsetOrdering
    <3> QED
      BY <2>3, <2>4, <3>4
  <2> QED
    BY <2>5
<1>3. \E n \in M : \A h \in H : h.clock[r] <= n
  BY <1>2
<1> QED
  BY <1>3 DEF MergeAll

LEMMA ClockCounter ==
    ASSUME NEW h \in Revision, NEW r \in Replica
    PROVE  h.clock[r] \in Nat
BY CounterAssumption DEF Revision, Clock, Counter

LEMMA MergeNat ==
    ASSUME NEW H \in SUBSET Revision, NEW r \in Replica
    PROVE  MergeAll(H)[r] \in Nat
BY MergeBound, CounterAssumption DEF Counter

(* The clock of an edit. *)
LEMMA EditClock ==
    ASSUME NEW H \in SUBSET Revision, NEW r \in Replica, NEW content \in Content,
           CanEdit(H, r)
    PROVE  \E e \in Revision :
              /\ Edit(H, r, content) = {e} /\ e.content = content
              /\ e.clock[r] = MergeAll(H)[r] + 1
              /\ \A q \in Replica \ {r} : e.clock[q] = MergeAll(H)[q]
              /\ \A h \in H : Before(h.clock, e.clock)
<1>1. PICK e \in Revision : /\ Edit(H, r, content) = {e} /\ e.content = content
                            /\ \A h \in H : Before(h.clock, e.clock)
  BY EditDominates
<1>2. e = [clock |-> Advance(MergeAll(H), r), content |-> content]
  BY <1>1 DEF Edit
<1>3. MergeAll(H) \in Clock
  BY MergeType
<1>4. \A q \in Replica : e.clock[q] = IF q = r THEN MergeAll(H)[r] + 1 ELSE MergeAll(H)[q]
  BY <1>2, <1>3 DEF Advance, Clock
<1> QED
  BY <1>1, <1>4

(* What dominates a set of heads has a merged clock at least theirs. *)
LEMMA MergeMonotone ==
    ASSUME NEW H \in SUBSET Revision, NEW K \in SUBSET Revision, KnownIn(H, K),
           NEW r \in Replica
    PROVE  MergeAll(H)[r] <= MergeAll(K)[r]
<1>1. CASE MergeAll(H)[r] = 0
  BY <1>1, MergeNat
<1>2. CASE \E h \in H : h.clock[r] = MergeAll(H)[r]
  <2>1. PICK h \in H : h.clock[r] = MergeAll(H)[r]
    BY <1>2
  <2>2. PICK k \in K : h = k \/ Before(h.clock, k.clock)
    BY DEF KnownIn
  <2>3. h.clock[r] <= k.clock[r]
    <3>1. h.clock \in Clock /\ k.clock \in Clock
      BY DEF Revision
    <3>2. h.clock[r] \in Nat
      BY ClockCounter
    <3> QED
      BY <2>2, <3>1, <3>2, BeforeMeaning
  <2>4. k.clock[r] <= MergeAll(K)[r]
    BY MergeBound
  <2> QED
    BY <2>1, <2>3, <2>4, ClockCounter, MergeNat
<1> QED
  BY <1>1, <1>2, MergeAttained

-----------------------------------------------------------------------------
(* Births *)

Revs(B) == {b.rev : b \in B}

(* The birth of what a replica makes from a set of heads. *)
BirthOf(B, r, H, e) ==
    [rev  |-> e,
     by   |-> r,
     past |-> H \cup UNION {b.past : b \in {k \in B : k.rev \in H}}]

(* One counter of a revision's clock, its maker's, tells whether another has
   seen it. *)
Causal(B) ==
    /\ \A x, y \in B :
          x.rev.clock[x.by] <= y.rev.clock[x.by] => x.rev \in y.past \cup {y.rev}
    /\ \A y \in B : \A z \in y.past : Before(z.clock, y.rev.clock)
    /\ \A x, y \in B : x.rev = y.rev => x = y
    /\ \A x \in B : x.rev.clock[x.by] > 0

(* No revision is ahead of these heads in the counter of a replica. *)
Top(B, r, H) == \A b \in B : b.rev.clock[r] <= MergeAll(H)[r]

LEMMA RevsOK ==
    ASSUME NEW B \in SUBSET Birth
    PROVE  Revs(B) \in SUBSET Revision
BY DEF Revs, Birth

LEMMA CausalClocks ==
    ASSUME NEW B \in SUBSET Birth, Causal(B), NEW x \in B, NEW y \in B
    PROVE  /\ x.rev.clock = y.rev.clock => x = y
           /\ Before(x.rev.clock, y.rev.clock) => x.rev \in y.past
<1>1. x.rev \in Revision /\ y.rev \in Revision /\ x.by \in Replica
  BY DEF Birth
<1>2. x.rev.clock \in Clock /\ y.rev.clock \in Clock
  BY <1>1 DEF Revision
<1>3. x.rev.clock[x.by] \in Nat
  BY <1>1, ClockCounter
<1>4. ASSUME x.rev.clock = y.rev.clock PROVE x = y
  <2>1. x.rev.clock[x.by] <= y.rev.clock[x.by]
    BY <1>3, <1>4
  <2>2. x.rev \in y.past \cup {y.rev}
    BY <2>1 DEF Causal
  <2>3. x.rev \notin y.past
    BY <1>2, <1>4, BeforeIrreflexive DEF Causal
  <2> QED
    BY <2>2, <2>3 DEF Causal
<1>5. ASSUME Before(x.rev.clock, y.rev.clock) PROVE x.rev \in y.past
  <2>1. x.rev.clock[x.by] <= y.rev.clock[x.by]
    BY <1>1, <1>2, <1>5, BeforeMeaning
  <2>2. x.rev \in y.past \cup {y.rev}
    BY <2>1 DEF Causal
  <2>3. x.rev # y.rev
    BY <1>2, <1>5, BeforeIrreflexive
  <2> QED
    BY <2>2, <2>3
<1> QED
  BY <1>4, <1>5

(* What a replica makes from heads that nothing is ahead of extends causality. *)
LEMMA BirthCausal ==
    ASSUME NEW B \in SUBSET Birth, Causal(B), NEW r \in Replica,
           NEW H \in SUBSET Revs(B), Top(B, r, H), NEW e \in Revision,
           e.clock[r] = MergeAll(H)[r] + 1,
           \A q \in Replica \ {r} : e.clock[q] = MergeAll(H)[q],
           \A h \in H : Before(h.clock, e.clock)
    PROVE  /\ BirthOf(B, r, H, e) \in Birth
           /\ Causal(B \cup {BirthOf(B, r, H, e)})
           /\ \A b \in B : b.rev.clock[r] < e.clock[r]
           /\ e \notin Revs(B)
<1> DEFINE n == BirthOf(B, r, H, e)
<1>1. H \in SUBSET Revision /\ Revs(B) \in SUBSET Revision
  BY RevsOK
<1>2. \A b \in B : b.rev \in Revision /\ b.by \in Replica /\ b.past \in SUBSET Revision
  BY DEF Birth
<1>3. UNION {b.past : b \in {k \in B : k.rev \in H}} \in SUBSET Revision
  BY <1>2
<1>4. n \in Birth
  BY <1>1, <1>3 DEF Birth, BirthOf
<1>5. /\ n.rev = e /\ n.by = r
      /\ \A z : z \in n.past <=> z \in H \/ \E k \in B : k.rev \in H /\ z \in k.past
  BY DEF BirthOf
<1> HIDE DEF n
<1>6. \A q \in Replica : MergeAll(H)[q] \in Nat
  BY <1>1, MergeNat
<1>7. \A b \in B : b.rev.clock[r] \in Nat /\ b.rev.clock[r] < e.clock[r]
  BY <1>2, <1>6, ClockCounter DEF Top
<1>8. e \notin Revs(B)
  BY <1>7 DEF Revs
<1>9. ASSUME NEW x \in B, x.rev.clock[x.by] <= e.clock[x.by] PROVE x.rev \in n.past
  <2>1. x.rev.clock[x.by] \in Nat /\ x.rev.clock[x.by] > 0
    BY <1>2, ClockCounter DEF Causal
  <2>2. x.rev.clock[x.by] <= MergeAll(H)[x.by]
    <3>1. CASE x.by = r
      BY <3>1 DEF Top
    <3>2. CASE x.by # r
      BY <1>2, <1>9, <3>2
    <3> QED
      BY <3>1, <3>2
  <2>3. PICK h \in H : h.clock[x.by] = MergeAll(H)[x.by]
    BY <1>1, <1>2, <1>6, <2>1, <2>2, MergeAttained
  <2>4. PICK k \in B : k.rev = h
    BY DEF Revs
  <2>5. x.rev \in k.past \cup {k.rev}
    BY <2>2, <2>3, <2>4 DEF Causal
  <2> QED
    BY <1>5, <2>4, <2>5
<1>10. \A z \in n.past : Before(z.clock, e.clock)
  <2> SUFFICES ASSUME NEW z \in n.past PROVE Before(z.clock, e.clock)
    OBVIOUS
  <2>1. CASE z \in H
    BY <2>1
  <2>2. CASE \E k \in B : k.rev \in H /\ z \in k.past
    <3>1. PICK k \in B : k.rev \in H /\ z \in k.past
      BY <2>2
    <3>2. Before(z.clock, k.rev.clock) /\ Before(k.rev.clock, e.clock)
      BY <3>1 DEF Causal
    <3>3. z.clock \in Clock /\ k.rev.clock \in Clock /\ e.clock \in Clock
      BY <1>2, <3>1 DEF Revision
    <3> QED
      BY <3>2, <3>3, BeforeTransitive
  <2> QED
    BY <1>5, <2>1, <2>2
<1>11. Causal(B \cup {n})
  <2>1. ASSUME NEW x \in B \cup {n}, NEW y \in B \cup {n},
               x.rev.clock[x.by] <= y.rev.clock[x.by]
        PROVE  x.rev \in y.past \cup {y.rev}
    <3>1. CASE x = n /\ y \in B
      <4>1. y.rev.clock[r] < e.clock[r] /\ y.rev.clock[r] \in Nat
        BY <1>7, <3>1
      <4>2. e.clock[r] \in Nat
        BY ClockCounter
      <4> QED
        BY <1>5, <2>1, <3>1, <4>1, <4>2
    <3>2. CASE x \in B /\ y = n
      BY <1>5, <1>9, <2>1, <3>2
    <3>3. CASE x \in B /\ y \in B
      BY <2>1, <3>3 DEF Causal
    <3> QED
      BY <3>1, <3>2, <3>3
  <2>2. \A y \in B \cup {n} : \A z \in y.past : Before(z.clock, y.rev.clock)
    BY <1>5, <1>10 DEF Causal
  <2>3. \A x, y \in B \cup {n} : x.rev = y.rev => x = y
    BY <1>5, <1>8 DEF Causal, Revs
  <2>4. \A x \in B \cup {n} : x.rev.clock[x.by] > 0
    BY <1>5, <1>6 DEF Causal
  <2> QED
    BY <2>1, <2>2, <2>3, <2>4 DEF Causal
<1> QED
  BY <1>4, <1>7, <1>8, <1>11 DEF n

-----------------------------------------------------------------------------
(* One path of one device *)

(* What device r has of a path, of whose revisions B are the births: its heads
   V, what was observed O, its history K, the content it has materialized.
   Nothing is ahead of its heads in its own counter, nor - unless it is
   resolving a conflict - of what was observed. *)
DevicePath(B, r, V, O, K, content, resolving) ==
    /\ K \subseteq Revs(B) /\ V \subseteq K /\ O \subseteq Revs(B)
    /\ \A h, k \in V : ~Before(h.clock, k.clock)
    /\ Top(B, r, V)
    /\ resolving \/ Top(B, r, O)
    /\ \A b \in B : b.by = r => b.rev \in K
    /\ content # Deleted => \E h \in K : h.content = content

(* Births that replica r adds. *)
NewBy(B, N, r) ==
    /\ N \subseteq Birth /\ Causal(B \cup N)
    /\ \A n \in N :
          /\ n.by = r /\ n.rev \notin Revs(B)
          /\ \E H \in SUBSET Revs(B) :
                \A q \in Replica \ {r} : n.rev.clock[q] = MergeAll(H)[q]

LEMMA RevsUnion ==
    ASSUME NEW B, NEW N
    PROVE  Revs(B \cup N) = Revs(B) \cup Revs(N)
BY DEF Revs

LEMMA BasisBelow ==
    ASSUME NEW B \in SUBSET Birth, NEW r \in Replica,
           NEW H \in SUBSET Revs(B), NEW T \in SUBSET Revision, Top(B, r, T)
    PROVE  MergeAll(H)[r] <= MergeAll(T)[r]
<1>1. H \in SUBSET Revision
  BY RevsOK
<1>2. MergeAll(H)[r] \in Nat /\ MergeAll(T)[r] \in Nat
  BY <1>1, MergeNat
<1>3. CASE MergeAll(H)[r] = 0
  BY <1>2, <1>3
<1>4. CASE \E h \in H : h.clock[r] = MergeAll(H)[r]
  BY <1>4 DEF Top, Revs
<1> QED
  BY <1>1, <1>3, <1>4, MergeAttained

(* Another device's birth changes nothing here. *)
LEMMA OthersBirths ==
    ASSUME NEW B \in SUBSET Birth, NEW N, NEW r \in Replica, NEW q \in Replica, q # r,
           NewBy(B, N, q),
           NEW V, NEW O, NEW K, NEW content, NEW resolving,
           DevicePath(B, r, V, O, K, content, resolving)
    PROVE  DevicePath(B \cup N, r, V, O, K, content, resolving)
<1>1. V \in SUBSET Revision /\ O \in SUBSET Revision
  BY RevsOK DEF DevicePath
<1>2. ASSUME NEW T \in SUBSET Revision, Top(B, r, T) PROVE Top(B \cup N, r, T)
  <2> SUFFICES ASSUME NEW n \in N PROVE n.rev.clock[r] <= MergeAll(T)[r]
    BY <1>2 DEF Top
  <2>1. PICK H \in SUBSET Revs(B) : n.rev.clock[r] = MergeAll(H)[r]
    BY DEF NewBy
  <2> QED
    BY <1>2, <2>1, BasisBelow
<1>3. Top(B \cup N, r, V) /\ (resolving \/ Top(B \cup N, r, O))
  BY <1>1, <1>2 DEF DevicePath
<1>4. Revs(B) \subseteq Revs(B \cup N)
  BY DEF Revs
<1>5. \A b \in B \cup N : b.by = r => b.rev \in K
  BY DEF NewBy, DevicePath
<1> QED
  BY <1>3, <1>4, <1>5 DEF DevicePath

(* What an edit of these heads adds. *)
Adds(B, r, H, content, e) ==
    /\ Edit(H, r, content) = {e} /\ e.content = content
    /\ NewBy(B, {BirthOf(B, r, H, e)}, r)
    /\ \A h \in H : Before(h.clock, e.clock)
    /\ \A b \in B : b.rev.clock[r] < e.clock[r]

LEMMA EditBirth ==
    ASSUME NEW B \in SUBSET Birth, Causal(B), NEW r \in Replica,
           NEW H \in SUBSET Revs(B), Top(B, r, H), NEW content \in Content, CanEdit(H, r)
    PROVE  \E e \in Revision : Adds(B, r, H, content, e)
<1>1. H \in SUBSET Revision
  BY RevsOK
<1>2. PICK e \in Revision :
         /\ Edit(H, r, content) = {e} /\ e.content = content
         /\ e.clock[r] = MergeAll(H)[r] + 1
         /\ \A q \in Replica \ {r} : e.clock[q] = MergeAll(H)[q]
         /\ \A h \in H : Before(h.clock, e.clock)
  BY <1>1, EditClock
<1> DEFINE n == BirthOf(B, r, H, e)
<1>3. /\ n \in Birth /\ Causal(B \cup {n}) /\ e \notin Revs(B)
      /\ \A b \in B : b.rev.clock[r] < e.clock[r]
  BY <1>2, BirthCausal
<1>4. n.rev = e /\ n.by = r
  BY DEF BirthOf
<1> HIDE DEF n
<1>5. NewBy(B, {n}, r)
  BY <1>2, <1>3, <1>4 DEF NewBy
<1> QED
  BY <1>2, <1>3, <1>5 DEF n, Adds

(* A revision ahead of every other in a counter is on top of that counter. *)
LEMMA NewOnTop ==
    ASSUME NEW B \in SUBSET Birth, NEW n \in Birth, NEW r \in Replica,
           \A b \in B : b.rev.clock[r] < n.rev.clock[r],
           NEW H \in SUBSET Revision, n.rev \in H
    PROVE  Top(B \cup {n}, r, H)
<1>1. n.rev.clock[r] <= MergeAll(H)[r] /\ MergeAll(H)[r] \in Nat
  BY MergeBound, MergeNat
<1>2. \A b \in B \cup {n} : b.rev.clock[r] \in Nat
  BY ClockCounter DEF Birth
<1> QED
  BY <1>1, <1>2 DEF Top

(* Share::scan records an edit. *)
LEMMA PathEdited ==
    ASSUME NEW B \in SUBSET Birth, NEW r \in Replica,
           NEW V, NEW O, NEW K, NEW content, DevicePath(B, r, V, O, K, content, FALSE),
           NEW e \in Revision, NEW n \in Birth, n.rev = e, n.by = r,
           \A b \in B : b.rev.clock[r] < e.clock[r]
    PROVE  /\ e \in Join(V, {e})
           /\ DevicePath(B \cup {n}, r, Join(V, {e}), {e}, K \cup (V \cup Join(V, {e})),
                         e.content, FALSE)
<1>1. V \in SUBSET Revision /\ K \in SUBSET Revision
  BY RevsOK DEF DevicePath
<1>2. e \in Join(V, {e})
  <2>1. ASSUME NEW v \in V PROVE ~Before(e.clock, v.clock)
    <3>1. v.clock[r] < e.clock[r]
      BY DEF DevicePath, Revs
    <3>2. e.clock \in Clock /\ v.clock \in Clock
      BY <1>1 DEF Revision
    <3>3. v.clock[r] \in Nat /\ e.clock[r] \in Nat
      BY <1>1, ClockCounter
    <3> QED
      BY <3>1, <3>2, <3>3, BeforeMeaning
  <2>2. ~Before(e.clock, e.clock)
    BY BeforeIrreflexive DEF Revision
  <2> QED
    BY <2>1, <2>2 DEF Join, Maximal
<1>3. /\ Join(V, {e}) \in SUBSET Revision /\ Join(V, {e}) \subseteq V \cup {e}
      /\ \A h, k \in Join(V, {e}) : ~Before(h.clock, k.clock)
  BY <1>1, JoinType DEF Join, Maximal
<1>4. Top(B \cup {n}, r, Join(V, {e})) /\ Top(B \cup {n}, r, {e})
  BY <1>2, <1>3, NewOnTop
<1>5. Revs(B \cup {n}) = Revs(B) \cup {e}
  BY DEF Revs
<1> HIDE DEF Join
<1> QED
  BY <1>2, <1>3, <1>4, <1>5 DEF DevicePath

(* Share::choose replaces the heads by a resolution. *)
LEMMA PathChosen ==
    ASSUME NEW B \in SUBSET Birth, NEW r \in Replica,
           NEW V, NEW O, NEW K, NEW content, NEW resolving,
           DevicePath(B, r, V, O, K, content, resolving),
           NEW e \in Revision, NEW n \in Birth, n.rev = e, n.by = r,
           \A b \in B : b.rev.clock[r] < e.clock[r],
           NEW found, found # Deleted => \E h \in K : h.content = found
    PROVE  DevicePath(B \cup {n}, r, {e}, O, K \cup (V \cup {e}), found, TRUE)
<1>1. Top(B \cup {n}, r, {e})
  BY NewOnTop
<1>2. Revs(B \cup {n}) = Revs(B) \cup {e}
  BY DEF Revs
<1>3. ~Before(e.clock, e.clock)
  BY BeforeIrreflexive DEF Revision
<1> QED
  BY <1>1, <1>2, <1>3 DEF DevicePath

(* Share::commit_incoming joins what was received. *)
LEMMA PathJoined ==
    ASSUME NEW B \in SUBSET Birth, NEW r \in Replica,
           NEW V, IsFiniteSet(V), NEW O, NEW K, NEW content, NEW resolving,
           DevicePath(B, r, V, O, K, content, resolving),
           NEW H \in SUBSET Revs(B), IsFiniteSet(H)
    PROVE  DevicePath(B, r, Join(V, H), O, K \cup (V \cup Join(V, H)), content, resolving)
<1>1. V \in SUBSET Revision /\ H \in SUBSET Revision
  BY RevsOK DEF DevicePath
<1>2. /\ Join(V, H) \in SUBSET Revision /\ Join(V, H) \subseteq V \cup H
      /\ \A h, k \in Join(V, H) : ~Before(h.clock, k.clock)
  BY <1>1, JoinType DEF Join, Maximal
<1>3. KnownIn(V, Join(V, H))
  BY <1>1, KnownInJoin
<1>4. Top(B, r, Join(V, H))
  <2> SUFFICES ASSUME NEW b \in B PROVE b.rev.clock[r] <= MergeAll(Join(V, H))[r]
    BY DEF Top
  <2>1. b.rev.clock[r] <= MergeAll(V)[r]
    BY DEF DevicePath, Top
  <2>2. MergeAll(V)[r] <= MergeAll(Join(V, H))[r]
    BY <1>1, <1>2, <1>3, MergeMonotone
  <2>3. MergeAll(V)[r] \in Nat /\ MergeAll(Join(V, H))[r] \in Nat
    BY <1>1, <1>2, MergeNat
  <2>4. b.rev.clock[r] \in Nat
    BY ClockCounter DEF Birth
  <2> QED
    BY <2>1, <2>2, <2>3, <2>4
<1> QED
  BY <1>2, <1>4 DEF DevicePath

(* The heads stay: bytes are adopted, a publication is acknowledged, or a row
   is only marked. *)
LEMMA PathKept ==
    ASSUME NEW B, NEW r, NEW V, NEW O, NEW K, NEW content, NEW resolving,
           DevicePath(B, r, V, O, K, content, resolving),
           NEW seen, seen = V \/ (seen = O /\ ~resolving),
           NEW found, found = content \/ (found # Deleted => \E h \in V : h.content = found)
    PROVE  DevicePath(B, r, V, seen, K \cup (V \cup V), found, FALSE)
BY DEF DevicePath

-----------------------------------------------------------------------------
(* Content objects                                                            *)

(* The heads of an index are in its history, and the history has its objects. *)
IndexHas(x, has) ==
    \A p \in Path :
        /\ x.versions[p] \subseteq x.history[p]
        /\ \A h \in x.history[p] : h.content \in File => h.content \in has

(* What was received is there, or is still to be pulled. *)
SessionHas(s, has) ==
    s.phase \in {"pull", "pulled"} =>
        /\ \A p \in Path : \A h \in s.incoming[p] :
              h.content \in File => h.content \in has \cup s.needed
        /\ s.phase = "pulled" => s.needed = {}

HasInv ==
    \A d \in Device :
        /\ IndexHas(db[d], objects[d])
        /\ \A s \in saved[d] : IndexHas(s.index, objects[d])
        /\ \A s, t \in saved[d] : s = t
        /\ SessionHas(sess[d], objects[d])

LEMMA SaveHas ==
    ASSUME NEW x \in Index, NEW row, NEW has, IndexHas(x, has),
           \A p \in Path : \A h \in row[p].versions :
              h \in x.versions[p] \/ (h.content \in File => h.content \in has)
    PROVE  IndexHas(Save(x, row), has)
BY SaveParts DEF IndexHas

LEMMA SaveRowHas ==
    ASSUME NEW x \in Index, NEW p \in Path, NEW r, NEW has, IndexHas(x, has),
           \A h \in r.versions :
              h \in x.versions[p] \/ (h.content \in File => h.content \in has)
    PROVE  IndexHas(SaveRow(x, p, r), has)
<1> SUFFICES ASSUME NEW q \in Path
             PROVE  /\ SaveRow(x, p, r).versions[q] \subseteq SaveRow(x, p, r).history[q]
                    /\ \A h \in SaveRow(x, p, r).history[q] :
                          h.content \in File => h.content \in has
  BY DEF IndexHas
<1>1. CASE q = p
  BY <1>1, SaveRowParts DEF IndexHas
<1>2. CASE q # p
  BY <1>2, SaveRowParts DEF IndexHas
<1> QED
  BY <1>1, <1>2

LEMMA ScanHas ==
    ASSUME NEW x \in Index, NEW d \in Device, NEW folder \in [Path -> Content],
           NEW approve \in BOOLEAN, CanScan(x, d, folder, approve),
           NEW has, IndexHas(x, has), \A p \in Path : folder[p] \in File => folder[p] \in has
    PROVE  IndexHas(Save(x, ScanRows(x, d, folder, approve)), has)
<1> DEFINE row == ScanRows(x, d, folder, approve)
<1>1. \A p \in Path : row[p] = ScanRow(x, d, p, folder[p], approve)
  BY DEF ScanRows
<1>2. \A p \in Path : IsEdit(x, p, folder[p], approve) => CanEdit(x.observed[p], <<d, x.epoch>>)
  BY DEF CanScan
<1>3. \A p \in Path : folder[p] \in Content
  OBVIOUS
<1>4. \A p \in Path : \A h \in row[p].versions : h \in x.versions[p] \/ h.content = folder[p]
  <2> SUFFICES ASSUME NEW p \in Path, NEW h \in row[p].versions
               PROVE  h \in x.versions[p] \/ h.content = folder[p]
    OBVIOUS
  <2> HIDE DEF row
  <2>1. h \in ScanRow(x, d, p, folder[p], approve).versions
    BY <1>1
  <2> QED
    BY <1>2, <1>3, <2>1, ScanRowHeads
<1> HIDE DEF row
<1> QED
  BY <1>4, SaveHas DEF row

LEMMA OpenedHas ==
    ASSUME Inv, NEW d \in Device, CanOpen(d), NEW has, IndexHas(db[d], has),
           ~db[d].recovering => \A p \in Path : disk[d][p] \in File => disk[d][p] \in has
    PROVE  IndexHas(Opened(d), has)
<1>1. db[d] \in Index /\ disk[d] \in [Path -> Content]
  BY DEF Inv, TypeOK
<1>2. CASE db[d].recovering
  <2>1. \A p \in Path : OpenRows(d)[p].versions = db[d].versions[p]
    BY <1>2 DEF OpenRows, Stored, Row
  <2> QED
    BY <1>1, <2>1, SaveHas DEF Opened
<1>3. CASE ~db[d].recovering
  <2>1. OpenRows(d) = ScanRows(db[d], d, disk[d], FALSE) /\ CanScan(db[d], d, disk[d], FALSE)
    BY <1>3 DEF OpenRows, CanOpen
  <2> QED
    BY <1>1, <1>3, <2>1, ScanHas DEF Opened
<1> QED
  BY <1>2, <1>3

-----------------------------------------------------------------------------
(* Steps that lose no object                                                  *)

Gathering == \A d \in Device : objects[d] \subseteq objects'[d]

IndexesHave  == \A d \in Device : IndexHas(db'[d], objects'[d])
SessionsHave == \A d \in Device : SessionHas(sess'[d], objects'[d])

LEMMA GatheringHas ==
    ASSUME HasInv, Gathering, UNCHANGED saved, IndexesHave, SessionsHave
    PROVE  HasInv'
BY DEF HasInv, Gathering, IndexesHave, SessionsHave, IndexHas

LEMMA CaptureHas ==
    ASSUME Inv, NEW d \in Device, NEW more,
           objects' = [objects EXCEPT ![d] = @ \cup more]
    PROVE  Gathering /\ objects'[d] = objects[d] \cup more
BY DEF Inv, TypeOK, Gathering

LEMMA CapturedHas ==
    ASSUME NEW d \in Device, NEW has, Captured(d) \subseteq has
    PROVE  \A p \in Path : disk[d][p] \in File => disk[d][p] \in has
BY DEF Captured

LEMMA OneIndexHas ==
    ASSUME Inv, HasInv, Gathering, NEW d \in Device, NEW y,
           db' = [db EXCEPT ![d] = y], IndexHas(y, objects'[d])
    PROVE  IndexesHave
<1>1. \A e \in Device : db'[e] = IF e = d THEN y ELSE db[e]
  BY DEF Inv, TypeOK
<1> QED
  BY <1>1 DEF HasInv, Gathering, IndexHas, IndexesHave

LEMMA SameIndexesHave ==
    ASSUME HasInv, Gathering, UNCHANGED db
    PROVE  IndexesHave
BY DEF HasInv, Gathering, IndexHas, IndexesHave

(* Sessions that end, are flagged, or are past the transfer. *)
LEMMA SessionsPast ==
    ASSUME HasInv, Gathering,
           \A e \in Device :
              \/ sess'[e].phase \notin {"pull", "pulled"}
              \/ /\ sess'[e].phase = sess[e].phase
                 /\ sess'[e].incoming = sess[e].incoming
                 /\ sess'[e].needed = sess[e].needed
    PROVE  SessionsHave
BY DEF HasInv, Gathering, SessionsHave, SessionHas

LEMMA SameSessionsHave ==
    ASSUME HasInv, Gathering, UNCHANGED sess
    PROVE  SessionsHave
BY SessionsPast

LEMMA EndHas ==
    ASSUME Inv, HasInv, Gathering, NEW d \in Device, End(d)
    PROVE  SessionsHave
<1>1. \A e \in Device : sess'[e] = IF e = d THEN NoSession(d) ELSE sess[e]
  BY DEF End, Inv, TypeOK
<1> QED
  BY <1>1, NoSessionOK, SessionsPast

LEMMA GotoHas ==
    ASSUME Inv, HasInv, Gathering, NEW d \in Device, NEW phase, Goto(d, phase),
           phase \notin {"pull", "pulled"}
    PROVE  SessionsHave
<1>1. \A e \in Device : sess'[e] = IF e = d THEN [sess[d] EXCEPT !.phase = phase] ELSE sess[e]
  BY DEF Goto, Inv, TypeOK
<1>2. [sess[d] EXCEPT !.phase = phase].phase = phase
  BY DEF Inv, TypeOK, Session
<1> QED
  BY <1>1, <1>2, SessionsPast

Turn(d, phase, p) == sess' = [sess EXCEPT ![d].phase = phase, ![d].path = p]

LEMMA TurnHas ==
    ASSUME Inv, HasInv, Gathering, NEW d \in Device, NEW phase, NEW p,
           Turn(d, phase, p),
           phase \notin {"pull", "pulled"}
    PROVE  SessionsHave
<1>1. sess \in [Device -> Session]
  BY DEF Inv, TypeOK
<1>2. /\ \A e \in Device \ {d} : sess'[e] = sess[e]
      /\ sess'[d].phase = phase
  BY <1>1 DEF Turn, Session
<1> QED
  BY <1>2, SessionsPast

LEMMA SayAppliedHas ==
    ASSUME Inv, HasInv, Gathering, NEW d \in Device, SayApplied(d)
    PROVE  SessionsHave
<1>1. \A e \in Device : sess[e] \in Session
  BY DEF Inv, TypeOK
<1>2. /\ sess'[d] = [sess[d] EXCEPT !.phase = "applied"]
      /\ \A k \in Device \ {d} : \/ sess'[k] = sess[k]
                                 \/ sess'[k] = [sess[k] EXCEPT !.done = TRUE]
  BY DEF SayApplied, Linked
<1>3. sess'[d].phase = "applied"
  BY <1>1, <1>2 DEF Session
<1>4. ASSUME NEW k \in Device \ {d}
      PROVE  /\ sess'[k].phase = sess[k].phase
             /\ sess'[k].incoming = sess[k].incoming
             /\ sess'[k].needed = sess[k].needed
  <2>1. CASE sess'[k] = sess[k]
    BY <2>1
  <2>2. CASE sess'[k] = [sess[k] EXCEPT !.done = TRUE]
    BY <1>1, <2>2 DEF Session
  <2> QED
    BY <1>2, <2>1, <2>2
<1> QED
  BY <1>3, <1>4, SessionsPast

-----------------------------------------------------------------------------
(* The actions                                                                *)

LEMMA ScanGathers ==
    ASSUME Inv, HasInv, NEW d \in Device, NEW approve \in BOOLEAN, Scan(d, approve)
    PROVE  HasInv'
<1> DEFINE row == ScanRows(db[d], d, disk[d], approve)
<1>1. Gathering /\ objects'[d] = objects[d] \cup Captured(d)
  BY CaptureHas DEF Scan
<1>2. UNCHANGED <<saved, sess>>
  BY DEF Scan
<1>3. IndexesHave
  <2>1. CASE CanScan(db[d], d, disk[d], approve)
    <3>1. db' = [db EXCEPT ![d] = Save(db[d], row)]
      BY <2>1 DEF Scan
    <3>2. db[d] \in Index /\ disk[d] \in [Path -> Content]
      BY DEF Inv, TypeOK
    <3>3. IndexHas(db[d], objects'[d])
      BY <1>1 DEF HasInv, IndexHas
    <3>4. IndexHas(Save(db[d], row), objects'[d])
      BY <1>1, <2>1, <3>2, <3>3, ScanHas, CapturedHas
    <3> HIDE DEF row
    <3> QED
      BY <1>1, <3>1, <3>4, OneIndexHas
  <2>2. CASE ~CanScan(db[d], d, disk[d], approve)
    BY <1>1, <2>2, SameIndexesHave DEF Scan
  <2> QED
    BY <2>1, <2>2
<1> QED
  BY <1>1, <1>2, <1>3, SameSessionsHave, GatheringHas

LEMMA ApproveDeletionGathers ==
    ASSUME Inv, HasInv, NEW d \in Device, NEW p \in Path, ApproveDeletion(d, p)
    PROVE  HasInv'
<1> DEFINE row     == ScanRows(db[d], d, disk[d], FALSE)
           scanned == Save(db[d], row)
           deleted == Edited(scanned, d, p, Deleted)
<1>1. Gathering /\ objects'[d] = objects[d] \cup Captured(d)
  BY CaptureHas DEF ApproveDeletion
<1>2. UNCHANGED <<saved, sess>>
  BY DEF ApproveDeletion
<1>3. db[d] \in Index /\ Whole(db[d]) /\ disk[d] \in [Path -> Content]
  BY DEF Inv, TypeOK
<1>4. /\ CanScan(db[d], d, disk[d], FALSE)
      /\ CanEdit(scanned.observed[p], ReplicaOf(d))
      /\ db' = [db EXCEPT ![d] = SaveRow(scanned, p, deleted)]
  BY DEF ApproveDeletion
<1>5. IndexHas(db[d], objects'[d])
  BY <1>1 DEF HasInv, IndexHas
<1>6. IndexHas(scanned, objects'[d])
  BY <1>1, <1>3, <1>4, <1>5, ScanHas, CapturedHas
<1>7. Grown(db[d], scanned)
  BY <1>3, <1>4, ScanRowsOK
<1> HIDE DEF row, scanned
<1>8. scanned \in Index /\ CanEdit(scanned.observed[p], <<d, scanned.epoch>>)
  BY <1>4, <1>7 DEF Grown, ReplicaOf
<1>9. \A h \in deleted.versions : h \in scanned.versions[p] \/ h.content = Deleted
  BY <1>8, EditedHeads DEF Content
<1> HIDE DEF deleted
<1>10. IndexHas(SaveRow(scanned, p, deleted), objects'[d])
  BY <1>6, <1>8, <1>9, SaveRowHas, ContentAssumption
<1> QED
  BY <1>1, <1>2, <1>4, <1>10, OneIndexHas, SameSessionsHave, GatheringHas

LEMMA ChooseScanGathers ==
    ASSUME Inv, HasInv, NEW d \in Device, ChooseScan(d)
    PROVE  HasInv'
<1> DEFINE row == ScanRows(db[d], d, disk[d], FALSE)
<1>1. Gathering /\ objects'[d] = objects[d] \cup Captured(d)
  BY CaptureHas DEF ChooseScan
<1>2. UNCHANGED saved /\ Goto(d, "choosing")
  BY DEF ChooseScan
<1>3. db[d] \in Index /\ disk[d] \in [Path -> Content]
  BY DEF Inv, TypeOK
<1>4. /\ CanScan(db[d], d, disk[d], FALSE)
      /\ db' = [db EXCEPT ![d] = Save(db[d], row)]
  BY DEF ChooseScan
<1>5. IndexHas(db[d], objects'[d])
  BY <1>1 DEF HasInv, IndexHas
<1>6. IndexHas(Save(db[d], row), objects'[d])
  BY <1>1, <1>3, <1>4, <1>5, ScanHas, CapturedHas
<1> HIDE DEF row
<1>7. IndexesHave
  BY <1>1, <1>4, <1>6, OneIndexHas
<1>8. SessionsHave
  BY <1>1, <1>2, GotoHas
<1> QED
  BY <1>1, <1>2, <1>7, <1>8, GatheringHas

LEMMA ChooseCommitGathers ==
    ASSUME Inv, HasInv, NEW d \in Device, NEW p \in Path,
           NEW chosen \in db[d].versions[p] \cup db[d].history[p],
           ChooseCommit(d, p, chosen)
    PROVE  HasInv'
<1> DEFINE made == Made(db[d], d, db[d].versions[p], chosen.content)
           row  == Row({made.rev}, disk[d][p], db[d].observed[p], FALSE, {made})
<1>1. UNCHANGED <<objects, saved>> /\ Gathering
  BY DEF ChooseCommit, Gathering
<1>2. db[d] \in Index
  BY DEF Inv, TypeOK
<1>3. /\ db[d].versions[p] \in SUBSET Revision
      /\ db[d].history[p] \in SUBSET Revision
  BY <1>2 DEF Index
<1>4. chosen.content \in Content
  BY <1>3 DEF Revision
<1>5. /\ CanEdit(db[d].versions[p], ReplicaOf(d))
      /\ chosen.content \in File => chosen.content \in objects[d]
      /\ db' = [db EXCEPT ![d] = SaveRow(db[d], p, row)]
      /\ Turn(d, "chosen", p)
  BY DEF ChooseCommit, Turn
<1>6. made.rev.content = chosen.content
  BY <1>2, <1>3, <1>4, <1>5, MadeContent DEF ReplicaOf
<1> HIDE DEF made
<1>7. row.versions = {made.rev}
  BY DEF Row
<1> HIDE DEF row
<1>8. IndexHas(SaveRow(db[d], p, row), objects[d])
  BY <1>2, <1>5, <1>6, <1>7, SaveRowHas DEF HasInv
<1>9. IndexesHave
  BY <1>1, <1>5, <1>8, OneIndexHas
<1>10. SessionsHave
  BY <1>1, <1>5, TurnHas
<1> QED
  BY <1>1, <1>9, <1>10, GatheringHas

LEMMA ConnectGathers ==
    ASSUME Inv, HasInv, NEW c \in Device, NEW s \in Device, Connect(c, s)
    PROVE  HasInv'
<1>1. /\ CanOpen(c) /\ CanOpen(s)
      /\ db' = [db EXCEPT ![c] = Opened(c), ![s] = Opened(s)]
      /\ objects' = [d \in Device |->
                       IF d \in {c, s} /\ ~db[d].recovering
                       THEN objects[d] \cup Captured(d) ELSE objects[d]]
      /\ UNCHANGED saved
  BY DEF Connect
<1>2. Gathering
  BY <1>1 DEF Gathering
<1>3. IndexHas(Opened(c), objects'[c]) /\ IndexHas(Opened(s), objects'[s])
  <2>1. \A d \in {c, s} : IndexHas(db[d], objects'[d])
    BY <1>2 DEF HasInv, Gathering, IndexHas
  <2>2. \A d \in {c, s} : ~db[d].recovering => Captured(d) \subseteq objects'[d]
    BY <1>1
  <2> QED
    BY <1>1, <2>1, <2>2, OpenedHas, CapturedHas
<1>4. IndexesHave
  <2>1. \A d \in Device : db'[d] = IF d = s THEN Opened(s) ELSE
                                   IF d = c THEN Opened(c) ELSE db[d]
    BY <1>1 DEF Inv, TypeOK
  <2> QED
    BY <1>2, <1>3, <2>1 DEF IndexesHave, HasInv, Gathering, IndexHas
<1>5. SessionsHave
  <2> DEFINE hello(d, e, client) ==
                [NoSession(d) EXCEPT
                  !.phase = "hello", !.peer = e, !.client = client,
                  !.seq = HelloSeq(d),
                  !.remote = [epoch |-> db[e].epoch, seq |-> HelloSeq(e)]]
  <2>1. sess' = [sess EXCEPT ![c] = hello(c, s, TRUE), ![s] = hello(s, c, FALSE)]
    BY DEF Connect
  <2>2. hello(c, s, TRUE).phase = "hello" /\ hello(s, c, FALSE).phase = "hello"
    BY DEF NoSession
  <2> HIDE DEF hello
  <2>3. \A d \in Device : sess'[d].phase = "hello" \/ sess'[d] = sess[d]
    BY <2>1, <2>2 DEF Inv, TypeOK
  <2> QED
    BY <1>2, <2>3, SessionsPast
<1> QED
  BY <1>1, <1>2, <1>4, <1>5, GatheringHas

LEMMA StageGathers ==
    ASSUME Inv, HasInv, NEW d \in Device, Stage(d)
    PROVE  HasInv'
<1> DEFINE e        == sess[d].peer
           incoming == Records(e, d)
           needed   == {h.content : h \in UNION {incoming[p] : p \in Path}}
                          \cap (File \ objects[d])
           staged   == [sess[d] EXCEPT !.phase = "pull", !.incoming = incoming,
                                       !.needed = needed]
<1>1. UNCHANGED <<db, objects, saved>> /\ Gathering
  BY DEF Stage, Gathering
<1>2. sess \in [Device -> Session] /\ e \in Device
  BY DEF Inv, TypeOK, Session
<1>3. \/ sess' = [sess EXCEPT ![e] = NoSession(e)]
      \/ sess' = [sess EXCEPT ![d] = NoSession(d)]
      \/ sess' = [sess EXCEPT ![d].phase = "pull", ![d].incoming = incoming,
                              ![d].needed = needed]
  BY DEF Stage
<1>4. \A p \in Path : \A h \in incoming[p] :
         h.content \in File => h.content \in objects[d] \cup needed
  OBVIOUS
<1> HIDE DEF incoming, needed
<1>5. /\ staged.phase = "pull" /\ staged.incoming = incoming /\ staged.needed = needed
  BY <1>2 DEF Session
<1>6. \/ sess' = [sess EXCEPT ![e] = NoSession(e)]
      \/ sess' = [sess EXCEPT ![d] = NoSession(d)]
      \/ sess' = [sess EXCEPT ![d] = staged]
  BY <1>2, <1>3
<1> HIDE DEF staged, e
<1>7. SessionHas(staged, objects[d])
  BY <1>4, <1>5 DEF SessionHas
<1>8. \A k \in Device : \/ sess'[k] = sess[k]
                        \/ sess'[k] = NoSession(k)
                        \/ k = d /\ sess'[k] = staged
  BY <1>2, <1>6
<1>9. SessionsHave
  <2> SUFFICES ASSUME NEW k \in Device PROVE SessionHas(sess'[k], objects'[k])
    BY DEF SessionsHave
  <2>1. SessionHas(NoSession(k), objects'[k])
    BY NoSessionOK DEF SessionHas
  <2> QED
    BY <1>1, <1>7, <1>8, <2>1 DEF HasInv
<1> QED
  BY <1>1, <1>9, SameIndexesHave, GatheringHas

LEMMA PullGathers ==
    ASSUME Inv, HasInv, NEW d \in Device, NEW f \in File, Pull(d, f)
    PROVE  HasInv'
<1> DEFINE e      == sess[d].peer
           pulled == [sess[d] EXCEPT !.needed = @ \ {f}]
<1>1. UNCHANGED <<db, saved>>
  BY DEF Pull
<1>2. sess \in [Device -> Session] /\ e \in Device
  BY DEF Inv, TypeOK, Session
<1>3. \/ /\ objects' = [objects EXCEPT ![d] = @ \cup {f}]
         /\ sess' = [sess EXCEPT ![d].needed = @ \ {f}]
      \/ End(e) /\ UNCHANGED objects
  BY DEF Pull
<1>4. CASE End(e) /\ UNCHANGED objects
  <2>1. Gathering
    BY <1>4 DEF Gathering
  <2> QED
    BY <1>1, <1>2, <1>4, <2>1, SameIndexesHave, EndHas, GatheringHas
<1>5. CASE /\ objects' = [objects EXCEPT ![d] = @ \cup {f}]
           /\ sess' = [sess EXCEPT ![d].needed = @ \ {f}]
  <2>1. Gathering /\ objects'[d] = objects[d] \cup {f}
    BY <1>5, CaptureHas
  <2>2. sess' = [sess EXCEPT ![d] = pulled]
    BY <1>2, <1>5
  <2>3. /\ pulled.phase = "pull" /\ pulled.incoming = sess[d].incoming
        /\ pulled.needed = sess[d].needed \ {f}
    BY <1>2 DEF Session, Pull
  <2> HIDE DEF pulled
  <2>4. SessionHas(sess[d], objects[d]) /\ sess[d].phase = "pull"
    BY DEF HasInv, Pull
  <2>5. SessionHas(pulled, objects'[d])
    BY <2>1, <2>3, <2>4 DEF SessionHas
  <2>6. SessionsHave
    <3> SUFFICES ASSUME NEW k \in Device PROVE SessionHas(sess'[k], objects'[k])
      BY DEF SessionsHave
    <3>1. CASE k = d
      BY <1>2, <2>2, <2>5, <3>1
    <3>2. CASE k # d
      BY <1>2, <2>1, <2>2, <3>2 DEF HasInv, SessionHas, Gathering
    <3> QED
      BY <3>1, <3>2
  <2> QED
    BY <1>1, <2>1, <2>6, SameIndexesHave, GatheringHas
<1> QED
  BY <1>3, <1>4, <1>5

LEMMA PullDoneGathers ==
    ASSUME Inv, HasInv, NEW d \in Device, PullDone(d)
    PROVE  HasInv'
<1>1. UNCHANGED <<db, objects, saved>> /\ Gathering
  BY DEF PullDone, Gathering
<1>2. \A k \in Device : sess[k] \in Session
  BY DEF Inv, TypeOK
<1>3. /\ sess'[d] = [sess[d] EXCEPT !.phase = "pulled"]
      /\ \A k \in Device \ {d} : \/ sess'[k] = sess[k]
                                 \/ sess'[k] = [sess[k] EXCEPT !.released = TRUE]
  BY DEF PullDone, Linked
<1>4. /\ sess'[d].incoming = sess[d].incoming /\ sess'[d].needed = sess[d].needed
      /\ sess[d].phase = "pull" /\ sess[d].needed = {}
  BY <1>2, <1>3 DEF Session, PullDone, NothingMissing
<1>5. ASSUME NEW k \in Device \ {d}
      PROVE  /\ sess'[k].phase = sess[k].phase
             /\ sess'[k].incoming = sess[k].incoming
             /\ sess'[k].needed = sess[k].needed
  <2>1. CASE sess'[k] = sess[k]
    BY <2>1
  <2>2. CASE sess'[k] = [sess[k] EXCEPT !.released = TRUE]
    BY <1>2, <2>2 DEF Session
  <2> QED
    BY <1>3, <2>1, <2>2
<1>6. SessionsHave
  BY <1>1, <1>4, <1>5 DEF SessionsHave, SessionHas, HasInv
<1> QED
  BY <1>1, <1>6, SameIndexesHave, GatheringHas

LEMMA CommitGathers ==
    ASSUME Inv, HasInv, NEW d \in Device, Commit(d)
    PROVE  HasInv'
<1> DEFINE x     == Opened(d)
           row   == [p \in Path |-> JoinRow(x, p, sess[d].incoming[p])]
           phase == IF db[d].recovering THEN "rescan" ELSE "applying"
           more  == IF db[d].recovering THEN {} ELSE Captured(d)
<1>1. /\ CanOpen(d) /\ UNCHANGED saved
      /\ db' = [db EXCEPT ![d] = Save(x, row)]
      /\ Goto(d, phase)
      /\ sess[d].phase = "pulled"
  BY DEF Commit, ReadyToCommit
<1>2. objects' = [objects EXCEPT ![d] = @ \cup more]
  BY DEF Commit, Inv, TypeOK
<1>3. Gathering /\ objects'[d] = objects[d] \cup more
  BY <1>2, CaptureHas
<1>4. db[d] \in Index /\ Whole(db[d]) /\ TypeOK /\ sess[d] \in Session
  BY DEF Inv, TypeOK
<1>5. IndexHas(db[d], objects'[d])
  BY <1>3 DEF HasInv, IndexHas
<1>6. IndexHas(x, objects'[d])
  BY <1>1, <1>3, <1>5, OpenedHas, CapturedHas
<1>7. x \in Index
  BY <1>1, <1>4, OpenRowsOK DEF Grown
<1> HIDE DEF x
<1>8. \A p \in Path : \A h \in row[p].versions : h \in x.versions[p] \cup sess[d].incoming[p]
  <2> SUFFICES ASSUME NEW p \in Path, NEW h \in row[p].versions
               PROVE  h \in x.versions[p] \cup sess[d].incoming[p]
    OBVIOUS
  <2>1. h \in JoinRow(x, p, sess[d].incoming[p]).versions
    OBVIOUS
  <2>2. x.versions[p] \in SUBSET Revision /\ sess[d].incoming[p] \in SUBSET Revision
    BY <1>4, <1>7 DEF Index, Session
  <2>3. Join(x.versions[p], sess[d].incoming[p]) \subseteq x.versions[p] \cup sess[d].incoming[p]
    BY <2>2, JoinType
  <2>4. \/ JoinRow(x, p, sess[d].incoming[p]).versions = x.versions[p]
        \/ JoinRow(x, p, sess[d].incoming[p]).versions
             = Join(x.versions[p], sess[d].incoming[p])
    BY DEF JoinRow, Stored, Row
  <2> QED
    BY <2>1, <2>3, <2>4
<1>9. \A p \in Path : \A h \in sess[d].incoming[p] : h.content \in File => h.content \in objects'[d]
  BY <1>1, <1>3 DEF HasInv, SessionHas
<1> HIDE DEF row
<1>10. IndexHas(Save(x, row), objects'[d])
  BY <1>6, <1>7, <1>8, <1>9, SaveHas
<1>11. IndexesHave
  BY <1>1, <1>3, <1>10, OneIndexHas
<1>12. phase \notin {"pull", "pulled"}
  OBVIOUS
<1> HIDE DEF phase
<1>13. SessionsHave
  BY <1>1, <1>3, <1>12, GotoHas
<1> QED
  BY <1>1, <1>3, <1>11, <1>13, GatheringHas

LEMMA CommitRefusedGathers ==
    ASSUME Inv, HasInv, NEW d \in Device, CommitRefused(d)
    PROVE  HasInv'
<1> DEFINE more  == IF db[d].recovering THEN {} ELSE Captured(d)
<1>1. End(d) /\ UNCHANGED saved
  BY DEF CommitRefused
<1>2. objects' = [objects EXCEPT ![d] = @ \cup more]
  BY DEF CommitRefused, Inv, TypeOK
<1>3. Gathering /\ objects'[d] = objects[d] \cup more
  BY <1>2, CaptureHas
<1>4. IndexHas(db[d], objects'[d])
  BY <1>3 DEF HasInv, IndexHas
<1>5. IndexesHave
  <2>1. CASE CanOpen(d)
    <3>1. db' = [db EXCEPT ![d] = Opened(d)]
      BY <2>1 DEF CommitRefused
    <3>2. IndexHas(Opened(d), objects'[d])
      BY <1>3, <1>4, <2>1, OpenedHas, CapturedHas
    <3> QED
      BY <1>3, <3>1, <3>2, OneIndexHas
  <2>2. CASE ~CanOpen(d)
    BY <1>3, <2>2, SameIndexesHave DEF CommitRefused
  <2> QED
    BY <2>1, <2>2
<1> QED
  BY <1>1, <1>3, <1>5, EndHas, GatheringHas

LEMMA RescanGathers ==
    ASSUME Inv, HasInv, NEW d \in Device, Rescan(d)
    PROVE  HasInv'
<1> DEFINE row == ScanRows(db[d], d, disk[d], FALSE)
<1>1. Gathering /\ objects'[d] = objects[d] \cup Captured(d)
  BY CaptureHas DEF Rescan
<1>2. UNCHANGED saved
  BY DEF Rescan
<1>3. CASE CanScan(db[d], d, disk[d], FALSE)
  <2>1. db' = [db EXCEPT ![d] = Save(db[d], row)] /\ Goto(d, "applying")
    BY <1>3 DEF Rescan
  <2>2. db[d] \in Index /\ disk[d] \in [Path -> Content]
    BY DEF Inv, TypeOK
  <2>3. IndexHas(db[d], objects'[d])
    BY <1>1 DEF HasInv, IndexHas
  <2>4. IndexHas(Save(db[d], row), objects'[d])
    BY <1>1, <1>3, <2>2, <2>3, ScanHas, CapturedHas
  <2> HIDE DEF row
  <2>5. IndexesHave
    BY <1>1, <2>1, <2>4, OneIndexHas
  <2>6. SessionsHave
    BY <1>1, <2>1, GotoHas
  <2> QED
    BY <1>1, <1>2, <2>5, <2>6, GatheringHas
<1>4. CASE ~CanScan(db[d], d, disk[d], FALSE)
  <2>1. End(d) /\ UNCHANGED db
    BY <1>4 DEF Rescan
  <2> QED
    BY <1>1, <1>2, <2>1, SameIndexesHave, EndHas, GatheringHas
<1> QED
  BY <1>3, <1>4

LEMMA PublishGathers ==
    ASSUME Inv, HasInv, NEW d \in Device, NEW p \in Path, Publish(d, p)
    PROVE  HasInv'
<1>1. UNCHANGED <<db, objects, saved>> /\ Gathering /\ Turn(d, "published", p)
  BY DEF Publish, Gathering, Turn
<1> QED
  BY <1>1, TurnHas, SameIndexesHave, GatheringHas

LEMMA AcknowledgeGathers ==
    ASSUME Inv, HasInv, NEW d \in Device, Acknowledge(d)
    PROVE  HasInv'
<1> DEFINE p   == sess[d].path
           x   == db[d]
           row == Row(x.versions[p], Target(d, p), x.versions[p], p \in x.pending, {})
<1>1. UNCHANGED <<objects, saved>> /\ Gathering
  BY DEF Acknowledge, Gathering
<1>2. x \in Index /\ p \in Path
  BY DEF Inv, TypeOK, Session
<1>3. row.versions = x.versions[p]
  BY DEF Row
<1>4. db' = [db EXCEPT ![d] = SaveRow(x, p, row)] /\ (End(d) \/ Goto(d, "applying"))
  BY DEF Acknowledge, Acknowledged
<1> HIDE DEF row
<1>5. IndexHas(SaveRow(x, p, row), objects'[d])
  BY <1>1, <1>2, <1>3, SaveRowHas DEF HasInv
<1> HIDE DEF p, x
<1>6. IndexesHave
  BY <1>1, <1>4, <1>5, OneIndexHas DEF x
<1>7. SessionsHave
  BY <1>1, <1>4, EndHas, GotoHas
<1> QED
  BY <1>1, <1>6, <1>7, GatheringHas

(* What leaves the rows as they are. *)
LEMMA AsideHas ==
    ASSUME Inv, HasInv, NEW d \in Device, UNCHANGED objects, NEW y,
           db' = [db EXCEPT ![d] = y],
           y.versions = db[d].versions, y.history = db[d].history
    PROVE  Gathering /\ IndexesHave
<1>1. Gathering
  BY DEF Gathering
<1>2. IndexHas(y, objects'[d])
  BY DEF HasInv, IndexHas
<1> QED
  BY <1>1, <1>2, OneIndexHas

LEMMA AppliedGathers ==
    ASSUME Inv, HasInv, NEW d \in Device, Applied(d)
    PROVE  HasInv'
<1> DEFINE y == [db[d] EXCEPT !.recovering = FALSE]
<1>1. SayApplied(d) /\ UNCHANGED <<objects, saved>> /\ db' = [db EXCEPT ![d] = y]
  BY DEF Applied
<1>2. y.versions = db[d].versions /\ y.history = db[d].history
  BY DEF Inv, TypeOK, Index
<1> HIDE DEF y
<1>3. Gathering /\ IndexesHave
  BY <1>1, <1>2, AsideHas
<1> QED
  BY <1>1, <1>3, SayAppliedHas, GatheringHas

LEMMA SetCursorGathers ==
    ASSUME Inv, HasInv, NEW d \in Device, SetCursor(d)
    PROVE  HasInv'
<1> DEFINE y == [db[d] EXCEPT !.cursor[sess[d].peer] = sess[d].remote]
<1>1. End(d) /\ UNCHANGED <<objects, saved>> /\ db' = [db EXCEPT ![d] = y]
  BY DEF SetCursor
<1>2. y.versions = db[d].versions /\ y.history = db[d].history
  BY DEF Inv, TypeOK, Index
<1> HIDE DEF y
<1>3. Gathering /\ IndexesHave
  BY <1>1, <1>2, AsideHas
<1> QED
  BY <1>1, <1>3, EndHas, GatheringHas

LEMMA AbortGathers ==
    ASSUME Inv, HasInv, NEW d \in Device, Abort(d)
    PROVE  HasInv'
<1>1. UNCHANGED <<db, objects, saved>> /\ Gathering
  BY DEF Abort, Gathering
<1>2. PICK arrives \in BOOLEAN :
          sess' = [e \in Device |->
                     CASE e = d -> NoSession(d)
                       [] e # d /\ Linked(d, e) -> [sess[e] EXCEPT !.done = @ /\ arrives]
                       [] e # d /\ ~Linked(d, e) -> sess[e]]
  BY DEF Abort
<1>3. \A e \in Device :
         LET s == [sess[e] EXCEPT !.done = @ /\ arrives]
         IN  /\ s.phase = sess[e].phase /\ s.incoming = sess[e].incoming
             /\ s.needed = sess[e].needed
  BY DEF Inv, TypeOK, Session
<1>4. \A e \in Device : \/ sess'[e] = sess[e]
                        \/ sess'[e] = NoSession(e)
                        \/ sess'[e] = [sess[e] EXCEPT !.done = @ /\ arrives]
  BY <1>2
<1>5. SessionsHave
  BY <1>1, <1>3, <1>4, NoSessionOK, SessionsPast
<1> QED
  BY <1>1, <1>5, SameIndexesHave, GatheringHas

LEMMA BackupGathers ==
    ASSUME Inv, HasInv, NEW d \in Device, Backup(d)
    PROVE  HasInv'
<1>1. /\ saved' = [saved EXCEPT ![d] = {[index |-> db[d], mode |-> mode[d]]}]
      /\ UNCHANGED <<db, objects, sess>>
  BY DEF Backup
<1>2. \A e \in Device :
         saved'[e] = IF e = d THEN {[index |-> db[d], mode |-> mode[d]]} ELSE saved[e]
  BY <1>1 DEF Inv, TypeOK
<1> QED
  BY <1>1, <1>2 DEF HasInv

LEMMA RestoredHas ==
    ASSUME Inv, NEW d \in Device, NEW s \in saved[d], NEW has, IndexHas(s.index, has)
    PROVE  /\ IndexHas(Restored(d, s), has)
           /\ IndexHas([Restored(d, s) EXCEPT !.recovering = TRUE], has)
<1> DEFINE z == Restored(d, s)
<1>1. s.index \in Index
  BY DEF Inv, TypeOK
<1>2. z.versions = s.index.versions /\ z.history = s.index.history
  BY <1>1 DEF Restored, Index
<1> HIDE DEF z
<1>3. /\ [z EXCEPT !.recovering = TRUE].versions = z.versions
      /\ [z EXCEPT !.recovering = TRUE].history = z.history
  OBVIOUS
<1> QED
  BY <1>2, <1>3 DEF IndexHas, z

LEMMA RecoverIndexGathers ==
    ASSUME Inv, HasInv, NEW d \in Device, RecoverIndex(d)
    PROVE  HasInv'
<1>1. UNCHANGED <<objects, sess, saved>> /\ Gathering
  BY DEF RecoverIndex, Gathering
<1>2. PICK s \in saved[d] : db' = [db EXCEPT ![d] = Restored(d, s)]
  BY DEF RecoverIndex
<1>3. IndexHas(Restored(d, s), objects'[d])
  BY <1>1, RestoredHas DEF HasInv
<1> QED
  BY <1>1, <1>2, <1>3, OneIndexHas, SameSessionsHave, GatheringHas

LEMMA RecoverDeviceGathers ==
    ASSUME Inv, HasInv, NEW d \in Device, RecoverDevice(d)
    PROVE  HasInv'
<1>1. UNCHANGED <<sess, saved>> /\ Idle(d)
  BY DEF RecoverDevice
<1>2. PICK s \in saved[d] :
          /\ db' = [db EXCEPT ![d] = [Restored(d, s) EXCEPT !.recovering = TRUE]]
          /\ objects' = [objects EXCEPT ![d] =
                {h.content : h \in UNION {s.index.history[p] : p \in Path}} \cap File]
  BY DEF RecoverDevice
<1>3. /\ db'[d] = [Restored(d, s) EXCEPT !.recovering = TRUE]
      /\ objects'[d] = {h.content : h \in UNION {s.index.history[p] : p \in Path}} \cap File
      /\ \A e \in Device \ {d} : db'[e] = db[e] /\ objects'[e] = objects[e]
  BY <1>2 DEF Inv, TypeOK
<1>4. IndexHas(s.index, objects'[d])
  <2>1. IndexHas(s.index, objects[d])
    BY DEF HasInv
  <2> QED
    BY <1>3, <2>1 DEF IndexHas
<1>5. IndexHas(db'[d], objects'[d])
  BY <1>3, <1>4, RestoredHas
<1>6. \A t \in saved[d] : t = s
  BY DEF HasInv
<1>7. SessionHas(sess[d], objects'[d])
  BY <1>1 DEF Idle, SessionHas
<1> QED
  BY <1>1, <1>3, <1>4, <1>5, <1>6, <1>7 DEF HasInv

LEMMA ActivateGathers ==
    ASSUME Inv, HasInv, NEW d \in Device, NEW offline \in BOOLEAN, Activate(d, offline)
    PROVE  HasInv'
<1> DEFINE y == [db[d] EXCEPT !.recovering = @ /\ ~offline]
<1>1. UNCHANGED <<objects, sess, saved>> /\ db' = [db EXCEPT ![d] = y]
  BY DEF Activate
<1>2. y.versions = db[d].versions /\ y.history = db[d].history
  BY DEF Inv, TypeOK, Index
<1> HIDE DEF y
<1>3. Gathering /\ IndexesHave
  BY <1>1, <1>2, AsideHas
<1> QED
  BY <1>1, <1>3, SameSessionsHave, GatheringHas

LEMMA HasInit == Init => HasInv
<1> SUFFICES ASSUME Init, NEW d \in Device
             PROVE  /\ IndexHas(db[d], objects[d])
                    /\ saved[d] = {}
                    /\ SessionHas(sess[d], objects[d])
  BY DEF HasInv
<1>1. db[d] = EmptyIndex /\ sess[d] = NoSession(d) /\ saved[d] = {}
  BY DEF Init
<1>2. IndexHas(EmptyIndex, objects[d])
  BY DEF IndexHas, EmptyIndex
<1> QED
  BY <1>1, <1>2, NoSessionOK DEF SessionHas

LEMMA HasNext ==
    ASSUME Inv, HasInv, [Next]_vars
    PROVE  HasInv'
<1>1. ASSUME NEW d \in Device, Step(d) PROVE HasInv'
  <2>1. CASE \E p \in Path : PublishRefused(d, p)
    <3>1. End(d) /\ UNCHANGED <<db, objects, saved>> /\ Gathering
      BY <2>1 DEF PublishRefused, Gathering
    <3> QED
      BY <3>1, EndHas, SameIndexesHave, GatheringHas
  <2>2. CASE AppliedNothing(d)
    <3>1. SayApplied(d) /\ UNCHANGED <<db, objects, saved>> /\ Gathering
      BY <2>2 DEF AppliedNothing, Gathering
    <3> QED
      BY <3>1, SayAppliedHas, SameIndexesHave, GatheringHas
  <2>3. CASE Disconnect(d)
    <3>1. End(d) /\ UNCHANGED <<db, objects, saved>> /\ Gathering
      BY <2>3 DEF Disconnect, Gathering
    <3> QED
      BY <3>1, EndHas, SameIndexesHave, GatheringHas
  <2> QED
    BY <1>1, <2>1, <2>2, <2>3, StageGathers, PullGathers, PullDoneGathers, CommitGathers,
       CommitRefusedGathers, RescanGathers, PublishGathers, AcknowledgeGathers,
       AppliedGathers, SetCursorGathers DEF Step
<1>2. ASSUME NEW d \in Device, Command(d) PROVE HasInv'
  BY <1>2, ScanGathers, ApproveDeletionGathers, ChooseScanGathers, ChooseCommitGathers,
     BackupGathers, RecoverIndexGathers, RecoverDeviceGathers, ActivateGathers DEF Command
<1>3. CASE \E d \in Device, p \in Path, content \in Payload : AppWrite(d, p, content)
  BY <1>3 DEF AppWrite, HasInv
<1>4. CASE UNCHANGED vars
  BY <1>4 DEF vars, HasInv
<1> QED
  BY <1>1, <1>2, <1>3, <1>4, AbortGathers, ConnectGathers DEF Next

(* Every revision a device can show, choose or send has its content object: a
   scan captures before it records, a session pulls what it lacks before it
   joins, and a restored device gets the objects of its whole history
   (share.rs scan and commit_incoming, backup.rs recover). *)
THEOREM ObjectsAreThere == Spec => []ObjectsPresent
<1>1. Init => Inv /\ HasInv
  BY InitOK, HasInit
<1>2. Inv /\ HasInv /\ [Next]_vars => HasInv'
  BY HasNext
<1>3. HasInv => ObjectsPresent
  BY DEF HasInv, IndexHas, ObjectsPresent
<1> QED
  BY <1>1, <1>2, <1>3, Invariance, PTL DEF Spec

-----------------------------------------------------------------------------
(* Requests.  What a device asks for while it pulls, its peer can serve.      *)

RequestsServed(d) ==
    LET e == sess[d].peer IN
    (sess[d].phase = "pull" /\ Linked(d, e)) =>
        /\ sess[d].needed \subseteq objects[e]
        /\ sess[d].needed # {} => mode[e] # "ReceiveOnly"

(* A session that does not begin to pull asks for nothing new. *)
AsksNoMore(k) ==
    sess'[k].phase = "pull" =>
        sess[k].phase = "pull" /\ sess'[k].needed \subseteq sess[k].needed

LEMMA AlteredAsks ==
    ASSUME Inv, \A k \in Device :
              \/ sess'[k].phase # "pull"
              \/ sess'[k].phase = sess[k].phase /\ sess'[k].needed = sess[k].needed
    PROVE  \A k \in Device : AsksNoMore(k)
BY DEF AsksNoMore

LEMMA EndAsks ==
    ASSUME Inv, NEW d \in Device, End(d)
    PROVE  \A k \in Device : AsksNoMore(k)
<1>1. \A e \in Device : sess'[e] = IF e = d THEN NoSession(d) ELSE sess[e]
  BY DEF End, Inv, TypeOK
<1> QED
  BY <1>1, NoSessionOK, AlteredAsks

LEMMA GotoAsks ==
    ASSUME Inv, NEW d \in Device, NEW phase, Goto(d, phase), phase # "pull"
    PROVE  \A k \in Device : AsksNoMore(k)
<1>1. \A e \in Device : sess'[e] = IF e = d THEN [sess[d] EXCEPT !.phase = phase] ELSE sess[e]
  BY DEF Goto, Inv, TypeOK
<1>2. [sess[d] EXCEPT !.phase = phase].phase = phase
  BY DEF Inv, TypeOK, Session
<1> QED
  BY <1>1, <1>2, AlteredAsks

LEMMA TurnAsks ==
    ASSUME Inv, NEW d \in Device, NEW phase, NEW p, Turn(d, phase, p), phase # "pull"
    PROVE  \A k \in Device : AsksNoMore(k)
<1>1. /\ \A e \in Device \ {d} : sess'[e] = sess[e]
      /\ sess'[d].phase = phase
  BY DEF Turn, Inv, TypeOK, Session
<1> QED
  BY <1>1, AlteredAsks

(* What a session is told, or that its transport is gone, is no request. *)
LEMMA ToldAsks ==
    ASSUME Inv,
           \A k \in Device :
              \/ sess'[k] = sess[k]
              \/ sess'[k] = NoSession(k)
              \/ sess'[k] = [sess[k] EXCEPT !.phase = "pulled"]
              \/ sess'[k] = [sess[k] EXCEPT !.phase = "applied"]
              \/ sess'[k] = [sess[k] EXCEPT !.released = TRUE]
              \/ \E done \in BOOLEAN : sess'[k] = [sess[k] EXCEPT !.done = done]
    PROVE  \A k \in Device : AsksNoMore(k)
<1> SUFFICES ASSUME NEW k \in Device
             PROVE  \/ sess'[k].phase # "pull"
                    \/ sess'[k].phase = sess[k].phase /\ sess'[k].needed = sess[k].needed
  BY AlteredAsks
<1>1. sess[k] \in Session /\ NoSession(k).phase = "idle"
  BY DEF Inv, TypeOK, NoSession
<1>2. CASE \/ sess'[k] = [sess[k] EXCEPT !.phase = "pulled"]
           \/ sess'[k] = [sess[k] EXCEPT !.phase = "applied"]
  BY <1>1, <1>2 DEF Session
<1>3. CASE \/ sess'[k] = [sess[k] EXCEPT !.released = TRUE]
           \/ \E done \in BOOLEAN : sess'[k] = [sess[k] EXCEPT !.done = done]
  BY <1>1, <1>3 DEF Session
<1>4. CASE sess'[k] = sess[k] \/ sess'[k] = NoSession(k)
  BY <1>1, <1>4
<1> QED
  BY <1>2, <1>3, <1>4

LEMMA SayAppliedAsks ==
    ASSUME Inv, NEW d \in Device, SayApplied(d)
    PROVE  \A k \in Device : AsksNoMore(k)
<1>1. \A k \in Device : \/ sess'[k] = sess[k]
                        \/ sess'[k] = [sess[k] EXCEPT !.phase = "applied"]
                        \/ sess'[k] = [sess[k] EXCEPT !.done = TRUE]
  BY DEF SayApplied, Linked
<1> QED
  BY <1>1, ToldAsks

LEMMA PullAsks ==
    ASSUME Inv, NEW d \in Device, NEW f \in File, Pull(d, f)
    PROVE  \A k \in Device : AsksNoMore(k)
<1>1. sess \in [Device -> Session] /\ sess[d].peer \in Device
  BY DEF Inv, TypeOK, Session
<1>2. sess' = [sess EXCEPT ![d].needed = @ \ {f}] \/ End(sess[d].peer)
  BY DEF Pull
<1>3. CASE sess' = [sess EXCEPT ![d].needed = @ \ {f}]
  <2>1. \A k \in Device : /\ sess'[k].phase = sess[k].phase
                          /\ sess'[k].needed \subseteq sess[k].needed
    BY <1>1, <1>3 DEF Session
  <2> QED
    BY <2>1 DEF AsksNoMore
<1> QED
  BY <1>1, <1>2, <1>3, EndAsks

LEMMA StepAsks ==
    ASSUME Inv, NEW d \in Device, Step(d), ~Stage(d)
    PROVE  \A k \in Device : AsksNoMore(k)
<1>1. CASE \E f \in File : Pull(d, f)
  BY <1>1, PullAsks
<1>2. CASE PullDone(d)
  BY <1>2, ToldAsks DEF PullDone
<1>3. CASE Commit(d)
  <2>1. Goto(d, IF db[d].recovering THEN "rescan" ELSE "applying")
    BY <1>3 DEF Commit
  <2> QED
    BY <2>1, GotoAsks
<1>4. CASE CommitRefused(d) \/ SetCursor(d) \/ Disconnect(d)
  BY <1>4, EndAsks DEF CommitRefused, SetCursor, Disconnect
<1>5. CASE Rescan(d)
  BY <1>5, EndAsks, GotoAsks DEF Rescan
<1>6. CASE \E p \in Path : Publish(d, p) \/ PublishRefused(d, p)
  <2>1. PICK p \in Path : Turn(d, "published", p) \/ End(d)
    BY <1>6 DEF Publish, PublishRefused, Turn
  <2> QED
    BY <2>1, TurnAsks, EndAsks
<1>7. CASE Acknowledge(d)
  BY <1>7, EndAsks, GotoAsks DEF Acknowledge
<1>8. CASE Applied(d) \/ AppliedNothing(d)
  BY <1>8, SayAppliedAsks DEF Applied, AppliedNothing
<1> QED
  BY <1>1, <1>2, <1>3, <1>4, <1>5, <1>6, <1>7, <1>8 DEF Step

LEMMA CommandAsks ==
    ASSUME Inv, NEW d \in Device, Command(d)
    PROVE  \A k \in Device : AsksNoMore(k)
<1>1. CASE \E p \in Path : \E r \in db[d].versions[p] \cup db[d].history[p] : ChooseCommit(d, p, r)
  <2>1. PICK p \in Path : Turn(d, "chosen", p)
    BY <1>1 DEF ChooseCommit, Turn
  <2> QED
    BY <2>1, TurnAsks
<1>2. CASE ChooseScan(d)
  BY <1>2, GotoAsks DEF ChooseScan
<1>3. ASSUME UNCHANGED sess PROVE \A k \in Device : AsksNoMore(k)
  BY <1>3, AlteredAsks
<1>4. UNCHANGED sess \/ ChooseScan(d)
      \/ \E p \in Path : \E r \in db[d].versions[p] \cup db[d].history[p] : ChooseCommit(d, p, r)
  BY DEF Command, Scan, ApproveDeletion, Backup, RecoverIndex, RecoverDevice, Activate
<1> QED
  BY <1>1, <1>2, <1>3, <1>4

LEMMA NextAsks ==
    ASSUME Inv, [Next]_vars, NEW d \in Device
    PROVE  Stage(d) \/ AsksNoMore(d)
<1>1. ASSUME NEW e \in Device, Stage(e), e # d PROVE AsksNoMore(d)
  <2>1. sess \in [Device -> Session]
    BY DEF Inv, TypeOK
  <2>2. sess'[d] = sess[d] \/ sess'[d] = NoSession(d)
    BY <1>1, <2>1 DEF Stage
  <2> QED
    BY <2>2, NoSessionOK DEF AsksNoMore
<1>2. ASSUME NEW e \in Device, Abort(e) PROVE AsksNoMore(d)
  <2>1. PICK arrives \in BOOLEAN :
            sess' = [k \in Device |->
                       CASE k = e -> NoSession(e)
                         [] k # e /\ Linked(e, k) -> [sess[k] EXCEPT !.done = @ /\ arrives]
                         [] k # e /\ ~Linked(e, k) -> sess[k]]
    BY <1>2 DEF Abort
  <2>2. \A k \in Device : (sess[k].done /\ arrives) \in BOOLEAN
    BY DEF Inv, TypeOK, Session
  <2>3. ASSUME NEW k \in Device
        PROVE  \/ sess'[k] = sess[k]
               \/ sess'[k] = NoSession(k)
               \/ \E done \in BOOLEAN : sess'[k] = [sess[k] EXCEPT !.done = done]
    BY <2>1, <2>2
  <2> QED
    BY <2>3, ToldAsks
<1>3. ASSUME NEW c \in Device, NEW s \in Device, Connect(c, s) PROVE AsksNoMore(d)
  <2> DEFINE hello(k, e, client) ==
                [NoSession(k) EXCEPT
                  !.phase = "hello", !.peer = e, !.client = client,
                  !.seq = HelloSeq(k),
                  !.remote = [epoch |-> db[e].epoch, seq |-> HelloSeq(e)]]
  <2>1. sess' = [sess EXCEPT ![c] = hello(c, s, TRUE), ![s] = hello(s, c, FALSE)]
    BY <1>3 DEF Connect
  <2>2. hello(c, s, TRUE).phase = "hello" /\ hello(s, c, FALSE).phase = "hello"
    BY DEF NoSession
  <2> HIDE DEF hello
  <2>3. \A k \in Device : sess'[k].phase = "hello" \/ sess'[k] = sess[k]
    BY <2>1, <2>2 DEF Inv, TypeOK
  <2> QED
    BY <2>3 DEF AsksNoMore
<1>4. ASSUME UNCHANGED sess PROVE AsksNoMore(d)
  BY <1>4 DEF AsksNoMore
<1>5. CASE UNCHANGED vars
  BY <1>4, <1>5 DEF vars
<1>6. CASE \E e \in Device, p \in Path, content \in Payload : AppWrite(e, p, content)
  BY <1>4, <1>6 DEF AppWrite
<1> QED
  BY <1>1, <1>2, <1>3, <1>5, <1>6, StepAsks, CommandAsks DEF Next

(* Objects are lost only with a disk, outside any session. *)
LEMMA ObjectsStay ==
    ASSUME Inv, [Next]_vars, NEW e \in Device
    PROVE  Idle(e) \/ objects[e] \subseteq objects'[e]
<1>0. objects \in [Device -> SUBSET File]
  BY DEF Inv, TypeOK
<1>1. ASSUME NEW d \in Device, Step(d) PROVE objects[e] \subseteq objects'[e]
  <2>1. CASE Stage(d) \/ PullDone(d) \/ Applied(d) \/ AppliedNothing(d)
             \/ SetCursor(d) \/ Disconnect(d) \/ Acknowledge(d)
    BY <2>1 DEF Stage, PullDone, Applied, AppliedNothing, SetCursor, Disconnect, Acknowledge
  <2>2. CASE \E f \in File : Pull(d, f)
    BY <1>0, <2>2 DEF Pull
  <2>3. CASE Commit(d)
    BY <1>0, <2>3 DEF Commit
  <2>4. CASE CommitRefused(d)
    BY <1>0, <2>4 DEF CommitRefused
  <2>5. CASE Rescan(d)
    BY <1>0, <2>5 DEF Rescan
  <2>6. CASE \E p \in Path : Publish(d, p) \/ PublishRefused(d, p)
    BY <1>0, <2>6 DEF Publish, PublishRefused
  <2> QED
    BY <1>1, <2>1, <2>2, <2>3, <2>4, <2>5, <2>6 DEF Step
<1>2. ASSUME NEW d \in Device, Command(d) PROVE Idle(e) \/ objects[e] \subseteq objects'[e]
  <2>1. CASE RecoverDevice(d)
    BY <1>0, <2>1 DEF RecoverDevice
  <2>2. CASE \E approve \in BOOLEAN : Scan(d, approve)
    BY <1>0, <2>2 DEF Scan
  <2>3. CASE \E p \in Path : ApproveDeletion(d, p)
    BY <1>0, <2>3 DEF ApproveDeletion
  <2>4. CASE ChooseScan(d)
    BY <1>0, <2>4 DEF ChooseScan
  <2>5. UNCHANGED objects \/ RecoverDevice(d) \/ ChooseScan(d)
           \/ (\E p \in Path : ApproveDeletion(d, p))
           \/ \E approve \in BOOLEAN : Scan(d, approve)
    BY <1>2 DEF Command, ChooseCommit, Backup, RecoverIndex, Activate
  <2> QED
    BY <2>1, <2>2, <2>3, <2>4, <2>5
<1>3. ASSUME NEW d \in Device, Abort(d) PROVE UNCHANGED objects
  BY <1>3 DEF Abort
<1>4. ASSUME NEW c \in Device, NEW s \in Device, Connect(c, s)
      PROVE  objects[e] \subseteq objects'[e]
  BY <1>4 DEF Connect
<1>5. CASE UNCHANGED vars
  BY <1>5 DEF vars
<1>6. CASE \E d \in Device, p \in Path, content \in Payload : AppWrite(d, p, content)
  BY <1>6 DEF AppWrite
<1> QED
  BY <1>1, <1>2, <1>3, <1>4, <1>5, <1>6 DEF Next

(* What is asked for first is of the peer's heads, which have their objects. *)
LEMMA StagedServed ==
    ASSUME Inv, HasInv, NEW d \in Device, Stage(d), sess'[d].phase = "pull"
    PROVE  LET e == sess[d].peer IN
           /\ sess'[d].peer = e
           /\ sess'[d].needed \subseteq objects'[e]
           /\ sess'[d].needed # {} => mode'[e] # "ReceiveOnly"
<1> DEFINE e        == sess[d].peer
           incoming == Records(e, d)
           needed   == {h.content : h \in UNION {incoming[p] : p \in Path}}
                          \cap (File \ objects[d])
<1>1. /\ UNCHANGED <<objects, mode>> /\ sess[d].phase = "hello"
      /\ \/ sess' = [sess EXCEPT ![e] = NoSession(e)]
         \/ sess' = [sess EXCEPT ![d] = NoSession(d)]
         \/ sess' = [sess EXCEPT ![d].phase = "pull", ![d].incoming = incoming,
                                 ![d].needed = needed]
  BY DEF Stage
<1>2. sess \in [Device -> Session] /\ e \in Device /\ NoSession(d).phase = "idle"
  BY DEF Inv, TypeOK, Session, NoSession
<1>3. \A p \in Path : /\ incoming[p] \subseteq db[e].versions[p]
                      /\ incoming[p] # {} => mode[e] # "ReceiveOnly"
  BY DEF Records, Exports
<1>4. \A p \in Path : \A h \in db[e].versions[p] : h.content \in File => h.content \in objects[e]
  BY <1>2 DEF HasInv, IndexHas
<1>5. needed \subseteq objects[e]
  BY <1>3, <1>4
<1>6. needed # {} => mode[e] # "ReceiveOnly"
  BY <1>3
<1> HIDE DEF needed, incoming, e
<1>7. sess'[d].peer = e /\ sess'[d].needed = needed
  BY <1>1, <1>2 DEF Session, e
<1> QED
  BY <1>1, <1>5, <1>6, <1>7 DEF e

LEMMA NextServes ==
    ASSUME Inv, HasInv, ReadInv, [Next]_vars, NEW d \in Device, RequestsServed(d)
    PROVE  RequestsServed(d)'
<1> DEFINE e == sess'[d].peer
<1> SUFFICES ASSUME sess'[d].phase = "pull", d # e, sess'[e].peer = d
             PROVE  /\ sess'[d].needed \subseteq objects'[e]
                    /\ sess'[d].needed # {} => mode'[e] # "ReceiveOnly"
  BY DEF RequestsServed, Linked
<1>1. CASE Stage(d)
  BY <1>1, StagedServed
<1>2. CASE AsksNoMore(d)
  <2>1. Inv' /\ Moves
    BY NextGood, NextMoves DEF Good
  <2>2. e \in Device
    BY <2>1 DEF Inv, TypeOK, Session
  <2>3. ~Greet(d, e) /\ ~Greet(e, d)
    BY DEF Greet
  <2>4. Linked(d, e)
    BY <2>1, <2>2, <2>3, EndsStay
  <2>5. /\ sess[d].needed \subseteq objects[e]
        /\ sess[d].needed # {} => mode[e] # "ReceiveOnly"
        /\ sess'[d].needed \subseteq sess[d].needed
    BY <1>2, <2>4 DEF RequestsServed, AsksNoMore, Linked
  <2>6. ~Idle(e)
    BY <2>2, <2>4 DEF ReadInv, PeerKnown, Linked, Idle
  <2>7. objects[e] \subseteq objects'[e] /\ mode'[e] = mode[e]
    BY <2>1, <2>2, <2>6, ObjectsStay DEF Moves, ModeMoves
  <2> HIDE DEF e
  <2> QED
    BY <2>5, <2>7
<1> QED
  BY <1>1, <1>2, NextAsks

(* No session ends for an object that the peer has not or may not give: what a
   device lists as needed when it stages metadata, the peer that sent it still
   has and still sends when it is asked, whatever is scanned, joined or chosen
   there in the meantime (serve_objects in sync.rs). *)
RequestsAreServed == \A d \in Device : RequestsServed(d)

THEOREM RequestsAlwaysServed == Spec => []RequestsAreServed
<1>1. Init => Inv /\ HasInv /\ RequestsAreServed
  <2>1. Init => RequestsAreServed
    BY NoSessionOK DEF Init, RequestsAreServed, RequestsServed
  <2> QED
    BY <2>1, InitOK, HasInit
<1>2. Inv /\ HasInv /\ [Next]_vars => HasInv'
  BY HasNext
<1>3. Inv /\ HasInv /\ ReadInv /\ RequestsAreServed /\ [Next]_vars => RequestsAreServed'
  BY NextServes DEF RequestsAreServed
<1> QED
  BY <1>1, <1>2, <1>3, Invariance, ReadAlways, PTL DEF Spec

-----------------------------------------------------------------------------
(* What a step makes                                                          *)

(* Every revision the step makes, and who makes it. *)
BornBy(d, p) == {b \in born'[p] \ born[p] : b.by = ReplicaOf(d)}

LEMMA RecordBy ==
    ASSUME Inv, NEW e \in Device, NEW row, Record(e, db[e], row),
           NEW d \in Device, NEW p \in Path, NEW b \in BornBy(d, p)
    PROVE  d = e /\ \E m \in row[p].made : b.rev = m.rev
<1>1. b \in Births(e, db[e], row)[p] /\ b.by = ReplicaOf(d)
  BY DEF Record, BornBy
<1>2. b.by = ReplicaOf(d) => d = e
  BY <1>1 DEF Births, ReplicaOf
<1>3. \E m \in row[p].made : b.rev = m.rev
  BY <1>1 DEF Births
<1> QED
  BY <1>1, <1>2, <1>3

LEMMA NoneBorn ==
    ASSUME UNCHANGED born, NEW d \in Device, NEW p \in Path
    PROVE  BornBy(d, p) = {}
BY DEF BornBy

(* An unapproved scan records a file as it is on disk, never an absence. *)
LEMMA OpenMakesFiles ==
    ASSUME Inv, NEW d \in Device, CanScan(db[d], d, disk[d], FALSE), NEW p \in Path,
           NEW m \in ScanRows(db[d], d, disk[d], FALSE)[p].made
    PROVE  /\ m.rev.content = disk[d][p] /\ m.rev.content # Deleted
           /\ IsEdit(db[d], p, disk[d][p], FALSE)
<1>1. db[d] \in Index /\ disk[d][p] \in Content
  BY DEF Inv, TypeOK
<1>2. m \in ScanRow(db[d], d, p, disk[d][p], FALSE).made
  BY DEF ScanRows
<1>3. IsEdit(db[d], p, disk[d][p], FALSE) => CanEdit(db[d].observed[p], <<d, db[d].epoch>>)
  BY DEF CanScan
<1>4. m.rev.content = disk[d][p] /\ IsEdit(db[d], p, disk[d][p], FALSE)
  BY <1>1, <1>2, <1>3, ScanRowHeads
<1> QED
  BY <1>4 DEF IsEdit

LEMMA OpenRowsMake ==
    ASSUME Inv, NEW d \in Device, CanOpen(d), NEW p \in Path, NEW m \in OpenRows(d)[p].made
    PROVE  ~db[d].recovering /\ m.rev.content # Deleted
<1>1. CASE db[d].recovering
  BY <1>1 DEF OpenRows, Stored, Row
<1>2. CASE ~db[d].recovering
  BY <1>2, OpenMakesFiles DEF OpenRows, CanOpen
<1> QED
  BY <1>1, <1>2

LEMMA ConnectBorn ==
    ASSUME Inv, NEW c \in Device, NEW s \in Device, Connect(c, s),
           NEW d \in Device, NEW p \in Path, NEW b \in BornBy(d, p)
    PROVE  ~db[d].recovering /\ b.rev.content # Deleted
<1>1. CanOpen(c) /\ CanOpen(s)
  BY DEF Connect
<1>2. PICK e \in {c, s} : b \in Births(e, db[e], OpenRows(e))[p]
  BY DEF Connect, BornBy
<1>3. d = e
  BY <1>2 DEF Births, BornBy, ReplicaOf
<1>4. \E m \in OpenRows(e)[p].made : b.rev = m.rev
  BY <1>2 DEF Births
<1> QED
  BY <1>1, <1>3, <1>4, OpenRowsMake

-----------------------------------------------------------------------------
(* Deletions                                                                  *)

DeletionApproved ==
    \A d \in Device : \A p \in Path : \A b \in BornBy(d, p) :
        b.rev.content = Deleted =>
            /\ sess[d].phase \in {"idle", "choosing"}
            /\ sess'[d].phase \in {"idle", "chosen"}

LEMMA NextApproves ==
    ASSUME Inv, [Next]_vars
    PROVE  DeletionApproved
<1>0. sess \in [Device -> Session]
  BY DEF Inv, TypeOK
<1>1. ASSUME UNCHANGED born PROVE DeletionApproved
  BY <1>1, NoneBorn DEF DeletionApproved
<1>2. ASSUME NEW d \in Device, Commit(d) \/ CommitRefused(d) PROVE DeletionApproved
  <2>1. CASE ~CanOpen(d)
    BY <1>1, <1>2, <2>1 DEF Commit, CommitRefused
  <2>2. CASE CanOpen(d)
    <3>1. Record(d, db[d], OpenRows(d))
      BY <1>2, <2>2 DEF Commit, CommitRefused
    <3> QED
      BY <2>2, <3>1, RecordBy, OpenRowsMake DEF DeletionApproved
  <2> QED
    BY <2>1, <2>2
<1>3. ASSUME NEW d \in Device, ChooseScan(d) \/ Rescan(d) PROVE DeletionApproved
  <2> DEFINE row == ScanRows(db[d], d, disk[d], FALSE)
  <2>1. CASE ~CanScan(db[d], d, disk[d], FALSE)
    BY <1>1, <1>3, <2>1 DEF ChooseScan, Rescan
  <2>2. CASE CanScan(db[d], d, disk[d], FALSE)
    <3>1. Record(d, db[d], row)
      BY <1>3, <2>2 DEF ChooseScan, Rescan
    <3>2. \A p \in Path : \A m \in row[p].made : m.rev.content # Deleted
      BY <2>2, OpenMakesFiles
    <3> HIDE DEF row
    <3> QED
      BY <3>1, <3>2, RecordBy DEF DeletionApproved
  <2> QED
    BY <2>1, <2>2
<1>4. ASSUME NEW d \in Device, NEW row, Record(d, db[d], row),
             sess[d].phase \in {"idle", "choosing"}, sess'[d].phase \in {"idle", "chosen"}
      PROVE  DeletionApproved
  BY <1>4, RecordBy DEF DeletionApproved
<1>5. ASSUME NEW d \in Device, NEW approve \in BOOLEAN, Scan(d, approve)
      PROVE  DeletionApproved
  <2>1. sess[d].phase = "idle" /\ sess' = sess
    BY <1>5 DEF Scan, Idle
  <2>2. UNCHANGED born \/ Record(d, db[d], ScanRows(db[d], d, disk[d], approve))
    BY <1>5 DEF Scan
  <2> QED
    BY <1>1, <1>4, <2>1, <2>2
<1>6. ASSUME NEW d \in Device, NEW p \in Path, ApproveDeletion(d, p) PROVE DeletionApproved
  <2>1. sess[d].phase = "idle" /\ sess' = sess
    BY <1>6 DEF ApproveDeletion, Idle
  <2>2. \E row : Record(d, db[d], row)
    BY <1>6 DEF ApproveDeletion
  <2> QED
    BY <1>4, <2>1, <2>2
<1>7. ASSUME NEW d \in Device, NEW p \in Path,
             NEW r \in db[d].versions[p] \cup db[d].history[p], ChooseCommit(d, p, r)
      PROVE  DeletionApproved
  <2>1. sess[d].phase = "choosing" /\ sess'[d].phase = "chosen"
    <3>1. sess' = [sess EXCEPT ![d].phase = "chosen", ![d].path = p]
      BY <1>7 DEF ChooseCommit
    <3>2. sess[d] \in Session
      BY <1>0
    <3>3. sess'[d].phase = "chosen"
      BY <1>0, <3>1, <3>2 DEF Session
    <3> QED
      BY <1>7, <3>3 DEF ChooseCommit
  <2>2. \E row : Record(d, db[d], row)
    BY <1>7 DEF ChooseCommit
  <2> QED
    BY <1>4, <2>1, <2>2
<1>8. ASSUME NEW c \in Device, NEW s \in Device, Connect(c, s) PROVE DeletionApproved
  BY <1>8, ConnectBorn DEF DeletionApproved
<1>9. ASSUME NEW d \in Device, Step(d) PROVE DeletionApproved
  <2>1. \/ UNCHANGED born \/ Commit(d) \/ CommitRefused(d) \/ Rescan(d)
    BY <1>9 DEF Step, Stage, Pull, PullDone, Publish, PublishRefused, Acknowledge, Applied,
                AppliedNothing, SetCursor, Disconnect
  <2> QED
    BY <1>1, <1>2, <1>3, <2>1
<1>10. ASSUME NEW d \in Device, Command(d) PROVE DeletionApproved
  <2>1. Backup(d) \/ RecoverIndex(d) \/ RecoverDevice(d) \/
        (\E offline \in BOOLEAN : Activate(d, offline)) => UNCHANGED born
    BY DEF Backup, RecoverIndex, RecoverDevice, Activate
  <2> QED
    BY <1>1, <1>3, <1>5, <1>6, <1>7, <1>10, <2>1 DEF Command
<1>11. ASSUME \/ \E d \in Device : Abort(d)
              \/ \E d \in Device, p \in Path, content \in Payload : AppWrite(d, p, content)
              \/ UNCHANGED vars
       PROVE  DeletionApproved
  <2>1. UNCHANGED born
    BY <1>11 DEF Abort, AppWrite, vars
  <2> QED
    BY <1>1, <2>1
<1> QED
  BY <1>8, <1>9, <1>10, <1>11 DEF Next

(* No exchange, crash or restore turns an absence into a tombstone: one is made
   only by a scan that approves deletions, by an approval, or by a choice
   (share.rs scan, approve_deletion, choose). *)
THEOREM DeletionsAreApproved == Spec => OnlyApprovalsDelete
<1> DEFINE Kept == \A d \in Device : \A p \in Path : \A b \in born'[p] \ born[p] :
                      (b.by = ReplicaOf(d) /\ b.rev.content = Deleted) =>
                          /\ sess[d].phase \in {"idle", "choosing"}
                          /\ sess'[d].phase \in {"idle", "chosen"}
<1>1. Inv /\ [Next]_vars => Kept
  BY NextApproves DEF DeletionApproved, BornBy
<1>2. Inv /\ [Next]_vars => [Kept]_vars
  BY <1>1
<1>3. Spec => [][Kept]_vars
  <2> HIDE DEF Kept
  <2> QED
    BY <1>2, Invariance, PTL DEF Spec
<1> QED
  BY <1>3 DEF OnlyApprovalsDelete

-----------------------------------------------------------------------------
(* Restored indexes                                                           *)

Adopting ==
    \A d \in Device : db[d].recovering =>
        \A p \in Path : \A b \in BornBy(d, p) :
            \A h \in db'[d].versions[p] \ {b.rev} : h.content # b.rev.content

(* What the user had seen is replaced by the edit, and bytes that another head
   says are no edit. *)
LEMMA EditIsNew ==
    ASSUME NEW x \in Index, NEW d \in Device, NEW p \in Path, NEW content \in Content,
           IsEdit(x, p, content, FALSE), CanEdit(x.observed[p], <<d, x.epoch>>),
           NEW m \in Edited(x, d, p, content).made,
           NEW h \in Edited(x, d, p, content).versions, h # m.rev
    PROVE  h.content # m.rev.content
<1> DEFINE made == Made(x, d, x.observed[p], content)
<1>1. x.versions[p] \in SUBSET Revision /\ x.observed[p] \in SUBSET Revision
  BY DEF Index
<1>2. /\ made.rev \in Revision /\ made.rev.content = content
      /\ \A k \in x.observed[p] : Before(k.clock, made.rev.clock)
  BY <1>1, MadeOK, MadeContent
<1> HIDE DEF made
<1>3. Edited(x, d, p, content) =
         Row(Join(x.versions[p], {made.rev}), content, {made.rev}, FALSE, {made})
  BY DEF Edited, made
<1>4. m = made /\ h \in Join(x.versions[p], {made.rev})
  BY <1>3 DEF Row
<1>5. h \in x.versions[p] /\ ~Before(h.clock, made.rev.clock)
  BY <1>4 DEF Join, Maximal
<1>6. x.versions[p] # x.observed[p]
  BY <1>2, <1>5
<1> QED
  BY <1>2, <1>4, <1>5, <1>6 DEF IsEdit, AlreadyKnown

LEMMA NextAdopts ==
    ASSUME Inv, [Next]_vars
    PROVE  Adopting
<1>0. db \in [Device -> Index] /\ disk \in [Device -> [Path -> Content]]
  BY DEF Inv, TypeOK
<1>1. ASSUME UNCHANGED born PROVE Adopting
  BY <1>1, NoneBorn DEF Adopting
<1>2. ASSUME NEW d \in Device, ~db[d].recovering, NEW row, Record(d, db[d], row)
      PROVE  Adopting
  BY <1>2, RecordBy DEF Adopting
<1>3. ASSUME NEW d \in Device, Commit(d) \/ CommitRefused(d) PROVE Adopting
  <2>1. CASE ~CanOpen(d)
    BY <1>1, <1>3, <2>1 DEF Commit, CommitRefused
  <2>2. CASE CanOpen(d)
    <3>1. Record(d, db[d], OpenRows(d))
      BY <1>3, <2>2 DEF Commit, CommitRefused
    <3> QED
      BY <2>2, <3>1, RecordBy, OpenRowsMake DEF Adopting
  <2> QED
    BY <2>1, <2>2
<1>4. ASSUME NEW d \in Device, Rescan(d) PROVE Adopting
  <2> DEFINE row == ScanRows(db[d], d, disk[d], FALSE)
  <2>1. \/ UNCHANGED born
        \/ /\ CanScan(db[d], d, disk[d], FALSE) /\ Record(d, db[d], row)
           /\ db' = [db EXCEPT ![d] = Save(db[d], row)]
    BY <1>4 DEF Rescan
  <2>2. ASSUME CanScan(db[d], d, disk[d], FALSE), Record(d, db[d], row),
               db' = [db EXCEPT ![d] = Save(db[d], row)]
        PROVE  Adopting
    <3> SUFFICES ASSUME NEW p \in Path, NEW b \in BornBy(d, p),
                        NEW h \in db'[d].versions[p], h # b.rev
                 PROVE  h.content # b.rev.content
      <4>1. \A e \in Device : \A p \in Path : \A b \in BornBy(e, p) : e = d
        <5> HIDE DEF row
        <5> QED
          BY <2>2, RecordBy
      <4> QED
        BY <4>1 DEF Adopting
    <3>1. row[p] = ScanRow(db[d], d, p, disk[d][p], FALSE)
      BY DEF ScanRows
    <3> HIDE DEF row
    <3>2. PICK m \in row[p].made : b.rev = m.rev
      BY <2>2, RecordBy
    <3>3. h \in row[p].versions
      BY <1>0, <2>2, SaveParts
    <3>4. IsEdit(db[d], p, disk[d][p], FALSE)
      BY <2>2, <3>2, OpenMakesFiles DEF row
    <3>5. row[p] = Edited(db[d], d, p, disk[d][p])
      BY <3>1, <3>4 DEF ScanRow, IsEdit
    <3>6. CanEdit(db[d].observed[p], <<d, db[d].epoch>>)
      BY <2>2, <3>4 DEF CanScan
    <3>7. db[d] \in Index /\ disk[d][p] \in Content
      BY <1>0
    <3>8. /\ m \in Edited(db[d], d, p, disk[d][p]).made
          /\ h \in Edited(db[d], d, p, disk[d][p]).versions
      BY <3>2, <3>3, <3>5
    <3>9. h.content # m.rev.content
      BY <3>2, <3>4, <3>6, <3>7, <3>8, EditIsNew
    <3> QED
      BY <3>2, <3>9
  <2> QED
    BY <1>1, <2>1, <2>2
<1>5. ASSUME NEW d \in Device, NEW p \in Path,
             NEW r \in db[d].versions[p] \cup db[d].history[p], ChooseCommit(d, p, r)
      PROVE  Adopting
  <2> DEFINE made == Made(db[d], d, db[d].versions[p], r.content)
             row  == Row({made.rev}, disk[d][p], db[d].observed[p], FALSE, {made})
             rows == [q \in Path |-> IF q = p THEN row ELSE Stored(db[d], q)]
  <2>1. Record(d, db[d], rows) /\ db' = [db EXCEPT ![d] = SaveRow(db[d], p, row)]
    BY <1>5 DEF ChooseCommit
  <2>2. /\ row.versions = {made.rev} /\ rows[p].made = {made}
        /\ \A q \in Path \ {p} : rows[q].made = {}
    BY DEF Row, Stored
  <2> HIDE DEF made, row, rows
  <2>3. db'[d].versions[p] = {made.rev}
    BY <1>0, <2>1, <2>2, SaveRowParts
  <2>4. \A e \in Device : \A q \in Path : \A b \in BornBy(e, q) :
           e = d /\ q = p /\ b.rev = made.rev
    <3> SUFFICES ASSUME NEW e \in Device, NEW q \in Path, NEW b \in BornBy(e, q)
                 PROVE  e = d /\ q = p /\ b.rev = made.rev
      OBVIOUS
    <3>1. e = d /\ \E m \in rows[q].made : b.rev = m.rev
      BY <2>1, RecordBy
    <3> QED
      BY <2>2, <3>1
  <2> QED
    BY <2>3, <2>4 DEF Adopting
<1>6. ASSUME NEW c \in Device, NEW s \in Device, Connect(c, s) PROVE Adopting
  BY <1>6, ConnectBorn DEF Adopting
<1>7. ASSUME NEW d \in Device, Step(d) PROVE Adopting
  <2>1. \/ UNCHANGED born \/ Commit(d) \/ CommitRefused(d) \/ Rescan(d)
    BY <1>7 DEF Step, Stage, Pull, PullDone, Publish, PublishRefused, Acknowledge, Applied,
                AppliedNothing, SetCursor, Disconnect
  <2> QED
    BY <1>1, <1>3, <1>4, <2>1
<1>8. ASSUME NEW d \in Device,
             \/ \E approve \in BOOLEAN : Scan(d, approve)
             \/ \E p \in Path : ApproveDeletion(d, p)
             \/ ChooseScan(d)
      PROVE  Adopting
  <2>1. ~db[d].recovering /\ (UNCHANGED born \/ \E row : Record(d, db[d], row))
    BY <1>8 DEF Scan, ApproveDeletion, ChooseScan
  <2> QED
    BY <1>1, <1>2, <2>1
<1>9. ASSUME NEW d \in Device, Command(d) PROVE Adopting
  <2>1. Backup(d) \/ RecoverIndex(d) \/ RecoverDevice(d) \/
        (\E offline \in BOOLEAN : Activate(d, offline)) => UNCHANGED born
    BY DEF Backup, RecoverIndex, RecoverDevice, Activate
  <2> QED
    BY <1>1, <1>5, <1>8, <1>9, <2>1 DEF Command
<1>10. ASSUME \/ \E d \in Device : Abort(d)
              \/ \E d \in Device, p \in Path, content \in Payload : AppWrite(d, p, content)
              \/ UNCHANGED vars
       PROVE  Adopting
  <2>1. UNCHANGED born
    BY <1>10 DEF Abort, AppWrite, vars
  <2> QED
    BY <1>1, <2>1
<1> QED
  BY <1>6, <1>7, <1>9, <1>10 DEF Next

(* A restored index takes the bytes it finds for what its peer already knows:
   it makes no revision before it has joined the peer's metadata, and then none
   beside another head of the same content (backup.rs, share.rs
   commit_incoming). *)
THEOREM RestoredIndexAdoptsBytes == Spec => RestoredIndexAdopts
<1> DEFINE Kept == \A d \in Device : db[d].recovering =>
                      \A p \in Path : \A b \in born'[p] \ born[p] :
                          \A h \in db'[d].versions[p] \ {b.rev} :
                              b.by = ReplicaOf(d) => h.content # b.rev.content
<1>1. Inv /\ [Next]_vars => Kept
  BY NextAdopts DEF Adopting, BornBy
<1>2. Inv /\ [Next]_vars => [Kept]_vars
  BY <1>1
<1>3. Spec => [][Kept]_vars
  <2> HIDE DEF Kept
  <2> QED
    BY <1>2, Invariance, PTL DEF Spec
<1> QED
  BY <1>3 DEF RestoredIndexAdopts

-----------------------------------------------------------------------------
(* All paths                                                                  *)

Past(B) == \A p \in Path : B[p] \in SUBSET Birth /\ Causal(B[p])

(* Replica r adds births. *)
Grows(B, C, r) ==
    \A p \in Path : \E N : NewBy(B[p], N, r) /\ C[p] = B[p] \cup N

(* An index of device d that is resolving conflicts at these paths. *)
Held(B, d, x, resolving) ==
    \A p \in Path :
        DevicePath(B[p], <<d, x.epoch>>, x.versions[p], x.observed[p], x.history[p],
                   x.materialized[p], p \in resolving)

(* What remains true of an index once it is a checkpoint. *)
HeldOnce(B, x) ==
    \A p \in Path :
        /\ x.history[p] \subseteq Revs(B[p]) /\ x.versions[p] \subseteq x.history[p]
        /\ x.observed[p] \subseteq Revs(B[p])
        /\ \A h, k \in x.versions[p] : ~Before(h.clock, k.clock)
        /\ x.materialized[p] # Deleted =>
              \E h \in x.history[p] : h.content = x.materialized[p]

(* The epochs of device d after n have made nothing. *)
Unborn(B, q) == \A b \in B : b.rev.clock[q] = 0

Fresh(B, d, n) ==
    \A p \in Path : \A m \in Epoch : m > n => Unborn(B[p], <<d, m>>)

(* What was received is the heads a register had. *)
Received(B, incoming) ==
    \A p \in Path :
        /\ incoming[p] \subseteq Revs(B[p])
        /\ \A h, k \in incoming[p] : ~Before(h.clock, k.clock)

LEMMA NewUnborn ==
    ASSUME NEW B \in SUBSET Birth, NEW N, NEW r, NewBy(B, N, r),
           NEW q \in Replica, q # r, Unborn(B, q)
    PROVE  Unborn(B \cup N, q)
<1> SUFFICES ASSUME NEW n \in N PROVE n.rev.clock[q] = 0
  BY DEF Unborn
<1>1. PICK H \in SUBSET Revs(B) : n.rev.clock[q] = MergeAll(H)[q]
  BY DEF NewBy
<1>2. H \in SUBSET Revision
  BY RevsOK
<1>3. \A h \in H : h.clock[q] = 0
  BY DEF Unborn, Revs
<1> QED
  BY <1>1, <1>2, <1>3, MergeAttained

LEMMA GrowsPast ==
    ASSUME NEW B, Past(B), NEW C, NEW r, Grows(B, C, r)
    PROVE  Past(C) /\ \A p \in Path : Revs(B[p]) \subseteq Revs(C[p])
<1> SUFFICES ASSUME NEW p \in Path
             PROVE  C[p] \in SUBSET Birth /\ Causal(C[p]) /\ Revs(B[p]) \subseteq Revs(C[p])
  BY DEF Past
<1>1. PICK N : NewBy(B[p], N, r) /\ C[p] = B[p] \cup N
  BY DEF Grows
<1> QED
  BY <1>1 DEF NewBy, Past, Revs

LEMMA GrowsHeld ==
    ASSUME NEW B, Past(B), NEW C, NEW d \in Device, NEW n \in Epoch, Grows(B, C, <<d, n>>),
           NEW e \in Device, e # d, NEW x \in Index, NEW resolving, Held(B, e, x, resolving)
    PROVE  Held(C, e, x, resolving)
<1> SUFFICES ASSUME NEW p \in Path
             PROVE  DevicePath(C[p], <<e, x.epoch>>, x.versions[p], x.observed[p],
                               x.history[p], x.materialized[p], p \in resolving)
  BY DEF Held
<1>1. PICK N : NewBy(B[p], N, <<d, n>>) /\ C[p] = B[p] \cup N
  BY DEF Grows
<1>2. <<e, x.epoch>> \in Replica /\ <<d, n>> \in Replica /\ <<d, n>> # <<e, x.epoch>>
  BY ReplicaOK, ReplicaAssumption
<1>3. B[p] \in SUBSET Birth
  BY DEF Past
<1>4. DevicePath(B[p], <<e, x.epoch>>, x.versions[p], x.observed[p],
                 x.history[p], x.materialized[p], p \in resolving)
  BY DEF Held
<1> QED
  BY <1>1, <1>2, <1>3, <1>4, OthersBirths

LEMMA GrowsFresh ==
    ASSUME NEW B, Past(B), NEW C, NEW d \in Device, NEW n \in Epoch, Grows(B, C, <<d, n>>),
           NEW e \in Device, NEW m \in Epoch, e # d \/ m >= n, Fresh(B, e, m)
    PROVE  Fresh(C, e, m)
<1> SUFFICES ASSUME NEW p \in Path, NEW k \in Epoch, k > m PROVE Unborn(C[p], <<e, k>>)
  BY DEF Fresh
<1>1. PICK N : NewBy(B[p], N, <<d, n>>) /\ C[p] = B[p] \cup N
  BY DEF Grows
<1>2. <<e, k>> \in Replica /\ <<d, n>> # <<e, k>>
  BY ReplicaAssumption DEF Epoch
<1>3. B[p] \in SUBSET Birth /\ Unborn(B[p], <<e, k>>)
  BY DEF Past, Fresh
<1> QED
  BY <1>1, <1>2, <1>3, NewUnborn

LEMMA GrowsKept ==
    ASSUME NEW B, Past(B), NEW C, NEW r, Grows(B, C, r)
    PROVE  /\ \A x : HeldOnce(B, x) => HeldOnce(C, x)
           /\ \A incoming : Received(B, incoming) => Received(C, incoming)
<1>1. \A p \in Path : Revs(B[p]) \subseteq Revs(C[p])
  BY GrowsPast
<1>2. ASSUME NEW x, HeldOnce(B, x) PROVE HeldOnce(C, x)
  BY <1>1, <1>2 DEF HeldOnce
<1>3. ASSUME NEW incoming, Received(B, incoming) PROVE Received(C, incoming)
  BY <1>1, <1>3 DEF Received
<1> QED
  BY <1>2, <1>3

(* Nothing is made. *)
LEMMA NoGrowth ==
    ASSUME NEW B, Past(B), NEW r
    PROVE  Grows(B, B, r)
<1> SUFFICES ASSUME NEW p \in Path PROVE NewBy(B[p], {}, r) /\ B[p] = B[p] \cup {}
  BY DEF Grows
<1>1. B[p] \cup {} = B[p]
  OBVIOUS
<1> QED
  BY <1>1 DEF NewBy, Past

-----------------------------------------------------------------------------
(* Scanning                                                                   *)

BirthsIn(B, r, made) == {BirthOf(B, r, m.basis, m.rev) : m \in made}

LEMMA BirthsAre ==
    ASSUME NEW d, NEW x, NEW row, NEW p \in Path
    PROVE  Births(d, x, row)[p] = BirthsIn(born[p], <<d, x.epoch>>, row[p].made)
BY DEF Births, BirthsIn, BirthOf

LEMMA BirthStable ==
    ASSUME NEW B, NEW N, NEW q, NewBy(B, N, q), NEW H \in SUBSET Revs(B), NEW r, NEW e
    PROVE  BirthOf(B \cup N, r, H, e) = BirthOf(B, r, H, e)
<1>1. {k \in B \cup N : k.rev \in H} = {k \in B : k.rev \in H}
  BY DEF NewBy
<1> QED
  BY <1>1 DEF BirthOf

LEMMA ScanRowParts ==
    ASSUME NEW x, NEW d, NEW p, NEW content, NEW approve \in BOOLEAN
    PROVE  \/ /\ IsEdit(x, p, content, approve)
              /\ ScanRow(x, d, p, content, approve) = Edited(x, d, p, content)
           \/ /\ AlreadyKnown(x, p, content)
              /\ ScanRow(x, d, p, content, approve) = Adopted(x, p, content)
           \/ /\ ScanRow(x, d, p, content, approve).versions = x.versions[p]
              /\ ScanRow(x, d, p, content, approve).observed = x.observed[p]
              /\ ScanRow(x, d, p, content, approve).materialized = x.materialized[p]
              /\ ScanRow(x, d, p, content, approve).made = {}
              /\ content # Deleted => x.materialized[p] = content
<1> DEFINE s == Stored(x, p)
           a == [s EXCEPT !.pending = FALSE]
           b == [s EXCEPT !.pending = TRUE]
<1>1. \/ IsEdit(x, p, content, approve)
         /\ ScanRow(x, d, p, content, approve) = Edited(x, d, p, content)
      \/ AlreadyKnown(x, p, content)
         /\ ScanRow(x, d, p, content, approve) = Adopted(x, p, content)
      \/ ScanRow(x, d, p, content, approve) = s /\ content = Deleted
      \/ ScanRow(x, d, p, content, approve) = a /\ x.materialized[p] = content
      \/ ScanRow(x, d, p, content, approve) = b /\ content = Deleted
  BY DEF ScanRow, IsEdit
<1>2. \A t \in {s, a, b} : /\ t.versions = x.versions[p] /\ t.observed = x.observed[p]
                           /\ t.materialized = x.materialized[p] /\ t.made = {}
  BY DEF Stored, Row
<1> HIDE DEF s, a, b
<1> QED
  BY <1>1, <1>2

LEMMA EditPath ==
    ASSUME NEW B \in SUBSET Birth, Causal(B), NEW r \in Replica,
           NEW V, NEW O, NEW K, NEW found, DevicePath(B, r, V, O, K, found, FALSE),
           NEW content \in Content, CanEdit(O, r)
    PROVE  \E e \in Revision :
              /\ Edit(O, r, content) = {e} /\ e \in Join(V, {e}) /\ e.content = content
              /\ NewBy(B, {BirthOf(B, r, O, e)}, r)
              /\ DevicePath(B \cup {BirthOf(B, r, O, e)}, r, Join(V, {e}), {e},
                            K \cup (V \cup Join(V, {e})), content, FALSE)
<1>1. O \in SUBSET Revs(B) /\ Top(B, r, O)
  BY DEF DevicePath
<1>2. PICK e \in Revision : Adds(B, r, O, content, e)
  BY <1>1, EditBirth
<1> DEFINE n == BirthOf(B, r, O, e)
<1>3. n.rev = e /\ n.by = r
  BY DEF BirthOf
<1>4. n \in Birth
  BY <1>2 DEF NewBy, Adds
<1> HIDE DEF n
<1>5. /\ e \in Join(V, {e})
      /\ DevicePath(B \cup {n}, r, Join(V, {e}), {e}, K \cup (V \cup Join(V, {e})),
                    e.content, FALSE)
  BY <1>2, <1>3, <1>4, PathEdited DEF Adds
<1> QED
  BY <1>2, <1>5 DEF n, Adds

(* What a scan of path p needs, and what its row then does. *)
CanScanPath(B, x, d, p, content, approve) ==
    /\ B \in SUBSET Birth /\ Causal(B)
    /\ IsEdit(x, p, content, approve) => CanEdit(x.observed[p], <<d, x.epoch>>)
    /\ DevicePath(B, <<d, x.epoch>>, x.versions[p], x.observed[p], x.history[p],
                  x.materialized[p], FALSE)

ScannedPath(B, N, x, d, p, content, row, kept) ==
    /\ NewBy(B, N, <<d, x.epoch>>)
    /\ DevicePath(B \cup N, <<d, x.epoch>>, row.versions, row.observed, kept,
                  row.materialized, FALSE)
    /\ content # Deleted => \E h \in kept : h.content = content
    /\ \A n \in N : n.rev.content = content

LEMMA ScanPath ==
    ASSUME NEW B, NEW x \in Index, NEW d \in Device,
           NEW p \in Path, NEW content \in Content, NEW approve \in BOOLEAN,
           CanScanPath(B, x, d, p, content, approve),
           NEW row, row = ScanRow(x, d, p, content, approve),
           NEW N, N = BirthsIn(B, <<d, x.epoch>>, row.made),
           NEW kept, kept = x.history[p] \cup (x.versions[p] \cup row.versions)
    PROVE  ScannedPath(B, N, x, d, p, content, row, kept)
<1> DEFINE r == <<d, x.epoch>>
           V == x.versions[p]
           O == x.observed[p]
           K == x.history[p]
           M == x.materialized[p]
<1>1. r \in Replica
  BY ReplicaOK
<1> HIDE DEF r, V, O, K, M
<1>a. B \in SUBSET Birth /\ Causal(B)
  BY DEF CanScanPath
<1>b. IsEdit(x, p, content, approve) => CanEdit(O, r)
  BY DEF CanScanPath, O, r
<1>2. DevicePath(B, r, V, O, K, M, FALSE)
  BY DEF CanScanPath, r, V, O, K, M
<1>3. NewBy(B, {}, r) /\ B \cup {} = B
  <2>1. B \cup {} = B
    OBVIOUS
  <2> QED
    BY <1>a, <2>1 DEF NewBy
<1>4. CASE IsEdit(x, p, content, approve) /\ row = Edited(x, d, p, content)
  <2>1. CanEdit(O, r)
    BY <1>b, <1>4
  <2>2. PICK e \in Revision :
           /\ Edit(O, r, content) = {e} /\ e \in Join(V, {e}) /\ e.content = content
           /\ NewBy(B, {BirthOf(B, r, O, e)}, r)
           /\ DevicePath(B \cup {BirthOf(B, r, O, e)}, r, Join(V, {e}), {e},
                         K \cup (V \cup Join(V, {e})), content, FALSE)
    BY <1>1, <1>a, <1>2, <2>1, EditPath
  <2>3. (CHOOSE k \in Edit(O, r, content) : TRUE) = e
    BY <2>2
  <2>4. row = Row(Join(V, {e}), content, {e}, FALSE, {[rev |-> e, basis |-> O]})
    BY <1>4, <2>3 DEF Edited, Made, O, V, r
  <2>5. row.versions = Join(V, {e}) /\ row.observed = {e} /\ row.materialized = content
    BY <2>4 DEF Row
  <2>6. N = {BirthOf(B, r, O, e)}
    <3>1. row.made = {[rev |-> e, basis |-> O]}
      BY <2>4 DEF Row
    <3> QED
      BY <3>1 DEF BirthsIn, r
  <2>7. kept = K \cup (V \cup Join(V, {e}))
    BY <2>5 DEF K, V
  <2>8. \A n \in N : n.rev.content = content
    BY <2>2, <2>6 DEF BirthOf
  <2> QED
    BY <2>2, <2>5, <2>6, <2>7, <2>8 DEF r, ScannedPath
<1>5. CASE AlreadyKnown(x, p, content) /\ row = Adopted(x, p, content)
  <2>1. /\ row.versions = V /\ row.observed \in {V, O} /\ row.materialized = content
        /\ row.made = {}
    BY <1>5 DEF Adopted, Row, V, O
  <2>2. N = {}
    BY <2>1 DEF BirthsIn
  <2>3. content # Deleted => \E h \in V : h.content = content
    BY <1>5 DEF AlreadyKnown, V
  <2>4. kept = K \cup (V \cup V)
    BY <2>1 DEF K, V
  <2>5. DevicePath(B, r, V, row.observed, K \cup (V \cup V), content, FALSE)
    BY <1>a, <1>2, <2>1, <2>3, PathKept
  <2> QED
    BY <1>3, <2>1, <2>2, <2>3, <2>4, <2>5 DEF r, ScannedPath
<1>6. CASE /\ row.versions = V /\ row.observed = O /\ row.materialized = M /\ row.made = {}
           /\ content # Deleted => M = content
  <2>1. N = {}
    BY <1>6 DEF BirthsIn
  <2>2. kept = K \cup (V \cup V)
    BY <1>6 DEF K, V
  <2>3. DevicePath(B, r, V, O, K \cup (V \cup V), M, FALSE)
    BY <1>a, <1>2, PathKept
  <2>4. content # Deleted => \E h \in K : h.content = content
    BY <1>a, <1>2, <1>6 DEF DevicePath
  <2> QED
    BY <1>3, <1>6, <2>1, <2>2, <2>3, <2>4 DEF r, ScannedPath
<1>7. \/ IsEdit(x, p, content, approve) /\ row = Edited(x, d, p, content)
      \/ AlreadyKnown(x, p, content) /\ row = Adopted(x, p, content)
      \/ /\ row.versions = V /\ row.observed = O /\ row.materialized = M /\ row.made = {}
         /\ content # Deleted => M = content
  BY ScanRowParts DEF V, O, M
<1> QED
  BY <1>4, <1>5, <1>6, <1>7

LEMMA SaveEpoch ==
    ASSUME NEW x \in Index, NEW row
    PROVE  /\ Save(x, row).epoch = x.epoch
           /\ \A p \in Path : SaveRow(x, p, row).epoch = x.epoch
BY DEF Save, SaveRow, Write, Index

(* What is made is what the folder shows. *)
MadeAs(B, C, folder) == \A p \in Path : \A n \in C[p] \ B[p] : n.rev.content = folder[p]

(* The disk is in the history. *)
DiskKept(folder, x) ==
    \A p \in Path : folder[p] # Deleted => \E h \in x.history[p] : h.content = folder[p]

LEMMA ScanHeld ==
    ASSUME NEW B, Past(B), NEW x \in Index, NEW d \in Device, Held(B, d, x, {}),
           NEW folder \in [Path -> Content], NEW approve \in BOOLEAN,
           CanScan(x, d, folder, approve),
           NEW row, row = ScanRows(x, d, folder, approve),
           NEW C, \A p \in Path : C[p] = B[p] \cup BirthsIn(B[p], <<d, x.epoch>>, row[p].made)
    PROVE  /\ Grows(B, C, <<d, x.epoch>>)
           /\ Held(C, d, Save(x, row), {})
           /\ DiskKept(folder, Save(x, row))
           /\ MadeAs(B, C, folder)
<1> DEFINE y == Save(x, row)
           r == <<d, x.epoch>>
<1>1. ASSUME NEW p \in Path
      PROVE  ScannedPath(B[p], BirthsIn(B[p], r, row[p].made), x, d, p, folder[p], row[p],
                         x.history[p] \cup (x.versions[p] \cup row[p].versions))
  <2>1. row[p] = ScanRow(x, d, p, folder[p], approve)
    BY DEF ScanRows
  <2>2. CanScanPath(B[p], x, d, p, folder[p], approve)
    BY DEF CanScan, Past, Held, DevicePath, CanScanPath
  <2>3. folder[p] \in Content
    OBVIOUS
  <2> DEFINE N == BirthsIn(B[p], r, row[p].made)
             kept == x.history[p] \cup (x.versions[p] \cup row[p].versions)
  <2>4. N = BirthsIn(B[p], <<d, x.epoch>>, row[p].made)
    OBVIOUS
  <2>5. kept = x.history[p] \cup (x.versions[p] \cup row[p].versions)
    OBVIOUS
  <2> HIDE DEF N, kept
  <2>6. ScannedPath(B[p], N, x, d, p, folder[p], row[p], kept)
    BY <2>1, <2>2, <2>3, <2>4, <2>5, ScanPath
  <2> QED
    BY <2>6 DEF N, kept
<1>2. Grows(B, C, r)
  BY <1>1 DEF Grows, ScannedPath
<1>3. \A p \in Path : /\ y.versions[p] = row[p].versions
                      /\ y.history[p] = x.history[p] \cup (x.versions[p] \cup row[p].versions)
                      /\ y.observed[p] = row[p].observed
                      /\ y.materialized[p] = row[p].materialized
  BY SaveParts
<1>4. y.epoch = x.epoch
  BY SaveEpoch
<1> HIDE DEF y
<1>5. Held(C, d, y, {})
  <2> SUFFICES ASSUME NEW p \in Path
               PROVE  DevicePath(C[p], <<d, y.epoch>>, y.versions[p], y.observed[p],
                                 y.history[p], y.materialized[p], FALSE)
    BY DEF Held, DevicePath
  <2> QED
    BY <1>1, <1>3, <1>4 DEF ScannedPath
<1>6. DiskKept(folder, y)
  BY <1>1, <1>3 DEF DiskKept, ScannedPath
<1>7. MadeAs(B, C, folder)
  BY <1>1 DEF MadeAs, ScannedPath
<1> QED
  BY <1>2, <1>5, <1>6, <1>7 DEF y

LEMMA OpenHeld ==
    ASSUME Inv, NEW d \in Device, CanOpen(d), NEW B, Past(B), Held(B, d, db[d], {}),
           NEW C, \A p \in Path :
                     C[p] = B[p] \cup BirthsIn(B[p], ReplicaOf(d), OpenRows(d)[p].made)
    PROVE  /\ Grows(B, C, ReplicaOf(d)) /\ Held(C, d, Opened(d), {})
           /\ MadeAs(B, C, disk[d])
<1>1. db[d] \in Index /\ disk[d] \in [Path -> Content]
  BY DEF Inv, TypeOK
<1>2. CASE ~db[d].recovering
  <2>1. OpenRows(d) = ScanRows(db[d], d, disk[d], FALSE) /\ CanScan(db[d], d, disk[d], FALSE)
    BY <1>2 DEF OpenRows, CanOpen
  <2>0. PICK approve \in BOOLEAN : approve = FALSE
    OBVIOUS
  <2> DEFINE row == ScanRows(db[d], d, disk[d], approve)
  <2>2. /\ \A p \in Path :
             C[p] = B[p] \cup BirthsIn(B[p], <<d, db[d].epoch>>, row[p].made)
        /\ Opened(d) = Save(db[d], row)
    BY <2>0, <2>1 DEF Opened, ReplicaOf
  <2>3. CanScan(db[d], d, disk[d], approve)
    BY <2>0, <2>1
  <2>4. row = ScanRows(db[d], d, disk[d], approve)
    OBVIOUS
  <2> HIDE DEF row
  <2>5. /\ Grows(B, C, <<d, db[d].epoch>>)
        /\ Held(C, d, Save(db[d], row), {})
        /\ MadeAs(B, C, disk[d])
    BY <1>1, <2>2, <2>3, <2>4, ScanHeld
  <2> QED
    BY <2>2, <2>5 DEF ReplicaOf
<1>3. CASE db[d].recovering
  <2>1. \A p \in Path : /\ OpenRows(d)[p].versions = db[d].versions[p]
                        /\ OpenRows(d)[p].observed = db[d].observed[p]
                        /\ OpenRows(d)[p].materialized = db[d].materialized[p]
                        /\ OpenRows(d)[p].made = {}
    BY <1>3 DEF OpenRows, Stored, Row
  <2>2. ASSUME NEW p \in Path PROVE C[p] = B[p]
    <3>1. BirthsIn(B[p], ReplicaOf(d), {}) = {}
      BY DEF BirthsIn
    <3> QED
      BY <2>1, <3>1
  <2>3. Grows(B, C, ReplicaOf(d))
    <3>1. \A p \in Path : NewBy(B[p], {}, ReplicaOf(d)) /\ C[p] = B[p] \cup {}
      <4>1. \A p \in Path : B[p] \cup {} = B[p]
        OBVIOUS
      <4> QED
        BY <2>2, <4>1 DEF NewBy, Past
    <3> QED
      BY <3>1 DEF Grows
  <2>4. \A p \in Path : /\ Opened(d).versions[p] = db[d].versions[p]
                        /\ Opened(d).observed[p] = db[d].observed[p]
                        /\ Opened(d).materialized[p] = db[d].materialized[p]
                        /\ Opened(d).history[p] =
                              db[d].history[p] \cup (db[d].versions[p] \cup db[d].versions[p])
    BY <1>1, <2>1, SaveParts DEF Opened
  <2>5. Opened(d).epoch = db[d].epoch
    BY <1>1, SaveEpoch DEF Opened
  <2>6. ASSUME NEW p \in Path
        PROVE  DevicePath(C[p], <<d, Opened(d).epoch>>, Opened(d).versions[p],
                          Opened(d).observed[p], Opened(d).history[p],
                          Opened(d).materialized[p], FALSE)
    <3>1. DevicePath(B[p], <<d, db[d].epoch>>, db[d].versions[p], db[d].observed[p],
                     db[d].history[p], db[d].materialized[p], FALSE)
      BY DEF Held, DevicePath
    <3>2. DevicePath(B[p], <<d, db[d].epoch>>, db[d].versions[p], db[d].observed[p],
                     db[d].history[p] \cup (db[d].versions[p] \cup db[d].versions[p]),
                     db[d].materialized[p], FALSE)
      BY <3>1, PathKept
    <3> QED
      BY <2>2, <2>4, <2>5, <3>2
  <2>7. Held(C, d, Opened(d), {})
    BY <2>6 DEF Held, DevicePath
  <2>8. MadeAs(B, C, disk[d])
    BY <2>2 DEF MadeAs
  <2> QED
    BY <2>3, <2>7, <2>8
<1> QED
  BY <1>2, <1>3

(* Two devices open their folders at once. *)
LEMMA OpenBasis ==
    ASSUME Inv, NEW d \in Device, NEW p \in Path, NEW m \in OpenRows(d)[p].made
    PROVE  m.basis = db[d].observed[p]
<1>1. CASE db[d].recovering
  BY <1>1 DEF OpenRows, Stored, Row
<1>2. CASE ~db[d].recovering
  <2>1. OpenRows(d)[p] = ScanRow(db[d], d, p, disk[d][p], FALSE)
    BY <1>2 DEF OpenRows, ScanRows
  <2>2. OpenRows(d)[p] = Edited(db[d], d, p, disk[d][p])
    <3>1. PICK approve \in BOOLEAN :
             OpenRows(d)[p] = ScanRow(db[d], d, p, disk[d][p], approve)
      BY <2>1
    <3> QED
      BY <3>1, ScanRowCases
  <2> QED
    BY <2>2 DEF Edited, Made, Row
<1> QED
  BY <1>1, <1>2

LEMMA OpenedAfter ==
    ASSUME Inv, NEW d \in Device, NEW B, Held(B, d, db[d], {}),
           NEW C, NEW q, Grows(B, C, q), NEW p \in Path
    PROVE  BirthsIn(C[p], ReplicaOf(d), OpenRows(d)[p].made)
             = BirthsIn(B[p], ReplicaOf(d), OpenRows(d)[p].made)
<1>1. db[d].observed[p] \in SUBSET Revs(B[p])
  BY DEF Held, DevicePath
<1>2. PICK N : NewBy(B[p], N, q) /\ C[p] = B[p] \cup N
  BY DEF Grows
<1>3. ASSUME NEW m \in OpenRows(d)[p].made
      PROVE  BirthOf(C[p], ReplicaOf(d), m.basis, m.rev)
               = BirthOf(B[p], ReplicaOf(d), m.basis, m.rev)
  BY <1>1, <1>2, OpenBasis, BirthStable
<1> QED
  BY <1>3 DEF BirthsIn

-----------------------------------------------------------------------------
(* Every device                                                               *)

(* Nothing comes between the steps of a choice: no choice is made, or a choice
   is not disturbed and its publication is never refused. *)
Calm == MaxChoices = 0 \/ (AtomicChoose /\ Directory \notin Payload)

(* The path whose conflict was resolved, until the resolution is observed. *)
Resolved(d) ==
    {p \in Path : /\ p = sess[d].path
                  /\ \/ sess[d].phase = "chosen"
                     \/ sess[d].phase = "published" /\ sess[d].peer = d}

RevInv ==
    /\ Past(born)
    /\ \A d \in Device :
          /\ Held(born, d, db[d], Resolved(d))
          /\ Fresh(born, d, db[d].epoch)
          /\ \A s \in saved[d] : HeldOnce(born, s.index)
          /\ Received(born, sess[d].incoming)

(* What a command or a session of a device knows of its folder. *)
CalmAt(d) ==
    /\ sess[d].phase \in {"idle", "choosing", "chosen"} => sess[d].peer = d
    /\ sess[d].phase \in {"hello", "pull", "pulled", "rescan", "applying", "applied"} =>
          sess[d].peer # d
    /\ Choosing(d) => AtomicChoose /\ Directory \notin Payload
    /\ sess[d].phase = "choosing" => DiskKept(disk[d], db[d])
    /\ sess[d].phase = "chosen" =>
          disk[d][sess[d].path] = db[d].materialized[sess[d].path]
    /\ sess[d].phase = "published" /\ sess[d].peer = d =>
          disk[d][sess[d].path] = Target(d, sess[d].path)
    /\ Directory \notin Payload => \A p \in Path : disk[d][p] # Directory

CalmBounds ==
    /\ MaxChoices = 0 => budget.choices = 0
    /\ Directory \notin Payload => \A p \in Path : \A b \in born[p] : b.rev.content # Directory

CalmInv == CalmBounds /\ \A d \in Device : CalmAt(d)

SessKept(e) ==
    /\ sess'[e].phase = sess[e].phase /\ sess'[e].peer = sess[e].peer
    /\ sess'[e].path = sess[e].path /\ sess'[e].incoming = sess[e].incoming

(* A device that another one's step leaves alone, or whose session it ends. *)
Bystander(e) ==
    /\ db'[e] = db[e] /\ disk'[e] = disk[e]
    /\ SessKept(e) \/ (sess'[e] = NoSession(e) /\ Resolved(e) = {})

LEMMA HeldMore ==
    ASSUME NEW B, NEW d, NEW x, NEW R, NEW S, R \subseteq S, Held(B, d, x, R)
    PROVE  Held(B, d, x, S)
<1> SUFFICES ASSUME NEW p \in Path
             PROVE  DevicePath(B[p], <<d, x.epoch>>, x.versions[p], x.observed[p],
                               x.history[p], x.materialized[p], p \in S)
  BY DEF Held
<1>1. DevicePath(B[p], <<d, x.epoch>>, x.versions[p], x.observed[p],
                 x.history[p], x.materialized[p], p \in R)
  BY DEF Held
<1> QED
  BY <1>1 DEF DevicePath

LEMMA NoneReceived ==
    ASSUME NEW B, NEW d
    PROVE  Received(B, NoSession(d).incoming)
BY DEF Received, NoSession

LEMMA EndedCalm ==
    ASSUME NEW d \in Device, sess'[d] = NoSession(d),
           Directory \notin Payload => \A p \in Path : disk'[d][p] # Directory
    PROVE  CalmAt(d)' /\ Resolved(d)' = {} /\ (\A B : Received(B, sess'[d].incoming))
<1>1. NoSession(d).phase = "idle" /\ NoSession(d).peer = d
  BY DEF NoSession
<1> QED
  BY <1>1, NoneReceived DEF CalmAt, Choosing, Resolved

LEMMA KeptCalm ==
    ASSUME NEW e \in Device, CalmAt(e), SessKept(e), db'[e] = db[e], disk'[e] = disk[e]
    PROVE  CalmAt(e)' /\ Resolved(e)' = Resolved(e)
BY DEF CalmAt, Choosing, DiskKept, Resolved, SessKept, Target

LEMMA BystanderHolds ==
    ASSUME Inv, RevInv, NEW e \in Device, CalmAt(e), Bystander(e),
           NEW d \in Device, e # d, Grows(born, born', ReplicaOf(d))
    PROVE  /\ Held(born', e, db'[e], Resolved(e)')
           /\ Fresh(born', e, db'[e].epoch)
           /\ Received(born', sess'[e].incoming)
           /\ CalmAt(e)'
<1>1. CalmAt(e)' /\ Resolved(e) \subseteq Resolved(e)'
  <2>1. CASE SessKept(e)
    BY <2>1, KeptCalm DEF Bystander
  <2>2. CASE sess'[e] = NoSession(e) /\ Resolved(e) = {}
    BY <2>2, EndedCalm DEF Bystander, CalmAt
  <2> QED
    BY <2>1, <2>2 DEF Bystander
<1>2. db[e] \in Index /\ db[e].epoch \in Epoch /\ db[d].epoch \in Epoch
  BY DEF Inv, TypeOK, Index
<1>3. Past(born) /\ Held(born, e, db[e], Resolved(e)) /\ Fresh(born, e, db[e].epoch)
  BY DEF RevInv
<1>4. Grows(born, born', <<d, db[d].epoch>>)
  BY DEF ReplicaOf
<1>5. Held(born', e, db[e], Resolved(e)) /\ Fresh(born', e, db[e].epoch)
  BY <1>2, <1>3, <1>4, GrowsHeld, GrowsFresh
<1>6. Received(born', sess[e].incoming) /\ Received(born', NoSession(e).incoming)
  BY <1>3, GrowsKept, NoneReceived DEF RevInv
<1> QED
  BY <1>1, <1>5, <1>6, HeldMore DEF Bystander, SessKept

(* A step of one device. *)
LEMMA DeviceStep ==
    ASSUME Inv, RevInv, CalmInv, NEW d \in Device,
           \A e \in Device \ {d} : Bystander(e),
           Grows(born, born', ReplicaOf(d)),
           UNCHANGED saved,
           db'[d].epoch = db[d].epoch,
           Held(born', d, db'[d], Resolved(d)'),
           Received(born', sess'[d].incoming),
           CalmAt(d)', CalmBounds'
    PROVE  RevInv' /\ CalmInv'
<1>1. \A e \in Device \ {d} :
         /\ Held(born', e, db'[e], Resolved(e)')
         /\ Fresh(born', e, db'[e].epoch)
         /\ Received(born', sess'[e].incoming)
         /\ CalmAt(e)'
  BY BystanderHolds DEF CalmInv
<1>2. Past(born) /\ Past(born')
  BY GrowsPast DEF RevInv
<1>3. Fresh(born', d, db'[d].epoch)
  <2>1. db[d].epoch \in Epoch /\ Fresh(born, d, db[d].epoch)
    BY DEF Inv, TypeOK, Index, RevInv
  <2>2. db[d].epoch >= db[d].epoch
    BY <2>1 DEF Epoch
  <2> QED
    BY <1>2, <2>1, <2>2, GrowsFresh DEF ReplicaOf
<1>4. \A e \in Device : \A s \in saved'[e] : HeldOnce(born', s.index)
  BY <1>2, GrowsKept DEF RevInv
<1>5. RevInv'
  BY <1>1, <1>2, <1>3, <1>4 DEF RevInv
<1> QED
  BY <1>1, <1>5 DEF CalmInv

(* A step that neither makes a revision nor writes an index. *)
LEMMA QuietStep ==
    ASSUME Inv, RevInv, CalmInv, NEW d \in Device,
           \A e \in Device \ {d} : Bystander(e),
           UNCHANGED <<db, born, saved>>,
           Resolved(d) \subseteq Resolved(d)',
           Received(born, sess'[d].incoming),
           CalmAt(d)', UNCHANGED budget \/ CalmBounds'
    PROVE  RevInv' /\ CalmInv'
<1>1. Grows(born, born', ReplicaOf(d))
  BY NoGrowth DEF RevInv
<1>2. Held(born', d, db'[d], Resolved(d)')
  BY HeldMore DEF RevInv
<1>3. CalmBounds'
  BY DEF CalmInv, CalmBounds
<1> QED
  BY <1>1, <1>2, <1>3, DeviceStep

-----------------------------------------------------------------------------
(* Steps that only move a session or a file                                   *)

LEMMA LinkedResolves ==
    ASSUME NEW d \in Device, NEW e \in Device, CalmAt(e), Linked(d, e)
    PROVE  Resolved(e) = {}
BY DEF CalmAt, Linked, Resolved

(* One session is replaced. *)
LEMMA OneSession ==
    ASSUME Inv, NEW d \in Device, NEW s, sess' = [sess EXCEPT ![d] = s]
    PROVE  sess'[d] = s /\ \A e \in Device \ {d} : SessKept(e)
BY DEF Inv, TypeOK, SessKept

LEMMA CalmAppWrite ==
    ASSUME Inv, RevInv, CalmInv, NEW d \in Device, NEW p \in Path, NEW content \in Payload,
           AppWrite(d, p, content)
    PROVE  RevInv' /\ CalmInv'
<1>1. /\ UNCHANGED <<db, sess, saved, born>> /\ Undisturbed(d)
      /\ disk' = [disk EXCEPT ![d][p] = content]
      /\ budget' = [budget EXCEPT !["edits"] = budget["edits"] - 1]
  BY DEF AppWrite, Spend
<1>2. /\ \A e \in Device \ {d} : disk'[e] = disk[e]
      /\ \A q \in Path : disk'[d][q] = IF q = p THEN content ELSE disk[d][q]
  BY <1>1 DEF Inv, TypeOK
<1>3. CalmAt(d) /\ ~Choosing(d)
  BY <1>1 DEF CalmInv, CalmAt, Undisturbed
<1>4. CalmAt(d)' /\ Resolved(d)' = Resolved(d)
  BY <1>1, <1>2, <1>3 DEF CalmAt, Choosing, Resolved
<1>5. CalmBounds'
  <2>1. budget'.choices = budget.choices
    BY <1>1 DEF Inv, TypeOK
  <2> QED
    BY <1>1, <2>1 DEF CalmInv, CalmBounds
<1>6. \A e \in Device \ {d} : Bystander(e)
  BY <1>1, <1>2 DEF Bystander, SessKept
<1> QED
  BY <1>1, <1>4, <1>5, <1>6, QuietStep DEF RevInv

(* A session ends before anything was published. *)
LEMMA QuietEnd ==
    ASSUME Inv, RevInv, CalmInv, NEW d \in Device, End(d), Resolved(d) = {},
           UNCHANGED <<disk, db, saved, born>>, UNCHANGED budget \/ CalmBounds'
    PROVE  RevInv' /\ CalmInv'
<1>1. sess'[d] = NoSession(d) /\ \A e \in Device \ {d} : SessKept(e)
  BY OneSession DEF End
<1>2. \A e \in Device \ {d} : Bystander(e)
  BY <1>1 DEF Bystander
<1>3. CalmAt(d)' /\ Resolved(d)' = {} /\ Received(born, sess'[d].incoming)
  BY <1>1, EndedCalm DEF CalmInv, CalmAt
<1> QED
  BY <1>2, <1>3, QuietStep

LEMMA RecordsKnown ==
    ASSUME Inv, RevInv, NEW d \in Device, NEW e \in Device
    PROVE  Received(born, Records(e, d))
<1> SUFFICES ASSUME NEW p \in Path
             PROVE  /\ Records(e, d)[p] \subseteq Revs(born[p])
                    /\ \A h, k \in Records(e, d)[p] : ~Before(h.clock, k.clock)
  BY DEF Received
<1>1. /\ db[e].versions[p] \subseteq Revs(born[p])
      /\ \A h, k \in db[e].versions[p] : ~Before(h.clock, k.clock)
  BY DEF RevInv, Held, DevicePath
<1>2. Records(e, d)[p] \in {db[e].versions[p], {}}
  BY DEF Records
<1> QED
  BY <1>1, <1>2

LEMMA CalmStage ==
    ASSUME Inv, RevInv, CalmInv, NEW d \in Device, Stage(d)
    PROVE  RevInv' /\ CalmInv'
<1> DEFINE e == sess[d].peer
           incoming == Records(e, d)
           needed == {h.content : h \in UNION {incoming[p] : p \in Path}} \cap (File \ objects[d])
<1>1. /\ sess[d].phase = "hello" /\ Linked(d, e) /\ e \in Device /\ e # d
      /\ UNCHANGED <<disk, db, objects, mode, saved, born, budget>>
      /\ \/ sess' = [sess EXCEPT ![e] = NoSession(e)]
         \/ sess' = [sess EXCEPT ![d] = NoSession(d)]
         \/ sess' = [sess EXCEPT ![d].phase = "pull", ![d].incoming = incoming,
                                 ![d].needed = needed]
  BY DEF Stage, Linked, Inv, TypeOK, Session
<1>2. Received(born, incoming)
  BY <1>1, RecordsKnown
<1>3. Resolved(d) = {} /\ CalmAt(d) /\ CalmAt(e)
  BY <1>1 DEF Resolved, CalmInv
<1> HIDE DEF e, incoming, needed
<1>4. CASE sess' = [sess EXCEPT ![e] = NoSession(e)]
  <2>1. sess'[e] = NoSession(e) /\ \A k \in Device \ {e} : SessKept(k)
    BY <1>1, <1>4, OneSession
  <2>2. \A k \in Device \ {d} : Bystander(k)
    BY <1>1, <1>3, <2>1, LinkedResolves DEF Bystander
  <2>3. CalmAt(d)' /\ Resolved(d)' = Resolved(d)
    BY <1>1, <1>3, <2>1, KeptCalm
  <2>4. Received(born, sess'[d].incoming)
    BY <1>1, <2>1 DEF SessKept, RevInv
  <2> QED
    BY <1>1, <2>2, <2>3, <2>4, QuietStep
<1>5. CASE sess' = [sess EXCEPT ![d] = NoSession(d)]
  BY <1>1, <1>3, <1>5, QuietEnd DEF End
<1>6. CASE sess' = [sess EXCEPT ![d].phase = "pull", ![d].incoming = incoming,
                                ![d].needed = needed]
  <2>1. sess \in [Device -> Session] /\ sess[d] \in Session
    BY DEF Inv, TypeOK
  <2>2. /\ sess'[d].phase = "pull" /\ sess'[d].peer = sess[d].peer
        /\ sess'[d].path = sess[d].path /\ sess'[d].incoming = incoming
        /\ \A k \in Device \ {d} : SessKept(k)
    BY <1>6, <2>1 DEF SessKept, Session
  <2>3. CalmAt(d)'
    BY <1>1, <1>3, <2>2 DEF CalmAt, Choosing
  <2>4. \A k \in Device \ {d} : Bystander(k)
    BY <1>1, <2>2 DEF Bystander
  <2> QED
    BY <1>1, <1>2, <1>3, <2>2, <2>3, <2>4, QuietStep
<1> QED
  BY <1>1, <1>4, <1>5, <1>6

LEMMA CalmPull ==
    ASSUME Inv, RevInv, CalmInv, NEW d \in Device, NEW f \in File, Pull(d, f)
    PROVE  RevInv' /\ CalmInv'
<1> DEFINE e == sess[d].peer
<1>1. /\ sess[d].phase = "pull" /\ Linked(d, e) /\ e \in Device /\ e # d
      /\ UNCHANGED <<disk, db, mode, saved, born, budget>>
      /\ sess' = [sess EXCEPT ![d].needed = @ \ {f}] \/ End(e)
  BY DEF Pull, Linked, Inv, TypeOK, Session
<1>2. CalmAt(d) /\ CalmAt(e) /\ Received(born, sess[d].incoming)
  BY <1>1 DEF CalmInv, RevInv
<1> HIDE DEF e
<1>3. \A k \in Device \ {d} : Bystander(k)
  <2>1. CASE End(e)
    <3>1. sess'[e] = NoSession(e) /\ \A k \in Device \ {e} : SessKept(k)
      BY <1>1, <2>1, OneSession DEF End
    <3> QED
      BY <1>1, <1>2, <3>1, LinkedResolves DEF Bystander
  <2>2. CASE sess' = [sess EXCEPT ![d].needed = @ \ {f}]
    <3>1. \A k \in Device \ {d} : SessKept(k)
      BY <2>2 DEF Inv, TypeOK, SessKept
    <3> QED
      BY <1>1, <3>1 DEF Bystander
  <2> QED
    BY <1>1, <2>1, <2>2
<1>4. SessKept(d)
  <2>1. CASE End(e)
    BY <1>1, <2>1, OneSession DEF End
  <2>2. CASE sess' = [sess EXCEPT ![d].needed = @ \ {f}]
    BY <2>2 DEF Inv, TypeOK, Session, SessKept
  <2> QED
    BY <1>1, <2>1, <2>2
<1>5. CalmAt(d)' /\ Resolved(d)' = Resolved(d)
  BY <1>1, <1>2, <1>4, KeptCalm
<1> QED
  BY <1>1, <1>2, <1>3, <1>4, <1>5, QuietStep DEF SessKept

(* A session that only learns what its peer said. *)
LEMMA ToldKept ==
    ASSUME Inv, NEW k \in Device, NEW told,
           \/ sess'[k] = sess[k]
           \/ sess'[k] = [sess[k] EXCEPT !.released = told]
           \/ sess'[k] = [sess[k] EXCEPT !.done = told]
    PROVE  SessKept(k)
<1>1. sess[k] \in Session
  BY DEF Inv, TypeOK
<1> QED
  BY <1>1 DEF SessKept, Session

LEMMA CalmPullDone ==
    ASSUME Inv, RevInv, CalmInv, NEW d \in Device, PullDone(d)
    PROVE  RevInv' /\ CalmInv'
<1> DEFINE e == sess[d].peer
<1>1. /\ sess[d].phase = "pull" /\ UNCHANGED <<disk, db, objects, mode, saved, born, budget>>
      /\ sess' = [k \in Device |->
                    CASE k = d                      -> [sess[k] EXCEPT !.phase = "pulled"]
                      [] k = e /\ Linked(d, e)      -> [sess[k] EXCEPT !.released = TRUE]
                      [] k # d /\ ~(k = e /\ Linked(d, e)) -> sess[k]]
  BY DEF PullDone
<1>2. sess \in [Device -> Session]
  BY DEF Inv, TypeOK
<1>3. /\ sess'[d] = [sess[d] EXCEPT !.phase = "pulled"]
      /\ \A k \in Device \ {d} : \/ sess'[k] = sess[k]
                                 \/ sess'[k] = [sess[k] EXCEPT !.released = TRUE]
  BY <1>1 DEF Linked
<1>4. \A k \in Device \ {d} : SessKept(k)
  BY <1>3, ToldKept
<1>5. /\ sess'[d].phase = "pulled" /\ sess'[d].peer = sess[d].peer
      /\ sess'[d].path = sess[d].path /\ sess'[d].incoming = sess[d].incoming
  BY <1>2, <1>3 DEF Session
<1>6. CalmAt(d)' /\ Resolved(d) = {}
  BY <1>1, <1>5 DEF CalmInv, CalmAt, Choosing, Resolved
<1>7. \A k \in Device \ {d} : Bystander(k)
  BY <1>1, <1>4 DEF Bystander
<1>8. Received(born, sess'[d].incoming)
  BY <1>5 DEF RevInv
<1> QED
  BY <1>1, <1>6, <1>7, <1>8, QuietStep

LEMMA SaidApplied ==
    ASSUME Inv, NEW d \in Device, SayApplied(d)
    PROVE  /\ \A k \in Device \ {d} : SessKept(k)
           /\ sess'[d].phase = "applied" /\ sess'[d].peer = sess[d].peer
           /\ sess'[d].incoming = sess[d].incoming
<1>1. sess \in [Device -> Session]
  BY DEF Inv, TypeOK
<1>2. /\ sess'[d] = [sess[d] EXCEPT !.phase = "applied"]
      /\ \A k \in Device \ {d} : \/ sess'[k] = sess[k]
                                 \/ sess'[k] = [sess[k] EXCEPT !.done = TRUE]
  BY DEF SayApplied, Linked
<1>3. \A k \in Device \ {d} : SessKept(k)
  BY <1>2, ToldKept
<1> QED
  BY <1>1, <1>2, <1>3 DEF Session

LEMMA CalmAppliedNothing ==
    ASSUME Inv, RevInv, CalmInv, NEW d \in Device, AppliedNothing(d)
    PROVE  RevInv' /\ CalmInv'
<1>1. /\ sess[d].phase = "pulled" /\ SayApplied(d)
      /\ UNCHANGED <<disk, db, objects, mode, saved, born, budget>>
  BY DEF AppliedNothing, ReadyToCommit
<1>2. CalmAt(d)' /\ Resolved(d) = {}
  BY <1>1, SaidApplied DEF CalmInv, CalmAt, Choosing, Resolved
<1>3. \A k \in Device \ {d} : Bystander(k)
  BY <1>1, SaidApplied DEF Bystander
<1>4. Received(born, sess'[d].incoming)
  BY <1>1, SaidApplied DEF RevInv
<1> QED
  BY <1>1, <1>2, <1>3, <1>4, QuietStep

LEMMA CalmDisconnect ==
    ASSUME Inv, RevInv, CalmInv, NEW d \in Device, Disconnect(d)
    PROVE  RevInv' /\ CalmInv'
<1>1. Resolved(d) = {}
  BY DEF Disconnect, Resolved
<1> QED
  BY <1>1, QuietEnd DEF Disconnect

LEMMA CalmAbort ==
    ASSUME Inv, RevInv, CalmInv, NEW d \in Device, Abort(d)
    PROVE  RevInv' /\ CalmInv'
<1>1. /\ UNCHANGED <<disk, db, objects, mode, saved, born>> /\ Undisturbed(d)
      /\ budget' = [budget EXCEPT !["aborts"] = budget["aborts"] - 1]
  BY DEF Abort, Spend
<1>2. PICK arrives \in BOOLEAN :
         sess' = [e \in Device |->
                     CASE e = d -> NoSession(d)
                       [] e # d /\ Linked(d, e) -> [sess[e] EXCEPT !.done = @ /\ arrives]
                       [] e # d /\ ~Linked(d, e) -> sess[e]]
  BY DEF Abort
<1>3. /\ sess'[d] = NoSession(d)
      /\ \A k \in Device \ {d} :
            \/ sess'[k] = sess[k]
            \/ sess'[k] = [sess[k] EXCEPT !.done = sess[k].done /\ arrives]
  BY <1>2
<1>4. \A k \in Device \ {d} : SessKept(k)
  <2>1. sess \in [Device -> Session]
    BY DEF Inv, TypeOK
  <2> QED
    BY <1>3, <2>1 DEF SessKept, Session
<1>5. Resolved(d) = {}
  BY <1>1 DEF CalmInv, CalmAt, Undisturbed, Choosing, Resolved
<1>6. CalmBounds'
  <2>1. budget'.choices = budget.choices
    BY <1>1 DEF Inv, TypeOK
  <2> QED
    BY <1>1, <2>1 DEF CalmInv, CalmBounds
<1>7. CalmAt(d)' /\ Received(born, sess'[d].incoming)
  BY <1>1, <1>3, EndedCalm DEF CalmInv, CalmAt
<1>8. \A k \in Device \ {d} : Bystander(k)
  BY <1>1, <1>4 DEF Bystander
<1> QED
  BY <1>1, <1>5, <1>6, <1>7, <1>8, QuietStep

LEMMA CalmPublishRefused ==
    ASSUME Inv, RevInv, CalmInv, NEW d \in Device, NEW p \in Path, PublishRefused(d, p)
    PROVE  RevInv' /\ CalmInv'
<1>1. /\ Applies(d, p) /\ ~Expected(d, p) /\ End(d)
      /\ UNCHANGED <<disk, db, objects, mode, saved, born, budget>>
  BY DEF PublishRefused
<1>2. CASE sess[d].phase = "chosen"
  <2>1. p = sess[d].path /\ disk[d][p] = db[d].materialized[p]
    BY <1>1, <1>2 DEF Applies, CalmInv, CalmAt
  <2>2. Directory \notin Payload
    BY <1>2 DEF CalmInv, CalmAt, Choosing
  <2>3. disk[d][p] # Directory
    BY <2>2 DEF CalmInv, CalmAt
  <2>4. Target(d, p) # Directory
    <3>1. db[d].versions[p] # {} /\ db[d].versions[p] \in SUBSET Revision
      BY <1>1, AppliesHead DEF Inv, TypeOK, Index
    <3>2. Selected(db[d].versions[p]) \in db[d].versions[p]
      BY <3>1, SelectedIsBest
    <3>3. db[d].versions[p] \subseteq Revs(born[p])
      BY DEF RevInv, Held, DevicePath
    <3> QED
      BY <2>2, <3>2, <3>3 DEF Target, Revs, CalmInv, CalmBounds
  <2> QED
    BY <1>1, <2>1, <2>3, <2>4 DEF Expected
<1>3. CASE sess[d].phase = "applying"
  <2>1. Resolved(d) = {}
    BY <1>3 DEF Resolved
  <2> QED
    BY <1>1, <2>1, QuietEnd
<1> QED
  BY <1>1, <1>2, <1>3 DEF Applies

LEMMA CalmPublish ==
    ASSUME Inv, RevInv, CalmInv, NEW d \in Device, NEW p \in Path, Publish(d, p)
    PROVE  RevInv' /\ CalmInv'
<1>1. /\ Applies(d, p)
      /\ disk' = [disk EXCEPT ![d][p] = Target(d, p)]
      /\ sess' = [sess EXCEPT ![d].phase = "published", ![d].path = p]
      /\ UNCHANGED <<db, objects, mode, saved, born, budget>>
  BY DEF Publish
<1>2. sess \in [Device -> Session] /\ disk \in [Device -> [Path -> Content]]
  BY DEF Inv, TypeOK
<1>3. /\ sess'[d].phase = "published" /\ sess'[d].path = p
      /\ sess'[d].peer = sess[d].peer /\ sess'[d].incoming = sess[d].incoming
      /\ \A k \in Device \ {d} : SessKept(k)
  BY <1>1, <1>2 DEF SessKept, Session
<1>4. /\ \A k \in Device \ {d} : disk'[k] = disk[k]
      /\ \A q \in Path : disk'[d][q] = IF q = p THEN Target(d, p) ELSE disk[d][q]
  BY <1>1, <1>2
<1>5. \A k \in Device \ {d} : Bystander(k)
  BY <1>1, <1>3, <1>4 DEF Bystander
<1>6. CalmAt(d)
  BY DEF CalmInv
<1>7. Directory \notin Payload => Target(d, p) # Directory
  <2>1. db[d].versions[p] # {} /\ db[d].versions[p] \in SUBSET Revision
    BY <1>1, AppliesHead DEF Inv, TypeOK, Index
  <2>2. Selected(db[d].versions[p]) \in db[d].versions[p]
    BY <2>1, SelectedIsBest
  <2>3. db[d].versions[p] \subseteq Revs(born[p])
    BY DEF RevInv, Held, DevicePath
  <2> QED
    BY <2>2, <2>3 DEF Target, Revs, CalmInv, CalmBounds
<1>8. CASE sess[d].phase = "chosen"
  <2>1. CalmAt(d)'
    <3>1. Directory \notin Payload => \A q \in Path : disk'[d][q] # Directory
      BY <1>4, <1>6, <1>7 DEF CalmAt
    <3>2. Choosing(d)' => AtomicChoose /\ Directory \notin Payload
      BY <1>3, <1>6, <1>8 DEF CalmAt, Choosing
    <3>3. disk'[d][p] = Target(d, p)'
      BY <1>1, <1>4 DEF Target
    <3> QED
      BY <1>1, <1>3, <1>6, <1>8, <3>1, <3>2, <3>3 DEF CalmAt
  <2>2. Resolved(d) \subseteq Resolved(d)'
    BY <1>1, <1>3, <1>6, <1>8 DEF Resolved, CalmAt, Applies
  <2> QED
    BY <1>1, <1>3, <1>5, <2>1, <2>2, QuietStep DEF RevInv
<1>9. CASE sess[d].phase = "applying"
  <2>1. CalmAt(d)'
    <3>1. Directory \notin Payload => \A q \in Path : disk'[d][q] # Directory
      BY <1>4, <1>6, <1>7 DEF CalmAt
    <3>2. Choosing(d)' => AtomicChoose /\ Directory \notin Payload
      BY <1>3, <1>6, <1>9 DEF CalmAt, Choosing
    <3>3. disk'[d][p] = Target(d, p)'
      BY <1>1, <1>4 DEF Target
    <3> QED
      BY <1>1, <1>3, <1>6, <1>9, <3>1, <3>2, <3>3 DEF CalmAt
  <2>2. Resolved(d) = {}
    BY <1>9 DEF Resolved
  <2> QED
    BY <1>1, <1>3, <1>5, <2>1, <2>2, QuietStep DEF RevInv
<1> QED
  BY <1>1, <1>8, <1>9 DEF Applies

-----------------------------------------------------------------------------
(* Steps that write an index and make no revision                             *)

(* One index is replaced. *)
LEMMA OneIndexWritten ==
    ASSUME Inv, NEW d \in Device, NEW y, db' = [db EXCEPT ![d] = y]
    PROVE  db'[d] = y /\ \A e \in Device \ {d} : db'[e] = db[e]
BY DEF Inv, TypeOK

LEMMA MovedOK ==
    ASSUME Inv, NEW d \in Device, NEW phase, Goto(d, phase)
    PROVE  /\ sess'[d].phase = phase /\ sess'[d].peer = sess[d].peer
           /\ sess'[d].path = sess[d].path /\ sess'[d].incoming = sess[d].incoming
           /\ \A e \in Device \ {d} : SessKept(e)
BY DEF Goto, Inv, TypeOK, Session, SessKept

(* The cursors and the recovery flag are beside the rows. *)
SameRows(x, y) ==
    /\ y.versions = x.versions /\ y.observed = x.observed /\ y.history = x.history
    /\ y.materialized = x.materialized /\ y.epoch = x.epoch

LEMMA AsideCalm ==
    ASSUME Inv, RevInv, CalmInv, NEW d \in Device, NEW y,
           db' = [db EXCEPT ![d] = y], SameRows(db[d], y),
           UNCHANGED <<disk, saved, born, budget>>,
           \A e \in Device \ {d} : SessKept(e),
           Resolved(d) = {}, Received(born, sess'[d].incoming), CalmAt(d)'
    PROVE  RevInv' /\ CalmInv'
<1>1. db'[d] = y /\ \A e \in Device \ {d} : db'[e] = db[e]
  BY OneIndexWritten
<1>2. \A e \in Device \ {d} : Bystander(e)
  BY <1>1 DEF Bystander
<1>3. Held(born, d, y, Resolved(d))
  BY DEF RevInv, Held, SameRows
<1>4. Held(born', d, db'[d], Resolved(d)')
  BY <1>1, <1>3, HeldMore
<1>5. Grows(born, born', ReplicaOf(d))
  BY NoGrowth DEF RevInv
<1>6. db'[d].epoch = db[d].epoch
  BY <1>1 DEF SameRows
<1>7. CalmBounds'
  BY DEF CalmInv, CalmBounds
<1> QED
  BY <1>2, <1>4, <1>5, <1>6, <1>7, DeviceStep

LEMMA CalmApplied ==
    ASSUME Inv, RevInv, CalmInv, NEW d \in Device, Applied(d)
    PROVE  RevInv' /\ CalmInv'
<1> DEFINE y == [db[d] EXCEPT !.recovering = FALSE]
<1>1. /\ sess[d].phase = "applying" /\ SayApplied(d)
      /\ UNCHANGED <<disk, objects, mode, saved, born, budget>>
      /\ db' = [db EXCEPT ![d] = y]
  BY DEF Applied
<1>2. SameRows(db[d], y)
  BY DEF Inv, TypeOK, Index, SameRows
<1>3. CalmAt(d)' /\ Resolved(d) = {}
  BY <1>1, SaidApplied DEF CalmInv, CalmAt, Choosing, Resolved
<1>4. Received(born, sess'[d].incoming) /\ \A e \in Device \ {d} : SessKept(e)
  BY <1>1, SaidApplied DEF RevInv
<1> HIDE DEF y
<1> QED
  BY <1>1, <1>2, <1>3, <1>4, AsideCalm

LEMMA CalmSetCursor ==
    ASSUME Inv, RevInv, CalmInv, NEW d \in Device, SetCursor(d)
    PROVE  RevInv' /\ CalmInv'
<1> DEFINE y == [db[d] EXCEPT !.cursor[sess[d].peer] = sess[d].remote]
<1>1. /\ sess[d].phase = "applied" /\ End(d)
      /\ UNCHANGED <<disk, objects, mode, saved, born, budget>>
      /\ db' = [db EXCEPT ![d] = y]
  BY DEF SetCursor, CursorDue
<1>2. SameRows(db[d], y)
  BY DEF Inv, TypeOK, Index, SameRows
<1>3. sess'[d] = NoSession(d) /\ \A e \in Device \ {d} : SessKept(e)
  BY <1>1, OneSession DEF End
<1>4. CalmAt(d)' /\ Received(born, sess'[d].incoming)
  BY <1>1, <1>3, EndedCalm DEF CalmInv, CalmAt
<1>5. Resolved(d) = {}
  BY <1>1 DEF Resolved
<1> HIDE DEF y
<1> QED
  BY <1>1, <1>2, <1>3, <1>4, <1>5, AsideCalm

LEMMA CalmActivate ==
    ASSUME Inv, RevInv, CalmInv, NEW d \in Device, NEW offline \in BOOLEAN, Activate(d, offline)
    PROVE  RevInv' /\ CalmInv'
<1> DEFINE y == [db[d] EXCEPT !.recovering = @ /\ ~offline]
<1>1. /\ sess[d].phase = "idle" /\ UNCHANGED <<disk, objects, sess, saved, born, budget>>
      /\ db' = [db EXCEPT ![d] = y]
  BY DEF Activate, Idle
<1>2. SameRows(db[d], y)
  BY DEF Inv, TypeOK, Index, SameRows
<1>3. /\ \A e \in Device : SessKept(e)
      /\ Resolved(d) = {} /\ Received(born, sess'[d].incoming)
  BY <1>1 DEF SessKept, Resolved, RevInv
<1>4. CalmAt(d)'
  BY <1>1 DEF CalmInv, CalmAt, Choosing
<1> HIDE DEF y
<1> QED
  BY <1>1, <1>2, <1>3, <1>4, AsideCalm

LEMMA CalmBackup ==
    ASSUME Inv, RevInv, CalmInv, NEW d \in Device, Backup(d)
    PROVE  RevInv' /\ CalmInv'
<1>1. /\ UNCHANGED <<disk, db, objects, mode, sess, born, budget>>
      /\ saved' = [saved EXCEPT ![d] = {[index |-> db[d], mode |-> mode[d]]}]
  BY DEF Backup
<1>2. \A e \in Device : \A s \in saved'[e] : s \in saved[e] \/ s.index = db[e]
  BY <1>1 DEF Inv, TypeOK
<1>3. \A e \in Device : HeldOnce(born, db[e])
  <2> SUFFICES ASSUME NEW e \in Device, NEW p \in Path
               PROVE  /\ db[e].history[p] \subseteq Revs(born[p])
                      /\ db[e].versions[p] \subseteq db[e].history[p]
                      /\ db[e].observed[p] \subseteq Revs(born[p])
                      /\ \A h, k \in db[e].versions[p] : ~Before(h.clock, k.clock)
                      /\ db[e].materialized[p] # Deleted =>
                            \E h \in db[e].history[p] : h.content = db[e].materialized[p]
    BY DEF HeldOnce
  <2> QED
    BY DEF RevInv, Held, DevicePath
<1>4. \A e \in Device : \A s \in saved'[e] : HeldOnce(born, s.index)
  BY <1>2, <1>3 DEF RevInv
<1>5. \A e \in Device : Resolved(e)' = Resolved(e)
  BY <1>1 DEF Resolved
<1>6. RevInv'
  BY <1>1, <1>4, <1>5 DEF RevInv
<1>7. CalmBounds' /\ \A e \in Device : CalmAt(e)'
  BY <1>1 DEF CalmInv, CalmBounds, CalmAt, Choosing, DiskKept, Target
<1> QED
  BY <1>6, <1>7 DEF CalmInv

LEMMA CalmAcknowledge ==
    ASSUME Inv, RevInv, CalmInv, NEW d \in Device, Acknowledge(d)
    PROVE  RevInv' /\ CalmInv'
<1> DEFINE p   == sess[d].path
           x   == db[d]
           row == Row(x.versions[p], Target(d, p), x.versions[p], p \in x.pending, {})
           y   == SaveRow(x, p, row)
<1>1. /\ sess[d].phase = "published" /\ UNCHANGED <<disk, objects, mode, saved, born, budget>>
      /\ db' = [db EXCEPT ![d] = y]
      /\ IF sess[d].peer = d THEN End(d) ELSE Goto(d, "applying")
  BY DEF Acknowledge, Acknowledged
<1>2. x \in Index /\ p \in Path
  BY DEF Inv, TypeOK, Session
<1>3. \E h \in x.versions[p] : h.content = Target(d, p)
  <2>1. x.versions[p] # {} /\ x.versions[p] \in SUBSET Revision
    BY <1>1, <1>2 DEF Inv, SessionReady, Index
  <2> QED
    BY <2>1, SelectedIsBest DEF Target
<1>4. /\ y.versions[p] = x.versions[p] /\ y.observed[p] = x.versions[p]
      /\ y.materialized[p] = Target(d, p)
      /\ y.history[p] = x.history[p] \cup (x.versions[p] \cup x.versions[p])
      /\ \A q \in Path \ {p} :
            /\ y.versions[q] = x.versions[q] /\ y.observed[q] = x.observed[q]
            /\ y.history[q] = x.history[q] \cup x.versions[q]
            /\ y.materialized[q] = x.materialized[q]
  <2>1. /\ row.versions = x.versions[p] /\ row.observed = x.versions[p]
        /\ row.materialized = Target(d, p)
    BY DEF Row
  <2> HIDE DEF row, x, p
  <2> QED
    BY <1>2, <2>1, SaveRowParts
<1>5. y.epoch = x.epoch
  BY <1>2, SaveEpoch DEF SaveRow
<1>6. \A q \in Path : q \in Resolved(d) => q = p
  BY DEF Resolved
<1> HIDE DEF y, row, p
<1>7. Held(born, d, y, {})
  <2> SUFFICES ASSUME NEW q \in Path
               PROVE  DevicePath(born[q], <<d, y.epoch>>, y.versions[q], y.observed[q],
                                 y.history[q], y.materialized[q], FALSE)
    BY DEF Held, DevicePath
  <2>1. DevicePath(born[q], <<d, x.epoch>>, x.versions[q], x.observed[q],
                   x.history[q], x.materialized[q], q \in Resolved(d))
    BY DEF RevInv, Held
  <2>2. CASE q = p
    BY <1>3, <1>4, <1>5, <2>1, <2>2 DEF DevicePath
  <2>3. CASE q # p
    BY <1>4, <1>5, <1>6, <2>1, <2>3 DEF DevicePath
  <2> QED
    BY <2>2, <2>3
<1>8. CalmAt(d)' /\ Received(born, sess'[d].incoming) /\ \A e \in Device \ {d} : SessKept(e)
  <2>1. CASE End(d)
    <3>1. sess'[d] = NoSession(d) /\ \A e \in Device \ {d} : SessKept(e)
      BY <2>1, OneSession DEF End
    <3> QED
      BY <1>1, <3>1, EndedCalm DEF CalmInv, CalmAt
  <2>2. CASE Goto(d, "applying") /\ sess[d].peer # d
    BY <1>1, <2>2, MovedOK DEF CalmInv, CalmAt, Choosing, RevInv
  <2> QED
    BY <1>1, <2>1, <2>2
<1>9. db'[d] = y /\ \A e \in Device \ {d} : db'[e] = db[e]
  BY <1>1, OneIndexWritten
<1>10. \A e \in Device \ {d} : Bystander(e)
  BY <1>1, <1>8, <1>9 DEF Bystander
<1>11. Held(born', d, db'[d], Resolved(d)')
  BY <1>1, <1>7, <1>9, HeldMore
<1>12. Grows(born, born', ReplicaOf(d)) /\ CalmBounds'
  BY <1>1, NoGrowth DEF RevInv, CalmInv, CalmBounds
<1>13. db'[d].epoch = db[d].epoch
  BY <1>5, <1>9
<1> HIDE DEF x
<1> QED
  BY <1>1, <1>8, <1>10, <1>11, <1>12, <1>13, DeviceStep

-----------------------------------------------------------------------------
(* Steps that scan                                                            *)

LEMMA RecordGrowth ==
    ASSUME Inv, NEW d \in Device, NEW row, Record(d, db[d], row)
    PROVE  \A p \in Path :
              born'[p] = born[p] \cup BirthsIn(born[p], ReplicaOf(d), row[p].made)
BY BirthsAre DEF Record, ReplicaOf

(* No folder shows a directory if applications create none. *)
LEMMA NoDirectoryMade ==
    ASSUME CalmInv, NEW d \in Device, NEW C, MadeAs(born, C, disk[d])
    PROVE  Directory \notin Payload =>
              \A p \in Path : \A b \in C[p] : b.rev.content # Directory
BY DEF CalmInv, CalmBounds, CalmAt, MadeAs

LEMMA ScanCalm ==
    ASSUME Inv, RevInv, CalmInv, NEW d \in Device, Resolved(d) = {},
           NEW approve \in BOOLEAN, CanScan(db[d], d, disk[d], approve),
           NEW row, row = ScanRows(db[d], d, disk[d], approve),
           NEW C, \A p \in Path :
                     C[p] = born[p] \cup BirthsIn(born[p], ReplicaOf(d), row[p].made)
    PROVE  /\ Grows(born, C, ReplicaOf(d))
           /\ Held(C, d, Save(db[d], row), {})
           /\ DiskKept(disk[d], Save(db[d], row))
           /\ MadeAs(born, C, disk[d])
           /\ Save(db[d], row).epoch = db[d].epoch
<1>1. db[d] \in Index /\ disk[d] \in [Path -> Content]
  BY DEF Inv, TypeOK
<1>2. Past(born) /\ Held(born, d, db[d], {})
  BY DEF RevInv
<1>3. Save(db[d], row).epoch = db[d].epoch
  BY <1>1, SaveEpoch
<1> QED
  BY <1>1, <1>2, <1>3, ScanHeld DEF ReplicaOf

LEMMA OpenCalm ==
    ASSUME Inv, RevInv, CalmInv, NEW d \in Device, Resolved(d) = {}, CanOpen(d),
           NEW C, \A p \in Path :
                     C[p] = born[p] \cup BirthsIn(born[p], ReplicaOf(d), OpenRows(d)[p].made)
    PROVE  /\ Grows(born, C, ReplicaOf(d))
           /\ Held(C, d, Opened(d), {})
           /\ MadeAs(born, C, disk[d])
           /\ Opened(d).epoch = db[d].epoch
<1>1. Past(born) /\ Held(born, d, db[d], {})
  BY DEF RevInv
<1>2. Opened(d).epoch = db[d].epoch
  BY SaveEpoch DEF Opened, Inv, TypeOK
<1> QED
  BY <1>1, <1>2, OpenHeld

LEMMA CalmScan ==
    ASSUME Inv, RevInv, CalmInv, NEW d \in Device, NEW approve \in BOOLEAN, Scan(d, approve)
    PROVE  RevInv' /\ CalmInv'
<1> DEFINE row == ScanRows(db[d], d, disk[d], approve)
<1>1. sess[d].phase = "idle" /\ UNCHANGED <<disk, mode, sess, saved, budget>>
  BY DEF Scan, Idle
<1>2. Resolved(d) = {} /\ CalmAt(d) /\ \A e \in Device : SessKept(e)
  BY <1>1 DEF Resolved, CalmInv, SessKept
<1>3. CalmAt(d)' /\ Received(born, sess'[d].incoming)
  BY <1>1, <1>2 DEF CalmAt, Choosing, RevInv
<1>4. CASE ~CanScan(db[d], d, disk[d], approve)
  <2>1. UNCHANGED <<db, born>>
    BY <1>4 DEF Scan
  <2>2. \A e \in Device \ {d} : Bystander(e)
    BY <1>1, <1>2, <2>1 DEF Bystander
  <2> QED
    BY <1>1, <1>2, <1>3, <2>1, <2>2, QuietStep
<1>5. CASE CanScan(db[d], d, disk[d], approve)
  <2>1. db' = [db EXCEPT ![d] = Save(db[d], row)] /\ Record(d, db[d], row)
    BY <1>5 DEF Scan
  <2>2. \A p \in Path : born'[p] = born[p] \cup BirthsIn(born[p], ReplicaOf(d), row[p].made)
    BY <2>1, RecordGrowth
  <2>3. /\ Grows(born, born', ReplicaOf(d))
        /\ Held(born', d, Save(db[d], row), {})
        /\ MadeAs(born, born', disk[d])
        /\ Save(db[d], row).epoch = db[d].epoch
    BY <1>2, <1>5, <2>2, ScanCalm
  <2> HIDE DEF row
  <2>4. db'[d] = Save(db[d], row) /\ \A e \in Device \ {d} : db'[e] = db[e]
    BY <2>1, OneIndexWritten
  <2>5. \A e \in Device \ {d} : Bystander(e)
    BY <1>1, <1>2, <2>4 DEF Bystander
  <2>6. Held(born', d, db'[d], Resolved(d)')
    BY <2>3, <2>4, HeldMore
  <2>7. CalmBounds'
    BY <1>1, <2>3, NoDirectoryMade DEF CalmInv, CalmBounds
  <2>8. Received(born', sess'[d].incoming)
    BY <1>3, <2>3, GrowsKept DEF RevInv
  <2>9. db'[d].epoch = db[d].epoch
    BY <2>3, <2>4
  <2> QED
    BY <1>1, <1>3, <2>3, <2>5, <2>6, <2>7, <2>8, <2>9, DeviceStep
<1> QED
  BY <1>4, <1>5

LEMMA CalmChooseScan ==
    ASSUME Calm, Inv, RevInv, CalmInv, NEW d \in Device, ChooseScan(d)
    PROVE  RevInv' /\ CalmInv'
<1> DEFINE row == ScanRows(db[d], d, disk[d], FALSE)
<1>1. /\ sess[d].phase = "idle" /\ UNCHANGED <<disk, mode, saved>>
      /\ CanScan(db[d], d, disk[d], FALSE) /\ Goto(d, "choosing")
      /\ db' = [db EXCEPT ![d] = Save(db[d], row)] /\ Record(d, db[d], row)
      /\ budget["choices"] > 0
  BY DEF ChooseScan, Idle, Spend
<1>2. Resolved(d) = {} /\ CalmAt(d)
  BY <1>1 DEF Resolved, CalmInv
<1>3. AtomicChoose /\ Directory \notin Payload /\ MaxChoices # 0
  BY <1>1 DEF Calm, CalmInv, CalmBounds
<1>4. \A p \in Path : born'[p] = born[p] \cup BirthsIn(born[p], ReplicaOf(d), row[p].made)
  BY <1>1, RecordGrowth
<1>5. /\ Grows(born, born', ReplicaOf(d))
      /\ Held(born', d, Save(db[d], row), {})
      /\ DiskKept(disk[d], Save(db[d], row))
      /\ MadeAs(born, born', disk[d])
      /\ Save(db[d], row).epoch = db[d].epoch
  BY <1>1, <1>2, <1>4, ScanCalm
<1> HIDE DEF row
<1>6. db'[d] = Save(db[d], row) /\ \A e \in Device \ {d} : db'[e] = db[e]
  BY <1>1, OneIndexWritten
<1>7. /\ sess'[d].phase = "choosing" /\ sess'[d].peer = sess[d].peer
      /\ sess'[d].incoming = sess[d].incoming
      /\ \A e \in Device \ {d} : SessKept(e)
  BY <1>1, MovedOK
<1>8. \A e \in Device \ {d} : Bystander(e)
  BY <1>1, <1>6, <1>7 DEF Bystander
<1>9. Held(born', d, db'[d], Resolved(d)')
  BY <1>5, <1>6, HeldMore
<1>10. CalmBounds'
  BY <1>3, <1>5, NoDirectoryMade DEF CalmBounds
<1>11. Received(born', sess'[d].incoming)
  BY <1>5, <1>7, GrowsKept DEF RevInv
<1>12. CalmAt(d)'
  BY <1>1, <1>2, <1>3, <1>5, <1>6, <1>7 DEF CalmAt, Choosing
<1>13. db'[d].epoch = db[d].epoch
  BY <1>5, <1>6
<1> QED
  BY <1>1, <1>5, <1>8, <1>9, <1>10, <1>11, <1>12, <1>13, DeviceStep

(* A session goes on, or ends, with an index that has scanned. *)
LEMMA ScannedStep ==
    ASSUME Inv, RevInv, CalmInv, NEW d \in Device, NEW y,
           db' = [db EXCEPT ![d] = y], y.epoch = db[d].epoch,
           Grows(born, born', ReplicaOf(d)), MadeAs(born, born', disk[d]),
           Held(born', d, y, {}),
           UNCHANGED <<disk, saved, budget>>,
           \/ End(d)
           \/ /\ sess[d].peer # d
              /\ \E phase \in {"rescan", "applying"} : Goto(d, phase)
    PROVE  RevInv' /\ CalmInv'
<1>1. db'[d] = y /\ \A e \in Device \ {d} : db'[e] = db[e]
  BY OneIndexWritten
<1>2. /\ \A e \in Device \ {d} : SessKept(e)
      /\ CalmAt(d)' /\ Received(born, sess'[d].incoming)
  <2>1. CASE End(d)
    <3>1. sess'[d] = NoSession(d) /\ \A e \in Device \ {d} : SessKept(e)
      BY <2>1, OneSession DEF End
    <3> QED
      BY <3>1, EndedCalm DEF CalmInv, CalmAt
  <2>2. ASSUME sess[d].peer # d, NEW phase \in {"rescan", "applying"}, Goto(d, phase)
        PROVE  /\ \A e \in Device \ {d} : SessKept(e)
               /\ CalmAt(d)' /\ Received(born, sess'[d].incoming)
    BY <2>2, MovedOK DEF CalmInv, CalmAt, Choosing, RevInv
  <2> QED
    BY <2>1, <2>2
<1>3. \A e \in Device \ {d} : Bystander(e)
  BY <1>1, <1>2 DEF Bystander
<1>4. Held(born', d, db'[d], Resolved(d)')
  BY <1>1, HeldMore
<1>5. CalmBounds'
  BY NoDirectoryMade DEF CalmInv, CalmBounds
<1>6. Received(born', sess'[d].incoming)
  BY <1>2, GrowsKept DEF RevInv
<1>7. db'[d].epoch = db[d].epoch
  BY <1>1
<1> QED
  BY <1>2, <1>3, <1>4, <1>5, <1>6, <1>7, DeviceStep

LEMMA CalmRescan ==
    ASSUME Inv, RevInv, CalmInv, NEW d \in Device, Rescan(d)
    PROVE  RevInv' /\ CalmInv'
<1> DEFINE row == ScanRows(db[d], d, disk[d], FALSE)
<1>1. sess[d].phase = "rescan" /\ UNCHANGED <<disk, mode, saved, budget>>
  BY DEF Rescan
<1>2. Resolved(d) = {} /\ sess[d].peer # d
  BY <1>1 DEF Resolved, CalmInv, CalmAt
<1>3. CASE ~CanScan(db[d], d, disk[d], FALSE)
  BY <1>1, <1>2, <1>3, QuietEnd DEF Rescan
<1>4. CASE CanScan(db[d], d, disk[d], FALSE)
  <2>1. /\ db' = [db EXCEPT ![d] = Save(db[d], row)] /\ Record(d, db[d], row)
        /\ Goto(d, "applying")
    BY <1>4 DEF Rescan
  <2>2. \A p \in Path : born'[p] = born[p] \cup BirthsIn(born[p], ReplicaOf(d), row[p].made)
    BY <2>1, RecordGrowth
  <2>3. /\ Grows(born, born', ReplicaOf(d))
        /\ Held(born', d, Save(db[d], row), {})
        /\ MadeAs(born, born', disk[d])
        /\ Save(db[d], row).epoch = db[d].epoch
    BY <1>2, <1>4, <2>2, ScanCalm
  <2> HIDE DEF row
  <2> QED
    BY <1>1, <1>2, <2>1, <2>3, ScannedStep
<1> QED
  BY <1>3, <1>4

LEMMA CalmCommitRefused ==
    ASSUME Inv, RevInv, CalmInv, NEW d \in Device, CommitRefused(d)
    PROVE  RevInv' /\ CalmInv'
<1>1. sess[d].phase = "pulled" /\ End(d) /\ UNCHANGED <<disk, mode, saved, budget>>
  BY DEF CommitRefused, ReadyToCommit
<1>2. Resolved(d) = {}
  BY <1>1 DEF Resolved
<1>3. CASE ~CanOpen(d)
  BY <1>1, <1>2, <1>3, QuietEnd DEF CommitRefused
<1>4. CASE CanOpen(d)
  <2>1. db' = [db EXCEPT ![d] = Opened(d)] /\ Record(d, db[d], OpenRows(d))
    BY <1>4 DEF CommitRefused
  <2>2. \A p \in Path :
           born'[p] = born[p] \cup BirthsIn(born[p], ReplicaOf(d), OpenRows(d)[p].made)
    BY <2>1, RecordGrowth
  <2>3. /\ Grows(born, born', ReplicaOf(d))
        /\ Held(born', d, Opened(d), {})
        /\ MadeAs(born, born', disk[d])
        /\ Opened(d).epoch = db[d].epoch
    BY <1>2, <1>4, <2>2, OpenCalm
  <2> QED
    BY <1>1, <2>1, <2>3, ScannedStep
<1> QED
  BY <1>3, <1>4

LEMMA JoinHeld ==
    ASSUME NEW x \in Index, Whole(x), NEW d \in Device, NEW B, Past(B), Held(B, d, x, {}),
           NEW incoming, Received(B, incoming), \A p \in Path : IsFiniteSet(incoming[p]),
           NEW row, \A p \in Path : row[p] = JoinRow(x, p, incoming[p])
    PROVE  Held(B, d, Save(x, row), {})
<1> DEFINE y == Save(x, row)
<1>1. \A p \in Path : /\ y.versions[p] = row[p].versions
                      /\ y.history[p] = x.history[p] \cup (x.versions[p] \cup row[p].versions)
                      /\ y.observed[p] = row[p].observed
                      /\ y.materialized[p] = row[p].materialized
  BY SaveParts
<1>2. y.epoch = x.epoch
  BY SaveEpoch
<1> HIDE DEF y
<1> SUFFICES ASSUME NEW p \in Path
             PROVE  DevicePath(B[p], <<d, y.epoch>>, y.versions[p], y.observed[p],
                               y.history[p], y.materialized[p], FALSE)
  BY DEF Held, DevicePath, y
<1> DEFINE V == x.versions[p]
           O == x.observed[p]
           K == x.history[p]
           M == x.materialized[p]
           H == incoming[p]
           r == <<d, x.epoch>>
<1>3. /\ row[p].versions = (IF H = {} THEN V ELSE Join(V, H))
      /\ row[p].observed = O /\ row[p].materialized = M
  <2>1. Stored(x, p) = Row(V, M, O, p \in x.pending, {})
    BY DEF Stored
  <2> HIDE DEF V, O, M
  <2>2. CASE H = {}
    <3>1. row[p] = Row(V, M, O, p \in x.pending, {})
      BY <2>1, <2>2 DEF JoinRow
    <3> QED
      BY <2>2, <3>1 DEF Row
  <2>3. CASE H # {}
    <3>1. row[p] = [Row(V, M, O, p \in x.pending, {}) EXCEPT !.versions = Join(@, H)]
      BY <2>1, <2>3 DEF JoinRow
    <3> QED
      BY <2>3, <3>1 DEF Row
  <2> QED
    BY <2>2, <2>3
<1>4. r \in Replica /\ IsFiniteSet(V) /\ IsFiniteSet(H)
  BY ReplicaOK DEF Whole
<1>5. B[p] \in SUBSET Birth /\ H \in SUBSET Revs(B[p])
  BY DEF Past, Received
<1>6. DevicePath(B[p], r, V, O, K, M, FALSE)
  BY DEF Held, DevicePath
<1>7. /\ y.versions[p] = (IF H = {} THEN V ELSE Join(V, H))
      /\ y.observed[p] = O /\ y.materialized[p] = M
      /\ y.history[p] = K \cup (V \cup (IF H = {} THEN V ELSE Join(V, H)))
      /\ <<d, y.epoch>> = r
  BY <1>1, <1>2, <1>3
<1> HIDE DEF V, O, K, M, H, r
<1>8. DevicePath(B[p], r, V, O, K \cup (V \cup V), M, FALSE)
  BY <1>6, PathKept
<1>9. DevicePath(B[p], r, Join(V, H), O, K \cup (V \cup Join(V, H)), M, FALSE)
  BY <1>4, <1>5, <1>6, PathJoined
<1> QED
  BY <1>7, <1>8, <1>9

LEMMA CalmCommit ==
    ASSUME Inv, RevInv, CalmInv, NEW d \in Device, Commit(d)
    PROVE  RevInv' /\ CalmInv'
<1> DEFINE x   == Opened(d)
           row == [p \in Path |-> JoinRow(x, p, sess[d].incoming[p])]
<1>1. /\ sess[d].phase = "pulled" /\ CanOpen(d) /\ UNCHANGED <<disk, mode, saved, budget>>
      /\ db' = [db EXCEPT ![d] = Save(x, row)]
      /\ Record(d, db[d], OpenRows(d))
      /\ \E phase \in {"rescan", "applying"} : Goto(d, phase)
  BY DEF Commit, ReadyToCommit
<1>2. Resolved(d) = {} /\ sess[d].peer # d
  BY <1>1 DEF Resolved, CalmInv, CalmAt
<1>3. \A p \in Path :
         born'[p] = born[p] \cup BirthsIn(born[p], ReplicaOf(d), OpenRows(d)[p].made)
  BY <1>1, RecordGrowth
<1>4. /\ Grows(born, born', ReplicaOf(d)) /\ MadeAs(born, born', disk[d])
      /\ Held(born', d, x, {}) /\ x.epoch = db[d].epoch
  BY <1>1, <1>2, <1>3, OpenCalm
<1>5. x \in Index /\ Whole(x)
  BY <1>1, OpenRowsOK DEF Inv, TypeOK, Grown
<1>6. Past(born') /\ Received(born', sess[d].incoming)
  BY <1>4, GrowsPast, GrowsKept DEF RevInv
<1>7. \A p \in Path : IsFiniteSet(sess[d].incoming[p])
  BY DEF Inv, SessionReady
<1>8. \A p \in Path : row[p] = JoinRow(x, p, sess[d].incoming[p])
  OBVIOUS
<1> HIDE DEF x, row
<1>9. Held(born', d, Save(x, row), {}) /\ Save(x, row).epoch = db[d].epoch
  BY <1>4, <1>5, <1>6, <1>7, <1>8, JoinHeld, SaveEpoch
<1> QED
  BY <1>1, <1>2, <1>4, <1>9, ScannedStep

(* A path that the step does not touch: its heads are kept once more. *)
LEMMA PathAside ==
    ASSUME NEW B, NEW r, NEW V, NEW O, NEW K, NEW content, NEW resolving,
           DevicePath(B, r, V, O, K, content, resolving)
    PROVE  DevicePath(B, r, V, O, K \cup V, content, resolving)
BY DEF DevicePath

LEMMA CalmChooseCommit ==
    ASSUME Inv, RevInv, CalmInv, NEW d \in Device, NEW p \in Path,
           NEW chosen \in db[d].versions[p] \cup db[d].history[p],
           ChooseCommit(d, p, chosen)
    PROVE  RevInv' /\ CalmInv'
<1> DEFINE x    == db[d]
           r    == <<d, x.epoch>>
           V    == x.versions[p]
           O    == x.observed[p]
           K    == x.history[p]
           M    == x.materialized[p]
           B    == born[p]
           made == Made(x, d, V, chosen.content)
           row  == Row({made.rev}, disk[d][p], O, FALSE, {made})
           rows == [q \in Path |-> IF q = p THEN row ELSE Stored(x, q)]
           y    == SaveRow(x, p, row)
<1>1. /\ sess[d].phase = "choosing" /\ CanEdit(V, r)
      /\ db' = [db EXCEPT ![d] = y] /\ Record(d, x, rows)
      /\ Turn(d, "chosen", p)
      /\ UNCHANGED <<disk, objects, mode, saved, budget>>
  BY DEF ChooseCommit, ReplicaOf, Turn
<1>2. /\ CalmAt(d) /\ sess[d].peer = d /\ DiskKept(disk[d], x)
      /\ AtomicChoose /\ Directory \notin Payload /\ Resolved(d) = {}
  BY <1>1 DEF CalmInv, CalmAt, Choosing, Resolved
<1>3. x \in Index /\ r \in Replica /\ B \in SUBSET Birth /\ Causal(B)
  BY ReplicaOK DEF Inv, TypeOK, RevInv, Past
<1>4. DevicePath(B, r, V, O, K, M, FALSE)
  BY <1>2 DEF RevInv, Held, DevicePath
<1>5. V \in SUBSET Revs(B) /\ Top(B, r, V) /\ chosen \in Revs(B)
  BY <1>4 DEF DevicePath
<1>6. chosen \in Revision /\ chosen.content \in Content
  BY <1>3, <1>5, RevsOK DEF Revision
<1>7. PICK e \in Revision : Adds(B, r, V, chosen.content, e)
  BY <1>1, <1>3, <1>5, <1>6, EditBirth
<1>8. made = [rev |-> e, basis |-> V]
  BY <1>7 DEF Made, Adds
<1> DEFINE n == BirthOf(B, r, V, e)
<1>9. /\ n.rev = e /\ n.by = r /\ n \in Birth /\ NewBy(B, {n}, r) /\ e.content = chosen.content
      /\ \A b \in B : b.rev.clock[r] < e.clock[r]
  BY <1>7 DEF BirthOf, NewBy, Adds
<1>10. /\ row.versions = {e} /\ row.observed = O /\ row.materialized = disk[d][p]
       /\ row.made = {made}
  BY <1>8 DEF Row
<1>11. born'[p] = B \cup {n} /\ \A q \in Path \ {p} : born'[q] = born[q] \cup {}
  <2>1. \A q \in Path :
           born'[q] = born[q] \cup BirthsIn(born[q], r, rows[q].made)
    BY <1>1, RecordGrowth DEF ReplicaOf
  <2>2. \A q \in Path \ {p} : rows[q].made = {}
    BY DEF Stored, Row
  <2>3. BirthsIn(B, r, rows[p].made) = {n}
    <3>1. rows[p].made = {[rev |-> e, basis |-> V]}
      BY <1>8, <1>10
    <3> HIDE DEF rows
    <3> QED
      BY <3>1 DEF BirthsIn
  <2>4. \A q \in Path \ {p} : BirthsIn(born[q], r, rows[q].made) = {}
    <3> HIDE DEF rows
    <3> QED
      BY <2>2 DEF BirthsIn
  <2> QED
    BY <2>1, <2>3, <2>4
<1>12. /\ y.versions[p] = row.versions /\ y.observed[p] = row.observed
       /\ y.materialized[p] = row.materialized
       /\ y.history[p] = K \cup (V \cup row.versions)
       /\ \A q \in Path \ {p} :
             /\ y.versions[q] = x.versions[q] /\ y.observed[q] = x.observed[q]
             /\ y.history[q] = x.history[q] \cup x.versions[q]
             /\ y.materialized[q] = x.materialized[q]
  <2> HIDE DEF row, x
  <2> QED
    BY <1>3, SaveRowParts
<1>a. y.epoch = x.epoch
  BY <1>3, SaveEpoch
<1> HIDE DEF made, row, rows, y, n
<1>13. Grows(born, born', r)
  <2>1. NewBy(B, {n}, r) /\ \A q \in Path \ {p} : NewBy(born[q], {}, r)
    <3>1. \A q \in Path : born[q] \cup {} = born[q]
      OBVIOUS
    <3> QED
      BY <1>9, <3>1 DEF NewBy, RevInv, Past
  <2> QED
    BY <1>11, <2>1 DEF Grows
<1>14. disk[d][p] # Deleted => \E h \in K : h.content = disk[d][p]
  BY <1>2 DEF DiskKept
<1>15. DevicePath(B \cup {n}, r, {e}, O, K \cup (V \cup {e}), disk[d][p], TRUE)
  <2> HIDE DEF x, r, V, O, K, M, B
  <2> QED
    BY <1>3, <1>4, <1>9, <1>14, PathChosen
<1>16. /\ sess'[d].phase = "chosen" /\ sess'[d].path = p /\ sess'[d].peer = d
       /\ sess'[d].incoming = sess[d].incoming
       /\ \A k \in Device \ {d} : SessKept(k)
  BY <1>1, <1>2 DEF Turn, Inv, TypeOK, Session, SessKept
<1>17. Resolved(d)' = {p}
  BY <1>16 DEF Resolved
<1>18. db'[d] = y /\ \A k \in Device \ {d} : db'[k] = db[k]
  BY <1>1, OneIndexWritten
<1>19. Held(born', d, y, {p})
  <2> SUFFICES ASSUME NEW q \in Path
               PROVE  DevicePath(born'[q], <<d, y.epoch>>, y.versions[q], y.observed[q],
                                 y.history[q], y.materialized[q], q \in {p})
    BY DEF Held
  <2>1. CASE q = p
    <3>1. DevicePath(born'[p], <<d, y.epoch>>, y.versions[p], y.observed[p],
                     y.history[p], y.materialized[p], TRUE)
      BY <1>a, <1>10, <1>11, <1>12, <1>15
    <3> QED
      BY <2>1, <3>1 DEF DevicePath
  <2>2. CASE q # p
    <3>1. DevicePath(born[q], r, x.versions[q], x.observed[q], x.history[q],
                     x.materialized[q], q \in Resolved(d))
      BY DEF RevInv, Held
    <3>2. DevicePath(born[q], r, x.versions[q], x.observed[q], x.history[q] \cup x.versions[q],
                     x.materialized[q], q \in Resolved(d))
      BY <3>1, PathAside
    <3>3. born'[q] = born[q]
      BY <1>11, <2>2
    <3> QED
      BY <1>a, <1>2, <1>12, <2>2, <3>2, <3>3 DEF DevicePath
  <2> QED
    BY <2>1, <2>2
<1>20. \A k \in Device \ {d} : Bystander(k)
  BY <1>1, <1>16, <1>18 DEF Bystander
<1>21. Received(born', sess'[d].incoming)
  BY <1>13, <1>16, GrowsKept DEF RevInv
<1>22. CalmAt(d)'
  BY <1>1, <1>2, <1>10, <1>12, <1>16, <1>18 DEF CalmAt, Choosing
<1>23. CalmBounds'
  <2>1. n.rev.content # Directory
    BY <1>2, <1>5, <1>9 DEF CalmInv, CalmBounds, Revs
  <2>2. \A q \in Path : \A b \in born'[q] : b \in born[q] \/ b = n
    BY <1>11
  <2> QED
    BY <1>1, <2>1, <2>2 DEF CalmInv, CalmBounds
<1>24. db'[d].epoch = db[d].epoch
  BY <1>a, <1>12, <1>18
<1> HIDE DEF x
<1>25. Held(born', d, db'[d], Resolved(d)') /\ Grows(born, born', ReplicaOf(d))
  BY <1>13, <1>17, <1>18, <1>19 DEF ReplicaOf, x
<1> QED
  BY <1>1, <1>20, <1>21, <1>22, <1>23, <1>24, <1>25, DeviceStep

(* A path whose absence is held back made nothing. *)
LEMMA PendingMakesNothing ==
    ASSUME NEW x, NEW d, NEW p, NEW content, NEW approve,
           ScanRow(x, d, p, content, approve).pending
    PROVE  ScanRow(x, d, p, content, approve).made = {}
<1> DEFINE s == Stored(x, p)
           a == [s EXCEPT !.pending = FALSE]
           b == [s EXCEPT !.pending = TRUE]
<1>1. \/ ScanRow(x, d, p, content, approve) = Adopted(x, p, content)
      \/ ScanRow(x, d, p, content, approve) = Edited(x, d, p, content)
      \/ ScanRow(x, d, p, content, approve) = s
      \/ ScanRow(x, d, p, content, approve) = a
      \/ ScanRow(x, d, p, content, approve) = b
  BY DEF ScanRow, IsEdit
<1>2. s.made = {} /\ a.made = {} /\ b.made = {}
  BY DEF Stored, Row
<1>3. Adopted(x, p, content).pending = FALSE /\ Edited(x, d, p, content).pending = FALSE
  BY DEF Adopted, Edited, Row
<1> HIDE DEF s, a, b
<1> QED
  BY <1>1, <1>2, <1>3

LEMMA CalmApproveDeletion ==
    ASSUME Inv, RevInv, CalmInv, NEW d \in Device, NEW p \in Path, ApproveDeletion(d, p)
    PROVE  RevInv' /\ CalmInv'
<1> DEFINE row     == ScanRows(db[d], d, disk[d], FALSE)
           scanned == Save(db[d], row)
           deleted == Edited(scanned, d, p, Deleted)
           made    == [row EXCEPT ![p].made = deleted.made]
           y       == SaveRow(scanned, p, deleted)
           C       == [q \in Path |-> born[q] \cup BirthsIn(born[q], ReplicaOf(d), row[q].made)]
           r       == ReplicaOf(d)
<1>1. /\ sess[d].phase = "idle" /\ CanScan(db[d], d, disk[d], FALSE)
      /\ p \in scanned.pending /\ CanEdit(scanned.observed[p], r)
      /\ db' = [db EXCEPT ![d] = y] /\ Record(d, db[d], made)
      /\ UNCHANGED <<disk, mode, sess, saved, budget>>
  BY DEF ApproveDeletion, Idle
<1>2. Resolved(d) = {} /\ CalmAt(d)
  BY <1>1 DEF Resolved, CalmInv
<1>3. db[d] \in Index /\ Whole(db[d]) /\ disk[d] \in [Path -> Content]
  BY DEF Inv, TypeOK
<1>4. \A q \in Path : C[q] = born[q] \cup BirthsIn(born[q], ReplicaOf(d), row[q].made)
  OBVIOUS
<1> HIDE DEF C
<1>5. /\ Grows(born, C, r) /\ Held(C, d, scanned, {})
      /\ MadeAs(born, C, disk[d]) /\ scanned.epoch = db[d].epoch
  BY <1>1, <1>2, <1>4, ScanCalm
<1>6. scanned \in Index /\ r \in Replica
  BY <1>1, <1>3, ScanRowsOK, ReplicaOK DEF Grown, ReplicaOf
<1>7. \A q \in Path : made[q].made = IF q = p THEN deleted.made ELSE row[q].made
  <2>1. row[p] = ScanRow(db[d], d, p, disk[d][p], FALSE) /\ p \in DOMAIN row
    BY DEF ScanRows
  <2>2. "made" \in DOMAIN row[p]
    BY <2>1, ScanRowMakes
  <2> HIDE DEF row, deleted
  <2> QED
    BY <2>1, <2>2
<1>8. row[p].made = {}
  <2>1. row[p].pending
    BY <1>1, <1>3 DEF Save, Write, Index
  <2>2. row[p] = ScanRow(db[d], d, p, disk[d][p], FALSE)
    BY DEF ScanRows
  <2> HIDE DEF row, scanned, deleted
  <2> DEFINE w == row[p]
  <2>3. w.pending /\ w = ScanRow(db[d], d, p, disk[d][p], FALSE)
    BY <2>1, <2>2
  <2> HIDE DEF w
  <2>4. w.made = {}
    BY <2>3, PendingMakesNothing, Zenon
  <2> QED
    BY <2>4 DEF w
<1> DEFINE V == scanned.versions[p]
           O == scanned.observed[p]
           K == scanned.history[p]
           M == scanned.materialized[p]
           B == born[p]
<1>9. C[p] = B
  <2>1. BirthsIn(B, r, row[p].made) = {}
    BY <1>8 DEF BirthsIn
  <2> QED
    BY <1>4, <2>1
<1> HIDE DEF row, scanned, made
<1>10. r = <<d, scanned.epoch>> /\ B \in SUBSET Birth /\ Causal(B)
  BY <1>5 DEF ReplicaOf, RevInv, Past
<1>11. DevicePath(B, r, V, O, K, M, FALSE)
  <2>1. DevicePath(C[p], <<d, scanned.epoch>>, V, O, K, M, p \in {})
    BY <1>5 DEF Held
  <2> QED
    BY <1>9, <1>10, <2>1 DEF DevicePath
<1> HIDE DEF V, O, K, M, B, r
<1>12. PICK e \in Revision :
         /\ Edit(O, r, Deleted) = {e} /\ e \in Join(V, {e}) /\ e.content = Deleted
         /\ NewBy(B, {BirthOf(B, r, O, e)}, r)
         /\ DevicePath(B \cup {BirthOf(B, r, O, e)}, r, Join(V, {e}), {e},
                       K \cup (V \cup Join(V, {e})), Deleted, FALSE)
  <2>1. CanEdit(O, r)
    BY <1>1 DEF O, r
  <2>2. Deleted \in Content
    BY DEF Content
  <2> QED
    BY <1>6, <1>10, <1>11, <2>1, <2>2, EditPath
<1> DEFINE n == BirthOf(B, r, O, e)
<1>13. deleted = Row(Join(V, {e}), Deleted, {e}, FALSE, {[rev |-> e, basis |-> O]})
  <2>1. (CHOOSE k \in Edit(O, r, Deleted) : TRUE) = e
    BY <1>12
  <2> QED
    BY <1>10, <2>1 DEF Edited, Made, O, V
<1> HIDE DEF deleted
<1>14. /\ deleted.versions = Join(V, {e}) /\ deleted.observed = {e}
       /\ deleted.materialized = Deleted /\ deleted.made = {[rev |-> e, basis |-> O]}
  BY <1>13 DEF Row
<1>15. born'[p] = B \cup {n} /\ \A q \in Path \ {p} : born'[q] = C[q]
  <2>1. \A q \in Path : born'[q] = born[q] \cup BirthsIn(born[q], r, made[q].made)
    BY <1>1, RecordGrowth DEF r
  <2>2. BirthsIn(B, r, deleted.made) = {n}
    BY <1>14 DEF BirthsIn
  <2> QED
    BY <1>4, <1>7, <2>1, <2>2 DEF r, B
<1>16. /\ y.versions[p] = Join(V, {e}) /\ y.observed[p] = {e} /\ y.materialized[p] = Deleted
       /\ y.history[p] = K \cup (V \cup Join(V, {e}))
       /\ \A q \in Path \ {p} :
             /\ y.versions[q] = scanned.versions[q] /\ y.observed[q] = scanned.observed[q]
             /\ y.history[q] = scanned.history[q] \cup scanned.versions[q]
             /\ y.materialized[q] = scanned.materialized[q]
  <2>1. /\ y.versions[p] = deleted.versions /\ y.observed[p] = deleted.observed
        /\ y.materialized[p] = deleted.materialized
        /\ y.history[p] = scanned.history[p] \cup (scanned.versions[p] \cup deleted.versions)
        /\ \A q \in Path \ {p} :
              /\ y.versions[q] = scanned.versions[q] /\ y.observed[q] = scanned.observed[q]
              /\ y.history[q] = scanned.history[q] \cup scanned.versions[q]
              /\ y.materialized[q] = scanned.materialized[q]
    BY <1>6, SaveRowParts
  <2> HIDE DEF y
  <2> QED
    BY <1>14, <2>1 DEF K, V
<1>17. y.epoch = scanned.epoch
  BY <1>6, SaveEpoch
<1> HIDE DEF y, n
<1>18. Grows(born, born', r)
  <2> SUFFICES ASSUME NEW q \in Path
               PROVE  \E N : NewBy(born[q], N, r) /\ born'[q] = born[q] \cup N
    BY DEF Grows
  <2>1. CASE q = p
    BY <1>12, <1>15, <2>1 DEF n, B
  <2>2. CASE q # p
    BY <1>5, <1>15, <2>2 DEF Grows
  <2> QED
    BY <2>1, <2>2
<1>19. Held(born', d, y, {})
  <2> SUFFICES ASSUME NEW q \in Path
               PROVE  DevicePath(born'[q], r, y.versions[q], y.observed[q],
                                 y.history[q], y.materialized[q], FALSE)
    BY <1>10, <1>17 DEF Held, DevicePath
  <2>1. CASE q = p
    BY <1>12, <1>15, <1>16, <2>1 DEF n
  <2>2. CASE q # p
    <3>1. DevicePath(C[q], r, scanned.versions[q], scanned.observed[q],
                     scanned.history[q], scanned.materialized[q], FALSE)
      BY <1>5, <1>10 DEF Held, DevicePath
    <3>2. DevicePath(C[q], r, scanned.versions[q], scanned.observed[q],
                     scanned.history[q] \cup scanned.versions[q],
                     scanned.materialized[q], FALSE)
      BY <3>1, PathAside
    <3> QED
      BY <1>15, <1>16, <2>2, <3>2
  <2> QED
    BY <2>1, <2>2
<1>20. db'[d] = y /\ \A k \in Device \ {d} : db'[k] = db[k]
  BY <1>1, OneIndexWritten
<1>21. \A k \in Device \ {d} : Bystander(k)
  BY <1>1, <1>20 DEF Bystander, SessKept
<1>22. Received(born', sess'[d].incoming)
  BY <1>1, <1>18, GrowsKept DEF RevInv
<1>23. CalmAt(d)'
  BY <1>1, <1>2 DEF CalmAt, Choosing
<1>24. CalmBounds'
  <2>1. n.rev.content = Deleted /\ Deleted \notin {Directory}
    BY <1>12, ContentAssumption DEF n, BirthOf
  <2>2. \A q \in Path : \A b \in born'[q] : b \in C[q] \/ b = n
    BY <1>9, <1>15
  <2> QED
    BY <1>1, <1>5, <2>1, <2>2, NoDirectoryMade DEF CalmInv, CalmBounds
<1>25. Held(born', d, db'[d], Resolved(d)')
  BY <1>19, <1>20, HeldMore
<1>26. db'[d].epoch = db[d].epoch
  BY <1>5, <1>17, <1>20
<1> QED
  BY <1>1, <1>18, <1>21, <1>22, <1>23, <1>24, <1>25, <1>26, DeviceStep DEF r

-----------------------------------------------------------------------------
(* A session begins                                                           *)

(* Two devices make revisions at once. *)
LEMMA GrowsTwice ==
    ASSUME Inv, RevInv, NEW c \in Device, NEW s \in Device, c # s,
           NEW C, Grows(born, C, ReplicaOf(c)), Grows(C, born', ReplicaOf(s)),
           NEW e \in Device
    PROVE  /\ Fresh(born', e, db[e].epoch)
           /\ e \notin {c, s} => Held(born', e, db[e], Resolved(e))
           /\ Received(born', sess[e].incoming)
           /\ \A t \in saved[e] : HeldOnce(born', t.index)
<1>1. db[e] \in Index /\ db[e].epoch \in Epoch /\ db[c].epoch \in Epoch /\ db[s].epoch \in Epoch
  BY DEF Inv, TypeOK, Index
<1>2. Past(born) /\ Past(C)
  BY GrowsPast DEF RevInv
<1>3. Fresh(C, e, db[e].epoch)
  <2>1. Fresh(born, e, db[e].epoch) /\ (e # c \/ db[e].epoch >= db[c].epoch)
    BY <1>1 DEF RevInv, Epoch
  <2> QED
    BY <1>1, <1>2, <2>1, GrowsFresh DEF ReplicaOf
<1>4. Fresh(born', e, db[e].epoch)
  <2>1. e # s \/ db[e].epoch >= db[s].epoch
    BY <1>1 DEF Epoch
  <2> QED
    BY <1>1, <1>2, <1>3, <2>1, GrowsFresh DEF ReplicaOf
<1>5. ASSUME e \notin {c, s} PROVE Held(born', e, db[e], Resolved(e))
  <2>1. Held(C, e, db[e], Resolved(e))
    BY <1>1, <1>2, <1>5, GrowsHeld DEF RevInv, ReplicaOf
  <2> QED
    BY <1>1, <1>2, <1>5, <2>1, GrowsHeld DEF ReplicaOf
<1>6. Received(born', sess[e].incoming) /\ \A t \in saved[e] : HeldOnce(born', t.index)
  BY <1>2, GrowsKept DEF RevInv
<1> QED
  BY <1>4, <1>5, <1>6

LEMMA CalmConnect ==
    ASSUME Inv, RevInv, CalmInv, NEW c \in Device, NEW s \in Device, Connect(c, s)
    PROVE  RevInv' /\ CalmInv'
<1> DEFINE hello(d, e, client) ==
              [NoSession(d) EXCEPT
                !.phase = "hello", !.peer = e, !.client = client,
                !.seq = HelloSeq(d),
                !.remote = [epoch |-> db[e].epoch, seq |-> HelloSeq(e)]]
           C == [p \in Path |->
                   born[p] \cup BirthsIn(born[p], ReplicaOf(c), OpenRows(c)[p].made)]
<1>1. /\ c # s /\ CanOpen(c) /\ CanOpen(s)
      /\ sess[c].phase = "idle" /\ sess[s].phase = "idle"
      /\ db' = [db EXCEPT ![c] = Opened(c), ![s] = Opened(s)]
      /\ born' = [p \in Path |->
                    born[p] \cup Births(c, db[c], OpenRows(c))[p]
                            \cup Births(s, db[s], OpenRows(s))[p]]
      /\ sess' = [sess EXCEPT ![c] = hello(c, s, TRUE), ![s] = hello(s, c, FALSE)]
      /\ UNCHANGED <<disk, mode, saved, budget>>
  BY DEF Connect, Idle
<1>2. /\ db \in [Device -> Index] /\ sess \in [Device -> Session] /\ TypeOK
      /\ Whole(db[c]) /\ Whole(db[s])
  BY DEF Inv, TypeOK
<1>3. Resolved(c) = {} /\ Resolved(s) = {}
  BY <1>1 DEF Resolved
<1>4. \A p \in Path : C[p] = born[p] \cup BirthsIn(born[p], ReplicaOf(c), OpenRows(c)[p].made)
  OBVIOUS
<1>5. \A p \in Path :
         born'[p] = C[p] \cup BirthsIn(born[p], ReplicaOf(s), OpenRows(s)[p].made)
  <2>1. \A p \in Path :
           born'[p] = born[p] \cup Births(c, db[c], OpenRows(c))[p]
                              \cup Births(s, db[s], OpenRows(s))[p]
    BY <1>1
  <2> QED
    BY <1>4, <2>1, BirthsAre DEF ReplicaOf
<1> HIDE DEF C
<1>6. /\ Grows(born, C, ReplicaOf(c)) /\ Held(C, c, Opened(c), {})
      /\ MadeAs(born, C, disk[c]) /\ Opened(c).epoch = db[c].epoch
  BY <1>1, <1>3, <1>4, OpenCalm
<1>7. Past(born) /\ Past(C) /\ Held(born, s, db[s], {})
  BY <1>3, <1>6, GrowsPast DEF RevInv
<1>8. \A p \in Path :
         born'[p] = C[p] \cup BirthsIn(C[p], ReplicaOf(s), OpenRows(s)[p].made)
  BY <1>5, <1>6, <1>7, OpenedAfter
<1>9. db[c].epoch \in Epoch /\ db[s].epoch \in Epoch
  BY <1>2 DEF Index
<1>10. Held(C, s, db[s], {})
  BY <1>1, <1>2, <1>6, <1>7, <1>9, GrowsHeld DEF ReplicaOf
<1>11. Grows(C, born', ReplicaOf(s)) /\ Held(born', s, Opened(s), {}) /\ MadeAs(C, born', disk[s])
  BY <1>1, <1>7, <1>8, <1>10, OpenHeld
<1>12. Opened(c) \in Index /\ Opened(s).epoch = db[s].epoch
  BY <1>1, <1>2, OpenRowsOK, SaveEpoch DEF Grown, Opened
<1>13. Held(born', c, Opened(c), {})
  BY <1>1, <1>6, <1>7, <1>9, <1>11, <1>12, GrowsHeld DEF ReplicaOf
<1>14. /\ db'[c] = Opened(c) /\ db'[s] = Opened(s)
       /\ \A e \in Device \ {c, s} : db'[e] = db[e]
  BY <1>1, <1>2
<1>15. /\ hello(c, s, TRUE).phase = "hello" /\ hello(c, s, TRUE).peer = s
       /\ hello(c, s, TRUE).incoming = NoSession(c).incoming
       /\ hello(s, c, FALSE).phase = "hello" /\ hello(s, c, FALSE).peer = c
       /\ hello(s, c, FALSE).incoming = NoSession(s).incoming
  BY DEF NoSession
<1> HIDE DEF hello
<1>16. /\ sess'[c].phase = "hello" /\ sess'[c].peer = s
       /\ sess'[c].incoming = NoSession(c).incoming
       /\ sess'[s].phase = "hello" /\ sess'[s].peer = c
       /\ sess'[s].incoming = NoSession(s).incoming
       /\ \A e \in Device \ {c, s} : sess'[e] = sess[e]
  BY <1>1, <1>2, <1>15
<1>17. Past(born')
  BY <1>7, <1>11, GrowsPast
<1>18. ASSUME NEW e \in Device
       PROVE  /\ Held(born', e, db'[e], Resolved(e)')
              /\ Fresh(born', e, db'[e].epoch)
              /\ \A t \in saved'[e] : HeldOnce(born', t.index)
              /\ Received(born', sess'[e].incoming)
              /\ CalmAt(e)'
  <2>1. /\ Fresh(born', e, db[e].epoch)
        /\ e \notin {c, s} => Held(born', e, db[e], Resolved(e))
        /\ Received(born', sess[e].incoming)
        /\ \A t \in saved[e] : HeldOnce(born', t.index)
    BY <1>1, <1>6, <1>11, GrowsTwice
  <2>2. CalmAt(e)
    BY DEF CalmInv
  <2>3. CASE e \notin {c, s}
    <3>0. db'[e] = db[e] /\ disk'[e] = disk[e] /\ sess'[e] = sess[e]
      BY <1>1, <1>14, <1>16, <2>3
    <3>1. Resolved(e)' = Resolved(e) /\ CalmAt(e)'
      <4>1. Resolved(e)' = Resolved(e)
        BY <3>0 DEF Resolved
      <4>2. Choosing(e)' = Choosing(e)
        BY <3>0 DEF Choosing
      <4> QED
        BY <2>2, <3>0, <4>1, <4>2 DEF CalmAt, DiskKept, Target
    <3> QED
      BY <1>1, <1>14, <1>16, <2>1, <2>3, <3>1
  <2>4. CASE e \in {c, s}
    <3>1. Held(born', e, db'[e], {}) /\ db'[e].epoch = db[e].epoch
      BY <1>6, <1>11, <1>12, <1>13, <1>14, <2>4
    <3>2. Received(born', sess'[e].incoming)
      BY <1>16, <2>4, NoneReceived
    <3>3. CalmAt(e)'
      BY <1>1, <1>16, <2>2, <2>4 DEF CalmAt, Choosing
    <3>4. Held(born', e, db'[e], Resolved(e)')
      BY <3>1, HeldMore
    <3>5. Fresh(born', e, db'[e].epoch)
      BY <2>1, <3>1
    <3>6. \A t \in saved'[e] : HeldOnce(born', t.index)
      BY <1>1, <2>1
    <3> QED
      BY <3>2, <3>3, <3>4, <3>5, <3>6
  <2> QED
    BY <2>3, <2>4
<1>19. CalmBounds'
  <2>1. Directory \notin Payload => \A p \in Path : \A b \in C[p] : b.rev.content # Directory
    BY <1>6, NoDirectoryMade
  <2>2. Directory \notin Payload => \A p \in Path : disk[s][p] # Directory
    BY DEF CalmInv, CalmAt
  <2>3. Directory \notin Payload =>
           \A p \in Path : \A b \in born'[p] : b.rev.content # Directory
    BY <1>11, <2>1, <2>2 DEF MadeAs
  <2> QED
    BY <1>1, <2>3 DEF CalmInv, CalmBounds
<1> QED
  BY <1>17, <1>18, <1>19 DEF RevInv, CalmInv

-----------------------------------------------------------------------------
(* An index is replaced                                                       *)

(* A new epoch has made nothing: a checkpoint is as good as an index. *)
LEMMA RestoredHeld ==
    ASSUME NEW B, Past(B), NEW d \in Device, NEW n \in Epoch, n + 1 \in Epoch, Fresh(B, d, n),
           NEW x \in Index, HeldOnce(B, x), NEW y,
           y.epoch = n + 1, y.versions = x.versions, y.observed = x.observed,
           y.history = x.history, y.materialized = x.materialized
    PROVE  Held(B, d, y, {}) /\ Fresh(B, d, n + 1)
<1>1. \A p \in Path : Unborn(B[p], <<d, n + 1>>)
  BY DEF Fresh, Epoch
<1>2. <<d, n + 1>> \in Replica
  BY ReplicaAssumption
<1>3. ASSUME NEW p \in Path
      PROVE  DevicePath(B[p], <<d, n + 1>>, x.versions[p], x.observed[p],
                        x.history[p], x.materialized[p], FALSE)
  <2>1. B[p] \in SUBSET Birth /\ Causal(B[p])
    BY DEF Past
  <2>2. \A b \in B[p] : b.rev.clock[<<d, n + 1>>] = 0
    BY <1>1 DEF Unborn
  <2>3. ASSUME NEW H \in SUBSET Revs(B[p]) PROVE Top(B[p], <<d, n + 1>>, H)
    <3>1. MergeAll(H)[<<d, n + 1>>] \in Nat
      BY <1>2, <2>1, RevsOK, MergeNat
    <3> QED
      BY <2>2, <3>1 DEF Top
  <2>4. \A b \in B[p] : b.by # <<d, n + 1>>
    BY <2>1, <2>2 DEF Causal
  <2> QED
    BY <2>3, <2>4 DEF HeldOnce, DevicePath
<1>4. Held(B, d, y, {})
  BY <1>3 DEF Held, DevicePath
<1>5. Fresh(B, d, n + 1)
  BY DEF Fresh, Epoch
<1> QED
  BY <1>4, <1>5

LEMMA ReplacedCalm ==
    ASSUME Inv, RevInv, CalmInv, NEW d \in Device, sess[d].phase = "idle",
           db[d].epoch <= MaxRestores, NEW s \in saved[d], NEW flag \in BOOLEAN,
           db' = [db EXCEPT ![d] = [Restored(d, s) EXCEPT !.recovering = flag]],
           UNCHANGED <<sess, saved, born, budget>>,
           \A e \in Device \ {d} : disk'[e] = disk[e],
           Directory \notin Payload => \A p \in Path : disk'[d][p] # Directory
    PROVE  RevInv' /\ CalmInv'
<1> DEFINE z == Restored(d, s)
           y == [z EXCEPT !.recovering = flag]
           n == db[d].epoch
<1>1. s.index \in Index /\ n \in Epoch /\ n + 1 \in Epoch
  BY FolderAssumption DEF Inv, TypeOK, Index, Epoch
<1>2. EmptyIndex.cursor \in [Device -> Cursor]
  BY EmptyIndexOK DEF Index
<1>3. /\ z \in Index /\ z.versions = s.index.versions /\ z.observed = s.index.observed
      /\ z.history = s.index.history /\ z.materialized = s.index.materialized
      /\ z.epoch = n + 1
  BY <1>1, <1>2 DEF Restored, Index
<1> HIDE DEF z
<1>4. /\ y.versions = s.index.versions /\ y.observed = s.index.observed
      /\ y.history = s.index.history /\ y.materialized = s.index.materialized
      /\ y.epoch = n + 1
  BY <1>3 DEF Index
<1>5. db'[d] = y /\ \A e \in Device \ {d} : db'[e] = db[e]
  BY OneIndexWritten DEF z
<1> HIDE DEF y
<1>6. Past(born) /\ Fresh(born, d, n) /\ HeldOnce(born, s.index)
  BY DEF RevInv
<1>7. Held(born, d, y, {}) /\ Fresh(born, d, n + 1)
  BY <1>1, <1>4, <1>6, RestoredHeld
<1>8. \A e \in Device : Resolved(e)' = Resolved(e)
  BY DEF Resolved
<1>9. Held(born', d, db'[d], Resolved(d)') /\ Fresh(born', d, db'[d].epoch)
  <2>1. Held(born', d, db'[d], {}) /\ Fresh(born', d, n + 1)
    BY <1>5, <1>7
  <2>2. db'[d].epoch = n + 1
    BY <1>4, <1>5
  <2>3. Held(born', d, db'[d], Resolved(d)')
    BY <2>1, HeldMore
  <2> QED
    BY <2>1, <2>2, <2>3
<1>10. RevInv'
  BY <1>5, <1>8, <1>9 DEF RevInv
<1>11. \A e \in Device \ {d} : CalmAt(e)'
  BY <1>5 DEF CalmInv, CalmAt, Choosing, DiskKept, Target
<1>12. CalmAt(d)'
  BY DEF CalmInv, CalmAt, Choosing
<1> QED
  BY <1>10, <1>11, <1>12 DEF CalmInv, CalmBounds

LEMMA CalmRecoverIndex ==
    ASSUME Inv, RevInv, CalmInv, NEW d \in Device, RecoverIndex(d)
    PROVE  RevInv' /\ CalmInv'
<1>1. /\ sess[d].phase = "idle" /\ db[d].epoch <= MaxRestores
      /\ UNCHANGED <<disk, objects, mode, sess, saved, born, budget>>
  BY DEF RecoverIndex, Idle
<1>2. PICK s \in saved[d] : db' = [db EXCEPT ![d] = Restored(d, s)]
  BY DEF RecoverIndex
<1> DEFINE flag == mode[d] # "SendOnly"
<1>3. Restored(d, s) = [Restored(d, s) EXCEPT !.recovering = flag]
  BY DEF Restored, Inv, TypeOK, Index
<1>4. Directory \notin Payload => \A p \in Path : disk'[d][p] # Directory
  BY <1>1 DEF CalmInv, CalmAt
<1>5. db' = [db EXCEPT ![d] = [Restored(d, s) EXCEPT !.recovering = flag]]
  BY <1>2, <1>3
<1>6. flag \in BOOLEAN
  OBVIOUS
<1> HIDE DEF flag
<1> QED
  BY <1>1, <1>4, <1>5, <1>6, ReplacedCalm

LEMMA CalmRecoverDevice ==
    ASSUME Inv, RevInv, CalmInv, NEW d \in Device, RecoverDevice(d)
    PROVE  RevInv' /\ CalmInv'
<1>1. /\ sess[d].phase = "idle" /\ db[d].epoch <= MaxRestores
      /\ UNCHANGED <<sess, saved, born, budget>>
  BY DEF RecoverDevice, Idle
<1>2. PICK s \in saved[d] :
         /\ db' = [db EXCEPT ![d] = [Restored(d, s) EXCEPT !.recovering = TRUE]]
         /\ disk' = [disk EXCEPT ![d] =
                       [p \in Path |->
                           IF p \in s.index.pending THEN Deleted
                           ELSE s.index.materialized[p]]]
  BY DEF RecoverDevice
<1>3. /\ \A e \in Device \ {d} : disk'[e] = disk[e]
      /\ \A p \in Path : disk'[d][p] \in {Deleted, s.index.materialized[p]}
  BY <1>2 DEF Inv, TypeOK
<1>4. Directory \notin Payload => \A p \in Path : disk'[d][p] # Directory
  <2> SUFFICES ASSUME Directory \notin Payload, NEW p \in Path,
                      s.index.materialized[p] = Directory
               PROVE  FALSE
    BY <1>3, ContentAssumption
  <2>1. HeldOnce(born, s.index)
    BY DEF RevInv
  <2>2. \E h \in Revs(born[p]) : h.content = Directory
    BY <2>1, ContentAssumption DEF HeldOnce
  <2> QED
    BY <2>2 DEF CalmInv, CalmBounds, Revs
<1> QED
  BY <1>1, <1>2, <1>3, <1>4, ReplacedCalm

-----------------------------------------------------------------------------
(* The theorems                                                               *)

LEMMA CalmInit == Init => RevInv /\ CalmInv
<1> SUFFICES ASSUME Init PROVE RevInv /\ CalmInv
  OBVIOUS
<1>1. \A d \in Device : db[d] = EmptyIndex /\ sess[d] = NoSession(d) /\ saved[d] = {}
  BY DEF Init
<1>2. \A p \in Path : born[p] = {}
  BY DEF Init
<1>3. Past(born)
  BY <1>2 DEF Past, Causal
<1>4. ASSUME NEW d \in Device
      PROVE  /\ Held(born, d, db[d], Resolved(d)) /\ Fresh(born, d, db[d].epoch)
             /\ Received(born, sess[d].incoming) /\ CalmAt(d)
  <2>1. Held(born, d, EmptyIndex, {})
    BY <1>2 DEF Held, DevicePath, EmptyIndex, Revs, Top
  <2>2. Fresh(born, d, db[d].epoch)
    BY <1>2 DEF Fresh, Unborn
  <2>3. Received(born, NoSession(d).incoming)
    BY NoneReceived
  <2>4. CalmAt(d)
    <3>0. NoSession(d).phase = "idle" /\ NoSession(d).peer = d
      BY DEF NoSession
    <3>1. sess[d].phase = "idle" /\ sess[d].peer = d
      BY <1>1, <3>0
    <3>2. \A p \in Path : disk[d][p] # Directory
      BY ContentAssumption DEF Init
    <3> QED
      BY <3>1, <3>2 DEF CalmAt, Choosing
  <2> QED
    BY <1>1, <2>1, <2>2, <2>3, <2>4, HeldMore
<1>5. CalmBounds
  BY <1>2 DEF Init, CalmBounds
<1> QED
  BY <1>1, <1>3, <1>4, <1>5 DEF RevInv, CalmInv

LEMMA CalmNext ==
    ASSUME Calm, Inv, RevInv, CalmInv, [Next]_vars
    PROVE  RevInv' /\ CalmInv'
<1>1. ASSUME NEW d \in Device, Step(d) PROVE RevInv' /\ CalmInv'
  BY <1>1, CalmStage, CalmPull, CalmPullDone, CalmCommit, CalmCommitRefused, CalmRescan,
     CalmPublish, CalmPublishRefused, CalmAcknowledge, CalmApplied, CalmAppliedNothing,
     CalmSetCursor, CalmDisconnect DEF Step
<1>2. ASSUME NEW d \in Device, Command(d) PROVE RevInv' /\ CalmInv'
  BY <1>2, CalmScan, CalmApproveDeletion, CalmChooseScan, CalmChooseCommit, CalmBackup,
     CalmRecoverIndex, CalmRecoverDevice, CalmActivate DEF Command
<1>3. CASE UNCHANGED vars
  <2>1. UNCHANGED <<disk, db, objects, mode, sess, saved, born, budget>>
    BY <1>3 DEF vars
  <2>2. /\ born' = born /\ db' = db /\ saved' = saved /\ sess' = sess /\ disk' = disk
        /\ budget' = budget
    BY <2>1
  <2>3. \A d \in Device : Resolved(d)' = Resolved(d)
    BY <2>2 DEF Resolved
  <2>4. RevInv'
    BY <2>2, <2>3 DEF RevInv
  <2>5. CalmBounds'
    BY <2>2 DEF CalmInv, CalmBounds
  <2>6. \A d \in Device : CalmAt(d)'
    BY <2>2 DEF CalmInv, CalmAt, Choosing, Target
  <2> QED
    BY <2>4, <2>5, <2>6 DEF CalmInv
<1> QED
  BY <1>1, <1>2, <1>3, CalmAbort, CalmConnect, CalmAppWrite DEF Next

LEMMA CalmAlways ==
    ASSUME Calm
    PROVE  Spec => [](Inv /\ RevInv /\ CalmInv)
<1>1. Init => Inv /\ RevInv /\ CalmInv
  BY InitOK, CalmInit
<1>2. Inv /\ RevInv /\ CalmInv /\ [Next]_vars => (Inv /\ RevInv /\ CalmInv)'
  BY CalmNext, NextGood DEF Good
<1> QED
  BY <1>1, <1>2, PTL DEF Spec

(* Clocks are causality, whatever scans, approvals, choices, exchanges, crashes
   and restored epochs come together: one clock names one revision, and a
   larger clock has seen the smaller one (Versions::edit and join in model.rs,
   the epoch in share.rs).  When nothing disturbs a choice, that is: share.rs
   choose leaves `observed' behind until its publication is acknowledged. *)
THEOREM ClocksTellCausality ==
    ASSUME Calm
    PROVE  Spec => []ClocksAreCausality
<1>1. RevInv => ClocksAreCausality
  BY CausalClocks DEF RevInv, Past, ClocksAreCausality
<1> QED
  BY <1>1, CalmAlways, PTL

(* Every revision a device makes stays in its history (Share::save keeps what a
   register loses, and no join, choice or restart removes a history row). *)
THEOREM OwnRevisionsStay ==
    ASSUME Calm
    PROVE  Spec => []OwnRevisionsRetained
<1>1. ASSUME RevInv, NEW p \in Path, NEW b \in born[p], NEW d \in Device, b.by = ReplicaOf(d)
      PROVE  b.rev \in db[d].history[p]
  BY <1>1 DEF RevInv, Held, DevicePath, ReplicaOf
<1>2. RevInv => OwnRevisionsRetained
  BY <1>1 DEF OwnRevisionsRetained
<1> QED
  BY <1>2, CalmAlways, PTL

-----------------------------------------------------------------------------
(* What a publication displaces *)

(* Root::apply replaces only what the index has materialized, and that is the
   content of a revision in the history. *)
Displaced(d, p) ==
    ( /\ disk'[d][p] # disk[d][p]
      /\ disk[d][p] # Deleted
      /\ budget'.edits = budget.edits
      /\ db'[d].epoch = db[d].epoch )
    => \E h \in db[d].history[p] : h.content = disk[d][p]

LEMMA NextDisplaces ==
    ASSUME Inv, RevInv, [Next]_vars, NEW d \in Device, NEW p \in Path
    PROVE  Displaced(d, p)
<1>1. disk \in [Device -> [Path -> Content]] /\ db \in [Device -> Index]
      /\ budget \in [{"edits", "aborts", "choices"} -> Nat]
  BY DEF Inv, TypeOK
<1>2. ASSUME NEW e \in Device, NEW q \in Path, Publish(e, q) PROVE Displaced(d, p)
  <2>1. /\ Expected(e, q) /\ disk' = [disk EXCEPT ![e][q] = Target(e, q)]
    BY <1>2 DEF Publish
  <2>2. disk'[d][p] = IF d = e /\ p = q THEN Target(e, q) ELSE disk[d][p]
    BY <1>1, <2>1
  <2>3. disk'[d][p] # disk[d][p] => disk[d][p] = db[d].materialized[p]
    BY <2>1, <2>2 DEF Expected
  <2>4. db[d].materialized[p] # Deleted =>
           \E h \in db[d].history[p] : h.content = db[d].materialized[p]
    BY DEF RevInv, Held, DevicePath
  <2> QED
    BY <2>3, <2>4 DEF Displaced
<1>3. ASSUME NEW e \in Device, NEW q \in Path, NEW content, AppWrite(e, q, content)
      PROVE  Displaced(d, p)
  <2>1. budget'["edits"] = budget["edits"] - 1 /\ budget["edits"] \in Nat
    BY <1>1, <1>3 DEF AppWrite, Spend
  <2> QED
    BY <2>1 DEF Displaced
<1>4. ASSUME NEW e \in Device, RecoverDevice(e) PROVE Displaced(d, p)
  <2>1. CASE d # e
    BY <1>1, <1>4, <2>1 DEF RecoverDevice, Displaced
  <2>2. CASE d = e
    <3>1. PICK s \in saved[d] : db' = [db EXCEPT ![d] = [Restored(d, s) EXCEPT !.recovering = TRUE]]
      BY <1>4, <2>2 DEF RecoverDevice
    <3>2. db[d].epoch <= MaxRestores
      BY <1>4, <2>2 DEF RecoverDevice
    <3>3. [Restored(d, s) EXCEPT !.recovering = TRUE].epoch # db[d].epoch
      BY <3>2, RestoredOK
    <3>4. db'[d].epoch # db[d].epoch
      BY <1>1, <3>1, <3>3
    <3> QED
      BY <3>4 DEF Displaced
  <2> QED
    BY <2>1, <2>2
<1>5. CASE UNCHANGED disk
  BY <1>5 DEF Displaced
<1>6. ASSUME NEW e \in Device, Step(e) PROVE Displaced(d, p)
  <2>1. UNCHANGED disk \/ \E q \in Path : Publish(e, q)
    BY <1>6 DEF Step, Stage, Pull, PullDone, Commit, CommitRefused, Rescan, PublishRefused,
       Acknowledge, Applied, AppliedNothing, SetCursor, Disconnect
  <2> QED
    BY <1>2, <1>5, <2>1
<1>7. ASSUME NEW e \in Device, Command(e) PROVE Displaced(d, p)
  <2>1. UNCHANGED disk \/ RecoverDevice(e)
    BY <1>7 DEF Command, Scan, ApproveDeletion, ChooseScan, ChooseCommit, Backup,
       RecoverIndex, Activate
  <2> QED
    BY <1>4, <1>5, <2>1
<1>8. ASSUME NEW e \in Device, Abort(e) PROVE UNCHANGED disk
  BY <1>8 DEF Abort
<1>9. ASSUME NEW c \in Device, NEW s \in Device, Connect(c, s) PROVE UNCHANGED disk
  BY <1>9 DEF Connect
<1>10. CASE UNCHANGED vars
  BY <1>5, <1>10 DEF vars
<1> QED
  BY <1>3, <1>5, <1>6, <1>7, <1>8, <1>9, <1>10 DEF Next

(* What synchronization displaces in a folder is the content of a revision the
   device keeps (Root::apply's expected state and Share::save). *)
THEOREM DisplacedStays ==
    ASSUME Calm
    PROVE  Spec => DisplacedIsKept
<1> DEFINE Kept == \A d \in Device : \A p \in Path : Displaced(d, p)
<1>1. Inv /\ RevInv /\ CalmInv /\ [Next]_vars => [Kept]_vars
  BY NextDisplaces
<1>2. Spec => [][Kept]_vars
  <2> HIDE DEF Kept
  <2> QED
    BY <1>1, CalmAlways, PTL DEF Spec
<1> QED
  BY <1>2 DEF DisplacedIsKept, Displaced

-----------------------------------------------------------------------------
(* An edit is refused only by a full register or an exhausted counter *)

EditsAreAcceptedWithRoom ==
    \A d \in Device : \A p \in Path :
        ( /\ ~db[d].recovering
          /\ IsEdit(db[d], p, disk[d][p], TRUE)
          /\ CanEdit(db[d].observed[p], ReplicaOf(d))
          /\ Cardinality(db[d].versions[p]) < MaxHeads )
        => CanJoin(db[d].versions[p],
                   Edit(db[d].observed[p], ReplicaOf(d), disk[d][p]))

LEMMA EqualClocks ==
    ASSUME NEW a \in Clock, NEW b \in Clock, Relation(a, b) = "Equal"
    PROVE  a = b
<1>1. ~Less(a, b) /\ ~Less(b, a)
  BY DEF Relation
<1>2. \A q \in Replica : a[q] = b[q]
  BY <1>1 DEF Less, Clock, Counter
<1> QED
  BY <1>2 DEF Clock

LEMMA RoomToJoin ==
    ASSUME NEW B \in SUBSET Birth, Causal(B), NEW r \in Replica, NEW V \in SUBSET Revs(B),
           IsFiniteSet(V), Cardinality(V) < MaxHeads,
           NEW e \in Revision, NEW content, NEW H, Adds(B, r, H, content, e)
    PROVE  CanJoin(V, {e})
<1>1. V \in SUBSET Revision
  BY RevsOK
<1>2. Cardinality(V) \in Nat /\ MaxHeads \in Nat /\ Cardinality({e}) = 1
  BY FS_CardinalityType, FS_Singleton, CounterAssumption
<1>3. \A x \in V \cup {e} : Valid(x.clock)
  <2>1. \A b \in B : b.rev.clock[b.by] > 0 /\ b.by \in Replica
    BY DEF Causal, Birth
  <2>2. e.clock[r] > 0
    <3>1. NewBy(B, {BirthOf(B, r, H, e)}, r)
      BY DEF Adds
    <3>2. BirthOf(B, r, H, e).rev = e /\ BirthOf(B, r, H, e).by = r
      BY DEF BirthOf
    <3> QED
      BY <3>1, <3>2 DEF NewBy, Causal
  <2> QED
    BY <2>1, <2>2 DEF Valid, Revs
<1>4. Consistent(V \cup {e})
  <2> SUFFICES ASSUME NEW x \in V \cup {e}, NEW y \in V \cup {e},
                      Relation(x.clock, y.clock) = "Equal"
               PROVE  x = y
    BY DEF Consistent
  <2>1. x.clock = y.clock
    BY <1>1, EqualClocks DEF Revision
  <2>2. \A v \in V : v.clock[r] < e.clock[r] /\ v.clock[r] \in Nat
    BY <1>1, ClockCounter DEF Adds, Revs
  <2>3. CASE x \in V /\ y \in V
    <3>1. PICK a \in B, b \in B : x = a.rev /\ y = b.rev
      BY <2>3 DEF Revs
    <3> QED
      BY <2>1, <3>1, CausalClocks
  <2>4. CASE x = e \/ y = e
    BY <2>1, <2>2, <2>4, ClockCounter
  <2> QED
    BY <2>3, <2>4
<1>5. Cardinality(Join(V, {e})) <= MaxHeads
  <2>1. Join(V, {e}) \subseteq V \cup {e}
    BY DEF Join, Maximal
  <2>2. IsFiniteSet(V \cup {e}) /\ Cardinality(V \cup {e}) <= Cardinality(V) + 1
    <3>1. IsFiniteSet(V \cup {e})
      BY FS_AddElement
    <3>2. Cardinality(V \cup {e}) = IF e \in V THEN Cardinality(V) ELSE Cardinality(V) + 1
      BY FS_AddElement
    <3> QED
      BY <1>2, <3>1, <3>2
  <2>3. /\ Cardinality(Join(V, {e})) <= Cardinality(V \cup {e})
        /\ Cardinality(Join(V, {e})) \in Nat /\ Cardinality(V \cup {e}) \in Nat
    BY <2>1, <2>2, FS_Subset, FS_CardinalityType
  <2> QED
    BY <1>2, <2>2, <2>3
<1> QED
  BY <1>2, <1>3, <1>4, <1>5 DEF CanJoin

-----------------------------------------------------------------------------
(* A register has room for one head of each replica                           *)

Apart(V) == \A h, k \in V : ~Before(h.clock, k.clock)

(* Of two revisions of one replica the later one has seen the earlier one. *)
LEMMA OneOfEach ==
    ASSUME NEW B \in SUBSET Birth, Causal(B), NEW b \in B, NEW c \in B, b.by = c.by,
           ~Before(b.rev.clock, c.rev.clock), ~Before(c.rev.clock, b.rev.clock)
    PROVE  b.rev = c.rev
<1>1. b.rev \in Revision /\ c.rev \in Revision /\ b.by \in Replica
  BY DEF Birth
<1>2. b.rev.clock[b.by] \in Nat /\ c.rev.clock[b.by] \in Nat
  BY <1>1, ClockCounter
<1>3. \/ b.rev.clock[b.by] <= c.rev.clock[b.by]
      \/ c.rev.clock[c.by] <= b.rev.clock[c.by]
  BY <1>2
<1>4. b.rev \notin c.past /\ c.rev \notin b.past
  BY DEF Causal
<1> QED
  BY <1>3, <1>4 DEF Causal

(* Heads are counted by their authors. *)
LEMMA HeadsFit ==
    ASSUME NEW B \in SUBSET Birth, Causal(B), NEW V \in SUBSET Revs(B), Apart(V),
           IsFiniteSet(Replica)
    PROVE  IsFiniteSet(V) /\ Cardinality(V) <= Cardinality(Replica)
<1> DEFINE maker(v) == CHOOSE b \in B : b.rev = v
           author   == [v \in V |-> maker(v).by]
<1>1. ASSUME NEW v \in V PROVE maker(v) \in B /\ maker(v).rev = v
  BY DEF Revs
<1> HIDE DEF maker
<1>2. \A v \in V : maker(v).by \in Replica
  BY <1>1 DEF Birth
<1>3. author \in [V -> Replica]
  BY <1>2
<1>4. ASSUME NEW v \in V, NEW w \in V, author[v] = author[w] PROVE v = w
  <2>1. maker(v) \in B /\ maker(v).rev = v /\ maker(w) \in B /\ maker(w).rev = w
    BY <1>1
  <2>2. maker(v).by = maker(w).by
    BY <1>4
  <2>3. ~Before(v.clock, w.clock) /\ ~Before(w.clock, v.clock)
    BY DEF Apart
  <2> QED
    BY <2>1, <2>2, <2>3, OneOfEach
<1> HIDE DEF author
<1>5. author \in Injection(V, Replica)
  BY <1>3, <1>4 DEF Injection, IsInjective
<1> QED
  BY <1>5, FS_Injection

(* Register::join accepts any two registers that came from the same births. *)
LEMMA RegistersJoin ==
    ASSUME NEW B \in SUBSET Birth, Causal(B),
           IsFiniteSet(Replica), Cardinality(Replica) <= MaxHeads,
           NEW V \in SUBSET Revs(B), Apart(V), NEW W \in SUBSET Revs(B), Apart(W)
    PROVE  CanJoin(V, W)
<1>1. V \cup W \in SUBSET Revs(B) /\ V \cup W \in SUBSET Revision
  BY RevsOK
<1>2. ASSUME NEW H \in SUBSET Revs(B), Apart(H) PROVE Cardinality(H) <= MaxHeads
  <2>1. IsFiniteSet(H) /\ Cardinality(H) <= Cardinality(Replica)
    BY <1>2, HeadsFit
  <2>2. Cardinality(H) \in Nat /\ Cardinality(Replica) \in Nat /\ MaxHeads \in Nat
    BY <2>1, FS_CardinalityType, CounterAssumption
  <2> QED
    BY <2>1, <2>2
<1>3. \A x \in V \cup W : Valid(x.clock)
  <2>1. \A b \in B : b.rev.clock[b.by] > 0 /\ b.by \in Replica
    BY DEF Causal, Birth
  <2> QED
    BY <1>1, <2>1 DEF Valid, Revs
<1>4. Consistent(V \cup W)
  <2> SUFFICES ASSUME NEW x \in V \cup W, NEW y \in V \cup W,
                      Relation(x.clock, y.clock) = "Equal"
               PROVE  x = y
    BY DEF Consistent
  <2>1. x.clock = y.clock
    BY <1>1, EqualClocks DEF Revision
  <2>2. PICK a \in B, b \in B : x = a.rev /\ y = b.rev
    BY <1>1 DEF Revs
  <2> QED
    BY <2>1, <2>2, CausalClocks
<1>5. Join(V, W) \in SUBSET Revs(B) /\ Apart(Join(V, W))
  BY <1>1 DEF Join, Maximal, Apart
<1> QED
  BY <1>2, <1>3, <1>4, <1>5 DEF CanJoin

(* What the scan of a path is about to make has a clock of its own. *)
LEMMA NextEdit ==
    ASSUME Inv, RevInv, CalmInv, NEW d \in Device, NEW p \in Path,
           IsEdit(db[d], p, disk[d][p], TRUE), CanEdit(db[d].observed[p], ReplicaOf(d))
    PROVE  /\ born[p] \in SUBSET Birth /\ Causal(born[p]) /\ ReplicaOf(d) \in Replica
           /\ db[d].versions[p] \in SUBSET Revs(born[p])
           /\ IsFiniteSet(db[d].versions[p]) /\ Apart(db[d].versions[p])
           /\ \E e \in Revision :
                 Adds(born[p], ReplicaOf(d), db[d].observed[p], disk[d][p], e)
<1> DEFINE B == born[p]
           r == ReplicaOf(d)
           V == db[d].versions[p]
           O == db[d].observed[p]
<1>1. /\ B \in SUBSET Birth /\ Causal(B) /\ r \in Replica /\ disk[d][p] \in Content
      /\ IsFiniteSet(V)
  BY ReplicaOK DEF RevInv, Past, Inv, TypeOK, Whole, ReplicaOf
<1>2. DevicePath(B, r, V, O, db[d].history[p], db[d].materialized[p], p \in Resolved(d))
  BY DEF RevInv, Held, ReplicaOf
<1>3. p \in Resolved(d) => O = V
  <2> SUFFICES ASSUME p \in Resolved(d), O # V PROVE FALSE
    OBVIOUS
  <2>1. CalmAt(d) /\ p = sess[d].path
    BY DEF CalmInv, Resolved
  <2>2. CASE sess[d].phase = "chosen"
    BY <2>1, <2>2 DEF CalmAt, IsEdit
  <2>3. CASE sess[d].phase = "published" /\ sess[d].peer = d
    <3>1. disk[d][p] = Selected(V).content
      BY <2>1, <2>3 DEF CalmAt, Target
    <3>2. V # {} /\ V \in SUBSET Revision
      BY <2>1, <2>3 DEF Inv, SessionReady, TypeOK, Index
    <3>3. Selected(V) \in V
      BY <3>2, SelectedIsBest
    <3>4. AlreadyKnown(db[d], p, disk[d][p])
      BY <3>1, <3>3 DEF AlreadyKnown
    <3> QED
      BY <3>4 DEF IsEdit
  <2> QED
    BY <2>2, <2>3 DEF Resolved
<1>4. V \in SUBSET Revs(B) /\ O \in SUBSET Revs(B) /\ Top(B, r, O) /\ Apart(V)
  BY <1>2, <1>3 DEF DevicePath, Apart
<1> HIDE DEF B, r, V, O
<1>5. CanEdit(O, r)
  BY DEF O, r
<1>6. \E e \in Revision : Adds(B, r, O, disk[d][p], e)
  BY <1>1, <1>4, <1>5, EditBirth
<1> QED
  BY <1>1, <1>4, <1>6 DEF B, r, V, O

(* The clock a device is about to give an edit was never given to another
   revision: while the register has room, the transaction is not refused for
   `equal clocks with different payloads' (Versions::join in model.rs). *)
THEOREM EditsAccepted ==
    ASSUME Calm
    PROVE  Spec => []EditsAreAcceptedWithRoom
<1>1. ASSUME Inv, RevInv, CalmInv, NEW d \in Device, NEW p \in Path,
             IsEdit(db[d], p, disk[d][p], TRUE), CanEdit(db[d].observed[p], ReplicaOf(d)),
             Cardinality(db[d].versions[p]) < MaxHeads
      PROVE  CanJoin(db[d].versions[p],
                     Edit(db[d].observed[p], ReplicaOf(d), disk[d][p]))
  <2>1. PICK e \in Revision : Adds(born[p], ReplicaOf(d), db[d].observed[p], disk[d][p], e)
    BY <1>1, NextEdit
  <2>2. CanJoin(db[d].versions[p], {e})
    BY <1>1, <2>1, NextEdit, RoomToJoin
  <2> QED
    BY <2>1, <2>2 DEF Adds
<1>2. Inv /\ RevInv /\ CalmInv => EditsAreAcceptedWithRoom
  BY <1>1 DEF EditsAreAcceptedWithRoom
<1> QED
  BY <1>2, CalmAlways, PTL

(* The heads of a path come from different replicas (Versions::join keeps what
   nothing dominates, and an edit dominates what its author made before). *)
THEOREM OneHeadEach ==
    ASSUME Calm
    PROVE  Spec => []OneHeadPerReplica
<1>1. ASSUME RevInv, NEW d \in Device, NEW p \in Path, NEW b \in born[p], NEW c \in born[p],
             b.by = c.by, {b.rev, c.rev} \subseteq db[d].versions[p]
      PROVE  b.rev = c.rev
  <2>1. born[p] \in SUBSET Birth /\ Causal(born[p])
    BY <1>1 DEF RevInv, Past
  <2>2. ~Before(b.rev.clock, c.rev.clock) /\ ~Before(c.rev.clock, b.rev.clock)
    BY <1>1 DEF RevInv, Held, DevicePath
  <2> QED
    BY <1>1, <2>1, <2>2, OneOfEach
<1>2. RevInv => OneHeadPerReplica
  BY <1>1 DEF OneHeadPerReplica
<1> QED
  BY <1>2, CalmAlways, PTL

(* While the replicas - a device, and once more for each time its index was
   restored - are no more than the heads a register holds, what an application
   wrote is always recorded: the join of the edit is refused neither for its
   clock nor for the number of heads (Share::scan, Versions::join). *)
THEOREM EditsAlwaysAccepted ==
    ASSUME Calm, IsFiniteSet(Replica), Cardinality(Replica) <= MaxHeads
    PROVE  Spec => []EditsAreAccepted
<1>1. ASSUME Inv, RevInv, CalmInv, NEW d \in Device, NEW p \in Path,
             IsEdit(db[d], p, disk[d][p], TRUE), CanEdit(db[d].observed[p], ReplicaOf(d))
      PROVE  CanJoin(db[d].versions[p],
                     Edit(db[d].observed[p], ReplicaOf(d), disk[d][p]))
  <2> DEFINE B == born[p]
             V == db[d].versions[p]
  <2>1. B \in SUBSET Birth /\ Causal(B) /\ V \in SUBSET Revs(B) /\ Apart(V)
    BY <1>1, NextEdit
  <2>2. PICK e \in Revision : Adds(B, ReplicaOf(d), db[d].observed[p], disk[d][p], e)
    BY <1>1, NextEdit
  <2> DEFINE n == BirthOf(B, ReplicaOf(d), db[d].observed[p], e)
             C == B \cup {n}
  <2>3. n.rev = e
    BY DEF BirthOf
  <2>4. C \in SUBSET Birth /\ Causal(C)
    BY <2>1, <2>2 DEF Adds, NewBy
  <2>5. V \in SUBSET Revs(C) /\ {e} \in SUBSET Revs(C)
    BY <2>1, <2>3 DEF Revs
  <2>6. Apart({e})
    BY BeforeIrreflexive DEF Apart, Revision
  <2> HIDE DEF B, V, n, C
  <2>7. CanJoin(V, {e})
    BY <2>1, <2>4, <2>5, <2>6, RegistersJoin
  <2> QED
    BY <2>2, <2>7 DEF Adds, V
<1>2. Inv /\ RevInv /\ CalmInv => EditsAreAccepted
  BY <1>1 DEF EditsAreAccepted
<1> QED
  BY <1>2, CalmAlways, PTL

(* No exchange ends because of what it carries: a device that is about to stage
   its peer's records can accept each, and one that is about to commit what it
   staged can join it with its heads and with the edits made meanwhile
   (Share::stage and commit_incoming, Versions::join). *)
ExchangesAreJoined ==
    \A d \in Device :
        /\ (ReadyToCommit(d) /\ CanOpen(d)) => CanJoinAll(d)
        /\ (sess[d].phase = "hello" /\ Linked(d, sess[d].peer)) =>
              \A p \in Path : CanJoin({}, Records(sess[d].peer, d)[p])

LEMMA StagedJoins ==
    ASSUME Inv, RevInv, IsFiniteSet(Replica), Cardinality(Replica) <= MaxHeads,
           NEW d \in Device, NEW e \in Device, NEW p \in Path
    PROVE  CanJoin({}, Records(e, d)[p])
<1>1. born[p] \in SUBSET Birth /\ Causal(born[p])
  BY DEF RevInv, Past
<1>2. Records(e, d)[p] \in SUBSET Revs(born[p]) /\ Apart(Records(e, d)[p])
  BY RecordsKnown DEF Received, Apart
<1>3. {} \in SUBSET Revs(born[p]) /\ Apart({})
  BY DEF Apart
<1> QED
  BY <1>1, <1>2, <1>3, RegistersJoin

LEMMA OpenedJoins ==
    ASSUME Inv, RevInv, IsFiniteSet(Replica), Cardinality(Replica) <= MaxHeads,
           NEW d \in Device, ReadyToCommit(d), CanOpen(d)
    PROVE  CanJoinAll(d)
<1> DEFINE C == [p \in Path |->
                    born[p] \cup BirthsIn(born[p], ReplicaOf(d), OpenRows(d)[p].made)]
           x == Opened(d)
<1>1. Resolved(d) = {}
  BY DEF ReadyToCommit, Resolved
<1>2. Past(born) /\ Held(born, d, db[d], {}) /\ Received(born, sess[d].incoming)
  BY <1>1 DEF RevInv
<1>3. \A p \in Path :
         C[p] = born[p] \cup BirthsIn(born[p], ReplicaOf(d), OpenRows(d)[p].made)
  OBVIOUS
<1> HIDE DEF C
<1>4. Grows(born, C, ReplicaOf(d)) /\ Held(C, d, x, {})
  BY <1>2, <1>3, OpenHeld
<1>5. Past(C) /\ Received(C, sess[d].incoming)
  BY <1>2, <1>4, GrowsPast, GrowsKept
<1> HIDE DEF x
<1>6. ASSUME NEW p \in Path PROVE CanJoin(x.versions[p], sess[d].incoming[p])
  <2>1. C[p] \in SUBSET Birth /\ Causal(C[p])
    BY <1>5 DEF Past
  <2>2. x.versions[p] \in SUBSET Revs(C[p]) /\ Apart(x.versions[p])
    BY <1>4 DEF Held, DevicePath, Apart
  <2>3. sess[d].incoming[p] \in SUBSET Revs(C[p]) /\ Apart(sess[d].incoming[p])
    BY <1>5 DEF Received, Apart
  <2> QED
    BY <2>1, <2>2, <2>3, RegistersJoin
<1> QED
  BY <1>6 DEF CanJoinAll, x

(* As long as the replicas are no more than the heads a register holds, no
   exchange is refused for the revisions it carries. *)
THEOREM ExchangesAlwaysJoined ==
    ASSUME Calm, IsFiniteSet(Replica), Cardinality(Replica) <= MaxHeads
    PROVE  Spec => []ExchangesAreJoined
<1>1. ASSUME Inv, RevInv, NEW d \in Device, ReadyToCommit(d), CanOpen(d)
      PROVE  CanJoinAll(d)
  BY <1>1, OpenedJoins
<1>2. ASSUME Inv, RevInv, NEW d \in Device, NEW p \in Path
      PROVE  CanJoin({}, Records(sess[d].peer, d)[p])
  <2>1. sess[d].peer \in Device
    BY <1>2 DEF Inv, TypeOK, Session
  <2> QED
    BY <1>2, <2>1, StagedJoins
<1>3. Inv /\ RevInv /\ CalmInv => ExchangesAreJoined
  BY <1>1, <1>2 DEF ExchangesAreJoined
<1> QED
  BY <1>3, CalmAlways, PTL

-----------------------------------------------------------------------------
(* Directions.  Every revision a device keeps is one it kept before, one it    *)
(* staged and commits, or one it made from what it kept.                       *)

Keeps(x, p) == x.versions[p] \cup x.observed[p] \cup x.history[p]

(* Nothing of these revisions was made by q, or after something q made. *)
Untouched(R, q) == \A h \in R : h.clock[q] = 0

(* A revision that replica r made from some of R. *)
MadeFrom(R, r, h) ==
    /\ h.clock[r] > 0
    /\ \A q \in Replica \ {r} : Untouched(R, q) => h.clock[q] = 0

BornAs(p, r, h) == \E b \in born'[p] : b.rev = h /\ b.by = r

(* What a transaction of e keeps: y is the index it leaves, and the births are
   in born'. *)
Follows(e, y) ==
    \A p \in Path : \A h \in Keeps(y, p) :
        \/ h \in Keeps(db[e], p)
        \/ mode[e] # "SendOnly" /\ h \in sess[e].incoming[p]
        \/ /\ BornAs(p, ReplicaOf(e), h)
           /\ MadeFrom(Keeps(db[e], p), ReplicaOf(e), h)

IndexFlows(e) ==
    \/ db'[e].epoch = db[e].epoch /\ Follows(e, db'[e])
    \/ /\ db[e].epoch < db'[e].epoch
       /\ \E s \in saved[e] : \A p \in Path : Keeps(db'[e], p) \subseteq Keeps(s.index, p)

(* What is staged comes from a device whose direction lets it out. *)
SessionFlows(e) ==
    \A p \in Path : \A h \in sess'[e].incoming[p] :
        \/ h \in sess[e].incoming[p]
        \/ \E k \in Device : Exports(k, e) /\ h \in db[k].versions[p]

SavedFlows(e) ==
    /\ saved'[e] = {} => saved[e] = {}
    /\ \A s \in saved'[e] :
          s \in saved[e] \/ (saved[e] = {} /\ s.index = db[e] /\ s.mode = mode[e])

ModeFlows(e) ==
    \/ mode'[e] = mode[e]
    \/ mode'[e] = "ReceiveOnly" /\ saved[e] # {} /\ db[e].epoch < db'[e].epoch
    \/ db[e].epoch > 1 /\ \E s \in saved[e] : mode'[e] = s.mode

BirthFlows ==
    \A p \in Path :
        /\ born[p] \subseteq born'[p]
        /\ \A b \in born'[p] : b \in born[p] \/ b.rev.clock[b.by] > 0

Flows ==
    /\ BirthFlows
    /\ \A e \in Device : IndexFlows(e) /\ SessionFlows(e) /\ SavedFlows(e) /\ ModeFlows(e)

(* What device d makes next, or makes while it only receives, stays with it. *)
Far(e, q) ==
    \A p \in Path :
        /\ Untouched(Keeps(db[e], p), q)
        /\ Untouched(sess[e].incoming[p], q)
        /\ \A s \in saved[e] : Untouched(Keeps(s.index, p), q)

Hidden(d, n, e) ==
    \/ db[d].epoch < n
    \/ d # e /\ db[d].epoch = n /\ mode[d] = "ReceiveOnly"

HiddenInv ==
    \A d, e \in Device : \A n \in Epoch : Hidden(d, n, e) => Far(e, <<d, n>>)

OwnInv ==
    \A d \in Device : (mode[d] = "SendOnly" /\ db[d].epoch = 1) =>
        \A p \in Path : \A h \in Keeps(db[d], p) :
            \E b \in born[p] : b.rev = h /\ b.by[1] = d

(* A checkpoint remembers the direction the device was given. *)
ModeInv ==
    \A d \in Device :
        /\ saved[d] = {} => mode[d] = InitialMode[d]
        /\ mode[d] \in {InitialMode[d], "ReceiveOnly"}
        /\ \A s \in saved[d] : s.mode = InitialMode[d]

BornInv == \A p \in Path : \A b \in born[p] : b.rev.clock[b.by] > 0

DirInv == HiddenInv /\ OwnInv /\ ModeInv /\ BornInv

LEMMA FlowsMode ==
    ASSUME Inv, ModeInv, Flows
    PROVE  ModeInv'
<1> SUFFICES ASSUME NEW d \in Device
             PROVE  /\ saved'[d] = {} => mode'[d] = InitialMode[d]
                    /\ mode'[d] \in {InitialMode[d], "ReceiveOnly"}
                    /\ \A s \in saved'[d] : s.mode = InitialMode[d]
  BY DEF ModeInv
<1>1. /\ saved[d] = {} => mode[d] = InitialMode[d]
      /\ mode[d] \in {InitialMode[d], "ReceiveOnly"}
      /\ \A s \in saved[d] : s.mode = InitialMode[d]
  BY DEF ModeInv
<1>2. SavedFlows(d) /\ ModeFlows(d)
  BY DEF Flows
<1>3. saved'[d] = {} => mode'[d] = mode[d]
  BY <1>2 DEF SavedFlows, ModeFlows
<1>4. mode'[d] \in {InitialMode[d], "ReceiveOnly"}
  BY <1>1, <1>2 DEF ModeFlows
<1>5. \A s \in saved'[d] : s.mode = InitialMode[d]
  BY <1>1, <1>2 DEF SavedFlows
<1> QED
  BY <1>1, <1>2, <1>3, <1>4, <1>5 DEF SavedFlows

(* A device does not begin to receive only within an epoch. *)
LEMMA FlowsHidden ==
    ASSUME Inv, Inv', ModeInv, Flows, NEW d \in Device, NEW e \in Device, NEW n \in Epoch,
           Hidden(d, n, e)'
    PROVE  Hidden(d, n, e)
<1>1. n \in Nat /\ db[d].epoch \in Nat /\ db'[d].epoch \in Nat
  BY FolderAssumption DEF Inv, TypeOK, Index, Epoch
<1>2. db[d].epoch <= db'[d].epoch
  BY <1>1 DEF Flows, IndexFlows
<1>3. CASE db'[d].epoch < n
  BY <1>1, <1>2, <1>3 DEF Hidden
<1>4. CASE d # e /\ db'[d].epoch = n /\ mode'[d] = "ReceiveOnly"
  <2>1. CASE db[d].epoch < db'[d].epoch
    BY <1>4, <2>1 DEF Hidden
  <2>2. CASE db[d].epoch = db'[d].epoch
    <3>1. \/ mode'[d] = mode[d]
          \/ \E s \in saved[d] : mode'[d] = s.mode
      BY <1>1, <2>2 DEF Flows, ModeFlows
    <3>2. mode[d] = "ReceiveOnly"
      BY <1>4, <3>1 DEF ModeInv
    <3> QED
      BY <1>4, <2>2, <3>2 DEF Hidden
  <2> QED
    BY <1>1, <1>2, <2>1, <2>2
<1> QED
  BY <1>3, <1>4 DEF Hidden

LEMMA FlowsFar ==
    ASSUME Inv, Inv', HiddenInv, ModeInv, Flows,
           NEW d \in Device, NEW e \in Device, NEW n \in Epoch, Hidden(d, n, e)'
    PROVE  Far(e, <<d, n>>)'
<1> DEFINE q == <<d, n>>
<1>1. q \in Replica
  BY ReplicaAssumption
<1>2. Hidden(d, n, e)
  BY FlowsHidden
<1>3. Far(e, q)
  BY <1>2 DEF HiddenInv
<1>4. q # ReplicaOf(e)
  BY <1>2, FolderAssumption DEF Hidden, ReplicaOf, Inv, TypeOK, Index, Epoch
<1> HIDE DEF q
<1>5. ASSUME NEW p \in Path, NEW h \in Keeps(db'[e], p)
      PROVE  h.clock[q] = 0
  <2>1. IndexFlows(e)
    BY DEF Flows
  <2>2. CASE Follows(e, db'[e])
    <3>1. \/ h \in Keeps(db[e], p)
          \/ h \in sess[e].incoming[p]
          \/ MadeFrom(Keeps(db[e], p), ReplicaOf(e), h)
      BY <1>5, <2>2 DEF Follows
    <3> QED
      BY <1>1, <1>3, <1>4, <3>1 DEF Far, Untouched, MadeFrom
  <2>3. CASE \E s \in saved[e] : \A k \in Path : Keeps(db'[e], k) \subseteq Keeps(s.index, k)
    BY <1>3, <1>5, <2>3 DEF Far, Untouched
  <2> QED
    BY <2>1, <2>2, <2>3 DEF IndexFlows
<1>6. ASSUME NEW p \in Path, NEW h \in sess'[e].incoming[p]
      PROVE  h.clock[q] = 0
  <2>1. CASE h \in sess[e].incoming[p]
    BY <1>3, <2>1 DEF Far, Untouched
  <2>2. ASSUME NEW k \in Device, Exports(k, e), h \in db[k].versions[p]
        PROVE  h.clock[q] = 0
    <3>1. Hidden(d, n, k)
      BY <1>2, <2>2 DEF Hidden, Exports
    <3>2. Far(k, q)
      BY <3>1 DEF HiddenInv, q
    <3> QED
      BY <2>2, <3>2 DEF Far, Untouched, Keeps
  <2> QED
    BY <1>6, <2>1, <2>2 DEF Flows, SessionFlows
<1>7. ASSUME NEW p \in Path, NEW s \in saved'[e]
      PROVE  Untouched(Keeps(s.index, p), q)
  BY <1>3, <1>7 DEF Flows, SavedFlows, Far
<1> QED
  BY <1>5, <1>6, <1>7 DEF Far, Untouched, q

LEMMA FlowsOwn ==
    ASSUME Inv, Inv', OwnInv, Flows
    PROVE  OwnInv'
<1> SUFFICES ASSUME NEW d \in Device, mode'[d] = "SendOnly", db'[d].epoch = 1,
                    NEW p \in Path, NEW h \in Keeps(db'[d], p)
             PROVE  \E b \in born'[p] : b.rev = h /\ b.by[1] = d
  BY DEF OwnInv
<1>1. db[d].epoch \in Nat /\ 0 < db[d].epoch
  BY FolderAssumption DEF Inv, TypeOK, Index, Epoch
<1>2. db[d].epoch = 1 /\ Follows(d, db'[d])
  BY <1>1 DEF Flows, IndexFlows
<1>3. mode[d] = "SendOnly"
  BY <1>2 DEF Flows, ModeFlows
<1>4. CASE h \in Keeps(db[d], p)
  BY <1>2, <1>3, <1>4 DEF OwnInv, Flows, BirthFlows
<1>5. CASE BornAs(p, ReplicaOf(d), h)
  BY <1>5 DEF BornAs, ReplicaOf
<1> QED
  BY <1>2, <1>3, <1>4, <1>5 DEF Follows

LEMMA FlowsDirected ==
    ASSUME Inv, Inv', DirInv, Flows
    PROVE  DirInv'
<1>1. HiddenInv'
  BY FlowsFar DEF DirInv, HiddenInv
<1>2. BornInv'
  BY DEF DirInv, BornInv, Flows, BirthFlows
<1> QED
  BY <1>1, <1>2, FlowsOwn, FlowsMode DEF DirInv

(* One transaction                                                             *)

RowFlows(x, r, p, row) ==
    /\ row.versions \cup row.observed \subseteq Keeps(x, p) \cup {m.rev : m \in row.made}
    /\ \A m \in row.made : MadeFrom(Keeps(x, p), r, m.rev)

LEMMA MadeFromMore ==
    ASSUME NEW R, NEW S, R \subseteq S, NEW r, NEW h, MadeFrom(R, r, h)
    PROVE  MadeFrom(S, r, h)
BY DEF MadeFrom, Untouched

LEMMA MadeIsMade ==
    ASSUME NEW x \in Index, NEW d \in Device, NEW H \in SUBSET Revision,
           NEW content \in Content, CanEdit(H, <<d, x.epoch>>), NEW R, H \subseteq R
    PROVE  MadeFrom(R, <<d, x.epoch>>, Made(x, d, H, content).rev)
<1> DEFINE r == <<d, x.epoch>>
<1>1. r \in Replica
  BY ReplicaOK
<1> HIDE DEF r
<1>2. PICK e \in Revision :
          /\ Edit(H, r, content) = {e}
          /\ e.clock[r] = MergeAll(H)[r] + 1
          /\ \A q \in Replica \ {r} : e.clock[q] = MergeAll(H)[q]
  BY <1>1, EditClock DEF r
<1>3. (CHOOSE k \in Edit(H, r, content) : TRUE) = e
  BY <1>2
<1>4. Made(x, d, H, content).rev = e
  BY <1>3 DEF Made, r
<1>5. e.clock[r] > 0
  BY <1>1, <1>2, MergeNat
<1>6. ASSUME NEW q \in Replica \ {r}, Untouched(R, q) PROVE e.clock[q] = 0
  <2>1. MergeAll(H)[q] = 0
    BY <1>6, MergeAttained DEF Untouched
  <2> QED
    BY <1>2, <1>6, <2>1
<1> QED
  BY <1>4, <1>5, <1>6 DEF MadeFrom, r

LEMMA EditedFlows ==
    ASSUME NEW x \in Index, NEW d \in Device, NEW p \in Path, NEW content \in Content,
           CanEdit(x.observed[p], <<d, x.epoch>>)
    PROVE  RowFlows(x, <<d, x.epoch>>, p, Edited(x, d, p, content))
<1> DEFINE made == Made(x, d, x.observed[p], content)
           r    == <<d, x.epoch>>
           row  == Edited(x, d, p, content)
<1>1. /\ x.versions[p] \in SUBSET Revision /\ x.observed[p] \in SUBSET Revision
      /\ x.observed[p] \subseteq Keeps(x, p) /\ x.versions[p] \subseteq Keeps(x, p)
  BY DEF Index, Keeps
<1>2. made.rev \in Revision
  BY <1>1, MadeOK
<1>3. MadeFrom(Keeps(x, p), r, made.rev)
  <2> DEFINE seen == x.observed[p]
             kept == Keeps(x, p)
  <2>1. seen \in SUBSET Revision /\ seen \subseteq kept /\ CanEdit(seen, <<d, x.epoch>>)
    BY <1>1
  <2> HIDE DEF seen, kept
  <2>2. MadeFrom(kept, <<d, x.epoch>>, Made(x, d, seen, content).rev)
    BY <2>1, MadeIsMade
  <2> QED
    BY <2>2 DEF seen, kept
<1> HIDE DEF made, r
<1>4. Join(x.versions[p], {made.rev}) \subseteq x.versions[p] \cup {made.rev}
  BY <1>1, <1>2, JoinedOne
<1>5. /\ row.versions = Join(x.versions[p], {made.rev})
      /\ row.observed = {made.rev} /\ row.made = {made}
  BY DEF Edited, Row, made
<1> HIDE DEF row
<1>6. row.versions \cup row.observed \subseteq Keeps(x, p) \cup {m.rev : m \in row.made}
  BY <1>1, <1>4, <1>5
<1>7. RowFlows(x, r, p, row)
  BY <1>3, <1>5, <1>6 DEF RowFlows
<1> QED
  BY <1>7 DEF r, row

LEMMA StoredFlows ==
    ASSUME NEW x, NEW r, NEW p, NEW row,
           row.versions \subseteq Keeps(x, p), row.observed \subseteq Keeps(x, p),
           row.made = {}
    PROVE  RowFlows(x, r, p, row)
BY DEF RowFlows

LEMMA ScanFlows ==
    ASSUME NEW x \in Index, NEW d \in Device, NEW folder \in [Path -> Content],
           NEW approve \in BOOLEAN, CanScan(x, d, folder, approve), NEW p \in Path
    PROVE  RowFlows(x, <<d, x.epoch>>, p, ScanRows(x, d, folder, approve)[p])
<1> DEFINE row == ScanRow(x, d, p, folder[p], approve)
<1>1. ScanRows(x, d, folder, approve)[p] = row
  BY DEF ScanRows
<1>2. folder[p] \in Content
  OBVIOUS
<1>3. x.versions[p] \subseteq Keeps(x, p) /\ x.observed[p] \subseteq Keeps(x, p)
  BY DEF Keeps
<1>4. CASE IsEdit(x, p, folder[p], approve) /\ row = Edited(x, d, p, folder[p])
  <2>1. CanEdit(x.observed[p], <<d, x.epoch>>)
    BY <1>4 DEF CanScan
  <2> QED
    BY <1>1, <1>2, <1>4, <2>1, EditedFlows
<1>5. CASE row = Adopted(x, p, folder[p])
  <2>1. /\ row.versions = x.versions[p] /\ row.made = {}
        /\ row.observed \in {x.versions[p], x.observed[p]}
    BY <1>5 DEF Adopted, Row
  <2> HIDE DEF row
  <2> QED
    BY <1>1, <1>3, <2>1, StoredFlows
<1>6. CASE row.versions = x.versions[p] /\ row.observed = x.observed[p] /\ row.made = {}
  <2> HIDE DEF row
  <2> QED
    BY <1>1, <1>3, <1>6, StoredFlows
<1> QED
  BY <1>4, <1>5, <1>6, ScanRowParts

LEMMA OpenFlows ==
    ASSUME Inv, NEW d \in Device, CanOpen(d), NEW p \in Path
    PROVE  RowFlows(db[d], ReplicaOf(d), p, OpenRows(d)[p])
<1>1. db[d] \in Index /\ disk[d] \in [Path -> Content]
  BY DEF Inv, TypeOK
<1>2. CASE db[d].recovering
  <2>1. OpenRows(d)[p] = Stored(db[d], p)
    BY <1>2 DEF OpenRows
  <2>2. /\ Stored(db[d], p).versions = db[d].versions[p]
        /\ Stored(db[d], p).observed = db[d].observed[p] /\ Stored(db[d], p).made = {}
    BY DEF Stored, Row
  <2> QED
    BY <2>1, <2>2, StoredFlows DEF Keeps
<1>3. CASE ~db[d].recovering
  <2>1. OpenRows(d) = ScanRows(db[d], d, disk[d], FALSE) /\ CanScan(db[d], d, disk[d], FALSE)
    BY <1>3 DEF OpenRows, CanOpen
  <2> QED
    BY <1>1, <2>1, ScanFlows DEF ReplicaOf
<1> QED
  BY <1>2, <1>3

(* What a saved transaction keeps, when its births are recorded. *)
LEMMA SaveFollows ==
    ASSUME Inv, NEW d \in Device, NEW row,
           \A p \in Path : RowFlows(db[d], ReplicaOf(d), p, row[p]),
           \A p \in Path : \A m \in row[p].made : BornAs(p, ReplicaOf(d), m.rev)
    PROVE  Follows(d, Save(db[d], row))
<1> DEFINE y == Save(db[d], row)
<1>1. \A p \in Path : /\ y.versions[p] = row[p].versions
                      /\ y.observed[p] = row[p].observed
                      /\ y.history[p] = db[d].history[p]
                                          \cup (db[d].versions[p] \cup row[p].versions)
  BY SaveParts DEF Inv, TypeOK
<1> HIDE DEF y
<1>2. ASSUME NEW p \in Path, NEW h \in Keeps(y, p), h \notin Keeps(db[d], p)
      PROVE  /\ BornAs(p, ReplicaOf(d), h)
             /\ MadeFrom(Keeps(db[d], p), ReplicaOf(d), h)
  <2>1. h \in row[p].versions \cup row[p].observed
    BY <1>1, <1>2 DEF Keeps
  <2>2. h \in {m.rev : m \in row[p].made}
    BY <1>2, <2>1 DEF RowFlows
  <2> QED
    BY <2>2 DEF RowFlows
<1> QED
  BY <1>2 DEF Follows, y

LEMMA RecordBirths ==
    ASSUME Inv, NEW d \in Device, NEW row, Record(d, db[d], row),
           \A p \in Path : RowFlows(db[d], ReplicaOf(d), p, row[p])
    PROVE  /\ BirthFlows
           /\ \A p \in Path : \A m \in row[p].made : BornAs(p, ReplicaOf(d), m.rev)
<1>1. \A p \in Path : born'[p] = born[p] \cup BirthsIn(born[p], ReplicaOf(d), row[p].made)
  BY RecordGrowth
<1>2. \A p \in Path : \A m \in row[p].made :
         \E b \in BirthsIn(born[p], ReplicaOf(d), row[p].made) :
            b.rev = m.rev /\ b.by = ReplicaOf(d)
  <2> TAKE p \in Path
  <2> TAKE m \in row[p].made
  <2> DEFINE b == BirthOf(born[p], ReplicaOf(d), m.basis, m.rev)
  <2>1. b.rev = m.rev /\ b.by = ReplicaOf(d)
    BY DEF BirthOf
  <2>2. b \in BirthsIn(born[p], ReplicaOf(d), row[p].made)
    BY DEF BirthsIn
  <2> HIDE DEF b
  <2> QED
    BY <2>1, <2>2
<1>3. \A p \in Path : \A b \in BirthsIn(born[p], ReplicaOf(d), row[p].made) :
         b.by = ReplicaOf(d) /\ \E m \in row[p].made : b.rev = m.rev
  BY DEF BirthsIn, BirthOf
<1>4. \A p \in Path : \A m \in row[p].made : m.rev.clock[ReplicaOf(d)] > 0
  BY DEF RowFlows, MadeFrom
<1>5. BirthFlows
  BY <1>1, <1>3, <1>4 DEF BirthFlows
<1> QED
  BY <1>1, <1>2, <1>5 DEF BornAs

LEMMA NoBirths ==
    ASSUME UNCHANGED born
    PROVE  BirthFlows
BY DEF BirthFlows

LEMMA KeepsFollow ==
    ASSUME NEW e, NEW y, \A p \in Path : Keeps(y, p) \subseteq Keeps(db[e], p)
    PROVE  Follows(e, y)
BY DEF Follows

LEMMA OneIndexFlows ==
    ASSUME Inv, NEW d \in Device, NEW y, db' = [db EXCEPT ![d] = y],
           y.epoch = db[d].epoch, Follows(d, y)
    PROVE  \A e \in Device : IndexFlows(e)
<1>1. \A e \in Device : db'[e] = IF e = d THEN y ELSE db[e]
  BY DEF Inv, TypeOK
<1>2. \A e \in Device : Follows(e, db[e])
  BY KeepsFollow
<1> QED
  BY <1>1, <1>2 DEF IndexFlows

LEMMA SameIndexesFlow ==
    ASSUME UNCHANGED db
    PROVE  \A e \in Device : IndexFlows(e)
BY KeepsFollow DEF IndexFlows

LEMMA SessionsFlow ==
    ASSUME \A e \in Device : \/ sess'[e].incoming = sess[e].incoming
                             \/ sess'[e] = NoSession(e)
    PROVE  \A e \in Device : SessionFlows(e)
<1>1. \A e \in Device : \A p \in Path : NoSession(e).incoming[p] = {}
  BY DEF NoSession
<1> QED
  BY <1>1 DEF SessionFlows

LEMMA EndFlows ==
    ASSUME Inv, NEW d \in Device, End(d)
    PROVE  \A e \in Device : SessionFlows(e)
<1>1. \A e \in Device : sess'[e] = IF e = d THEN NoSession(d) ELSE sess[e]
  BY DEF End, Inv, TypeOK
<1> QED
  BY <1>1, SessionsFlow

LEMMA GotoFlows ==
    ASSUME Inv, NEW d \in Device, NEW phase, Goto(d, phase)
    PROVE  \A e \in Device : SessionFlows(e)
<1>1. \A e \in Device : sess'[e].incoming = sess[e].incoming
  BY DEF Goto, Inv, TypeOK, Session
<1> QED
  BY <1>1, SessionsFlow

LEMMA TurnFlows ==
    ASSUME Inv, NEW d \in Device, NEW phase, NEW p, Turn(d, phase, p)
    PROVE  \A e \in Device : SessionFlows(e)
<1>1. \A e \in Device : sess'[e].incoming = sess[e].incoming
  BY DEF Turn, Inv, TypeOK, Session
<1> QED
  BY <1>1, SessionsFlow

LEMMA ToldFlows ==
    ASSUME Inv, NEW d \in Device, NEW phase,
           \A k \in Device : \/ sess'[k] = sess[k]
                             \/ sess'[k] = [sess[k] EXCEPT !.phase = phase]
                             \/ sess'[k] = [sess[k] EXCEPT !.released = TRUE]
                             \/ sess'[k] = [sess[k] EXCEPT !.done = TRUE]
    PROVE  \A e \in Device : SessionFlows(e)
<1>1. ASSUME NEW e \in Device PROVE sess'[e].incoming = sess[e].incoming
  <2>1. sess[e] \in Session
    BY DEF Inv, TypeOK
  <2>2. CASE sess'[e] = sess[e]
    BY <2>2
  <2>3. CASE sess'[e] = [sess[e] EXCEPT !.phase = phase]
    BY <2>1, <2>3 DEF Session
  <2>4. CASE sess'[e] = [sess[e] EXCEPT !.released = TRUE]
    BY <2>1, <2>4 DEF Session
  <2>5. CASE sess'[e] = [sess[e] EXCEPT !.done = TRUE]
    BY <2>1, <2>5 DEF Session
  <2> QED
    BY <2>2, <2>3, <2>4, <2>5
<1> QED
  BY <1>1, SessionsFlow

LEMMA SayAppliedFlows ==
    ASSUME Inv, NEW d \in Device, SayApplied(d)
    PROVE  \A e \in Device : SessionFlows(e)
BY ToldFlows DEF SayApplied, Linked

LEMMA AsideFlows ==
    ASSUME UNCHANGED <<mode, saved>>
    PROVE  \A e \in Device : SavedFlows(e) /\ ModeFlows(e)
BY DEF SavedFlows, ModeFlows

(* The actions                                                                 *)

(* A scan that is saved, or refused. *)
LEMMA ScannedFlows ==
    ASSUME Inv, NEW d \in Device, NEW approve \in BOOLEAN,
           CanScan(db[d], d, disk[d], approve),
           Record(d, db[d], ScanRows(db[d], d, disk[d], approve))
    PROVE  /\ BirthFlows
           /\ Follows(d, Save(db[d], ScanRows(db[d], d, disk[d], approve)))
<1>1. db[d] \in Index /\ disk[d] \in [Path -> Content]
  BY DEF Inv, TypeOK
<1>2. \A p \in Path : RowFlows(db[d], ReplicaOf(d), p,
                               ScanRows(db[d], d, disk[d], approve)[p])
  BY <1>1, ScanFlows DEF ReplicaOf
<1> QED
  BY <1>2, RecordBirths, SaveFollows

LEMMA ScannedIndexesFlow ==
    ASSUME Inv, NEW d \in Device, NEW approve \in BOOLEAN,
           CanScan(db[d], d, disk[d], approve),
           Record(d, db[d], ScanRows(db[d], d, disk[d], approve)),
           db' = [db EXCEPT ![d] = Save(db[d], ScanRows(db[d], d, disk[d], approve))]
    PROVE  BirthFlows /\ \A e \in Device : IndexFlows(e)
<1>1. Save(db[d], ScanRows(db[d], d, disk[d], approve)).epoch = db[d].epoch
  BY SaveEpoch DEF Inv, TypeOK
<1> QED
  BY <1>1, ScannedFlows, OneIndexFlows

LEMMA ScanDirected ==
    ASSUME Inv, NEW d \in Device, NEW approve \in BOOLEAN, Scan(d, approve)
    PROVE  Flows
<1>1. UNCHANGED <<mode, saved, sess>>
  BY DEF Scan
<1>2. BirthFlows /\ \A e \in Device : IndexFlows(e)
  <2>1. CASE CanScan(db[d], d, disk[d], approve)
    BY <2>1, ScannedIndexesFlow DEF Scan
  <2>2. CASE ~CanScan(db[d], d, disk[d], approve)
    BY <2>2, NoBirths, SameIndexesFlow DEF Scan
  <2> QED
    BY <2>1, <2>2
<1> QED
  BY <1>1, <1>2, SessionsFlow, AsideFlows DEF Flows

LEMMA ChooseScanDirected ==
    ASSUME Inv, NEW d \in Device, ChooseScan(d)
    PROVE  Flows
<1>1. UNCHANGED <<mode, saved>> /\ Goto(d, "choosing")
  BY DEF ChooseScan
<1>2. BirthFlows /\ \A e \in Device : IndexFlows(e)
  BY ScannedIndexesFlow DEF ChooseScan
<1> QED
  BY <1>1, <1>2, GotoFlows, AsideFlows DEF Flows

LEMMA RescanDirected ==
    ASSUME Inv, NEW d \in Device, Rescan(d)
    PROVE  Flows
<1>1. UNCHANGED <<mode, saved>> /\ (Goto(d, "applying") \/ End(d))
  BY DEF Rescan
<1>2. BirthFlows /\ \A e \in Device : IndexFlows(e)
  <2>1. CASE CanScan(db[d], d, disk[d], FALSE)
    BY <2>1, ScannedIndexesFlow DEF Rescan
  <2>2. CASE ~CanScan(db[d], d, disk[d], FALSE)
    BY <2>2, NoBirths, SameIndexesFlow DEF Rescan
  <2> QED
    BY <2>1, <2>2
<1> QED
  BY <1>1, <1>2, GotoFlows, EndFlows, AsideFlows DEF Flows

LEMMA ApproveDeletionDirected ==
    ASSUME Inv, NEW d \in Device, NEW p \in Path, ApproveDeletion(d, p)
    PROVE  Flows
<1> DEFINE x       == db[d]
           r       == ReplicaOf(d)
           row     == ScanRows(x, d, disk[d], FALSE)
           scanned == Save(x, row)
           deleted == Edited(scanned, d, p, Deleted)
           births  == [row EXCEPT ![p].made = deleted.made]
           y       == SaveRow(scanned, p, deleted)
<1>1. UNCHANGED <<mode, saved, sess>>
  BY DEF ApproveDeletion
<1>2. x \in Index /\ Whole(x) /\ disk[d] \in [Path -> Content]
  BY DEF Inv, TypeOK
<1>3. /\ CanScan(x, d, disk[d], FALSE)
      /\ p \in scanned.pending
      /\ CanEdit(scanned.observed[p], r)
      /\ db' = [db EXCEPT ![d] = y]
      /\ Record(d, x, births)
  BY DEF ApproveDeletion
<1>4. scanned \in Index
  BY <1>2, <1>3, ScanRowsOK DEF Grown
<1>5. scanned.epoch = x.epoch /\ r = <<d, scanned.epoch>> /\ r = <<d, x.epoch>>
  BY <1>2, SaveEpoch DEF ReplicaOf
<1>6. \A q \in Path : RowFlows(x, r, q, row[q])
  BY <1>2, <1>3, <1>5, ScanFlows
<1>7. row[p].made = {}
  <2>1. row[p] = ScanRow(x, d, p, disk[d][p], FALSE)
    BY DEF ScanRows
  <2>2. scanned.pending = {q \in Path : row[q].pending}
    BY <1>2 DEF Save, Write, Index
  <2>3. p \in scanned.pending
    BY <1>3
  <2> HIDE DEF row, scanned, x
  <2>4. ScanRow(x, d, p, disk[d][p], FALSE).pending
    BY <2>1, <2>2, <2>3
  <2> QED
    BY <2>1, <2>4, PendingMakesNothing
<1>8. \A q \in Path : births[q].made = IF q = p THEN deleted.made ELSE row[q].made
  <2>1. row[p] = ScanRow(x, d, p, disk[d][p], FALSE) /\ p \in DOMAIN row
    BY DEF ScanRows
  <2>2. "made" \in DOMAIN row[p]
    BY <2>1, ScanRowMakes
  <2> HIDE DEF row, deleted
  <2> QED
    BY <2>1, <2>2
<1>9. \A q \in Path : /\ scanned.versions[q] = row[q].versions
                      /\ scanned.observed[q] = row[q].observed
                      /\ scanned.history[q] = x.history[q] \cup (x.versions[q] \cup row[q].versions)
  <2> HIDE DEF row
  <2> QED
    BY <1>2, SaveParts
<1> HIDE DEF x, r, row, scanned, births
<1>10. Keeps(scanned, p) \subseteq Keeps(x, p)
  BY <1>6, <1>7, <1>9 DEF RowFlows, Keeps
<1>11. RowFlows(scanned, r, p, deleted)
  BY <1>3, <1>4, <1>5, EditedFlows DEF Content
<1> HIDE DEF deleted
<1>12. /\ y.epoch = scanned.epoch
       /\ y.versions[p] = deleted.versions /\ y.observed[p] = deleted.observed
       /\ y.history[p] = scanned.history[p] \cup (scanned.versions[p] \cup deleted.versions)
       /\ \A q \in Path \ {p} :
             /\ y.versions[q] = scanned.versions[q] /\ y.observed[q] = scanned.observed[q]
             /\ y.history[q] = scanned.history[q] \cup scanned.versions[q]
  BY <1>4, SaveRowParts, SaveEpoch
<1> HIDE DEF y
<1>13. \A m \in deleted.made : MadeFrom(Keeps(x, p), r, m.rev)
  BY <1>10, <1>11, MadeFromMore DEF RowFlows
<1>14. \A q \in Path : \A m \in births[q].made : MadeFrom(Keeps(x, q), r, m.rev)
  BY <1>6, <1>8, <1>13 DEF RowFlows
<1>15. /\ BirthFlows
       /\ \A q \in Path : \A m \in births[q].made : BornAs(q, r, m.rev)
  <2> DEFINE none == [q \in Path |-> Row({}, Deleted, {}, FALSE, births[q].made)]
  <2>1. \A q \in Path : /\ none[q].versions = {} /\ none[q].observed = {}
                        /\ none[q].made = births[q].made
    BY DEF Row
  <2>2. \A q \in Path : Births(d, x, none)[q] = Births(d, x, births)[q]
    BY <2>1 DEF Births
  <2> HIDE DEF none
  <2>3. \A q \in Path : RowFlows(x, r, q, none[q])
    BY <1>14, <2>1 DEF RowFlows
  <2>4. Record(d, x, none)
    BY <1>3, <2>2 DEF Record
  <2>5. /\ BirthFlows
        /\ \A q \in Path : \A m \in none[q].made : BornAs(q, r, m.rev)
    BY <2>3, <2>4, RecordBirths DEF x, r
  <2> QED
    BY <2>1, <2>5
<1>16. ASSUME NEW q \in Path, NEW h \in Keeps(y, q), h \notin Keeps(x, q)
       PROVE  BornAs(q, r, h) /\ MadeFrom(Keeps(x, q), r, h)
  <2>1. \E m \in births[q].made : m.rev = h
    <3>1. CASE q = p
      <4>1. h \in Keeps(scanned, p) \cup (deleted.versions \cup deleted.observed)
        BY <1>12, <1>16, <3>1 DEF Keeps
      <4>2. h \in {m.rev : m \in deleted.made}
        BY <1>10, <1>11, <1>16, <3>1, <4>1 DEF RowFlows
      <4> QED
        BY <1>8, <3>1, <4>2
    <3>2. CASE q # p
      <4>1. h \in Keeps(scanned, q)
        BY <1>12, <1>16, <3>2 DEF Keeps
      <4>2. h \in row[q].versions \cup row[q].observed
        BY <1>9, <1>16, <4>1 DEF Keeps
      <4>3. h \in {m.rev : m \in row[q].made}
        BY <1>6, <1>16, <4>2 DEF RowFlows
      <4> QED
        BY <1>8, <3>2, <4>3
    <3> QED
      BY <3>1, <3>2
  <2> QED
    BY <1>14, <1>15, <2>1
<1>17. Follows(d, y)
  BY <1>16 DEF Follows, x, r
<1>18. \A e \in Device : IndexFlows(e)
  BY <1>3, <1>5, <1>12, <1>17, OneIndexFlows DEF x
<1> QED
  BY <1>1, <1>15, <1>18, SessionsFlow, AsideFlows DEF Flows

LEMMA ChooseCommitDirected ==
    ASSUME Inv, NEW d \in Device, NEW p \in Path,
           NEW chosen \in db[d].versions[p] \cup db[d].history[p],
           ChooseCommit(d, p, chosen)
    PROVE  Flows
<1> DEFINE x      == db[d]
           r      == ReplicaOf(d)
           made   == Made(x, d, x.versions[p], chosen.content)
           row    == Row({made.rev}, disk[d][p], x.observed[p], FALSE, {made})
           rows   == [q \in Path |-> IF q = p THEN row ELSE Stored(x, q)]
<1>1. UNCHANGED <<mode, saved>> /\ Turn(d, "chosen", p)
  BY DEF ChooseCommit, Turn
<1>2. x \in Index /\ x.versions[p] \in SUBSET Revision /\ x.history[p] \in SUBSET Revision
  BY DEF Inv, TypeOK, Index
<1>3. chosen.content \in Content
  BY <1>2 DEF Revision
<1>4. /\ CanEdit(x.versions[p], r)
      /\ db' = [db EXCEPT ![d] = SaveRow(x, p, row)]
      /\ Record(d, x, rows)
  BY DEF ChooseCommit
<1>5. MadeFrom(Keeps(x, p), r, made.rev)
  BY <1>2, <1>3, <1>4, MadeIsMade DEF ReplicaOf, Keeps
<1>6. SaveRow(x, p, row) = Save(x, rows) /\ Save(x, rows).epoch = x.epoch
  BY <1>2, SaveEpoch DEF SaveRow
<1>7. \A q \in Path : rows[q] = IF q = p THEN row ELSE Stored(x, q)
  OBVIOUS
<1> HIDE DEF made, rows
<1>8. row.versions = {made.rev} /\ row.observed = x.observed[p] /\ row.made = {made}
  BY DEF Row
<1> HIDE DEF row
<1>9. ASSUME NEW q \in Path PROVE RowFlows(x, r, q, rows[q])
  <2>1. CASE q = p
    BY <1>5, <1>7, <1>8, <2>1 DEF RowFlows, Keeps
  <2>2. CASE q # p
    BY <1>7, <2>2, StoredFlows DEF Stored, Row, Keeps
  <2> QED
    BY <2>1, <2>2
<1>10. BirthFlows /\ Follows(d, Save(x, rows))
  BY <1>4, <1>9, RecordBirths, SaveFollows
<1>11. \A e \in Device : IndexFlows(e)
  BY <1>4, <1>6, <1>10, OneIndexFlows
<1> QED
  BY <1>1, <1>10, <1>11, TurnFlows, AsideFlows DEF Flows

LEMMA ConnectDirected ==
    ASSUME Inv, NEW c \in Device, NEW s \in Device, Connect(c, s)
    PROVE  Flows
<1>1. /\ c # s /\ CanOpen(c) /\ CanOpen(s)
      /\ db' = [db EXCEPT ![c] = Opened(c), ![s] = Opened(s)]
      /\ UNCHANGED <<mode, saved>>
  BY DEF Connect
<1>2. \A e \in {c, s} : \A p \in Path : RowFlows(db[e], ReplicaOf(e), p, OpenRows(e)[p])
  BY <1>1, OpenFlows
<1>3. \A p \in Path : born'[p] = born[p]
                        \cup BirthsIn(born[p], ReplicaOf(c), OpenRows(c)[p].made)
                        \cup BirthsIn(born[p], ReplicaOf(s), OpenRows(s)[p].made)
  BY BirthsAre DEF Connect, ReplicaOf
<1>4. ASSUME NEW e \in {c, s}, NEW p \in Path
      PROVE  /\ \A b \in BirthsIn(born[p], ReplicaOf(e), OpenRows(e)[p].made) :
                   b.rev.clock[b.by] > 0
             /\ \A m \in OpenRows(e)[p].made : BornAs(p, ReplicaOf(e), m.rev)
  <2>1. \A m \in OpenRows(e)[p].made : m.rev.clock[ReplicaOf(e)] > 0
    BY <1>2 DEF RowFlows, MadeFrom
  <2>2. \A m \in OpenRows(e)[p].made :
           LET b == BirthOf(born[p], ReplicaOf(e), m.basis, m.rev)
           IN  /\ b.rev = m.rev /\ b.by = ReplicaOf(e)
               /\ b \in BirthsIn(born[p], ReplicaOf(e), OpenRows(e)[p].made)
    BY DEF BirthOf, BirthsIn
  <2>3. \A b \in BirthsIn(born[p], ReplicaOf(e), OpenRows(e)[p].made) :
           b.by = ReplicaOf(e) /\ \E m \in OpenRows(e)[p].made : b.rev = m.rev
    BY DEF BirthOf, BirthsIn
  <2>4. BirthsIn(born[p], ReplicaOf(e), OpenRows(e)[p].made) \subseteq born'[p]
    BY <1>3
  <2>5. ASSUME NEW m \in OpenRows(e)[p].made PROVE BornAs(p, ReplicaOf(e), m.rev)
    BY <2>2, <2>4 DEF BornAs
  <2> QED
    BY <2>1, <2>3, <2>5
<1>5. BirthFlows
  <2>1. ASSUME NEW p \in Path, NEW b \in born'[p]
        PROVE  b \in born[p] \/ b.rev.clock[b.by] > 0
    BY <1>3, <1>4, <2>1
  <2> QED
    BY <1>3, <2>1 DEF BirthFlows
<1>6. \A e \in {c, s} : Follows(e, Opened(e)) /\ Opened(e).epoch = db[e].epoch
  <2>1. \A e \in {c, s} : db[e] \in Index
    BY DEF Inv, TypeOK
  <2> QED
    BY <1>2, <1>4, <2>1, SaveFollows, SaveEpoch DEF Opened
<1>7. \A e \in Device : IndexFlows(e)
  <2>1. \A e \in Device : db'[e] = IF e = s THEN Opened(s) ELSE
                                   IF e = c THEN Opened(c) ELSE db[e]
    BY <1>1 DEF Inv, TypeOK
  <2> QED
    BY <1>6, <2>1, KeepsFollow DEF IndexFlows
<1>8. \A e \in Device : SessionFlows(e)
  <2> DEFINE hello(d, e, client) ==
                [NoSession(d) EXCEPT
                  !.phase = "hello", !.peer = e, !.client = client,
                  !.seq = HelloSeq(d),
                  !.remote = [epoch |-> db[e].epoch, seq |-> HelloSeq(e)]]
  <2>1. sess' = [sess EXCEPT ![c] = hello(c, s, TRUE), ![s] = hello(s, c, FALSE)]
    BY DEF Connect
  <2>2. \A p \in Path : hello(c, s, TRUE).incoming[p] = {} /\ hello(s, c, FALSE).incoming[p] = {}
    BY DEF NoSession
  <2> HIDE DEF hello
  <2>3. \A e \in Device : (\A p \in Path : sess'[e].incoming[p] = {}) \/ sess'[e] = sess[e]
    BY <2>1, <2>2 DEF Inv, TypeOK
  <2> QED
    BY <2>3 DEF SessionFlows
<1> QED
  BY <1>1, <1>5, <1>7, <1>8, AsideFlows DEF Flows

LEMMA StageDirected ==
    ASSUME Inv, NEW d \in Device, Stage(d)
    PROVE  Flows
<1> DEFINE e        == sess[d].peer
           incoming == Records(e, d)
           needed   == {h.content : h \in UNION {incoming[p] : p \in Path}}
                          \cap (File \ objects[d])
<1>1. UNCHANGED <<db, born, mode, saved>>
  BY DEF Stage
<1>2. sess \in [Device -> Session] /\ e \in Device
  BY DEF Inv, TypeOK, Session
<1>3. \/ sess' = [sess EXCEPT ![e] = NoSession(e)]
      \/ sess' = [sess EXCEPT ![d] = NoSession(d)]
      \/ sess' = [sess EXCEPT ![d].phase = "pull", ![d].incoming = incoming,
                              ![d].needed = needed]
  BY DEF Stage
<1>4. \A p \in Path : \A h \in incoming[p] : Exports(e, d) /\ h \in db[e].versions[p]
  BY DEF Records
<1> HIDE DEF e, incoming, needed
<1>5. ASSUME NEW k \in Device PROVE SessionFlows(k)
  <2>1. \A p \in Path : NoSession(k).incoming[p] = {}
    BY DEF NoSession
  <2>2. CASE sess'[k] = NoSession(k) \/ sess'[k] = sess[k]
    BY <2>1, <2>2 DEF SessionFlows
  <2>3. CASE k = d /\ sess'[k].incoming = incoming
    BY <1>2, <1>4, <2>3 DEF SessionFlows
  <2>4. CASE sess' = [sess EXCEPT ![d].phase = "pull", ![d].incoming = incoming,
                                  ![d].needed = needed]
    BY <1>2, <2>2, <2>3, <2>4 DEF Session
  <2> QED
    BY <1>2, <1>3, <2>2, <2>4
<1> QED
  BY <1>1, <1>5, NoBirths, SameIndexesFlow, AsideFlows DEF Flows

LEMMA PullDirected ==
    ASSUME Inv, NEW d \in Device, NEW f \in File, Pull(d, f)
    PROVE  Flows
<1>1. UNCHANGED <<db, born, mode, saved>>
  BY DEF Pull
<1>2. sess \in [Device -> Session] /\ sess[d].peer \in Device
  BY DEF Inv, TypeOK, Session
<1>3. sess' = [sess EXCEPT ![d].needed = @ \ {f}] \/ End(sess[d].peer)
  BY DEF Pull
<1>4. CASE sess' = [sess EXCEPT ![d].needed = @ \ {f}]
  <2>1. \A e \in Device : sess'[e].incoming = sess[e].incoming
    BY <1>2, <1>4 DEF Session
  <2> QED
    BY <1>1, <2>1, SessionsFlow, NoBirths, SameIndexesFlow, AsideFlows DEF Flows
<1>5. CASE End(sess[d].peer)
  BY <1>1, <1>2, <1>5, EndFlows, NoBirths, SameIndexesFlow, AsideFlows DEF Flows
<1> QED
  BY <1>3, <1>4, <1>5

LEMMA PullDoneDirected ==
    ASSUME Inv, NEW d \in Device, PullDone(d)
    PROVE  Flows
<1>1. UNCHANGED <<db, born, mode, saved>>
  BY DEF PullDone
<1>2. \A k \in Device : \/ sess'[k] = sess[k]
                        \/ sess'[k] = [sess[k] EXCEPT !.phase = "pulled"]
                        \/ sess'[k] = [sess[k] EXCEPT !.released = TRUE]
  BY DEF PullDone
<1> QED
  BY <1>1, <1>2, ToldFlows, NoBirths, SameIndexesFlow, AsideFlows DEF Flows

LEMMA OpenedFollows ==
    ASSUME Inv, NEW d \in Device, CanOpen(d), Record(d, db[d], OpenRows(d))
    PROVE  BirthFlows /\ Follows(d, Opened(d)) /\ Opened(d).epoch = db[d].epoch
<1>1. \A p \in Path : RowFlows(db[d], ReplicaOf(d), p, OpenRows(d)[p])
  BY OpenFlows
<1>2. db[d] \in Index
  BY DEF Inv, TypeOK
<1> QED
  BY <1>1, <1>2, RecordBirths, SaveFollows, SaveEpoch DEF Opened

LEMMA CommitDirected ==
    ASSUME Inv, NEW d \in Device, Commit(d)
    PROVE  Flows
<1> DEFINE x     == Opened(d)
           row   == [p \in Path |-> JoinRow(x, p, sess[d].incoming[p])]
           phase == IF db[d].recovering THEN "rescan" ELSE "applying"
           y     == Save(x, row)
<1>1. /\ CanOpen(d) /\ UNCHANGED <<mode, saved>> /\ mode[d] # "SendOnly"
      /\ db' = [db EXCEPT ![d] = y]
      /\ Record(d, db[d], OpenRows(d))
      /\ Goto(d, phase)
  BY DEF Commit
<1>2. BirthFlows /\ Follows(d, x) /\ x.epoch = db[d].epoch
  BY <1>1, OpenedFollows
<1>3. x \in Index /\ sess[d] \in Session
  BY <1>1, OpenRowsOK DEF Grown, Inv, TypeOK
<1> HIDE DEF x
<1>4. y.epoch = x.epoch
  BY <1>3, SaveEpoch
<1>5. ASSUME NEW p \in Path
      PROVE  /\ row[p].versions \subseteq x.versions[p] \cup sess[d].incoming[p]
             /\ row[p].observed = x.observed[p]
  <2>1. x.versions[p] \in SUBSET Revision /\ sess[d].incoming[p] \in SUBSET Revision
    BY <1>3 DEF Index, Session
  <2>2. Join(x.versions[p], sess[d].incoming[p]) \subseteq x.versions[p] \cup sess[d].incoming[p]
    BY <2>1, JoinType
  <2>3. /\ \/ JoinRow(x, p, sess[d].incoming[p]).versions = x.versions[p]
           \/ JoinRow(x, p, sess[d].incoming[p]).versions
                = Join(x.versions[p], sess[d].incoming[p])
        /\ JoinRow(x, p, sess[d].incoming[p]).observed = x.observed[p]
    BY DEF JoinRow, Stored, Row
  <2> QED
    BY <2>2, <2>3
<1> HIDE DEF row
<1>6. \A p \in Path :
         /\ y.versions[p] = row[p].versions /\ y.observed[p] = row[p].observed
         /\ y.history[p] = x.history[p] \cup (x.versions[p] \cup row[p].versions)
  BY <1>3, SaveParts
<1> HIDE DEF y
<1>7. \A p \in Path : Keeps(y, p) \subseteq Keeps(x, p) \cup sess[d].incoming[p]
  BY <1>5, <1>6 DEF Keeps
<1>8. Follows(d, y)
  BY <1>1, <1>2, <1>7 DEF Follows
<1>9. \A e \in Device : IndexFlows(e)
  BY <1>1, <1>2, <1>4, <1>8, OneIndexFlows
<1> HIDE DEF phase
<1> QED
  BY <1>1, <1>2, <1>9, GotoFlows, AsideFlows DEF Flows

LEMMA CommitRefusedDirected ==
    ASSUME Inv, NEW d \in Device, CommitRefused(d)
    PROVE  Flows
<1>1. UNCHANGED <<mode, saved>> /\ End(d)
  BY DEF CommitRefused
<1>2. BirthFlows /\ \A e \in Device : IndexFlows(e)
  <2>1. CASE CanOpen(d)
    BY <2>1, OpenedFollows, OneIndexFlows DEF CommitRefused
  <2>2. CASE ~CanOpen(d)
    BY <2>2, NoBirths, SameIndexesFlow DEF CommitRefused
  <2> QED
    BY <2>1, <2>2
<1> QED
  BY <1>1, <1>2, EndFlows, AsideFlows DEF Flows

LEMMA AcknowledgeDirected ==
    ASSUME Inv, NEW d \in Device, Acknowledge(d)
    PROVE  Flows
<1> DEFINE p   == sess[d].path
           x   == db[d]
           row == Row(x.versions[p], Target(d, p), x.versions[p], p \in x.pending, {})
           y   == SaveRow(x, p, row)
<1>1. UNCHANGED <<born, mode, saved>>
  BY DEF Acknowledge
<1>2. x \in Index /\ p \in Path
  BY DEF Inv, TypeOK, Session
<1>3. row.versions = x.versions[p] /\ row.observed = x.versions[p]
  BY DEF Row
<1>4. db' = [db EXCEPT ![d] = y] /\ (End(d) \/ Goto(d, "applying"))
  BY DEF Acknowledge, Acknowledged
<1> HIDE DEF row, p, x
<1>5. ASSUME NEW q \in Path PROVE Keeps(y, q) \subseteq Keeps(x, q)
  <2>1. CASE q = p
    BY <1>2, <1>3, <2>1, SaveRowParts DEF Keeps
  <2>2. CASE q # p
    BY <1>2, <2>2, SaveRowParts DEF Keeps
  <2> QED
    BY <2>1, <2>2
<1>6. y.epoch = x.epoch
  BY <1>2, SaveEpoch
<1> HIDE DEF y
<1>7. \A e \in Device : IndexFlows(e)
  BY <1>4, <1>5, <1>6, KeepsFollow, OneIndexFlows DEF x
<1> QED
  BY <1>1, <1>4, <1>7, NoBirths, EndFlows, GotoFlows, AsideFlows DEF Flows

(* What leaves the rows as they are. *)
LEMMA RowsAside ==
    ASSUME Inv, NEW d \in Device, NEW y, db' = [db EXCEPT ![d] = y],
           y.versions = db[d].versions, y.observed = db[d].observed,
           y.history = db[d].history, y.epoch = db[d].epoch
    PROVE  \A e \in Device : IndexFlows(e)
<1>1. \A p \in Path : Keeps(y, p) \subseteq Keeps(db[d], p)
  BY DEF Keeps
<1> QED
  BY <1>1, KeepsFollow, OneIndexFlows

LEMMA AppliedDirected ==
    ASSUME Inv, NEW d \in Device, Applied(d)
    PROVE  Flows
<1> DEFINE y == [db[d] EXCEPT !.recovering = FALSE]
<1>1. SayApplied(d) /\ UNCHANGED <<born, mode, saved>> /\ db' = [db EXCEPT ![d] = y]
  BY DEF Applied
<1>2. /\ y.versions = db[d].versions /\ y.observed = db[d].observed
      /\ y.history = db[d].history /\ y.epoch = db[d].epoch
  BY DEF Inv, TypeOK, Index
<1> HIDE DEF y
<1> QED
  BY <1>1, <1>2, RowsAside, NoBirths, SayAppliedFlows, AsideFlows DEF Flows

LEMMA SetCursorDirected ==
    ASSUME Inv, NEW d \in Device, SetCursor(d)
    PROVE  Flows
<1> DEFINE y == [db[d] EXCEPT !.cursor[sess[d].peer] = sess[d].remote]
<1>1. End(d) /\ UNCHANGED <<born, mode, saved>> /\ db' = [db EXCEPT ![d] = y]
  BY DEF SetCursor
<1>2. /\ y.versions = db[d].versions /\ y.observed = db[d].observed
      /\ y.history = db[d].history /\ y.epoch = db[d].epoch
  BY DEF Inv, TypeOK, Index
<1> HIDE DEF y
<1> QED
  BY <1>1, <1>2, RowsAside, NoBirths, EndFlows, AsideFlows DEF Flows

LEMMA PublishDirected ==
    ASSUME Inv, NEW d \in Device, NEW p \in Path, Publish(d, p) \/ PublishRefused(d, p)
    PROVE  Flows
<1>1. UNCHANGED <<db, born, mode, saved>> /\ (Turn(d, "published", p) \/ End(d))
  BY DEF Publish, PublishRefused, Turn
<1> QED
  BY <1>1, NoBirths, SameIndexesFlow, EndFlows, TurnFlows, AsideFlows DEF Flows

LEMMA AppliedNothingDirected ==
    ASSUME Inv, NEW d \in Device, AppliedNothing(d)
    PROVE  Flows
BY NoBirths, SameIndexesFlow, SayAppliedFlows, AsideFlows DEF AppliedNothing, Flows

LEMMA DisconnectDirected ==
    ASSUME Inv, NEW d \in Device, Disconnect(d)
    PROVE  Flows
BY NoBirths, SameIndexesFlow, EndFlows, AsideFlows DEF Disconnect, Flows

LEMMA AbortDirected ==
    ASSUME Inv, NEW d \in Device, Abort(d)
    PROVE  Flows
<1>1. UNCHANGED <<db, born, mode, saved>>
  BY DEF Abort
<1>2. PICK arrives \in BOOLEAN :
          sess' = [e \in Device |->
                     CASE e = d -> NoSession(d)
                       [] e # d /\ Linked(d, e) -> [sess[e] EXCEPT !.done = @ /\ arrives]
                       [] e # d /\ ~Linked(d, e) -> sess[e]]
  BY DEF Abort
<1>3. \A e \in Device : [sess[e] EXCEPT !.done = @ /\ arrives].incoming = sess[e].incoming
  BY DEF Inv, TypeOK, Session
<1>4. \A e \in Device : \/ sess'[e] = sess[e]
                        \/ sess'[e] = NoSession(e)
                        \/ sess'[e] = [sess[e] EXCEPT !.done = @ /\ arrives]
  BY <1>2
<1>5. \A e \in Device : SessionFlows(e)
  BY <1>3, <1>4, SessionsFlow
<1> QED
  BY <1>1, <1>5, NoBirths, SameIndexesFlow, AsideFlows DEF Flows

LEMMA AppWriteDirected ==
    ASSUME Inv, NEW d \in Device, NEW p \in Path, NEW content \in Payload,
           AppWrite(d, p, content)
    PROVE  Flows
BY NoBirths, SameIndexesFlow, SessionsFlow, AsideFlows DEF AppWrite, Flows

LEMMA BackupDirected ==
    ASSUME Inv, NEW d \in Device, Backup(d)
    PROVE  Flows
<1>1. /\ saved[d] = {} /\ UNCHANGED <<db, born, mode, sess>>
      /\ saved' = [saved EXCEPT ![d] = {[index |-> db[d], mode |-> mode[d]]}]
  BY DEF Backup
<1>2. \A e \in Device :
         saved'[e] = IF e = d THEN {[index |-> db[d], mode |-> mode[d]]} ELSE saved[e]
  BY <1>1 DEF Inv, TypeOK
<1>3. \A e \in Device : SavedFlows(e) /\ ModeFlows(e)
  BY <1>1, <1>2 DEF SavedFlows, ModeFlows
<1> QED
  BY <1>1, <1>3, NoBirths, SameIndexesFlow, SessionsFlow DEF Flows

LEMMA RestoredFlows ==
    ASSUME Inv, NEW d \in Device, NEW s \in saved[d], NEW y,
           y = Restored(d, s) \/ y = [Restored(d, s) EXCEPT !.recovering = TRUE],
           db' = [db EXCEPT ![d] = y]
    PROVE  /\ \A e \in Device : IndexFlows(e)
           /\ db[d].epoch < db'[d].epoch
<1> DEFINE z == Restored(d, s)
           w == [z EXCEPT !.recovering = TRUE]
<1>1. s.index \in Index /\ db[d].epoch \in Nat
  BY FolderAssumption DEF Inv, TypeOK, Index, Epoch
<1>2. /\ z.versions = s.index.versions /\ z.observed = s.index.observed
      /\ z.history = s.index.history /\ z.epoch = db[d].epoch + 1
  BY <1>1 DEF Restored, Index
<1> HIDE DEF z
<1>3. /\ w.versions = z.versions /\ w.observed = z.observed
      /\ w.history = z.history /\ w.epoch = z.epoch
  OBVIOUS
<1> HIDE DEF w
<1>4. y = z \/ y = w
  BY DEF z, w
<1>5. y.epoch = db[d].epoch + 1 /\ \A p \in Path : Keeps(y, p) \subseteq Keeps(s.index, p)
  BY <1>2, <1>3, <1>4 DEF Keeps
<1>6. \A e \in Device : db'[e] = IF e = d THEN y ELSE db[e]
  BY DEF Inv, TypeOK
<1> QED
  BY <1>1, <1>5, <1>6, KeepsFollow DEF IndexFlows

LEMMA RecoverIndexDirected ==
    ASSUME Inv, NEW d \in Device, RecoverIndex(d)
    PROVE  Flows
<1>1. UNCHANGED <<born, mode, sess, saved>>
  BY DEF RecoverIndex
<1>2. PICK s \in saved[d] : db' = [db EXCEPT ![d] = Restored(d, s)]
  BY DEF RecoverIndex
<1> QED
  BY <1>1, <1>2, RestoredFlows, NoBirths, SessionsFlow, AsideFlows DEF Flows

LEMMA RecoverDeviceDirected ==
    ASSUME Inv, NEW d \in Device, RecoverDevice(d)
    PROVE  Flows
<1>1. /\ UNCHANGED <<born, sess, saved>> /\ saved[d] # {}
      /\ mode' = [mode EXCEPT ![d] = "ReceiveOnly"]
  BY DEF RecoverDevice
<1>2. PICK s \in saved[d] :
          db' = [db EXCEPT ![d] = [Restored(d, s) EXCEPT !.recovering = TRUE]]
  BY DEF RecoverDevice
<1>3. (\A e \in Device : IndexFlows(e)) /\ db[d].epoch < db'[d].epoch
  BY <1>2, RestoredFlows
<1>4. \A e \in Device : mode'[e] = IF e = d THEN "ReceiveOnly" ELSE mode[e]
  BY <1>1 DEF Inv, TypeOK
<1>5. \A e \in Device : SavedFlows(e) /\ ModeFlows(e)
  BY <1>1, <1>3, <1>4 DEF SavedFlows, ModeFlows
<1> QED
  BY <1>1, <1>3, <1>5, NoBirths, SessionsFlow DEF Flows

LEMMA ActivateDirected ==
    ASSUME Inv, NEW d \in Device, NEW offline \in BOOLEAN, Activate(d, offline)
    PROVE  Flows
<1> DEFINE y == [db[d] EXCEPT !.recovering = @ /\ ~offline]
<1>1. /\ UNCHANGED <<born, sess, saved>> /\ db' = [db EXCEPT ![d] = y]
      /\ db[d].epoch > 1
  BY DEF Activate
<1>2. PICK s \in saved[d] : mode' = [mode EXCEPT ![d] = s.mode]
  BY DEF Activate
<1>3. /\ y.versions = db[d].versions /\ y.observed = db[d].observed
      /\ y.history = db[d].history /\ y.epoch = db[d].epoch
  BY DEF Inv, TypeOK, Index
<1> HIDE DEF y
<1>4. \A e \in Device : mode'[e] = IF e = d THEN s.mode ELSE mode[e]
  BY <1>2 DEF Inv, TypeOK
<1>5. \A e \in Device : SavedFlows(e) /\ ModeFlows(e)
  BY <1>1, <1>4 DEF SavedFlows, ModeFlows
<1> QED
  BY <1>1, <1>3, <1>5, RowsAside, NoBirths, SessionsFlow DEF Flows

LEMMA DirNext ==
    ASSUME Inv, Inv', DirInv, [Next]_vars
    PROVE  DirInv'
<1>1. ASSUME NEW d \in Device, Step(d) PROVE Flows
  BY <1>1, StageDirected, PullDirected, PullDoneDirected, CommitDirected,
     CommitRefusedDirected, RescanDirected, PublishDirected, AcknowledgeDirected,
     AppliedDirected, AppliedNothingDirected, SetCursorDirected, DisconnectDirected DEF Step
<1>2. ASSUME NEW d \in Device, Command(d) PROVE Flows
  BY <1>2, ScanDirected, ApproveDeletionDirected, ChooseScanDirected, ChooseCommitDirected,
     BackupDirected, RecoverIndexDirected, RecoverDeviceDirected, ActivateDirected DEF Command
<1>3. CASE UNCHANGED vars
  BY <1>3, NoBirths, SameIndexesFlow, SessionsFlow, AsideFlows, FlowsDirected DEF vars, Flows
<1>4. CASE Next
  BY <1>1, <1>2, <1>4, AbortDirected, ConnectDirected, AppWriteDirected, FlowsDirected DEF Next
<1> QED
  BY <1>3, <1>4

LEMMA DirInit == Init => DirInv
<1> SUFFICES ASSUME Init PROVE DirInv
  OBVIOUS
<1>1. /\ \A d \in Device : db[d] = EmptyIndex /\ sess[d] = NoSession(d) /\ saved[d] = {}
      /\ mode = InitialMode /\ \A p \in Path : born[p] = {}
  BY DEF Init
<1>2. \A d \in Device : \A p \in Path : Keeps(db[d], p) = {}
  BY <1>1 DEF Keeps, EmptyIndex
<1>3. \A d \in Device : \A p \in Path : sess[d].incoming[p] = {}
  <2>1. \A d \in Device : \A p \in Path : NoSession(d).incoming[p] = {}
    BY DEF NoSession
  <2> QED
    BY <1>1, <2>1
<1>4. \A d \in Device : \A q : Far(d, q)
  BY <1>1, <1>2, <1>3 DEF Far, Untouched
<1>5. HiddenInv
  BY <1>4 DEF HiddenInv
<1>6. OwnInv
  BY <1>2 DEF OwnInv
<1>7. ModeInv
  BY <1>1 DEF ModeInv
<1>8. BornInv
  BY <1>1 DEF BornInv
<1> QED
  BY <1>5, <1>6, <1>7, <1>8 DEF DirInv

(* The directions hold over any number of exchanges, interruptions and
   recoveries: what a receive-only device makes stays with it, because nobody
   has a clock that counts the replica it is making revisions as, and the
   history of a send-only device is its own (share.rs exports,
   commit_incoming and activate). *)
THEOREM DirectionsKept == Spec => []DirectionKept
<1>1. Init => Inv /\ DirInv
  BY InitOK, DirInit
<1>2. Inv /\ Inv' /\ DirInv /\ [Next]_vars => DirInv'
  BY DirNext
<1>3. Inv /\ DirInv => DirectionKept
  <2> SUFFICES ASSUME Inv, DirInv PROVE DirectionKept
    OBVIOUS
  <2>1. ASSUME NEW d \in Device, NEW e \in Device, d # e, mode[d] = "ReceiveOnly",
               NEW p \in Path, NEW b \in born[p], b.by = ReplicaOf(d),
               b.rev \in db[e].history[p]
        PROVE  FALSE
    <3>1. db[d].epoch \in Epoch
      BY DEF Inv, TypeOK, Index
    <3>2. Far(e, <<d, db[d].epoch>>)
      BY <2>1, <3>1 DEF DirInv, HiddenInv, Hidden
    <3>3. b.rev.clock[ReplicaOf(d)] = 0
      BY <2>1, <3>2 DEF Far, Untouched, Keeps, ReplicaOf
    <3>4. b.rev.clock[ReplicaOf(d)] > 0
      BY <2>1 DEF DirInv, BornInv
    <3> QED
      BY <3>3, <3>4
  <2>2. ASSUME NEW d \in Device, NEW p \in Path, mode[d] = "SendOnly", db[d].epoch = 1,
               NEW h \in db[d].history[p]
        PROVE  \E b \in born[p] : b.rev = h /\ b.by[1] = d
    BY <2>2 DEF DirInv, OwnInv, Keeps
  <2> QED
    BY <2>1, <2>2 DEF DirectionKept
<1> QED
  BY <1>1, <1>2, <1>3, Invariance, PTL DEF Spec

=============================================================================
