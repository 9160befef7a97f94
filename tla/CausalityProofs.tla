--------------------------- MODULE CausalityProofs ---------------------------
(***************************************************************************)
(* Facts about the causal register of Causality, for any replicas, contents *)
(* and bounds: dominance is a strict partial order, the join of finite head *)
(* sets keeps something above every candidate and can be taken in any       *)
(* order, and an edit made from a set of heads dominates all of them.       *)
(* With them, the laws of MCCausality for head sets of any size.            *)
(***************************************************************************)
EXTENDS MCCausality, FiniteSetTheorems, WellFoundedInduction, TLAPS

-----------------------------------------------------------------------------
(* Dominance *)

(* `Before' is the pointwise order, somewhere strict (versions.rs, relation). *)
LEMMA BeforeMeaning ==
    ASSUME NEW u \in Clock, NEW v \in Clock
    PROVE  Before(u, v) <=> /\ \A r \in Replica : u[r] <= v[r]
                            /\ \E r \in Replica : u[r] < v[r]
<1>1. \A r \in Replica : u[r] \in Int /\ v[r] \in Int
  BY CounterAssumption DEF Clock, Counter
<1>2. Before(u, v) <=> Less(u, v) /\ ~Less(v, u)
  BY DEF Before, Relation
<1>3. QED
  BY <1>1, <1>2 DEF Less

LEMMA BeforeIrreflexive ==
    ASSUME NEW u \in Clock
    PROVE  ~Before(u, u)
BY DEF Before, Relation

LEMMA BeforeTransitive ==
    ASSUME NEW u \in Clock, NEW v \in Clock, NEW w \in Clock,
           Before(u, v), Before(v, w)
    PROVE  Before(u, w)
<1>1. \A r \in Replica : u[r] \in Int /\ v[r] \in Int /\ w[r] \in Int
  BY CounterAssumption DEF Clock, Counter
<1>2. \A r \in Replica : u[r] <= v[r] /\ v[r] <= w[r]
  BY BeforeMeaning
<1>3. PICK r \in Replica : u[r] < v[r]
  BY BeforeMeaning
<1>4. u[r] < w[r]
  BY <1>1, <1>2, <1>3
<1>5. QED
  BY <1>1, <1>2, <1>4, BeforeMeaning

-----------------------------------------------------------------------------
(* Finite sets of revisions have maximal elements *)

(* Every candidate is a survivor of a finite set or is dominated by one: what
   Versions::join throws away is known to what it keeps. *)
THEOREM SurvivorAbove ==
    ASSUME NEW S \in SUBSET Revision, IsFiniteSet(S), NEW x \in S
    PROVE  \E y \in Maximal(S) : x = y \/ Before(x.clock, y.clock)
<1> DEFINE Up(y) == {z \in S : Before(y.clock, z.clock)}
           T     == {y \in S : x = y \/ Before(x.clock, y.clock)}
           U     == {Up(y) : y \in T}
<1>1. \A y \in S : y.clock \in Clock
  BY DEF Revision
<1>2. U \subseteq FiniteSubsetsOf(S) /\ U # {}
  <2>1. x \in T
    OBVIOUS
  <2>2. \A y \in T : Up(y) \in SUBSET S /\ IsFiniteSet(Up(y))
    BY FS_Subset
  <2>3. QED
    BY <2>1, <2>2 DEF FiniteSubsetsOf
<1>3. PICK least \in U : \A other \in U : <<other, least>> \notin StrictSubsetOrdering(S)
  <2> HIDE DEF U
  <2>1. IsWellFoundedOn(StrictSubsetOrdering(S), FiniteSubsetsOf(S))
    BY FS_StrictSubsetOrderingWellFounded
  <2>2. QED
    BY <1>2, <2>1, WFMin
<1>4. PICK y \in T : least = Up(y)
  OBVIOUS
<1>5. ASSUME NEW z \in S, Before(y.clock, z.clock)
      PROVE  FALSE
  <2>1. z \in T
    BY <1>1, <1>5, BeforeTransitive
  <2>2. Up(z) \subseteq Up(y)
    BY <1>1, <1>5, BeforeTransitive
  <2>3. z \in Up(y) /\ z \notin Up(z)
    BY <1>1, <1>5, BeforeIrreflexive
  <2>4. <<Up(z), Up(y)>> \in StrictSubsetOrdering(S)
    BY <2>2, <2>3 DEF StrictSubsetOrdering
  <2>5. QED
    BY <1>3, <1>4, <2>1, <2>4
<1>6. y \in Maximal(S)
  BY <1>5 DEF Maximal
<1>7. QED
  BY <1>4, <1>6

-----------------------------------------------------------------------------
(* Joining head sets *)

(* What survives a join is one of its candidates, and nothing survives that a
   survivor dominates (Versions::join). *)
LEMMA JoinType ==
    ASSUME NEW A \in SUBSET Revision, NEW B \in SUBSET Revision
    PROVE  /\ Join(A, B) \in SUBSET Revision
           /\ Join(A, B) \subseteq A \cup B
           /\ IsFiniteSet(A) /\ IsFiniteSet(B) => IsFiniteSet(Join(A, B))
<1>1. Join(A, B) \in SUBSET (A \cup B)
  BY DEF Join, Maximal
<1>2. ASSUME IsFiniteSet(A), IsFiniteSet(B)
      PROVE  IsFiniteSet(Join(A, B))
  <2>1. IsFiniteSet(A \cup B)
    BY <1>2, FS_Union
  <2>2. QED
    BY <1>1, <2>1, FS_Subset
<1>3. QED
  BY <1>1, <1>2

(* Filtering one side first changes nothing: a candidate that only a discarded
   revision dominated is dominated by whatever discarded that one. *)
THEOREM JoinInStages ==
    ASSUME NEW A \in SUBSET Revision, IsFiniteSet(A), NEW B \in SUBSET Revision
    PROVE  Join(Maximal(A), B) = Maximal(A \cup B)
<1>0. Maximal(A) \subseteq A
  BY DEF Maximal
<1>1. ASSUME NEW x \in Join(Maximal(A), B)
      PROVE  x \in Maximal(A \cup B)
  <2>1. x \in A \cup B /\ \A y \in Maximal(A) \cup B : ~Before(x.clock, y.clock)
    BY <1>0, <1>1 DEF Join, Maximal
  <2>2. ASSUME NEW y \in A, Before(x.clock, y.clock)
        PROVE  FALSE
    <3>1. PICK z \in Maximal(A) : y = z \/ Before(y.clock, z.clock)
      BY <2>2, SurvivorAbove
    <3>2. x.clock \in Clock /\ y.clock \in Clock /\ z.clock \in Clock
      BY <1>0, <2>1, <3>1 DEF Revision
    <3>3. Before(x.clock, z.clock)
      BY <2>2, <3>1, <3>2, BeforeTransitive
    <3>4. QED
      BY <2>1, <3>3
  <2>3. QED
    BY <2>1, <2>2 DEF Maximal
<1>2. Maximal(A \cup B) \subseteq Join(Maximal(A), B)
  BY DEF Join, Maximal
<1>3. QED
  BY <1>1, <1>2

(* Joins of finite sets can be taken in any order and grouping. *)
THEOREM JoinAssociative ==
    ASSUME NEW A \in SUBSET Revision, IsFiniteSet(A),
           NEW B \in SUBSET Revision, IsFiniteSet(B),
           NEW C \in SUBSET Revision, IsFiniteSet(C)
    PROVE  /\ Join(Join(A, B), C) = Maximal(A \cup B \cup C)
           /\ Join(A, Join(B, C)) = Maximal(A \cup B \cup C)
           /\ Join(Join(C, B), A) = Maximal(A \cup B \cup C)
<1>1. IsFiniteSet(A \cup B) /\ IsFiniteSet(B \cup C)
  BY FS_Union
<1>2. Join(Join(A, B), C) = Maximal((A \cup B) \cup C)
  BY <1>1, JoinInStages DEF Join
<1>3. Join(Join(B, C), A) = Maximal((B \cup C) \cup A)
  BY <1>1, JoinInStages DEF Join
<1>4. Join(A, Join(B, C)) = Join(Join(B, C), A)
  <2>1. A \cup Join(B, C) = Join(B, C) \cup A
    OBVIOUS
  <2>2. QED
    BY <2>1 DEF Join
<1>5. Join(C, B) = Join(B, C)
  <2>1. C \cup B = B \cup C
    OBVIOUS
  <2>2. QED
    BY <2>1 DEF Join
<1>6. (A \cup B) \cup C = A \cup B \cup C /\ (B \cup C) \cup A = A \cup B \cup C
  OBVIOUS
<1>7. QED
  BY <1>2, <1>3, <1>4, <1>5, <1>6

(* Nothing a device knew is unknown after a join. *)
LEMMA JoinKeeps ==
    ASSUME NEW A \in SUBSET Revision, IsFiniteSet(A),
           NEW B \in SUBSET Revision, IsFiniteSet(B),
           NEW x \in A \cup B
    PROVE  \E y \in Join(A, B) : x = y \/ Before(x.clock, y.clock)
<1>1. IsFiniteSet(A \cup B)
  BY FS_Union
<1>2. QED
  BY <1>1, SurvivorAbove DEF Join

-----------------------------------------------------------------------------
(* Merging and editing *)

(* The merged clock is a clock, and no head is ahead of it anywhere. *)
LEMMA MergeBound ==
    ASSUME NEW H \in SUBSET Revision, NEW r \in Replica
    PROVE  /\ MergeAll(H)[r] \in Counter
           /\ \A h \in H : h.clock[r] <= MergeAll(H)[r]
<1> DEFINE M     == {0} \cup {h.clock[r] : h \in H}
           Up(n) == {m \in M : n < m}
           U     == {Up(n) : n \in M}
<1>1. M \subseteq Counter
  BY CounterAssumption DEF Revision, Clock, Counter
<1>2. IsFiniteSet(M)
  <2>1. IsFiniteSet(Counter)
    BY CounterAssumption, FS_Interval DEF Counter
  <2> HIDE DEF M
  <2>2. M \in SUBSET Counter
    BY <1>1
  <2>3. QED
    BY <2>1, <2>2, FS_Subset
<1>3. U \subseteq FiniteSubsetsOf(M) /\ U # {}
  <2>1. \A n \in M : Up(n) \in SUBSET M /\ IsFiniteSet(Up(n))
    BY <1>2, FS_Subset
  <2>2. 0 \in M
    OBVIOUS
  <2> HIDE DEF M
  <2>3. QED
    BY <2>1, <2>2 DEF FiniteSubsetsOf
<1>4. PICK least \in U : \A other \in U : <<other, least>> \notin StrictSubsetOrdering(M)
  <2> HIDE DEF U
  <2>1. IsWellFoundedOn(StrictSubsetOrdering(M), FiniteSubsetsOf(M))
    BY FS_StrictSubsetOrderingWellFounded
  <2>2. QED
    BY <1>3, <2>1, WFMin
<1>5. PICK n \in M : least = Up(n)
  OBVIOUS
<1>6. ASSUME NEW m \in M PROVE m <= n
  <2> HIDE DEF M
  <2>1. \A k \in M : k \in Int
    BY <1>1, CounterAssumption DEF Counter
  <2>2. SUFFICES ASSUME n < m PROVE FALSE
    BY <2>1
  <2>3. Up(m) \subseteq Up(n) /\ m \in Up(n) /\ m \notin Up(m)
    BY <2>1, <2>2
  <2>4. <<Up(m), Up(n)>> \in StrictSubsetOrdering(M)
    BY <2>3 DEF StrictSubsetOrdering
  <2>5. QED
    BY <1>4, <1>5, <2>4
<1>7. \E k \in M : \A h \in H : h.clock[r] <= k
  BY <1>6
<1>8. MergeAll(H)[r] \in M /\ \A h \in H : h.clock[r] <= MergeAll(H)[r]
  BY <1>7 DEF MergeAll
<1>9. QED
  BY <1>1, <1>8

LEMMA MergeType ==
    ASSUME NEW H \in SUBSET Revision
    PROVE  MergeAll(H) \in Clock
<1>1. \A r \in Replica : MergeAll(H)[r] \in Counter
  BY MergeBound
<1>2. QED
  BY <1>1 DEF MergeAll, Clock

(* An edit that the counter allows is one revision, and it dominates every
   head it was made from (Clock::advance after Clock::merge). *)
THEOREM EditDominates ==
    ASSUME NEW H \in SUBSET Revision, NEW r \in Replica, NEW content \in Content,
           CanEdit(H, r)
    PROVE  \E e \in Revision :
              /\ Edit(H, r, content) = {e}
              /\ e.content = content
              /\ \A h \in H : Before(h.clock, e.clock)
<1> DEFINE m == MergeAll(H)
           e == [clock |-> Advance(m, r), content |-> content]
<1>1. m \in Clock /\ \A q \in Replica : m[q] \in Int
  BY MergeType, CounterAssumption DEF Clock, Counter
<1>2. m[r] + 1 \in Counter
  BY <1>1, CounterAssumption DEF CanEdit, CanAdvance, Clock, Counter
<1>3. Advance(m, r) \in Clock
  BY <1>1, <1>2 DEF Advance, Clock
<1>4. \A q \in Replica : Advance(m, r)[q] = IF q = r THEN m[r] + 1 ELSE m[q]
  BY <1>1 DEF Advance, Clock
<1>5. ASSUME NEW h \in H PROVE Before(h.clock, e.clock)
  <2>1. h.clock \in Clock /\ \A q \in Replica : h.clock[q] \in Int
    BY CounterAssumption DEF Revision, Clock, Counter
  <2>2. \A q \in Replica : h.clock[q] <= m[q]
    BY MergeBound
  <2> HIDE DEF m
  <2>3. \A q \in Replica : h.clock[q] <= Advance(m, r)[q]
    BY <1>1, <1>4, <2>1, <2>2
  <2>4. h.clock[r] < Advance(m, r)[r]
    BY <1>1, <1>4, <2>1, <2>2
  <2>5. QED
    BY <1>3, <2>1, <2>3, <2>4, BeforeMeaning
<1>6. e \in Revision
  BY <1>3 DEF Revision
<1>7. Edit(H, r, content) = {e}
  BY DEF Edit
<1>8. QED
  BY <1>5, <1>6, <1>7

-----------------------------------------------------------------------------
(* The visible revision *)

(* A path with heads shows one of them, and none of a better rank is hidden
   (Versions::selected). *)
THEOREM SelectedIsBest ==
    ASSUME NEW H \in SUBSET Revision, H # {}
    PROVE  /\ Selected(H) \in H
           /\ \A k \in H : Rank(Selected(H).content) <= Rank(k.content)
<1>1. \A k \in H : Rank(k.content) \in {0, 1, 2}
  BY ContentAssumption DEF Revision, Content, Rank
<1>2. \E h \in H : \A k \in H : Rank(h.content) <= Rank(k.content)
  <2>1. CASE \E h \in H : Rank(h.content) = 0
    BY <1>1, <2>1
  <2>2. CASE \A h \in H : Rank(h.content) # 0
    <3>1. CASE \E h \in H : Rank(h.content) = 1
      BY <1>1, <2>2, <3>1
    <3>2. CASE \A h \in H : Rank(h.content) = 2
      BY <3>2
    <3>3. QED
      BY <1>1, <2>2, <3>1, <3>2
  <2>3. QED
    BY <2>1, <2>2
<1>3. QED
  BY <1>2 DEF Selected

-----------------------------------------------------------------------------
(* Three head sets that meet *)

(* What the laws need of a triple. *)
Triple ==
    /\ ours \in SUBSET Revision /\ IsFiniteSet(ours)
    /\ theirs \in SUBSET Revision /\ IsFiniteSet(theirs)
    /\ late \in SUBSET Revision /\ IsFiniteSet(late)
    /\ Consistent(ours \cup theirs)
    /\ \A x, y \in theirs : ~Before(x.clock, y.clock)

LEMMA HeadSetsFinite ==
    ASSUME NEW S \in HeadSets
    PROVE  /\ S \in SUBSET Revision
           /\ IsFiniteSet(S)
           /\ \A x, y \in S : ~Before(x.clock, y.clock)
<1>1. PICK x \in ValidRevisions, y \in ValidRevisions : S = {x, y}
  BY DEF HeadSets
<1>2. S \in SUBSET Revision
  BY <1>1 DEF ValidRevisions
<1>3. IsFiniteSet({x}) /\ IsFiniteSet({x} \cup {y})
  BY FS_Singleton, FS_AddElement
<1>4. S = {x} \cup {y}
  BY <1>1
<1>5. ASSUME NEW v \in S, NEW w \in S PROVE ~Before(v.clock, w.clock)
  <2>1. CASE v = w
    BY <2>1 DEF Before, Relation
  <2>2. CASE v # w
    <3>1. Relation(v.clock, w.clock) = "Concurrent"
      BY <2>2 DEF HeadSets
    <3>2. QED
      BY <3>1 DEF Before
  <2>3. QED
    BY <2>1, <2>2
<1>6. QED
  BY <1>2, <1>3, <1>4, <1>5

LEMMA TripleAlways == Meeting => []Triple
<1>1. Meet => Triple
  <2> SUFFICES ASSUME Meet PROVE Triple
    OBVIOUS
  <2>1. Consistent(ours \cup theirs)
    BY DEF Meet, Consistent
  <2>2. QED
    BY <2>1, HeadSetsFinite DEF Meet, Triple
<1>2. Triple /\ [Rest]_sets => Triple'
  BY DEF Triple, Rest, sets
<1>3. QED
  BY <1>1, <1>2, PTL DEF Meeting

LEMMA SameClock ==
    ASSUME NEW u \in Clock, NEW v \in Clock, ~Before(u, v), ~Before(v, u)
    PROVE  Relation(u, v) = "Concurrent" \/ (Relation(u, v) = "Equal" /\ u = v)
<1>1. CASE Less(u, v) /\ Less(v, u)
  BY <1>1 DEF Relation
<1>2. CASE ~Less(u, v) /\ ~Less(v, u)
  <2>1. \A r \in Replica : u[r] = v[r]
    BY <1>2, CounterAssumption DEF Less, Clock, Counter
  <2>2. u = v
    BY <2>1 DEF Clock
  <2>3. QED
    BY <1>2, <2>2 DEF Relation
<1>3. QED
  BY <1>1, <1>2 DEF Before, Relation

-----------------------------------------------------------------------------
(* Head sets that meet in a different order leave the same heads, for any
   number of replicas and revisions (Versions::join). *)
THEOREM OrderIrrelevant == Meeting => []DeliveryOrderIrrelevant
<1>1. Triple => DeliveryOrderIrrelevant
  <2> SUFFICES ASSUME Triple PROVE DeliveryOrderIrrelevant
    OBVIOUS
  <2>1. /\ Join(Join(ours, theirs), late) = Maximal(ours \cup theirs \cup late)
        /\ Join(ours, Join(theirs, late)) = Maximal(ours \cup theirs \cup late)
        /\ Join(Join(late, theirs), ours) = Maximal(ours \cup theirs \cup late)
    BY JoinAssociative DEF Triple
  <2>2. QED
    BY <2>1 DEF DeliveryOrderIrrelevant
<1>2. QED
  BY <1>1, TripleAlways, PTL

(* A join drops a revision only for one that saw it, and keeps only mutually
   concurrent ones (Versions::join). *)
THEOREM JoinExact == Meeting => []JoinKeepsExactlyTheUnseen
<1>1. Triple => JoinKeepsExactlyTheUnseen
  <2> SUFFICES ASSUME Triple PROVE JoinKeepsExactlyTheUnseen
    OBVIOUS
  <2> DEFINE heads == Join(ours, theirs)
  <2>1. heads \in SUBSET Revision /\ heads \subseteq ours \cup theirs
    BY JoinType DEF Triple
  <2>2. ASSUME NEW x \in ours \cup theirs, x \notin heads
        PROVE  \E y \in heads : Relation(x.clock, y.clock) = "Before"
    <3>1. PICK y \in heads : x = y \/ Before(x.clock, y.clock)
      BY JoinKeeps DEF Triple
    <3>2. QED
      BY <2>2, <3>1 DEF Before
  <2>3. ASSUME NEW x \in heads, NEW y \in heads, x # y
        PROVE  Relation(x.clock, y.clock) = "Concurrent"
    <3>1. ~Before(x.clock, y.clock) /\ ~Before(y.clock, x.clock)
      BY <2>1 DEF Join, Maximal
    <3>2. x \in Revision /\ y \in Revision
      BY <2>1
    <3>3. Relation(x.clock, y.clock) = "Equal" => x.content = y.content
      BY <2>1 DEF Triple, Consistent
    <3>4. x.clock = y.clock /\ x.content = y.content => x = y
      BY <3>2 DEF Revision
    <3>5. x.clock \in Clock /\ y.clock \in Clock
      BY <3>2 DEF Revision
    <3>6. QED
      BY <2>3, <3>1, <3>3, <3>4, <3>5, SameClock
  <2>4. QED
    BY <2>2, <2>3 DEF JoinKeepsExactlyTheUnseen
<1>2. QED
  BY <1>1, TripleAlways, PTL

(* An edit made from some heads survives the join with others it has not seen,
   is accepted there, and hides nothing its author had not seen - as long as
   the author's counter is fresh (Versions::edit, then Versions::join). *)
THEOREM FreshEdit == Meeting => []FreshEditSurvives
<1>1. Triple => FreshEditSurvives
  <2> SUFFICES ASSUME Triple,
                      NEW r \in Replica, CanEdit(ours, r),
                      \A x \in theirs : x.clock[r] <= MergeAll(ours)[r],
                      NEW content \in Content
               PROVE  LET local == Edit(ours, r, content) IN
                      /\ Consistent(theirs \cup local)
                      /\ local \subseteq Join(theirs, local)
                      /\ \A x \in theirs \ Join(theirs, local) :
                            \A s \in Replica : x.clock[s] <= MergeAll(ours)[s]
    BY DEF FreshEditSurvives
  <2> DEFINE local == Edit(ours, r, content)
             m == MergeAll(ours)
  <2>1. ours \in SUBSET Revision /\ theirs \in SUBSET Revision
    BY DEF Triple
  <2>2. PICK e \in Revision : local = {e}
    BY <2>1, EditDominates
  <2>3. e.clock = Advance(m, r)
    BY <2>2 DEF Edit
  <2>4. m \in Clock /\ \A q \in Replica : m[q] \in Int
    BY <2>1, MergeType, CounterAssumption DEF Clock, Counter
  <2>5. \A q \in Replica : e.clock[q] = IF q = r THEN m[r] + 1 ELSE m[q]
    BY <2>3, <2>4 DEF Advance, Clock
  <2> HIDE DEF m, local
  <2>6. ASSUME NEW x \in theirs
        PROVE  /\ x.clock \in Clock /\ e.clock \in Clock
               /\ x.clock[r] < e.clock[r]
               /\ ~Before(e.clock, x.clock)
               /\ Relation(x.clock, e.clock) # "Equal"
               /\ Relation(e.clock, x.clock) # "Equal"
    <3>1. x.clock \in Clock /\ e.clock \in Clock
      BY <2>1 DEF Revision
    <3>2. x.clock[r] \in Int /\ x.clock[r] <= m[r]
      BY <3>1, CounterAssumption DEF Clock, Counter, m
    <3>3. x.clock[r] < e.clock[r]
      BY <2>4, <2>5, <3>2
    <3>4. Less(x.clock, e.clock)
      BY <3>3 DEF Less
    <3>5. QED
      BY <3>1, <3>3, <3>4 DEF Before, Relation
  <2>7. Consistent(theirs \cup local)
    <3>1. \A x, y \in theirs :
             Relation(x.clock, y.clock) = "Equal" => x.content = y.content
      BY DEF Triple, Consistent
    <3>2. QED
      BY <2>2, <2>6, <3>1 DEF Consistent
  <2>8. e \in Join(theirs, local)
    <3>1. ~Before(e.clock, e.clock)
      BY DEF Before, Relation
    <3>2. QED
      BY <2>2, <2>6, <3>1 DEF Join, Maximal
  <2>9. ASSUME NEW x \in theirs, x \notin Join(theirs, local)
        PROVE  \A s \in Replica : x.clock[s] <= m[s]
    <3>1. Before(x.clock, e.clock)
      BY <2>2, <2>9 DEF Join, Maximal, Triple
    <3>2. \A s \in Replica : x.clock[s] <= e.clock[s]
      BY <2>6, <3>1, BeforeMeaning
    <3>3. x.clock[r] <= m[r]
      BY DEF m
    <3>4. QED
      BY <2>5, <3>2, <3>3
  <2>10. QED
    BY <2>2, <2>7, <2>8, <2>9 DEF local, m
<1>2. QED
  BY <1>1, TripleAlways, PTL

(* A resolution replaces all the heads it was chosen among (Versions::edit). *)
THEOREM ResolutionReplaces == Meeting => []ResolutionReplacesAllHeads
<1>1. Triple => ResolutionReplacesAllHeads
  <2> SUFFICES ASSUME Triple,
                      NEW r \in Replica, CanEdit(Join(ours, theirs), r),
                      NEW content \in Content
               PROVE  LET chosen == Edit(Join(ours, theirs), r, content) IN
                      Join(Join(ours, theirs), chosen) = chosen
    BY DEF ResolutionReplacesAllHeads
  <2> DEFINE heads == Join(ours, theirs)
  <2>1. heads \in SUBSET Revision
    BY JoinType DEF Triple
  <2>2. PICK e \in Revision : /\ Edit(heads, r, content) = {e}
                              /\ \A h \in heads : Before(h.clock, e.clock)
    BY <2>1, EditDominates
  <2> HIDE DEF heads
  <2>3. ASSUME NEW h \in heads PROVE ~Before(e.clock, h.clock)
    <3>1. h.clock \in Clock /\ e.clock \in Clock
      BY <2>1 DEF Revision
    <3>2. QED
      BY <2>2, <3>1, BeforeTransitive, BeforeIrreflexive
  <2>4. ~Before(e.clock, e.clock)
    BY DEF Before, Relation
  <2>5. Join(heads, {e}) = {e}
    BY <2>2, <2>3, <2>4 DEF Join, Maximal
  <2>6. QED
    BY <2>2, <2>5 DEF heads
<1>2. QED
  BY <1>1, TripleAlways, PTL

(* A file among the surviving heads is never hidden by a tombstone or by a
   directory (Versions::selected). *)
THEOREM DeletionHidesNothing == Meeting => []DeletionNeverHidesAFile
<1>1. Triple => DeletionNeverHidesAFile
  <2> SUFFICES ASSUME Triple,
                      NEW h \in Join(ours, theirs), h.content \in File
               PROVE  Selected(Join(ours, theirs)).content \in File
    BY DEF DeletionNeverHidesAFile
  <2> DEFINE heads == Join(ours, theirs)
  <2>1. heads \in SUBSET Revision /\ heads # {}
    BY JoinType DEF Triple
  <2>2. Selected(heads) \in heads /\ Rank(Selected(heads).content) <= Rank(h.content)
    BY <2>1, SelectedIsBest
  <2>3. Rank(h.content) = 0
    BY ContentAssumption DEF Rank
  <2>4. Selected(heads).content \in Content
    BY <2>1, <2>2 DEF Revision
  <2>5. QED
    BY <2>2, <2>3, <2>4, ContentAssumption DEF Rank, Content
<1>2. QED
  BY <1>1, TripleAlways, PTL
=============================================================================
