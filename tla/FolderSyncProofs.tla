--------------------------- MODULE FolderSyncProofs ---------------------------
(***************************************************************************)
(* Theorems of FolderSync, for any devices, paths, files, directions and   *)
(* bounds: types, that no head is forgotten, and that cursors and settled  *)
(* devices tell the truth.                                                 *)
(***************************************************************************)
EXTENDS FolderSync, CausalityProofs

-----------------------------------------------------------------------------
(* The inductive invariant: types, and what the types do not say of a row.   *)

(* Head sets are finite, and a path without a row was never observed. *)
Whole(x) ==
    \A p \in Path :
        /\ IsFiniteSet(x.versions[p])
        /\ x.versions[p] = {} => x.observed[p] = {}

(* What is staged can be joined, and what is being applied has a head. *)
SessionReady(d) ==
    /\ \A p \in Path : IsFiniteSet(sess[d].incoming[p])
    /\ sess[d].phase \in {"chosen", "published"} =>
          db[d].versions[sess[d].path] # {}

Inv ==
    /\ TypeOK
    /\ \A d \in Device : Whole(db[d])
    /\ \A d \in Device : \A s \in saved[d] : Whole(s.index)
    /\ \A d \in Device : SessionReady(d)

-----------------------------------------------------------------------------
(* One transaction *)

Making == [rev : Revision, basis : SUBSET Revision]

(* A row that a transaction may save. *)
RowOK(r) ==
    /\ r.versions \in SUBSET Revision /\ IsFiniteSet(r.versions)
    /\ r.materialized \in Content
    /\ r.observed \in SUBSET Revision
    /\ r.pending \in BOOLEAN
    /\ r.made \in SUBSET Making
    /\ r.versions = {} => r.observed = {}

LEMMA IndexExcept ==
    ASSUME NEW x \in Index,
           NEW heads \in [Path -> SUBSET Revision],
           NEW content \in [Path -> Content],
           NEW seen \in [Path -> SUBSET Revision],
           NEW kept \in [Path -> SUBSET Revision],
           NEW held \in SUBSET Path, NEW n \in Nat, NEW numbers \in [Path -> Nat]
    PROVE  [x EXCEPT
               !.versions = heads, !.materialized = content,
               !.observed = seen, !.history = kept,
               !.pending = held, !.seq = n, !.seqOf = numbers] \in Index
BY DEF Index

LEMMA StoredOK ==
    ASSUME NEW x \in Index, Whole(x), NEW p \in Path
    PROVE  RowOK(Stored(x, p)) /\ Stored(x, p).versions = x.versions[p]
BY DEF Index, Whole, Stored, Row, RowOK

(* Saving rows writes their heads, keeps the index well formed and leaves the
   cursors, the epoch and the recovery flag alone (Share::save). *)
LEMMA SaveOK ==
    ASSUME NEW x \in Index, NEW row, \A p \in Path : RowOK(row[p])
    PROVE  /\ Save(x, row) \in Index
           /\ Whole(Save(x, row))
           /\ Save(x, row).epoch = x.epoch
           /\ Save(x, row).recovering = x.recovering
           /\ Save(x, row).cursor = x.cursor
           /\ \A p \in Path : Save(x, row).versions[p] = row[p].versions
<1> DEFINE y       == Save(x, row)
           changed == {p \in Path : row[p].versions # x.versions[p]}
<1>1. Cardinality(changed) \in Nat
  BY FolderAssumption, FS_Subset, FS_CardinalityType
<1>2. \A p \in Path : Number(x, changed, p) \in Nat
  <2>1. \A p \in Path : Cardinality({q \in changed : q <= p}) \in Nat
    <3> SUFFICES ASSUME NEW p \in Path
                 PROVE  Cardinality({q \in changed : q <= p}) \in Nat
      OBVIOUS
    <3>1. {q \in changed : q <= p} \in SUBSET Path
      OBVIOUS
    <3>2. QED
      BY <3>1, FolderAssumption, FS_Subset, FS_CardinalityType
  <2>2. x.seq \in Nat
    BY DEF Index
  <2>3. QED
    BY <2>1, <2>2 DEF Number
<1>3. /\ y.versions = [p \in Path |-> row[p].versions]
      /\ y.materialized = [p \in Path |-> row[p].materialized]
      /\ y.observed = [p \in Path |-> row[p].observed]
      /\ y.history = [p \in Path |-> x.history[p] \cup (x.versions[p] \cup row[p].versions)]
      /\ y.pending = {p \in Path : row[p].pending}
      /\ y.seq = x.seq + Cardinality(changed)
      /\ y.seqOf = [p \in Path |->
                      IF p \in changed THEN Number(x, changed, p) ELSE x.seqOf[p]]
      /\ y.cursor = x.cursor /\ y.epoch = x.epoch /\ y.recovering = x.recovering
  BY DEF Save, Write, Index
<1>4. y.versions \in [Path -> SUBSET Revision]
  BY <1>3 DEF RowOK
<1>5. y.materialized \in [Path -> Content]
  BY <1>3 DEF RowOK
<1>6. y.observed \in [Path -> SUBSET Revision]
  BY <1>3 DEF RowOK
<1>7. y.history \in [Path -> SUBSET Revision]
  BY <1>3 DEF RowOK, Index
<1>8. y.seq \in Nat /\ y.seqOf \in [Path -> Nat] /\ y.pending \in SUBSET Path
  <2> HIDE DEF changed
  <2>1. x.seq \in Nat /\ x.seqOf \in [Path -> Nat]
    BY DEF Index
  <2>2. y.pending \in SUBSET Path
    BY <1>3
  <2>3. QED
    BY <1>1, <1>2, <1>3, <2>1, <2>2
<1>9. y \in Index
  <2> DEFINE z == [x EXCEPT
               !.versions = y.versions, !.materialized = y.materialized,
               !.observed = y.observed, !.history = y.history,
               !.pending = y.pending, !.seq = y.seq, !.seqOf = y.seqOf]
  <2>1. y = z
    BY <1>3 DEF Save, Write
  <2> HIDE DEF y
  <2>2. z \in Index
    BY <1>4, <1>5, <1>6, <1>7, <1>8, IndexExcept, ZenonT(30)
  <2> HIDE DEF z
  <2>3. QED
    BY <2>1, <2>2
<1>10. Whole(y)
  BY <1>3 DEF Whole, RowOK
<1>11. QED
  BY <1>3, <1>9, <1>10

-----------------------------------------------------------------------------
(* The rows that steps save *)

LEMMA KnownInItself ==
    ASSUME NEW H \in SUBSET Revision
    PROVE  KnownIn(H, H)
BY DEF KnownIn

LEMMA KnownInJoin ==
    ASSUME NEW H \in SUBSET Revision, IsFiniteSet(H),
           NEW K \in SUBSET Revision, IsFiniteSet(K)
    PROVE  KnownIn(H, Join(H, K))
BY JoinKeeps DEF KnownIn

LEMMA KnownInTransitive ==
    ASSUME NEW H \in SUBSET Revision, NEW K \in SUBSET Revision,
           NEW L \in SUBSET Revision, KnownIn(H, K), KnownIn(K, L)
    PROVE  KnownIn(H, L)
<1> SUFFICES ASSUME NEW h \in H
             PROVE  \E l \in L : h = l \/ Before(h.clock, l.clock)
  BY DEF KnownIn
<1>1. PICK k \in K : h = k \/ Before(h.clock, k.clock)
  BY DEF KnownIn
<1>2. PICK l \in L : k = l \/ Before(k.clock, l.clock)
  BY DEF KnownIn
<1>3. h.clock \in Clock /\ k.clock \in Clock /\ l.clock \in Clock
  BY DEF Revision
<1>4. QED
  BY <1>1, <1>2, <1>3, BeforeTransitive

LEMMA ReplicaOK ==
    ASSUME NEW x \in Index, NEW d \in Device
    PROVE  <<d, x.epoch>> \in Replica
BY ReplicaAssumption DEF Index

(* What a device makes is a revision above all it was made from. *)
LEMMA MadeOK ==
    ASSUME NEW x \in Index, NEW d \in Device, NEW H \in SUBSET Revision,
           NEW content \in Content, CanEdit(H, <<d, x.epoch>>)
    PROVE  /\ Made(x, d, H, content) \in Making
           /\ Made(x, d, H, content).rev \in Revision
           /\ \A h \in H : Before(h.clock, Made(x, d, H, content).rev.clock)
<1>1. PICK e \in Revision : /\ Edit(H, <<d, x.epoch>>, content) = {e}
                            /\ \A h \in H : Before(h.clock, e.clock)
  BY ReplicaOK, EditDominates
<1>2. (CHOOSE k \in Edit(H, <<d, x.epoch>>, content) : TRUE) = e
  BY <1>1
<1>3. Made(x, d, H, content) = [rev |-> e, basis |-> H]
  BY <1>2 DEF Made
<1>4. QED
  BY <1>1, <1>3 DEF Making

LEMMA AdoptedOK ==
    ASSUME NEW x \in Index, Whole(x), NEW p \in Path, NEW content \in Content
    PROVE  /\ RowOK(Adopted(x, p, content))
           /\ KnownIn(x.versions[p], Adopted(x, p, content).versions)
<1>1. x.versions[p] \in SUBSET Revision /\ x.observed[p] \in SUBSET Revision
  BY DEF Index
<1>2. Adopted(x, p, content).versions = x.versions[p]
  BY DEF Adopted, Row
<1>3. RowOK(Adopted(x, p, content))
  BY <1>1 DEF Adopted, Row, RowOK, Whole
<1>4. QED
  BY <1>1, <1>2, <1>3, KnownInItself

LEMMA EditedOK ==
    ASSUME NEW x \in Index, Whole(x), NEW d \in Device, NEW p \in Path,
           NEW content \in Content, CanEdit(x.observed[p], <<d, x.epoch>>)
    PROVE  /\ RowOK(Edited(x, d, p, content))
           /\ KnownIn(x.versions[p], Edited(x, d, p, content).versions)
<1> DEFINE made == Made(x, d, x.observed[p], content)
           new  == Join(x.versions[p], {made.rev})
<1>1. x.versions[p] \in SUBSET Revision /\ IsFiniteSet(x.versions[p])
  BY DEF Index, Whole
<1>2. x.observed[p] \in SUBSET Revision
  BY DEF Index
<1>3. made \in Making /\ made.rev \in Revision
  BY <1>2, MadeOK
<1> HIDE DEF made
<1>4. {made.rev} \in SUBSET Revision /\ IsFiniteSet({made.rev})
  BY <1>3, FS_Singleton
<1>5. new \in SUBSET Revision /\ IsFiniteSet(new)
  BY <1>1, <1>4, JoinType
<1>6. KnownIn(x.versions[p], new)
  BY <1>1, <1>4, KnownInJoin
<1>7. new # {}
  BY <1>1, <1>4, JoinKeeps
<1> HIDE DEF new
<1>8. Edited(x, d, p, content) = Row(new, content, {made.rev}, FALSE, {made})
  BY DEF Edited, new, made
<1>9. QED
  BY <1>3, <1>4, <1>5, <1>6, <1>7, <1>8 DEF Row, RowOK

LEMMA ScanRowOK ==
    ASSUME NEW x \in Index, Whole(x), NEW d \in Device, NEW p \in Path,
           NEW content \in Content, NEW approve \in BOOLEAN,
           IsEdit(x, p, content, approve) => CanEdit(x.observed[p], <<d, x.epoch>>)
    PROVE  /\ RowOK(ScanRow(x, d, p, content, approve))
           /\ KnownIn(x.versions[p], ScanRow(x, d, p, content, approve).versions)
<1> DEFINE s == Stored(x, p)
<1>1. RowOK(s) /\ s.versions = x.versions[p] /\ x.versions[p] \in SUBSET Revision
  BY StoredOK DEF Index
<1>2. /\ RowOK(s) /\ RowOK([s EXCEPT !.pending = FALSE]) /\ RowOK([s EXCEPT !.pending = TRUE])
      /\ [s EXCEPT !.pending = FALSE].versions = x.versions[p]
      /\ [s EXCEPT !.pending = TRUE].versions = x.versions[p]
  BY <1>1 DEF RowOK, Stored, Row
<1>3. \/ ScanRow(x, d, p, content, approve) = Adopted(x, p, content)
      \/ /\ IsEdit(x, p, content, approve)
         /\ ScanRow(x, d, p, content, approve) = Edited(x, d, p, content)
      \/ ScanRow(x, d, p, content, approve) = s
      \/ ScanRow(x, d, p, content, approve) = [s EXCEPT !.pending = FALSE]
      \/ ScanRow(x, d, p, content, approve) = [s EXCEPT !.pending = TRUE]
  BY DEF ScanRow, IsEdit
<1> HIDE DEF s
<1>4. CASE ScanRow(x, d, p, content, approve) = Adopted(x, p, content)
  BY <1>4, AdoptedOK
<1>5. CASE /\ IsEdit(x, p, content, approve)
           /\ ScanRow(x, d, p, content, approve) = Edited(x, d, p, content)
  BY <1>5, EditedOK
<1>6. CASE ScanRow(x, d, p, content, approve)
             \in {s, [s EXCEPT !.pending = FALSE], [s EXCEPT !.pending = TRUE]}
  BY <1>1, <1>2, <1>6, KnownInItself
<1>7. QED
  BY <1>3, <1>4, <1>5, <1>6

LEMMA JoinRowOK ==
    ASSUME NEW x \in Index, Whole(x), NEW p \in Path,
           NEW H \in SUBSET Revision, IsFiniteSet(H)
    PROVE  /\ RowOK(JoinRow(x, p, H))
           /\ KnownIn(x.versions[p], JoinRow(x, p, H).versions)
<1>1. x.versions[p] \in SUBSET Revision /\ IsFiniteSet(x.versions[p])
  BY DEF Index, Whole
<1>2. RowOK(Stored(x, p)) /\ Stored(x, p).versions = x.versions[p]
  BY StoredOK
<1>3. CASE H = {}
  BY <1>1, <1>2, <1>3, KnownInItself DEF JoinRow
<1>4. CASE H # {}
  <2> DEFINE new == Join(x.versions[p], H)
  <2>1. new \in SUBSET Revision /\ IsFiniteSet(new)
    BY <1>1, JoinType
  <2>2. new # {}
    BY <1>1, <1>4, JoinKeeps
  <2>3. KnownIn(x.versions[p], new)
    BY <1>1, KnownInJoin
  <2>4. JoinRow(x, p, H) = Row(new, x.materialized[p], x.observed[p], p \in x.pending, {})
    BY <1>4 DEF JoinRow, Stored, Row
  <2> HIDE DEF new
  <2>5. x.materialized[p] \in Content /\ x.observed[p] \in SUBSET Revision
    BY DEF Index
  <2>6. QED
    BY <2>1, <2>2, <2>3, <2>4, <2>5 DEF Row, RowOK
<1>5. QED
  BY <1>3, <1>4

-----------------------------------------------------------------------------
(* Index transitions *)

(* A later state of an index: well formed, of the same epoch, and knowing
   everything the earlier one knew. *)
Grown(x, y) ==
    /\ y \in Index
    /\ Whole(y)
    /\ y.epoch = x.epoch
    /\ \A p \in Path : KnownIn(x.versions[p], y.versions[p])

LEMMA GrownTransitive ==
    ASSUME NEW x \in Index, NEW y, NEW z, Grown(x, y), Grown(y, z)
    PROVE  Grown(x, z)
<1>1. y \in Index /\ z \in Index
  BY DEF Grown
<1>2. \A p \in Path : /\ x.versions[p] \in SUBSET Revision
                      /\ y.versions[p] \in SUBSET Revision
                      /\ z.versions[p] \in SUBSET Revision
  BY <1>1 DEF Index
<1>3. \A p \in Path : KnownIn(x.versions[p], z.versions[p])
  BY <1>2, KnownInTransitive DEF Grown
<1>4. QED
  BY <1>3 DEF Grown

LEMMA GrownItself ==
    ASSUME NEW x \in Index, Whole(x)
    PROVE  Grown(x, x)
<1>1. \A p \in Path : x.versions[p] \in SUBSET Revision
  BY DEF Index
<1>2. QED
  BY <1>1, KnownInItself DEF Grown

LEMMA SaveGrows ==
    ASSUME NEW x \in Index, NEW row,
           \A p \in Path : RowOK(row[p]) /\ KnownIn(x.versions[p], row[p].versions)
    PROVE  Grown(x, Save(x, row))
BY SaveOK DEF Grown

LEMMA SaveRowGrows ==
    ASSUME NEW x \in Index, Whole(x), NEW p \in Path, NEW r,
           RowOK(r), KnownIn(x.versions[p], r.versions)
    PROVE  /\ Grown(x, SaveRow(x, p, r))
           /\ SaveRow(x, p, r).versions[p] = r.versions
<1> DEFINE row == [q \in Path |-> IF q = p THEN r ELSE Stored(x, q)]
<1>1. \A q \in Path : x.versions[q] \in SUBSET Revision
  BY DEF Index
<1>2. \A q \in Path : /\ RowOK(row[q])
                      /\ KnownIn(x.versions[q], row[q].versions)
  BY <1>1, StoredOK, KnownInItself
<1>3. row[p] = r
  OBVIOUS
<1>4. SaveRow(x, p, r) = Save(x, row)
  BY DEF SaveRow
<1> HIDE DEF row
<1>5. QED
  BY <1>2, <1>3, <1>4, SaveGrows, SaveOK

LEMMA ScanRowsOK ==
    ASSUME NEW x \in Index, Whole(x), NEW d \in Device,
           NEW folder \in [Path -> Content], NEW approve \in BOOLEAN,
           CanScan(x, d, folder, approve)
    PROVE  /\ \A p \in Path : RowOK(ScanRows(x, d, folder, approve)[p])
           /\ Grown(x, Save(x, ScanRows(x, d, folder, approve)))
<1>1. \A p \in Path :
         /\ RowOK(ScanRow(x, d, p, folder[p], approve))
         /\ KnownIn(x.versions[p], ScanRow(x, d, p, folder[p], approve).versions)
  BY ScanRowOK DEF CanScan
<1>2. \A p \in Path :
         ScanRows(x, d, folder, approve)[p] = ScanRow(x, d, p, folder[p], approve)
  BY DEF ScanRows
<1>3. QED
  BY <1>1, <1>2, SaveGrows

LEMMA OpenRowsOK ==
    ASSUME TypeOK, NEW d \in Device, Whole(db[d]), CanOpen(d)
    PROVE  /\ \A p \in Path : RowOK(OpenRows(d)[p])
           /\ Grown(db[d], Opened(d))
<1>1. db[d] \in Index /\ disk[d] \in [Path -> Content]
  BY DEF TypeOK
<1>2. CASE db[d].recovering
  <2>1. \A p \in Path : OpenRows(d)[p] = Stored(db[d], p)
    BY <1>2 DEF OpenRows
  <2>2. \A p \in Path : db[d].versions[p] \in SUBSET Revision
    BY <1>1 DEF Index
  <2>3. \A p \in Path : /\ RowOK(OpenRows(d)[p])
                        /\ KnownIn(db[d].versions[p], OpenRows(d)[p].versions)
    BY <1>1, <2>1, <2>2, StoredOK, KnownInItself
  <2>4. QED
    BY <1>1, <2>3, SaveGrows DEF Opened
<1>3. CASE ~db[d].recovering
  <2>1. OpenRows(d) = ScanRows(db[d], d, disk[d], FALSE)
    BY <1>3 DEF OpenRows
  <2>2. CanScan(db[d], d, disk[d], FALSE)
    BY <1>3 DEF CanOpen
  <2>3. QED
    BY <1>1, <2>1, <2>2, ScanRowsOK DEF Opened
<1>4. QED
  BY <1>2, <1>3

LEMMA BirthsOK ==
    ASSUME TypeOK, NEW d \in Device, NEW x \in Index, NEW row,
           \A p \in Path : row[p].made \in SUBSET Making
    PROVE  \A p \in Path : Births(d, x, row)[p] \in SUBSET Birth
<1> SUFFICES ASSUME NEW p \in Path, NEW m \in row[p].made
             PROVE  [rev  |-> m.rev,
                     by   |-> <<d, x.epoch>>,
                     past |-> m.basis \cup
                              UNION {b.past : b \in {k \in born[p] : k.rev \in m.basis}}]
                    \in Birth
  BY DEF Births
<1>1. m.rev \in Revision /\ m.basis \in SUBSET Revision
  BY DEF Making
<1>2. \A b \in born[p] : b.past \in SUBSET Revision
  BY DEF TypeOK, Birth
<1>3. UNION {b.past : b \in {k \in born[p] : k.rev \in m.basis}} \in SUBSET Revision
  BY <1>2
<1>4. QED
  BY <1>1, <1>3, ReplicaOK DEF Birth

LEMMA RecordOK ==
    ASSUME TypeOK, NEW d \in Device, NEW x \in Index, NEW row,
           \A p \in Path : row[p].made \in SUBSET Making,
           Record(d, x, row)
    PROVE  born' \in [Path -> SUBSET Birth]
<1>1. \A p \in Path : born[p] \in SUBSET Birth
  BY DEF TypeOK
<1>2. QED
  BY <1>1, BirthsOK DEF Record

-----------------------------------------------------------------------------
(* What a step does to the parts of the invariant *)

(* Every index is well formed after the step, and within one epoch it still
   knows what it knew. *)
IndexStep ==
    /\ db' \in [Device -> Index]
    /\ \A d \in Device :
          /\ Whole(db'[d])
          /\ db'[d].epoch = db[d].epoch =>
                \A p \in Path : KnownIn(db[d].versions[p], db'[d].versions[p])

(* What is being applied either was already, in an index that kept its epoch,
   or has a head now. *)
SessionStep ==
    /\ sess' \in [Device -> Session]
    /\ \A d \in Device :
          /\ \A p \in Path : IsFiniteSet(sess'[d].incoming[p])
          /\ sess'[d].phase \in {"chosen", "published"} =>
                \/ /\ sess[d].phase \in {"chosen", "published"}
                   /\ sess'[d].path = sess[d].path
                   /\ db'[d].epoch = db[d].epoch
                \/ db'[d].versions[sess'[d].path] # {}

(* The remaining variables have their types. *)
RestOK ==
    /\ disk \in [Device -> [Path -> Content]]
    /\ objects \in [Device -> SUBSET File]
    /\ mode \in [Device -> Mode]
    /\ saved \in [Device -> SUBSET [index : Index, mode : Mode]]
    /\ \A d \in Device : \A s \in saved[d] : Whole(s.index)
    /\ born \in [Path -> SUBSET Birth]
    /\ budget \in [{"edits", "aborts", "choices"} -> Nat]

(* The step keeps the invariant and forgets nothing. *)
Good ==
    /\ Inv'
    /\ \A d \in Device : \A p \in Path :
          db'[d].epoch = db[d].epoch =>
              KnownIn(db[d].versions[p], db'[d].versions[p])

LEMMA GoodStep ==
    ASSUME Inv, IndexStep, SessionStep, RestOK'
    PROVE  Good
<1>1. TypeOK'
  BY DEF IndexStep, SessionStep, RestOK, TypeOK
<1>2. ASSUME NEW d \in Device PROVE SessionReady(d)'
  <2>1. \A p \in Path : IsFiniteSet(sess'[d].incoming[p])
    BY DEF SessionStep
  <2>2. ASSUME sess'[d].phase \in {"chosen", "published"}
        PROVE  db'[d].versions[sess'[d].path] # {}
    <3>1. CASE /\ sess[d].phase \in {"chosen", "published"}
               /\ sess'[d].path = sess[d].path
               /\ db'[d].epoch = db[d].epoch
      <4>1. sess[d].path \in Path
        BY DEF Inv, TypeOK, Session
      <4>2. db[d].versions[sess[d].path] # {}
        BY <3>1 DEF Inv, SessionReady
      <4>3. KnownIn(db[d].versions[sess[d].path], db'[d].versions[sess[d].path])
        BY <3>1, <4>1 DEF IndexStep
      <4>4. QED
        BY <3>1, <4>2, <4>3 DEF KnownIn
    <3>2. QED
      BY <2>2, <3>1 DEF SessionStep
  <2>3. QED
    BY <2>1, <2>2 DEF SessionReady
<1>3. QED
  BY <1>1, <1>2 DEF IndexStep, RestOK, Inv, Good

LEMMA IndexesUnchanged ==
    ASSUME Inv, UNCHANGED db
    PROVE  IndexStep
<1>1. \A d \in Device : db[d] \in Index /\ Whole(db[d])
  BY DEF Inv, TypeOK
<1>2. \A d \in Device : Grown(db[d], db[d])
  BY <1>1, GrownItself
<1>3. QED
  BY <1>1, <1>2 DEF IndexStep, Grown, Inv, TypeOK

LEMMA OneIndex ==
    ASSUME Inv, NEW d \in Device, NEW y, Grown(db[d], y),
           db' = [db EXCEPT ![d] = y]
    PROVE  IndexStep /\ \A e \in Device : db'[e].epoch = db[e].epoch
<1>1. db \in [Device -> Index]
  BY DEF Inv, TypeOK
<1>2. y \in Index
  BY DEF Grown
<1>3. \A e \in Device : Grown(db[e], db'[e])
  <2>1. \A e \in Device : db[e] \in Index /\ Whole(db[e])
    BY <1>1 DEF Inv
  <2>2. \A e \in Device : db'[e] = IF e = d THEN y ELSE db[e]
    BY <1>1
  <2>3. QED
    BY <2>1, <2>2, GrownItself
<1>4. QED
  BY <1>1, <1>2, <1>3 DEF IndexStep, Grown

LEMMA NoSessionOK ==
    ASSUME NEW d \in Device
    PROVE  /\ NoSession(d) \in Session
           /\ NoSession(d).phase = "idle"
           /\ \A p \in Path : IsFiniteSet(NoSession(d).incoming[p])
<1>1. (CHOOSE p \in Path : TRUE) \in Path
  BY FolderAssumption
<1>2. 0 \in 0 .. MaxRestores + 1
  BY FolderAssumption
<1>3. NoSession(d) \in Session
  BY <1>1, <1>2 DEF NoSession, Session, Phase, Cursor
<1>4. QED
  BY <1>3, FS_EmptySet DEF NoSession

LEMMA SessionsUnchanged ==
    ASSUME Inv, UNCHANGED sess, \A e \in Device : db'[e].epoch = db[e].epoch
    PROVE  SessionStep
BY DEF SessionStep, Inv, TypeOK, SessionReady

(* Some sessions end; the others go on, or change what is not being applied. *)
LEMMA SomeSessions ==
    ASSUME Inv, sess' \in [Device -> Session],
           \A e \in Device : db'[e].epoch = db[e].epoch,
           \A e \in Device :
              \/ sess'[e] = sess[e]
              \/ sess'[e] = NoSession(e)
              \/ /\ \A p \in Path : IsFiniteSet(sess'[e].incoming[p])
                 /\ \/ sess'[e].phase \notin {"chosen", "published"}
                    \/ sess'[e].phase = sess[e].phase /\ sess'[e].path = sess[e].path
                    \/ db'[e].versions[sess'[e].path] # {}
    PROVE  SessionStep
<1> SUFFICES ASSUME NEW e \in Device
             PROVE  /\ \A p \in Path : IsFiniteSet(sess'[e].incoming[p])
                    /\ sess'[e].phase \in {"chosen", "published"} =>
                          \/ /\ sess[e].phase \in {"chosen", "published"}
                             /\ sess'[e].path = sess[e].path
                             /\ db'[e].epoch = db[e].epoch
                          \/ db'[e].versions[sess'[e].path] # {}
  BY DEF SessionStep
<1>1. \A p \in Path : IsFiniteSet(sess[e].incoming[p])
  BY DEF Inv, SessionReady
<1>2. CASE sess'[e] = sess[e]
  BY <1>1, <1>2
<1>3. CASE sess'[e] = NoSession(e)
  BY <1>3, NoSessionOK
<1>4. QED
  BY <1>2, <1>3

LEMMA EndOK ==
    ASSUME Inv, NEW d \in Device, End(d), \A e \in Device : db'[e].epoch = db[e].epoch
    PROVE  SessionStep
<1>1. sess \in [Device -> Session]
  BY DEF Inv, TypeOK
<1>2. sess' \in [Device -> Session]
  BY <1>1, NoSessionOK DEF End
<1>3. \A e \in Device : sess'[e] = sess[e] \/ sess'[e] = NoSession(e)
  BY <1>1 DEF End
<1>4. QED
  BY <1>2, <1>3, SomeSessions

LEMMA GotoOK ==
    ASSUME Inv, NEW d \in Device, NEW phase \in Phase \ {"chosen", "published"},
           Goto(d, phase), \A e \in Device : db'[e].epoch = db[e].epoch
    PROVE  SessionStep
<1>1. sess \in [Device -> Session]
  BY DEF Inv, TypeOK
<1>2. [sess[d] EXCEPT !.phase = phase] \in Session
  BY <1>1 DEF Session
<1>3. \A e \in Device :
         sess'[e] = IF e = d THEN [sess[d] EXCEPT !.phase = phase] ELSE sess[e]
  BY <1>1 DEF Goto
<1>4. sess' \in [Device -> Session]
  BY <1>1, <1>2 DEF Goto
<1>5. /\ \A p \in Path : IsFiniteSet(sess[d].incoming[p])
      /\ [sess[d] EXCEPT !.phase = phase].incoming = sess[d].incoming
      /\ [sess[d] EXCEPT !.phase = phase].phase = phase
  BY <1>1 DEF Inv, SessionReady, Session
<1>6. QED
  BY <1>3, <1>4, <1>5, SomeSessions

LEMMA EmptyIndexOK == EmptyIndex \in Index /\ Whole(EmptyIndex)
<1>1. /\ 1 \in Epoch
      /\ [epoch |-> 0, seq |-> 0] \in Cursor
  BY FolderAssumption DEF Epoch, Cursor
<1>2. Deleted \in Content /\ {} \in SUBSET Revision /\ {} \in SUBSET Path
  BY DEF Content
<1>3. EmptyIndex \in Index
  BY <1>1, <1>2 DEF EmptyIndex, Index
<1>4. Whole(EmptyIndex)
  BY FS_EmptySet DEF EmptyIndex, Whole
<1>5. QED
  BY <1>3, <1>4

LEMMA InitOK == Init => Inv
<1> SUFFICES ASSUME Init PROVE Inv
  OBVIOUS
<1>1. \A d \in Device : db[d] \in Index /\ Whole(db[d])
  BY EmptyIndexOK DEF Init
<1>2. \A d \in Device : sess[d] = NoSession(d)
  BY DEF Init
<1>3. db \in [Device -> Index]
  BY EmptyIndexOK DEF Init
<1>4. sess \in [Device -> Session]
  BY NoSessionOK DEF Init
<1>5. \A d \in Device : SessionReady(d)
  BY <1>2, NoSessionOK DEF SessionReady
<1>6. mode \in [Device -> Mode]
  BY FolderAssumption DEF Init
<1>7. disk \in [Device -> [Path -> Content]]
  BY DEF Init, Content
<1>8. budget \in [{"edits", "aborts", "choices"} -> Nat]
  BY FolderAssumption DEF Init
<1>9. /\ objects \in [Device -> SUBSET File]
      /\ saved \in [Device -> SUBSET [index : Index, mode : Mode]]
      /\ born \in [Path -> SUBSET Birth]
      /\ \A d \in Device : \A s \in saved[d] : Whole(s.index)
  BY DEF Init
<1>10. TypeOK
  BY <1>3, <1>4, <1>6, <1>7, <1>8, <1>9 DEF TypeOK
<1>11. QED
  BY <1>1, <1>5, <1>9, <1>10 DEF Inv

-----------------------------------------------------------------------------
(* Commands *)

LEMMA RestHeld == Inv => RestOK
BY DEF Inv, TypeOK, RestOK

LEMMA SpendOK ==
    ASSUME RestOK, NEW what \in {"edits", "aborts", "choices"}, Spend(what)
    PROVE  budget' \in [{"edits", "aborts", "choices"} -> Nat]
<1>1. budget[what] \in Nat /\ budget[what] > 0
  BY DEF RestOK, Spend
<1>2. budget[what] - 1 \in Nat
  BY <1>1
<1>3. QED
  BY <1>2 DEF RestOK, Spend

LEMMA CapturedOK ==
    ASSUME NEW d \in Device
    PROVE  Captured(d) \in SUBSET File
BY DEF Captured

(* Objects are only added. *)
LEMMA CaptureOK ==
    ASSUME Inv, NEW d \in Device, NEW more \in SUBSET File,
           objects' = [objects EXCEPT ![d] = @ \cup more]
    PROVE  objects' \in [Device -> SUBSET File]
BY DEF Inv, TypeOK

LEMMA AppWriteOK ==
    ASSUME Inv, NEW d \in Device, NEW p \in Path, NEW content \in Payload,
           AppWrite(d, p, content)
    PROVE  Good
<1>1. content \in Content
  BY FolderAssumption
<1>2. disk' \in [Device -> [Path -> Content]]
  BY <1>1 DEF AppWrite, Inv, TypeOK
<1>3. RestOK'
  BY <1>2, RestHeld, SpendOK DEF AppWrite, RestOK
<1>4. UNCHANGED db /\ UNCHANGED sess
  BY DEF AppWrite
<1>5. QED
  BY <1>3, <1>4, IndexesUnchanged, SessionsUnchanged, GoodStep

LEMMA ScanOK ==
    ASSUME Inv, NEW d \in Device, NEW approve \in BOOLEAN, Scan(d, approve)
    PROVE  Good
<1> DEFINE row == ScanRows(db[d], d, disk[d], approve)
<1>1. db[d] \in Index /\ Whole(db[d]) /\ disk[d] \in [Path -> Content]
  BY DEF Inv, TypeOK
<1>2. objects' \in [Device -> SUBSET File]
  BY CapturedOK, CaptureOK DEF Scan
<1>3. UNCHANGED <<disk, mode, sess, saved, budget>>
  BY DEF Scan
<1>4. CASE ~CanScan(db[d], d, disk[d], approve)
  <2>1. UNCHANGED db /\ UNCHANGED born
    BY <1>4 DEF Scan
  <2>2. RestOK'
    BY <1>2, <1>3, <2>1, RestHeld DEF RestOK
  <2>3. QED
    BY <1>3, <2>1, <2>2, IndexesUnchanged, SessionsUnchanged, GoodStep
<1>5. CASE CanScan(db[d], d, disk[d], approve)
  <2>1. db' = [db EXCEPT ![d] = Save(db[d], row)] /\ Record(d, db[d], row)
    BY <1>5 DEF Scan
  <2>2. (\A p \in Path : RowOK(row[p])) /\ Grown(db[d], Save(db[d], row))
    BY <1>1, <1>5, ScanRowsOK
  <2> HIDE DEF row
  <2>3. \A p \in Path : row[p].made \in SUBSET Making
    BY <2>2 DEF RowOK
  <2>4. born' \in [Path -> SUBSET Birth]
    BY <1>1, <2>1, <2>3, RecordOK DEF Inv
  <2>5. RestOK'
    BY <1>2, <1>3, <2>4, RestHeld DEF RestOK
  <2>6. IndexStep /\ \A e \in Device : db'[e].epoch = db[e].epoch
    BY <2>1, <2>2, OneIndex
  <2>7. QED
    BY <1>3, <2>5, <2>6, SessionsUnchanged, GoodStep
<1>6. QED
  BY <1>4, <1>5

LEMMA ScanRowMakes ==
    ASSUME NEW x, NEW d, NEW p, NEW content, NEW approve
    PROVE  "made" \in DOMAIN ScanRow(x, d, p, content, approve)
<1> DEFINE s == Stored(x, p)
<1>1. \/ ScanRow(x, d, p, content, approve) = Adopted(x, p, content)
      \/ ScanRow(x, d, p, content, approve) = Edited(x, d, p, content)
      \/ ScanRow(x, d, p, content, approve) = s
      \/ ScanRow(x, d, p, content, approve) = [s EXCEPT !.pending = FALSE]
      \/ ScanRow(x, d, p, content, approve) = [s EXCEPT !.pending = TRUE]
  BY DEF ScanRow, IsEdit
<1>2. /\ "made" \in DOMAIN Adopted(x, p, content)
      /\ "made" \in DOMAIN Edited(x, d, p, content)
  BY DEF Adopted, Edited, Row
<1>3. "made" \in DOMAIN s
  BY DEF Stored, Row
<1> HIDE DEF s
<1>4. QED
  BY <1>1, <1>2, <1>3

LEMMA ApproveDeletionOK ==
    ASSUME Inv, NEW d \in Device, NEW p \in Path, ApproveDeletion(d, p)
    PROVE  Good
<1> DEFINE row     == ScanRows(db[d], d, disk[d], FALSE)
           scanned == Save(db[d], row)
           deleted == Edited(scanned, d, p, Deleted)
           made    == [row EXCEPT ![p].made = deleted.made]
<1>1. db[d] \in Index /\ Whole(db[d]) /\ disk[d] \in [Path -> Content]
  BY DEF Inv, TypeOK
<1>2. objects' \in [Device -> SUBSET File]
  BY CapturedOK, CaptureOK DEF ApproveDeletion
<1>3. UNCHANGED <<disk, mode, sess, saved, budget>>
  BY DEF ApproveDeletion
<1>4. /\ CanScan(db[d], d, disk[d], FALSE)
      /\ CanEdit(scanned.observed[p], ReplicaOf(d))
      /\ db' = [db EXCEPT ![d] = SaveRow(scanned, p, deleted)]
      /\ Record(d, db[d], made)
  BY DEF ApproveDeletion
<1>5. (\A q \in Path : RowOK(row[q])) /\ Grown(db[d], scanned)
  BY <1>1, <1>4, ScanRowsOK
<1>6. \A q \in Path : made[q].made = IF q = p THEN deleted.made ELSE row[q].made
  <2>1. row[p] = ScanRow(db[d], d, p, disk[d][p], FALSE) /\ p \in DOMAIN row
    BY DEF ScanRows
  <2>2. "made" \in DOMAIN row[p]
    BY <2>1, ScanRowMakes
  <2> HIDE DEF row, deleted
  <2>3. QED
    BY <2>1, <2>2
<1> HIDE DEF row, scanned, made
<1>7. scanned \in Index /\ Whole(scanned) /\ scanned.epoch = db[d].epoch
  BY <1>5 DEF Grown
<1>8. CanEdit(scanned.observed[p], <<d, scanned.epoch>>)
  BY <1>4, <1>7 DEF ReplicaOf
<1>9. RowOK(deleted) /\ KnownIn(scanned.versions[p], deleted.versions)
  BY <1>7, <1>8, EditedOK DEF Content
<1> HIDE DEF deleted
<1>10. Grown(db[d], SaveRow(scanned, p, deleted))
  BY <1>1, <1>5, <1>7, <1>9, SaveRowGrows, GrownTransitive
<1>11. \A q \in Path : made[q].made \in SUBSET Making
  BY <1>5, <1>6, <1>9 DEF RowOK
<1>12. born' \in [Path -> SUBSET Birth]
  BY <1>1, <1>4, <1>11, RecordOK DEF Inv
<1>13. RestOK'
  BY <1>2, <1>3, <1>12, RestHeld DEF RestOK
<1>14. IndexStep /\ \A e \in Device : db'[e].epoch = db[e].epoch
  BY <1>4, <1>10, OneIndex
<1>15. QED
  BY <1>3, <1>13, <1>14, SessionsUnchanged, GoodStep

LEMMA ChooseScanOK ==
    ASSUME Inv, NEW d \in Device, ChooseScan(d)
    PROVE  Good
<1> DEFINE row == ScanRows(db[d], d, disk[d], FALSE)
<1>1. db[d] \in Index /\ Whole(db[d]) /\ disk[d] \in [Path -> Content]
  BY DEF Inv, TypeOK
<1>2. objects' \in [Device -> SUBSET File]
  BY CapturedOK, CaptureOK DEF ChooseScan
<1>3. UNCHANGED <<disk, mode, saved>>
  BY DEF ChooseScan
<1>4. /\ CanScan(db[d], d, disk[d], FALSE)
      /\ db' = [db EXCEPT ![d] = Save(db[d], row)]
      /\ Record(d, db[d], row)
      /\ Goto(d, "choosing")
      /\ Spend("choices")
  BY DEF ChooseScan
<1>5. (\A p \in Path : RowOK(row[p])) /\ Grown(db[d], Save(db[d], row))
  BY <1>1, <1>4, ScanRowsOK
<1> HIDE DEF row
<1>6. \A p \in Path : row[p].made \in SUBSET Making
  BY <1>5 DEF RowOK
<1>7. born' \in [Path -> SUBSET Birth]
  BY <1>1, <1>4, <1>6, RecordOK DEF Inv
<1>8. budget' \in [{"edits", "aborts", "choices"} -> Nat]
  BY <1>4, RestHeld, SpendOK
<1>9. RestOK'
  BY <1>2, <1>3, <1>7, <1>8, RestHeld DEF RestOK
<1>10. IndexStep /\ \A e \in Device : db'[e].epoch = db[e].epoch
  BY <1>4, <1>5, OneIndex
<1>11. "choosing" \in Phase \ {"chosen", "published"}
  BY DEF Phase
<1>12. SessionStep
  BY <1>4, <1>10, <1>11, GotoOK
<1>13. QED
  BY <1>9, <1>10, <1>12, GoodStep

(* A session that turns to another path, or to another phase of one. *)
LEMMA TurnOK ==
    ASSUME Inv, NEW d \in Device, NEW phase \in Phase, NEW p \in Path,
           sess' = [sess EXCEPT ![d].phase = phase, ![d].path = p],
           db'[d].versions[p] # {},
           \A e \in Device : db'[e].epoch = db[e].epoch
    PROVE  SessionStep
<1> DEFINE s == [sess[d] EXCEPT !.phase = phase, !.path = p]
<1>1. sess \in [Device -> Session]
  BY DEF Inv, TypeOK
<1>2. s \in Session /\ s.path = p /\ s.incoming = sess[d].incoming
  <2>1. sess[d] \in Session
    BY <1>1
  <2>2. QED
    BY <2>1 DEF Session
<1>3. \A e \in Device : sess'[e] = IF e = d THEN s ELSE sess[e]
  BY <1>1
<1>4. sess' = [sess EXCEPT ![d] = s]
  BY <1>1
<1> HIDE DEF s
<1>5. sess' \in [Device -> Session]
  BY <1>1, <1>2, <1>4
<1>6. \A q \in Path : IsFiniteSet(s.incoming[q])
  BY <1>2 DEF Inv, SessionReady
<1>7. QED
  BY <1>2, <1>3, <1>5, <1>6, SomeSessions

LEMMA ChooseCommitOK ==
    ASSUME Inv, NEW d \in Device, NEW p \in Path,
           NEW chosen \in db[d].versions[p] \cup db[d].history[p],
           ChooseCommit(d, p, chosen)
    PROVE  Good
<1> DEFINE made == Made(db[d], d, db[d].versions[p], chosen.content)
           row  == Row({made.rev}, disk[d][p], db[d].observed[p], FALSE, {made})
           rows == [q \in Path |-> IF q = p THEN row ELSE Stored(db[d], q)]
<1>1. db[d] \in Index /\ Whole(db[d]) /\ disk[d][p] \in Content
  BY DEF Inv, TypeOK
<1>2. /\ db[d].versions[p] \in SUBSET Revision
      /\ db[d].observed[p] \in SUBSET Revision
      /\ db[d].history[p] \in SUBSET Revision
  BY <1>1 DEF Index
<1>3. chosen.content \in Content
  BY <1>2 DEF Revision
<1>4. /\ CanEdit(db[d].versions[p], ReplicaOf(d))
      /\ db' = [db EXCEPT ![d] = SaveRow(db[d], p, row)]
      /\ Record(d, db[d], rows)
      /\ sess' = [sess EXCEPT ![d].phase = "chosen", ![d].path = p]
      /\ UNCHANGED <<disk, objects, mode, saved, budget>>
  BY DEF ChooseCommit
<1>5. /\ made \in Making /\ made.rev \in Revision
      /\ \A h \in db[d].versions[p] : Before(h.clock, made.rev.clock)
  BY <1>1, <1>2, <1>3, <1>4, MadeOK DEF ReplicaOf
<1> HIDE DEF made
<1>6. RowOK(row)
  BY <1>1, <1>2, <1>5, FS_Singleton DEF Row, RowOK
<1>7. row.versions = {made.rev} /\ row.made = {made}
  BY DEF Row
<1>8. KnownIn(db[d].versions[p], row.versions)
  BY <1>5, <1>7 DEF KnownIn
<1>9. \A q \in Path : rows[q].made \in SUBSET Making
  BY <1>5, <1>7 DEF Stored, Row
<1> HIDE DEF row, rows
<1>10. Grown(db[d], SaveRow(db[d], p, row)) /\ SaveRow(db[d], p, row).versions[p] = row.versions
  BY <1>1, <1>6, <1>8, SaveRowGrows
<1>11. born' \in [Path -> SUBSET Birth]
  BY <1>1, <1>4, <1>9, RecordOK DEF Inv
<1>12. RestOK'
  BY <1>4, <1>11, RestHeld DEF RestOK
<1>13. IndexStep /\ \A e \in Device : db'[e].epoch = db[e].epoch
  BY <1>4, <1>10, OneIndex
<1>14. db'[d].versions[p] # {}
  BY <1>4, <1>7, <1>10 DEF Inv, TypeOK
<1>15. SessionStep
  BY <1>4, <1>13, <1>14, TurnOK DEF Phase
<1>16. QED
  BY <1>12, <1>13, <1>15, GoodStep

-----------------------------------------------------------------------------
(* Sessions *)

LEMMA HelloOK ==
    ASSUME Inv, NEW d \in Device, NEW e \in Device, NEW client \in BOOLEAN,
           CanOpen(d), CanOpen(e)
    PROVE  LET s == [NoSession(d) EXCEPT
                        !.phase = "hello", !.peer = e, !.client = client,
                        !.seq = HelloSeq(d),
                        !.remote = [epoch |-> db[e].epoch, seq |-> HelloSeq(e)]]
           IN  /\ s \in Session
               /\ s.phase = "hello"
               /\ \A p \in Path : IsFiniteSet(s.incoming[p])
<1> DEFINE remote == [epoch |-> db[e].epoch, seq |-> HelloSeq(e)]
<1>1. TypeOK /\ db[e] \in Index
  BY DEF Inv, TypeOK
<1>2. Opened(d) \in Index /\ Opened(e) \in Index
  BY <1>1, OpenRowsOK DEF Inv, Grown
<1>3. HelloSeq(d) \in Nat /\ HelloSeq(e) \in Nat
  BY <1>2 DEF HelloSeq, Index
<1>4. db[e].epoch \in 0 .. MaxRestores + 1
  BY <1>1, FolderAssumption DEF Index, Epoch
<1>5. remote \in Cursor
  BY <1>3, <1>4 DEF Cursor
<1> HIDE DEF remote
<1>6. [NoSession(d) EXCEPT !.phase = "hello", !.peer = e, !.client = client,
                           !.seq = HelloSeq(d), !.remote = remote] \in Session
  <2> DEFINE n == NoSession(d)
             a == [n EXCEPT !.phase = "hello"]
             b == [a EXCEPT !.peer = e]
             k == [b EXCEPT !.client = client]
             l == [k EXCEPT !.seq = HelloSeq(d)]
             m == [l EXCEPT !.remote = remote]
  <2>1. n \in Session /\ "hello" \in Phase
    BY NoSessionOK DEF Phase
  <2>2. m = [n EXCEPT !.phase = "hello", !.peer = e, !.client = client,
                      !.seq = HelloSeq(d), !.remote = remote]
    OBVIOUS
  <2> HIDE DEF n
  <2>3. a \in Session
    BY <2>1 DEF Session
  <2> HIDE DEF a
  <2>4. b \in Session
    BY <2>3 DEF Session
  <2> HIDE DEF b
  <2>5. k \in Session
    BY <2>4 DEF Session
  <2> HIDE DEF k
  <2>6. l \in Session
    BY <1>3, <2>5 DEF Session
  <2> HIDE DEF l
  <2>7. m \in Session
    BY <1>5, <2>6 DEF Session
  <2>8. QED
    BY <2>2, <2>7 DEF n
<1>7. \A p \in Path : IsFiniteSet(NoSession(d).incoming[p])
  BY NoSessionOK
<1>8. /\ [NoSession(d) EXCEPT !.phase = "hello", !.peer = e, !.client = client,
                              !.seq = HelloSeq(d), !.remote = remote].phase = "hello"
      /\ [NoSession(d) EXCEPT !.phase = "hello", !.peer = e, !.client = client,
                              !.seq = HelloSeq(d), !.remote = remote].incoming
         = NoSession(d).incoming
  BY DEF NoSession
<1>9. QED
  BY <1>6, <1>7, <1>8 DEF remote

LEMMA OpenMakes ==
    ASSUME Inv, NEW d \in Device, CanOpen(d)
    PROVE  \A p \in Path : Births(d, db[d], OpenRows(d))[p] \in SUBSET Birth
<1>1. \A p \in Path : OpenRows(d)[p].made \in SUBSET Making
  BY OpenRowsOK DEF Inv, RowOK
<1>2. db[d] \in Index /\ TypeOK
  BY DEF Inv, TypeOK
<1> HIDE DEF OpenRows
<1>3. QED
  BY <1>1, <1>2, BirthsOK

LEMMA ConnectOK ==
    ASSUME Inv, NEW c \in Device, NEW s \in Device, Connect(c, s)
    PROVE  Good
<1> DEFINE hello(d, e, client) ==
              [NoSession(d) EXCEPT
                !.phase = "hello", !.peer = e, !.client = client,
                !.seq = HelloSeq(d),
                !.remote = [epoch |-> db[e].epoch, seq |-> HelloSeq(e)]]
<1>1. /\ c # s /\ CanOpen(c) /\ CanOpen(s)
      /\ db' = [db EXCEPT ![c] = Opened(c), ![s] = Opened(s)]
      /\ born' = [p \in Path |->
                    born[p] \cup Births(c, db[c], OpenRows(c))[p]
                            \cup Births(s, db[s], OpenRows(s))[p]]
      /\ objects' = [d \in Device |->
                       IF d \in {c, s} /\ ~db[d].recovering
                       THEN objects[d] \cup Captured(d) ELSE objects[d]]
      /\ sess' = [sess EXCEPT ![c] = hello(c, s, TRUE), ![s] = hello(s, c, FALSE)]
      /\ UNCHANGED <<disk, mode, saved, budget>>
  BY DEF Connect
<1>2. /\ db \in [Device -> Index] /\ sess \in [Device -> Session] /\ TypeOK
      /\ \A d \in Device : Whole(db[d])
  BY DEF Inv, TypeOK
<1>3. objects' \in [Device -> SUBSET File]
  BY <1>1, CapturedOK DEF Inv, TypeOK
<1>4. born' \in [Path -> SUBSET Birth]
  BY <1>1, OpenMakes DEF Inv, TypeOK
<1>5. RestOK'
  BY <1>1, <1>3, <1>4, RestHeld DEF RestOK
<1>6. Grown(db[c], Opened(c)) /\ Grown(db[s], Opened(s))
  BY <1>1, <1>2, OpenRowsOK
<1>7. \A d \in Device : Grown(db[d], db'[d])
  <2>1. \A d \in Device : db'[d] = CASE d = s -> Opened(s)
                                     [] d # s /\ d = c -> Opened(c)
                                     [] d # s /\ d # c -> db[d]
    BY <1>1, <1>2
  <2>2. \A d \in Device : Grown(db[d], db[d])
    BY <1>2, GrownItself
  <2>3. QED
    BY <1>6, <2>1, <2>2
<1>8. IndexStep /\ \A d \in Device : db'[d].epoch = db[d].epoch
  <2>1. Opened(c) \in Index /\ Opened(s) \in Index
    BY <1>6 DEF Grown
  <2>2. db' \in [Device -> Index]
    BY <1>1, <1>2, <2>1
  <2>3. QED
    BY <1>7, <2>2 DEF IndexStep, Grown
<1>9. /\ hello(c, s, TRUE) \in Session /\ hello(c, s, TRUE).phase = "hello"
      /\ \A p \in Path : IsFiniteSet(hello(c, s, TRUE).incoming[p])
      /\ hello(s, c, FALSE) \in Session /\ hello(s, c, FALSE).phase = "hello"
      /\ \A p \in Path : IsFiniteSet(hello(s, c, FALSE).incoming[p])
  BY <1>1, HelloOK
<1>10. SessionStep
  <2> HIDE DEF hello
  <2>1. sess' \in [Device -> Session]
    BY <1>1, <1>2, <1>9
  <2>2. \A d \in Device : sess'[d] = CASE d = s -> hello(s, c, FALSE)
                                       [] d # s /\ d = c -> hello(c, s, TRUE)
                                       [] d # s /\ d # c -> sess[d]
    BY <1>1, <1>2
  <2>3. QED
    BY <1>8, <1>9, <2>1, <2>2, SomeSessions
<1>11. QED
  BY <1>5, <1>8, <1>10, GoodStep

LEMMA RecordsOK ==
    ASSUME Inv, NEW d \in Device, NEW e \in Device
    PROVE  /\ Records(e, d) \in [Path -> SUBSET Revision]
           /\ \A p \in Path : IsFiniteSet(Records(e, d)[p])
<1>1. db[e] \in Index /\ Whole(db[e])
  BY DEF Inv, TypeOK
<1>2. \A p \in Path : db[e].versions[p] \in SUBSET Revision /\ IsFiniteSet(db[e].versions[p])
  BY <1>1 DEF Index, Whole
<1>3. QED
  BY <1>2, FS_EmptySet DEF Records

LEMMA StageOK ==
    ASSUME Inv, NEW d \in Device, Stage(d)
    PROVE  Good
<1> DEFINE e        == sess[d].peer
           incoming == Records(e, d)
           needed   == {h.content : h \in UNION {incoming[p] : p \in Path}}
                          \cap (File \ objects[d])
           staged   == [sess[d] EXCEPT !.phase = "pull", !.incoming = incoming,
                                       !.needed = needed]
<1>1. sess \in [Device -> Session] /\ sess[d] \in Session /\ e \in Device
  BY DEF Inv, TypeOK, Session
<1>2. UNCHANGED <<disk, db, objects, mode, saved, born, budget>>
  BY DEF Stage
<1>3. \/ sess' = [sess EXCEPT ![e] = NoSession(e)]
      \/ sess' = [sess EXCEPT ![d] = NoSession(d)]
      \/ sess' = [sess EXCEPT ![d].phase = "pull", ![d].incoming = incoming,
                              ![d].needed = needed]
  BY DEF Stage
<1>4. /\ incoming \in [Path -> SUBSET Revision]
      /\ \A p \in Path : IsFiniteSet(incoming[p])
  BY <1>1, RecordsOK
<1>5. needed \in SUBSET File
  OBVIOUS
<1> HIDE DEF incoming, needed
<1>6. /\ staged \in Session /\ staged.phase = "pull" /\ staged.incoming = incoming
  BY <1>1, <1>4, <1>5 DEF Session, Phase
<1>7. \/ sess' = [sess EXCEPT ![e] = NoSession(e)]
      \/ sess' = [sess EXCEPT ![d] = NoSession(d)]
      \/ sess' = [sess EXCEPT ![d] = staged]
  BY <1>1, <1>3
<1> HIDE DEF staged, e
<1>8. sess' \in [Device -> Session]
  BY <1>1, <1>6, <1>7, NoSessionOK
<1>9. \A k \in Device : \/ sess'[k] = sess[k]
                        \/ sess'[k] = NoSession(k)
                        \/ sess'[k] = staged
  BY <1>1, <1>7
<1>10. SessionStep
  BY <1>2, <1>4, <1>6, <1>8, <1>9, SomeSessions
<1>11. RestOK'
  BY <1>2, RestHeld DEF RestOK
<1>12. QED
  BY <1>2, <1>10, <1>11, IndexesUnchanged, GoodStep

LEMMA PullOK ==
    ASSUME Inv, NEW d \in Device, NEW f \in File, Pull(d, f)
    PROVE  Good
<1> DEFINE e      == sess[d].peer
           pulled == [sess[d] EXCEPT !.needed = @ \ {f}]
<1>1. sess \in [Device -> Session] /\ sess[d] \in Session /\ e \in Device
  BY DEF Inv, TypeOK, Session
<1>2. UNCHANGED <<disk, db, mode, saved, born, budget>>
  BY DEF Pull
<1>3. \/ /\ objects' = [objects EXCEPT ![d] = @ \cup {f}]
         /\ sess' = [sess EXCEPT ![d].needed = @ \ {f}]
      \/ End(e) /\ UNCHANGED objects
  BY DEF Pull
<1>4. objects' \in [Device -> SUBSET File]
  BY <1>3 DEF Inv, TypeOK
<1>5. RestOK'
  BY <1>2, <1>4, RestHeld DEF RestOK
<1>6. CASE End(e)
  BY <1>1, <1>2, <1>5, <1>6, EndOK, IndexesUnchanged, GoodStep
<1>7. CASE sess' = [sess EXCEPT ![d].needed = @ \ {f}]
  <2>1. pulled \in Session
    BY <1>1 DEF Session
  <2>2. /\ pulled.phase = sess[d].phase /\ pulled.path = sess[d].path
        /\ pulled.incoming = sess[d].incoming
    BY <1>1 DEF Session
  <2>3. sess' = [sess EXCEPT ![d] = pulled]
    BY <1>1, <1>7
  <2> HIDE DEF pulled
  <2>4. sess' \in [Device -> Session]
    BY <1>1, <2>1, <2>3
  <2>5. \A k \in Device : sess'[k] = IF k = d THEN pulled ELSE sess[k]
    BY <1>1, <2>3
  <2>6. \A p \in Path : IsFiniteSet(pulled.incoming[p])
    BY <2>2 DEF Inv, SessionReady
  <2>7. SessionStep
    BY <1>2, <2>2, <2>4, <2>5, <2>6, SomeSessions
  <2>8. QED
    BY <1>2, <1>5, <2>7, IndexesUnchanged, GoodStep
<1>8. QED
  BY <1>3, <1>6, <1>7

(* A device moves to another phase and tells its peer, which notes it. *)
LEMMA TellOK ==
    ASSUME Inv, NEW d \in Device, NEW phase \in Phase \ {"chosen", "published"},
           sess' \in [Device -> Session],
           sess'[d] = [sess[d] EXCEPT !.phase = phase],
           \A k \in Device \ {d} :
              \/ sess'[k] = sess[k]
              \/ sess'[k] = [sess[k] EXCEPT !.released = TRUE]
              \/ sess'[k] = [sess[k] EXCEPT !.done = TRUE],
           \A e \in Device : db'[e].epoch = db[e].epoch
    PROVE  SessionStep
<1>1. \A k \in Device : sess[k] \in Session
  BY DEF Inv, TypeOK
<1>2. sess'[d].phase = phase /\ sess'[d].incoming = sess[d].incoming
  BY <1>1 DEF Session
<1>3. \A k \in Device \ {d} : /\ sess'[k].phase = sess[k].phase
                              /\ sess'[k].path = sess[k].path
                              /\ sess'[k].incoming = sess[k].incoming
  BY <1>1 DEF Session
<1>4. \A k \in Device : \A p \in Path : IsFiniteSet(sess'[k].incoming[p])
  BY <1>2, <1>3 DEF Inv, SessionReady
<1>5. QED
  BY <1>2, <1>3, <1>4, SomeSessions

LEMMA PullDoneOK ==
    ASSUME Inv, NEW d \in Device, PullDone(d)
    PROVE  Good
<1> DEFINE e == sess[d].peer
<1>1. sess \in [Device -> Session]
  BY DEF Inv, TypeOK
<1>2. UNCHANGED <<disk, db, objects, mode, saved, born, budget>>
  BY DEF PullDone
<1>3. sess' = [k \in Device |->
                  CASE k = d                      -> [sess[k] EXCEPT !.phase = "pulled"]
                    [] k = e /\ Linked(d, e)      -> [sess[k] EXCEPT !.released = TRUE]
                    [] k # d /\ ~(k = e /\ Linked(d, e)) -> sess[k]]
  BY DEF PullDone
<1>4. \A k \in Device : /\ [sess[k] EXCEPT !.phase = "pulled"] \in Session
                        /\ [sess[k] EXCEPT !.released = TRUE] \in Session
                        /\ sess[k] \in Session
  <2> SUFFICES ASSUME NEW k \in Device
               PROVE  /\ [sess[k] EXCEPT !.phase = "pulled"] \in Session
                      /\ [sess[k] EXCEPT !.released = TRUE] \in Session
                      /\ sess[k] \in Session
    OBVIOUS
  <2>1. sess[k] \in Session
    BY <1>1
  <2>2. [sess[k] EXCEPT !.phase = "pulled"] \in Session
    BY <2>1 DEF Session, Phase
  <2>3. [sess[k] EXCEPT !.released = TRUE] \in Session
    BY <2>1 DEF Session
  <2>4. QED
    BY <2>1, <2>2, <2>3
<1>5. Linked(d, e) => d # e
  BY DEF Linked
<1> HIDE DEF e
<1>6. /\ sess'[d] = [sess[d] EXCEPT !.phase = "pulled"]
      /\ \A k \in Device \ {d} : \/ sess'[k] = sess[k]
                                 \/ sess'[k] = [sess[k] EXCEPT !.released = TRUE]
  BY <1>3, <1>5
<1>7. sess' \in [Device -> Session]
  <2>1. \A k \in Device : sess'[k] \in Session
    BY <1>4, <1>6
  <2>2. QED
    BY <1>3, <2>1
<1>8. SessionStep
  BY <1>2, <1>6, <1>7, TellOK DEF Phase
<1>9. RestOK'
  BY <1>2, RestHeld DEF RestOK
<1>10. QED
  BY <1>2, <1>8, <1>9, IndexesUnchanged, GoodStep

LEMMA OpenRecords ==
    ASSUME Inv, NEW d \in Device, CanOpen(d), Record(d, db[d], OpenRows(d))
    PROVE  born' \in [Path -> SUBSET Birth]
<1>1. \A p \in Path : OpenRows(d)[p].made \in SUBSET Making
  BY OpenRowsOK DEF Inv, RowOK
<1>2. db[d] \in Index /\ TypeOK
  BY DEF Inv, TypeOK
<1> HIDE DEF OpenRows
<1>3. QED
  BY <1>1, <1>2, RecordOK

LEMMA CommitOK ==
    ASSUME Inv, NEW d \in Device, Commit(d)
    PROVE  Good
<1> DEFINE x     == Opened(d)
           row   == [p \in Path |-> JoinRow(x, p, sess[d].incoming[p])]
           phase == IF db[d].recovering THEN "rescan" ELSE "applying"
<1>1. TypeOK /\ db[d] \in Index /\ Whole(db[d]) /\ sess[d] \in Session
  BY DEF Inv, TypeOK
<1>2. /\ CanOpen(d)
      /\ db' = [db EXCEPT ![d] = Save(x, row)]
      /\ Record(d, db[d], OpenRows(d))
      /\ objects' = [objects EXCEPT
                       ![d] = IF db[d].recovering THEN @ ELSE @ \cup Captured(d)]
      /\ Goto(d, phase)
      /\ UNCHANGED <<disk, mode, saved, budget>>
  BY DEF Commit
<1>3. Grown(db[d], x)
  BY <1>1, <1>2, OpenRowsOK
<1> HIDE DEF x
<1>4. x \in Index /\ Whole(x)
  BY <1>3 DEF Grown
<1>5. \A p \in Path : sess[d].incoming[p] \in SUBSET Revision /\ IsFiniteSet(sess[d].incoming[p])
  BY <1>1 DEF Session, Inv, SessionReady
<1>6. \A p \in Path : RowOK(row[p]) /\ KnownIn(x.versions[p], row[p].versions)
  BY <1>4, <1>5, JoinRowOK
<1> HIDE DEF row
<1>7. Grown(x, Save(x, row))
  BY <1>4, <1>6, SaveGrows
<1>8. Grown(db[d], Save(x, row))
  BY <1>1, <1>3, <1>7, GrownTransitive
<1>9. IndexStep /\ \A e \in Device : db'[e].epoch = db[e].epoch
  BY <1>2, <1>8, OneIndex
<1>10. SessionStep
  BY <1>2, <1>9, GotoOK DEF Phase
<1>11. objects' \in [Device -> SUBSET File]
  BY <1>1, <1>2, CapturedOK DEF TypeOK
<1>12. born' \in [Path -> SUBSET Birth]
  BY <1>2, OpenRecords
<1>13. RestOK'
  BY <1>2, <1>11, <1>12, RestHeld DEF RestOK
<1>14. QED
  BY <1>9, <1>10, <1>13, GoodStep

LEMMA CommitRefusedOK ==
    ASSUME Inv, NEW d \in Device, CommitRefused(d)
    PROVE  Good
<1>1. TypeOK /\ db[d] \in Index /\ Whole(db[d])
  BY DEF Inv, TypeOK
<1>2. /\ objects' = [objects EXCEPT
                       ![d] = IF db[d].recovering THEN @ ELSE @ \cup Captured(d)]
      /\ End(d)
      /\ UNCHANGED <<disk, mode, saved, budget>>
  BY DEF CommitRefused
<1>3. objects' \in [Device -> SUBSET File]
  BY <1>1, <1>2, CapturedOK DEF TypeOK
<1>4. CASE CanOpen(d)
  <2>1. db' = [db EXCEPT ![d] = Opened(d)] /\ Record(d, db[d], OpenRows(d))
    BY <1>4 DEF CommitRefused
  <2>2. Grown(db[d], Opened(d))
    BY <1>1, <1>4, OpenRowsOK
  <2>3. IndexStep /\ \A e \in Device : db'[e].epoch = db[e].epoch
    BY <2>1, <2>2, OneIndex
  <2>4. born' \in [Path -> SUBSET Birth]
    BY <1>4, <2>1, OpenRecords
  <2>5. RestOK'
    BY <1>2, <1>3, <2>4, RestHeld DEF RestOK
  <2>6. QED
    BY <1>2, <2>3, <2>5, EndOK, GoodStep
<1>5. CASE ~CanOpen(d)
  <2>1. UNCHANGED <<db, born>>
    BY <1>5 DEF CommitRefused
  <2>2. RestOK'
    BY <1>2, <1>3, <2>1, RestHeld DEF RestOK
  <2>3. QED
    BY <1>2, <2>1, <2>2, IndexesUnchanged, EndOK, GoodStep
<1>6. QED
  BY <1>4, <1>5

LEMMA RescanOK ==
    ASSUME Inv, NEW d \in Device, Rescan(d)
    PROVE  Good
<1> DEFINE row == ScanRows(db[d], d, disk[d], FALSE)
<1>1. db[d] \in Index /\ Whole(db[d]) /\ disk[d] \in [Path -> Content]
  BY DEF Inv, TypeOK
<1>2. objects' \in [Device -> SUBSET File]
  BY CapturedOK, CaptureOK DEF Rescan
<1>3. UNCHANGED <<disk, mode, saved, budget>>
  BY DEF Rescan
<1>4. CASE ~CanScan(db[d], d, disk[d], FALSE)
  <2>1. UNCHANGED <<db, born>> /\ End(d)
    BY <1>4 DEF Rescan
  <2>2. RestOK'
    BY <1>2, <1>3, <2>1, RestHeld DEF RestOK
  <2>3. QED
    BY <2>1, <2>2, IndexesUnchanged, EndOK, GoodStep
<1>5. CASE CanScan(db[d], d, disk[d], FALSE)
  <2>1. /\ db' = [db EXCEPT ![d] = Save(db[d], row)]
        /\ Record(d, db[d], row)
        /\ Goto(d, "applying")
    BY <1>5 DEF Rescan
  <2>2. (\A p \in Path : RowOK(row[p])) /\ Grown(db[d], Save(db[d], row))
    BY <1>1, <1>5, ScanRowsOK
  <2> HIDE DEF row
  <2>3. \A p \in Path : row[p].made \in SUBSET Making
    BY <2>2 DEF RowOK
  <2>4. born' \in [Path -> SUBSET Birth]
    BY <1>1, <2>1, <2>3, RecordOK DEF Inv
  <2>5. RestOK'
    BY <1>2, <1>3, <2>4, RestHeld DEF RestOK
  <2>6. IndexStep /\ \A e \in Device : db'[e].epoch = db[e].epoch
    BY <2>1, <2>2, OneIndex
  <2>7. SessionStep
    BY <2>1, <2>6, GotoOK DEF Phase
  <2>8. QED
    BY <2>5, <2>6, <2>7, GoodStep
<1>6. QED
  BY <1>4, <1>5

-----------------------------------------------------------------------------
(* Applying *)

(* What is applied has a head, so there is something to show. *)
LEMMA TargetOK ==
    ASSUME Inv, NEW d \in Device, NEW p \in Path, db[d].versions[p] # {}
    PROVE  Target(d, p) \in Content
<1>1. db[d].versions[p] \in SUBSET Revision
  BY DEF Inv, TypeOK, Index
<1>2. Selected(db[d].versions[p]) \in db[d].versions[p]
  BY <1>1, SelectedIsBest
<1>3. QED
  BY <1>1, <1>2 DEF Target, Revision

LEMMA AppliesHead ==
    ASSUME Inv, NEW d \in Device, NEW p \in Path, Applies(d, p)
    PROVE  db[d].versions[p] # {}
<1>1. CASE p \in Candidates(db[d])
  BY <1>1 DEF Candidates, Inv, Whole
<1>2. CASE sess[d].phase = "chosen" /\ p = sess[d].path
  BY <1>2 DEF Inv, SessionReady
<1>3. QED
  BY <1>1, <1>2 DEF Applies

LEMMA PublishOK ==
    ASSUME Inv, NEW d \in Device, NEW p \in Path, Publish(d, p)
    PROVE  Good
<1>1. db[d].versions[p] # {}
  BY AppliesHead DEF Publish
<1>2. Target(d, p) \in Content
  BY <1>1, TargetOK
<1>3. /\ disk' = [disk EXCEPT ![d][p] = Target(d, p)]
      /\ sess' = [sess EXCEPT ![d].phase = "published", ![d].path = p]
      /\ UNCHANGED <<db, objects, mode, saved, born, budget>>
  BY DEF Publish
<1>4. disk' \in [Device -> [Path -> Content]]
  BY <1>2, <1>3 DEF Inv, TypeOK
<1>5. RestOK'
  BY <1>3, <1>4, RestHeld DEF RestOK
<1>6. SessionStep
  BY <1>1, <1>3, TurnOK DEF Phase
<1>7. QED
  BY <1>3, <1>5, <1>6, IndexesUnchanged, GoodStep

LEMMA PublishRefusedOK ==
    ASSUME Inv, NEW d \in Device, NEW p \in Path, PublishRefused(d, p)
    PROVE  Good
<1>1. End(d) /\ UNCHANGED <<disk, db, objects, mode, saved, born, budget>>
  BY DEF PublishRefused
<1>2. RestOK'
  BY <1>1, RestHeld DEF RestOK
<1>3. QED
  BY <1>1, <1>2, IndexesUnchanged, EndOK, GoodStep

LEMMA AcknowledgeOK ==
    ASSUME Inv, NEW d \in Device, Acknowledge(d)
    PROVE  Good
<1> DEFINE p   == sess[d].path
           x   == db[d]
           row == Row(x.versions[p], Target(d, p), x.versions[p], p \in x.pending, {})
<1>1. x \in Index /\ Whole(x) /\ p \in Path
  BY DEF Inv, TypeOK, Session
<1>2. x.versions[p] # {}
  BY DEF Acknowledge, Inv, SessionReady
<1>3. Target(d, p) \in Content
  BY <1>1, <1>2, TargetOK
<1>4. x.versions[p] \in SUBSET Revision /\ IsFiniteSet(x.versions[p])
  BY <1>1 DEF Index, Whole
<1>5. RowOK(row) /\ row.versions = x.versions[p]
  BY <1>2, <1>3, <1>4 DEF Row, RowOK
<1>6. db' = [db EXCEPT ![d] = SaveRow(x, p, row)]
  BY DEF Acknowledge, Acknowledged
<1>7. (End(d) \/ Goto(d, "applying")) /\ UNCHANGED <<disk, objects, mode, saved, born, budget>>
  BY DEF Acknowledge
<1> HIDE DEF row
<1>8. KnownIn(x.versions[p], row.versions)
  BY <1>4, <1>5, KnownInItself
<1> HIDE DEF p, x
<1>9. Grown(x, SaveRow(x, p, row))
  BY <1>1, <1>5, <1>8, SaveRowGrows
<1>10. IndexStep /\ \A e \in Device : db'[e].epoch = db[e].epoch
  BY <1>6, <1>9, OneIndex DEF x
<1>11. SessionStep
  BY <1>7, <1>10, EndOK, GotoOK DEF Phase
<1>12. RestOK'
  BY <1>7, RestHeld DEF RestOK
<1>13. QED
  BY <1>10, <1>11, <1>12, GoodStep

(* Cursors and the recovery flag are beside the rows. *)
LEMMA AsideGrows ==
    ASSUME NEW x \in Index, Whole(x), NEW y \in Index,
           y.versions = x.versions, y.observed = x.observed, y.epoch = x.epoch
    PROVE  Grown(x, y)
<1>1. \A p \in Path : x.versions[p] \in SUBSET Revision
  BY DEF Index
<1>2. \A p \in Path : KnownIn(x.versions[p], y.versions[p])
  BY <1>1, KnownInItself
<1>3. Whole(y)
  BY DEF Whole
<1>4. QED
  BY <1>2, <1>3 DEF Grown

LEMMA FlagOK ==
    ASSUME Inv, NEW d \in Device, NEW flag \in BOOLEAN,
           db' = [db EXCEPT ![d].recovering = flag]
    PROVE  IndexStep /\ \A e \in Device : db'[e].epoch = db[e].epoch
<1> DEFINE y == [db[d] EXCEPT !.recovering = flag]
<1>1. db[d] \in Index /\ Whole(db[d])
  BY DEF Inv, TypeOK
<1>2. /\ y \in Index
      /\ y.versions = db[d].versions /\ y.observed = db[d].observed /\ y.epoch = db[d].epoch
  BY <1>1 DEF Index
<1>3. db' = [db EXCEPT ![d] = y]
  OBVIOUS
<1> HIDE DEF y
<1>4. Grown(db[d], y)
  BY <1>1, <1>2, AsideGrows
<1>5. QED
  BY <1>3, <1>4, OneIndex

LEMMA SayAppliedOK ==
    ASSUME Inv, NEW d \in Device, SayApplied(d),
           \A e \in Device : db'[e].epoch = db[e].epoch
    PROVE  SessionStep
<1> DEFINE e == sess[d].peer
<1>1. sess \in [Device -> Session]
  BY DEF Inv, TypeOK
<1>2. sess' = [k \in Device |->
               CASE k = d                 -> [sess[k] EXCEPT !.phase = "applied"]
                 [] k = e /\ Linked(d, e) -> [sess[k] EXCEPT !.done = TRUE]
                 [] k # d /\ ~(k = e /\ Linked(d, e)) -> sess[k]]
  BY DEF SayApplied
<1>3. Linked(d, e) => d # e
  BY DEF Linked
<1> HIDE DEF e
<1>4. /\ sess'[d] = [sess[d] EXCEPT !.phase = "applied"]
      /\ \A k \in Device \ {d} : \/ sess'[k] = sess[k]
                                 \/ sess'[k] = [sess[k] EXCEPT !.done = TRUE]
  BY <1>2, <1>3
<1>5. \A k \in Device : sess'[k] \in Session
  <2> SUFFICES ASSUME NEW k \in Device PROVE sess'[k] \in Session
    OBVIOUS
  <2>1. sess[k] \in Session
    BY <1>1
  <2>2. [sess[k] EXCEPT !.phase = "applied"] \in Session
    BY <2>1 DEF Session, Phase
  <2>3. [sess[k] EXCEPT !.done = TRUE] \in Session
    BY <2>1 DEF Session
  <2>4. QED
    BY <1>4, <2>1, <2>2, <2>3
<1>6. sess' \in [Device -> Session]
  BY <1>2, <1>5
<1>7. "applied" \in Phase \ {"chosen", "published"}
  BY DEF Phase
<1>8. QED
  BY <1>4, <1>6, <1>7, TellOK

LEMMA AppliedOK ==
    ASSUME Inv, NEW d \in Device, Applied(d)
    PROVE  Good
<1>1. /\ db' = [db EXCEPT ![d].recovering = FALSE] /\ SayApplied(d)
      /\ UNCHANGED <<disk, objects, mode, saved, born, budget>>
  BY DEF Applied
<1>2. IndexStep /\ \A e \in Device : db'[e].epoch = db[e].epoch
  BY <1>1, FlagOK
<1>3. RestOK'
  BY <1>1, RestHeld DEF RestOK
<1>4. QED
  BY <1>1, <1>2, <1>3, SayAppliedOK, GoodStep

LEMMA AppliedNothingOK ==
    ASSUME Inv, NEW d \in Device, AppliedNothing(d)
    PROVE  Good
<1>1. SayApplied(d) /\ UNCHANGED <<disk, db, objects, mode, saved, born, budget>>
  BY DEF AppliedNothing
<1>2. RestOK'
  BY <1>1, RestHeld DEF RestOK
<1>3. QED
  BY <1>1, <1>2, IndexesUnchanged, SayAppliedOK, GoodStep

LEMMA SetCursorOK ==
    ASSUME Inv, NEW d \in Device, SetCursor(d)
    PROVE  Good
<1> DEFINE y == [db[d] EXCEPT !.cursor[sess[d].peer] = sess[d].remote]
<1>1. /\ db' = [db EXCEPT ![d].cursor[sess[d].peer] = sess[d].remote]
      /\ End(d) /\ UNCHANGED <<disk, objects, mode, saved, born, budget>>
  BY DEF SetCursor
<1>2. db[d] \in Index /\ Whole(db[d]) /\ sess[d].peer \in Device /\ sess[d].remote \in Cursor
  BY DEF Inv, TypeOK, Session
<1>3. /\ y \in Index
      /\ y.versions = db[d].versions /\ y.observed = db[d].observed /\ y.epoch = db[d].epoch
  BY <1>2 DEF Index
<1>4. db' = [db EXCEPT ![d] = y]
  BY <1>1
<1> HIDE DEF y
<1>5. Grown(db[d], y)
  BY <1>2, <1>3, AsideGrows
<1>6. IndexStep /\ \A e \in Device : db'[e].epoch = db[e].epoch
  BY <1>4, <1>5, OneIndex
<1>7. RestOK'
  BY <1>1, RestHeld DEF RestOK
<1>8. QED
  BY <1>1, <1>6, <1>7, EndOK, GoodStep

LEMMA DisconnectOK ==
    ASSUME Inv, NEW d \in Device, Disconnect(d)
    PROVE  Good
<1>1. End(d) /\ UNCHANGED <<disk, db, objects, mode, saved, born, budget>>
  BY DEF Disconnect
<1>2. RestOK'
  BY <1>1, RestHeld DEF RestOK
<1>3. QED
  BY <1>1, <1>2, IndexesUnchanged, EndOK, GoodStep

LEMMA AbortOK ==
    ASSUME Inv, NEW d \in Device, Abort(d)
    PROVE  Good
<1>1. UNCHANGED <<disk, db, objects, mode, saved, born>> /\ Spend("aborts")
  BY DEF Abort
<1>2. PICK arrives \in BOOLEAN :
          sess' = [e \in Device |->
                     CASE e = d -> NoSession(d)
                       [] e # d /\ Linked(d, e) -> [sess[e] EXCEPT !.done = @ /\ arrives]
                       [] e # d /\ ~Linked(d, e) -> sess[e]]
  BY DEF Abort
<1>3. sess \in [Device -> Session]
  BY DEF Inv, TypeOK
<1>4. \A e \in Device :
         LET s == [sess[e] EXCEPT !.done = @ /\ arrives]
         IN  /\ s \in Session /\ s.phase = sess[e].phase /\ s.path = sess[e].path
             /\ s.incoming = sess[e].incoming
  BY <1>3 DEF Session
<1>5. \A e \in Device : \/ sess'[e] = sess[e]
                        \/ sess'[e] = NoSession(e)
                        \/ sess'[e] = [sess[e] EXCEPT !.done = @ /\ arrives]
  BY <1>2
<1>6. \A e \in Device : sess'[e] \in Session
  BY <1>3, <1>4, <1>5, NoSessionOK
<1>7. sess' \in [Device -> Session]
  BY <1>2, <1>6
<1>8. \A e \in Device : \A p \in Path : IsFiniteSet(sess[e].incoming[p])
  BY DEF Inv, SessionReady
<1>9. SessionStep
  <2>1. \A e \in Device :
           \/ sess'[e] = sess[e]
           \/ sess'[e] = NoSession(e)
           \/ /\ \A p \in Path : IsFiniteSet(sess'[e].incoming[p])
              /\ sess'[e].phase = sess[e].phase /\ sess'[e].path = sess[e].path
    BY <1>4, <1>5, <1>8
  <2>2. QED
    BY <1>1, <1>7, <2>1, SomeSessions
<1>10. RestOK'
  BY <1>1, RestHeld, SpendOK DEF RestOK
<1>11. QED
  BY <1>1, <1>9, <1>10, IndexesUnchanged, GoodStep

-----------------------------------------------------------------------------
(* Checkpoints *)

LEMMA BackupOK ==
    ASSUME Inv, NEW d \in Device, Backup(d)
    PROVE  Good
<1>1. /\ saved' = [saved EXCEPT ![d] = {[index |-> db[d], mode |-> mode[d]]}]
      /\ UNCHANGED <<disk, db, objects, mode, sess, born, budget>>
  BY DEF Backup
<1>2. db[d] \in Index /\ Whole(db[d]) /\ mode[d] \in Mode
  BY DEF Inv, TypeOK
<1>3. saved' \in [Device -> SUBSET [index : Index, mode : Mode]]
  BY <1>1, <1>2 DEF Inv, TypeOK
<1>4. \A e \in Device : \A s \in saved'[e] : Whole(s.index)
  BY <1>1, <1>2 DEF Inv, TypeOK
<1>5. RestOK'
  BY <1>1, <1>3, <1>4, RestHeld DEF RestOK, Whole
<1>6. QED
  BY <1>1, <1>5, IndexesUnchanged, SessionsUnchanged, GoodStep

LEMMA RestoredOK ==
    ASSUME Inv, NEW d \in Device, NEW s \in saved[d], db[d].epoch <= MaxRestores,
           NEW flag \in BOOLEAN
    PROVE  LET y == [Restored(d, s) EXCEPT !.recovering = flag]
           IN  y \in Index /\ Whole(y) /\ y.epoch # db[d].epoch
<1> DEFINE z == Restored(d, s)
           y == [z EXCEPT !.recovering = flag]
<1>1. s.index \in Index /\ Whole(s.index) /\ db[d].epoch \in Epoch
  BY DEF Inv, TypeOK, Index
<1>2. db[d].epoch + 1 \in Epoch /\ db[d].epoch + 1 # db[d].epoch
  BY <1>1, FolderAssumption DEF Epoch
<1>3. EmptyIndex.cursor \in [Device -> Cursor]
  BY EmptyIndexOK DEF Index
<1>4. /\ z \in Index /\ z.versions = s.index.versions /\ z.observed = s.index.observed
      /\ z.epoch = db[d].epoch + 1
  BY <1>1, <1>2, <1>3 DEF Restored, Index
<1> HIDE DEF z
<1>5. /\ y \in Index /\ y.versions = s.index.versions /\ y.observed = s.index.observed
      /\ y.epoch = db[d].epoch + 1
  BY <1>4 DEF Index
<1>6. Whole(y)
  BY <1>1, <1>5 DEF Whole
<1>7. QED
  BY <1>2, <1>5, <1>6 DEF z

(* An index of another epoch takes the place of an idle device's. *)
LEMMA ReplacedOK ==
    ASSUME Inv, NEW d \in Device, Idle(d), UNCHANGED sess,
           NEW y \in Index, Whole(y), y.epoch # db[d].epoch,
           db' = [db EXCEPT ![d] = y]
    PROVE  IndexStep /\ SessionStep
<1>1. db \in [Device -> Index] /\ \A e \in Device : Whole(db[e])
  BY DEF Inv, TypeOK
<1>2. db' \in [Device -> Index] /\ \A e \in Device : db'[e] = IF e = d THEN y ELSE db[e]
  BY <1>1
<1>3. \A e \in Device : Grown(db[e], db[e])
  BY <1>1, GrownItself
<1>4. IndexStep
  BY <1>1, <1>2, <1>3 DEF IndexStep, Grown
<1>5. SessionStep
  <2>1. \A e \in Device : sess'[e].phase \in {"chosen", "published"} =>
           /\ sess[e].phase \in {"chosen", "published"}
           /\ sess'[e].path = sess[e].path
           /\ db'[e].epoch = db[e].epoch
    BY <1>2 DEF Idle
  <2>2. QED
    BY <2>1 DEF SessionStep, Inv, TypeOK, SessionReady
<1>6. QED
  BY <1>4, <1>5

LEMMA RecoverIndexOK ==
    ASSUME Inv, NEW d \in Device, RecoverIndex(d)
    PROVE  Good
<1>1. /\ Idle(d) /\ db[d].epoch <= MaxRestores
      /\ UNCHANGED <<disk, objects, mode, sess, saved, born, budget>>
  BY DEF RecoverIndex
<1>2. PICK s \in saved[d] : db' = [db EXCEPT ![d] = Restored(d, s)]
  BY DEF RecoverIndex
<1> DEFINE flag == mode[d] # "SendOnly"
           y    == [Restored(d, s) EXCEPT !.recovering = flag]
<1>3. Restored(d, s) = y
  BY DEF Restored, Inv, TypeOK, Index
<1>4. y \in Index /\ Whole(y) /\ y.epoch # db[d].epoch
  BY <1>1, RestoredOK
<1> HIDE DEF y
<1>5. IndexStep /\ SessionStep
  BY <1>1, <1>2, <1>3, <1>4, ReplacedOK
<1>6. RestOK'
  BY <1>1, RestHeld DEF RestOK
<1>7. QED
  BY <1>5, <1>6, GoodStep

LEMMA RecoverDeviceOK ==
    ASSUME Inv, NEW d \in Device, RecoverDevice(d)
    PROVE  Good
<1>1. /\ Idle(d) /\ db[d].epoch <= MaxRestores
      /\ mode' = [mode EXCEPT ![d] = "ReceiveOnly"]
      /\ UNCHANGED <<sess, saved, born, budget>>
  BY DEF RecoverDevice
<1>2. PICK s \in saved[d] :
          /\ db' = [db EXCEPT ![d] = [Restored(d, s) EXCEPT !.recovering = TRUE]]
          /\ disk' = [disk EXCEPT ![d] =
                        [p \in Path |->
                            IF p \in s.index.pending THEN Deleted
                            ELSE s.index.materialized[p]]]
          /\ objects' = [objects EXCEPT ![d] =
                {h.content : h \in UNION {s.index.history[p] : p \in Path}} \cap File]
  BY DEF RecoverDevice
<1> DEFINE y == [Restored(d, s) EXCEPT !.recovering = TRUE]
<1>3. y \in Index /\ Whole(y) /\ y.epoch # db[d].epoch
  BY <1>1, RestoredOK
<1>4. db' = [db EXCEPT ![d] = y]
  BY <1>2
<1> HIDE DEF y
<1>5. IndexStep /\ SessionStep
  BY <1>1, <1>3, <1>4, ReplacedOK
<1>6. mode' \in [Device -> Mode]
  BY <1>1 DEF Inv, TypeOK, Mode
<1>7. disk' \in [Device -> [Path -> Content]]
  <2>1. s.index.materialized \in [Path -> Content]
    BY DEF Inv, TypeOK, Index
  <2>2. Deleted \in Content
    BY DEF Content
  <2>3. QED
    BY <1>2, <2>1, <2>2 DEF Inv, TypeOK
<1>8. objects' \in [Device -> SUBSET File]
  BY <1>2 DEF Inv, TypeOK
<1>9. RestOK'
  BY <1>1, <1>6, <1>7, <1>8, RestHeld DEF RestOK
<1>10. QED
  BY <1>5, <1>9, GoodStep

LEMMA ActivateOK ==
    ASSUME Inv, NEW d \in Device, NEW offline \in BOOLEAN, Activate(d, offline)
    PROVE  Good
<1> DEFINE flag == db[d].recovering /\ ~offline
<1>1. /\ db' = [db EXCEPT ![d].recovering = flag]
      /\ UNCHANGED <<disk, objects, sess, saved, born, budget>>
  BY DEF Activate
<1>2. PICK s \in saved[d] : mode' = [mode EXCEPT ![d] = s.mode]
  BY DEF Activate
<1>3. mode' \in [Device -> Mode]
  BY <1>2 DEF Inv, TypeOK
<1>4. IndexStep /\ \A e \in Device : db'[e].epoch = db[e].epoch
  BY <1>1, FlagOK
<1>5. RestOK'
  BY <1>1, <1>3, RestHeld DEF RestOK
<1>6. QED
  BY <1>1, <1>4, <1>5, SessionsUnchanged, GoodStep

-----------------------------------------------------------------------------
(* The theorems *)

LEMMA StepGood ==
    ASSUME Inv, NEW d \in Device, Step(d)
    PROVE  Good
<1>1. CASE Stage(d)
  BY <1>1, StageOK
<1>2. CASE \E f \in File : Pull(d, f)
  BY <1>2, PullOK
<1>3. CASE PullDone(d)
  BY <1>3, PullDoneOK
<1>4. CASE Commit(d)
  BY <1>4, CommitOK
<1>5. CASE CommitRefused(d)
  BY <1>5, CommitRefusedOK
<1>6. CASE Rescan(d)
  BY <1>6, RescanOK
<1>7. CASE \E p \in Path : Publish(d, p) \/ PublishRefused(d, p)
  BY <1>7, PublishOK, PublishRefusedOK
<1>8. CASE Acknowledge(d)
  BY <1>8, AcknowledgeOK
<1>9. CASE Applied(d)
  BY <1>9, AppliedOK
<1>10. CASE AppliedNothing(d)
  BY <1>10, AppliedNothingOK
<1>11. CASE SetCursor(d)
  BY <1>11, SetCursorOK
<1>12. CASE Disconnect(d)
  BY <1>12, DisconnectOK
<1>13. QED
  BY <1>1, <1>2, <1>3, <1>4, <1>5, <1>6, <1>7, <1>8, <1>9, <1>10, <1>11, <1>12 DEF Step

LEMMA CommandGood ==
    ASSUME Inv, NEW d \in Device, Command(d)
    PROVE  Good
<1>1. CASE \E approve \in BOOLEAN : Scan(d, approve)
  BY <1>1, ScanOK
<1>2. CASE \E p \in Path : ApproveDeletion(d, p)
  BY <1>2, ApproveDeletionOK
<1>3. CASE ChooseScan(d)
  BY <1>3, ChooseScanOK
<1>4. CASE \E p \in Path : \E r \in db[d].versions[p] \cup db[d].history[p] :
              ChooseCommit(d, p, r)
  BY <1>4, ChooseCommitOK
<1>5. CASE Backup(d)
  BY <1>5, BackupOK
<1>6. CASE RecoverIndex(d)
  BY <1>6, RecoverIndexOK
<1>7. CASE RecoverDevice(d)
  BY <1>7, RecoverDeviceOK
<1>8. CASE \E offline \in BOOLEAN : Activate(d, offline)
  BY <1>8, ActivateOK
<1>9. QED
  BY <1>1, <1>2, <1>3, <1>4, <1>5, <1>6, <1>7, <1>8 DEF Command

LEMMA NextGood ==
    ASSUME Inv, [Next]_vars
    PROVE  Good
<1>1. CASE \E d \in Device : Step(d)
  BY <1>1, StepGood
<1>2. CASE \E d \in Device : Command(d)
  BY <1>2, CommandGood
<1>3. CASE \E d \in Device : Abort(d)
  BY <1>3, AbortOK
<1>4. CASE \E c, s \in Device : Connect(c, s)
  BY <1>4, ConnectOK
<1>5. CASE \E d \in Device, p \in Path, content \in Payload : AppWrite(d, p, content)
  BY <1>5, AppWriteOK
<1>6. CASE UNCHANGED vars
  <2>1. UNCHANGED <<disk, db, objects, mode, sess, saved, born, budget>>
    BY <1>6 DEF vars
  <2>2. RestOK'
    BY <2>1, RestHeld DEF RestOK
  <2>3. QED
    BY <2>1, <2>2, IndexesUnchanged, SessionsUnchanged, GoodStep
<1>7. QED
  BY <1>1, <1>2, <1>3, <1>4, <1>5, <1>6 DEF Next

(* The inductive invariant holds in every reachable state: indexes and
   sessions have their types through every command, session, crash and
   restore, and nothing is applied that has no head. *)
THEOREM Invariance == Spec => []Inv
<1>1. Init => Inv
  BY InitOK
<1>2. Inv /\ [Next]_vars => Inv'
  BY NextGood DEF Good
<1>3. QED
  BY <1>1, <1>2, PTL DEF Spec

(* Every variable has its type in every reachable state; what a device applies
   to its folder is content, never the result of choosing from no head. *)
THEOREM TypeCorrect == Spec => []TypeOK
<1>1. Inv => TypeOK
  BY DEF Inv
<1>2. QED
  BY <1>1, Invariance, PTL

(* No step makes a device forget: within an epoch, whatever a head said stays
   said by a later head that is it or dominates it (Share::save and join). *)
THEOREM ForgetsNothing == Spec => NothingForgotten
<1> DEFINE Kept == \A d \in Device : \A p \in Path :
                      db'[d].epoch = db[d].epoch =>
                          KnownIn(db[d].versions[p], db'[d].versions[p])
<1>1. Inv /\ [Next]_vars => Kept
  BY NextGood DEF Good
<1>2. Inv /\ [Next]_vars => [Kept]_vars
  BY <1>1
<1>3. Spec => [][Kept]_vars
  <2> HIDE DEF Kept
  <2>1. QED
    BY <1>2, Invariance, PTL DEF Spec
<1>4. QED
  BY <1>3 DEF NothingForgotten

(* Sequence numbers: no row has one past the index's, a path without one has no
   heads, and no head of a path has seen another. *)
Numbered(x) ==
    \A p \in Path :
        /\ x.seqOf[p] <= x.seq
        /\ x.seqOf[p] = 0 => x.versions[p] = {}
        /\ \A h, k \in x.versions[p] : ~Before(h.clock, k.clock)

(* What a transaction, or several, make of an index: a row whose heads changed
   has a number that was not given before. *)
Advances(x, y) ==
    /\ x.seq <= y.seq
    /\ \A p \in Path :
          \/ y.versions[p] = x.versions[p] /\ y.seqOf[p] = x.seqOf[p]
          \/ x.seq < y.seqOf[p]

(* A row that replaces the heads by heads of which none has seen another. *)
Sharp(r) == \A h, k \in r.versions : ~Before(h.clock, k.clock)

LEMMA AdvancesItself ==
    ASSUME NEW x \in Index
    PROVE  Advances(x, x)
<1>1. x.seq \in Nat
  BY DEF Index
<1>2. QED
  BY <1>1 DEF Advances

LEMMA AdvancesTwice ==
    ASSUME NEW x \in Index, NEW y \in Index, NEW z \in Index,
           Advances(x, y), Advances(y, z)
    PROVE  Advances(x, z)
<1>1. /\ x.seq \in Nat /\ y.seq \in Nat /\ z.seq \in Nat
      /\ \A p \in Path : x.seqOf[p] \in Nat /\ y.seqOf[p] \in Nat /\ z.seqOf[p] \in Nat
  BY DEF Index
<1>2. x.seq <= z.seq
  BY <1>1 DEF Advances
<1>3. ASSUME NEW p \in Path
      PROVE  \/ z.versions[p] = x.versions[p] /\ z.seqOf[p] = x.seqOf[p]
             \/ x.seq < z.seqOf[p]
  <2>1. CASE y.seq < z.seqOf[p]
    BY <1>1, <2>1 DEF Advances
  <2>2. CASE z.versions[p] = y.versions[p] /\ z.seqOf[p] = y.seqOf[p]
    <3>1. \/ y.versions[p] = x.versions[p] /\ y.seqOf[p] = x.seqOf[p]
          \/ x.seq < y.seqOf[p]
      BY DEF Advances
    <3>2. QED
      BY <2>2, <3>1
  <2>3. QED
    BY <2>1, <2>2 DEF Advances
<1>4. QED
  BY <1>2, <1>3 DEF Advances

(* The numbers that a transaction gives (Share::save). *)
LEMMA SaveAdvances ==
    ASSUME NEW x \in Index, Numbered(x), NEW row,
           \A p \in Path : Sharp(row[p])
    PROVE  Numbered(Save(x, row)) /\ Advances(x, Save(x, row))
<1> DEFINE y          == Save(x, row)
           changed    == {p \in Path : row[p].versions # x.versions[p]}
           upTo(p)    == {q \in changed : q <= p}
           n          == Cardinality(changed)
           c(p)       == Cardinality(upTo(p))
<1>1. /\ y.versions = [p \in Path |-> row[p].versions]
      /\ y.seq = x.seq + n
      /\ y.seqOf = [p \in Path |-> IF p \in changed THEN x.seq + c(p) ELSE x.seqOf[p]]
  BY DEF Save, Write, Index, Number
<1>2. IsFiniteSet(changed) /\ n \in Nat
  BY FolderAssumption, FS_Subset, FS_CardinalityType
<1>3. ASSUME NEW p \in changed
      PROVE  c(p) \in Nat /\ 0 < c(p) /\ c(p) <= n
  <2>1. upTo(p) \subseteq changed
    OBVIOUS
  <2>2. IsFiniteSet(upTo(p)) /\ c(p) \in Nat /\ c(p) <= n
    BY <1>2, <2>1, FS_Subset, FS_CardinalityType
  <2>3. p \in Nat
    BY FolderAssumption
  <2>4. p \in upTo(p)
    BY <2>3
  <2>5. upTo(p) # {}
    BY <2>4
  <2> HIDE DEF upTo, changed
  <2>6. c(p) # 0
    BY <2>2, <2>5, FS_EmptySet
  <2>7. QED
    BY <2>2, <2>6
<1>4. x.seq \in Nat /\ \A p \in Path : x.seqOf[p] \in Nat
  BY DEF Index
<1>5. \A p \in Path : row[p].versions = x.versions[p] \/ p \in changed
  OBVIOUS
<1>6. changed \subseteq Path
  OBVIOUS
<1> HIDE DEF y, changed, n, c, upTo
<1>7. ASSUME NEW p \in Path
      PROVE  /\ y.seqOf[p] <= y.seq
             /\ y.seqOf[p] = 0 => y.versions[p] = {}
             /\ \/ y.versions[p] = x.versions[p] /\ y.seqOf[p] = x.seqOf[p]
                \/ x.seq < y.seqOf[p]
             /\ y.versions[p] = row[p].versions
  <2>1. y.versions[p] = row[p].versions
    BY <1>1
  <2>2. CASE p \in changed
    <3>1. c(p) \in Nat /\ 0 < c(p) /\ c(p) <= n
      BY <1>3, <2>2
    <3>2. y.seqOf[p] = x.seq + c(p) /\ y.seq = x.seq + n
      BY <1>1, <2>2
    <3>3. y.seqOf[p] <= y.seq /\ x.seq < y.seqOf[p] /\ y.seqOf[p] # 0
      BY <1>2, <1>4, <3>1, <3>2
    <3>4. QED
      BY <2>1, <3>3
  <2>3. CASE p \notin changed
    <3>1. y.seqOf[p] = x.seqOf[p] /\ y.seq = x.seq + n
      BY <1>1, <2>3
    <3>2. y.versions[p] = x.versions[p]
      BY <1>5, <2>1, <2>3
    <3>3. x.seqOf[p] <= x.seq /\ (x.seqOf[p] = 0 => x.versions[p] = {})
      BY DEF Numbered
    <3>4. y.seqOf[p] <= y.seq
      BY <1>2, <1>4, <3>1, <3>3
    <3>5. QED
      BY <2>1, <3>1, <3>2, <3>3, <3>4
  <2>4. QED
    BY <2>2, <2>3
<1>8. x.seq <= y.seq
  BY <1>1, <1>2, <1>4
<1>9. Numbered(y)
  BY <1>7 DEF Numbered, Sharp
<1>10. Advances(x, y)
  BY <1>7, <1>8 DEF Advances
<1>11. QED
  BY <1>9, <1>10 DEF y

LEMMA StoredSharp ==
    ASSUME NEW x, Numbered(x), NEW p \in Path
    PROVE  Sharp(Stored(x, p)) /\ Stored(x, p).versions = x.versions[p]
BY DEF Numbered, Sharp, Stored, Row

LEMMA JoinSharp ==
    ASSUME NEW A, NEW B, NEW h \in Join(A, B), NEW k \in Join(A, B)
    PROVE  ~Before(h.clock, k.clock)
BY DEF Join, Maximal

LEMMA JoinRowSharp ==
    ASSUME NEW x, Numbered(x), NEW p \in Path, NEW H
    PROVE  Sharp(JoinRow(x, p, H))
<1>1. CASE H = {}
  BY <1>1, StoredSharp DEF JoinRow
<1>2. CASE H # {}
  <2>1. JoinRow(x, p, H).versions = Join(x.versions[p], H)
    BY <1>2 DEF JoinRow, Stored, Row
  <2>2. QED
    BY <2>1, JoinSharp DEF Sharp
<1>3. QED
  BY <1>1, <1>2

LEMMA EditedSharp ==
    ASSUME NEW x, NEW d, NEW p, NEW content
    PROVE  Sharp(Edited(x, d, p, content))
<1> DEFINE made == Made(x, d, x.observed[p], content)
<1>1. Edited(x, d, p, content).versions = Join(x.versions[p], {made.rev})
  BY DEF Edited, Row
<1> HIDE DEF made
<1>2. QED
  BY <1>1, JoinSharp DEF Sharp

LEMMA ScanRowSharp ==
    ASSUME NEW x, Numbered(x), NEW d, NEW p \in Path, NEW content, NEW approve
    PROVE  Sharp(ScanRow(x, d, p, content, approve))
<1> DEFINE s == Stored(x, p)
<1>1. \/ ScanRow(x, d, p, content, approve) = Adopted(x, p, content)
      \/ ScanRow(x, d, p, content, approve) = Edited(x, d, p, content)
      \/ ScanRow(x, d, p, content, approve) = s
      \/ ScanRow(x, d, p, content, approve) = [s EXCEPT !.pending = FALSE]
      \/ ScanRow(x, d, p, content, approve) = [s EXCEPT !.pending = TRUE]
  BY DEF ScanRow, IsEdit
<1>2. Sharp(s) /\ s.versions = x.versions[p]
  BY StoredSharp
<1>3. /\ [s EXCEPT !.pending = FALSE].versions = s.versions
      /\ [s EXCEPT !.pending = TRUE].versions = s.versions
  BY DEF Stored, Row
<1>4. Adopted(x, p, content).versions = x.versions[p]
  BY DEF Adopted, Row
<1> HIDE DEF s
<1>5. QED
  BY <1>1, <1>2, <1>3, <1>4, EditedSharp DEF Sharp

(* What a scan, and the opening of a share, make of an index. *)
LEMMA ScanAdvances ==
    ASSUME NEW x \in Index, Numbered(x), NEW d, NEW folder, NEW approve
    PROVE  /\ Numbered(Save(x, ScanRows(x, d, folder, approve)))
           /\ Advances(x, Save(x, ScanRows(x, d, folder, approve)))
<1>1. \A p \in Path : ScanRows(x, d, folder, approve)[p]
                         = ScanRow(x, d, p, folder[p], approve)
  BY DEF ScanRows
<1>2. \A p \in Path : Sharp(ScanRows(x, d, folder, approve)[p])
  BY <1>1, ScanRowSharp
<1>3. QED
  BY <1>2, SaveAdvances

LEMMA OpenedAdvances ==
    ASSUME NEW d \in Device, db[d] \in Index, Numbered(db[d])
    PROVE  Numbered(Opened(d)) /\ Advances(db[d], Opened(d))
<1>1. CASE db[d].recovering
  <2>1. \A p \in Path : OpenRows(d)[p] = Stored(db[d], p)
    BY <1>1 DEF OpenRows
  <2>2. \A p \in Path : Sharp(OpenRows(d)[p])
    BY <2>1, StoredSharp
  <2>3. QED
    BY <2>2, SaveAdvances DEF Opened
<1>2. CASE ~db[d].recovering
  <2>1. OpenRows(d) = ScanRows(db[d], d, disk[d], FALSE)
    BY <1>2 DEF OpenRows
  <2>2. QED
    BY <2>1, ScanAdvances DEF Opened
<1>3. QED
  BY <1>1, <1>2

LEMMA SaveRowAdvances ==
    ASSUME NEW x \in Index, Numbered(x), NEW p \in Path, NEW r, Sharp(r)
    PROVE  Numbered(SaveRow(x, p, r)) /\ Advances(x, SaveRow(x, p, r))
<1> DEFINE row == [q \in Path |-> IF q = p THEN r ELSE Stored(x, q)]
<1>1. \A q \in Path : Sharp(row[q])
  BY StoredSharp
<1>2. SaveRow(x, p, r) = Save(x, row)
  BY DEF SaveRow
<1> HIDE DEF row
<1>3. QED
  BY <1>1, <1>2, SaveAdvances

-----------------------------------------------------------------------------
(* What cursors and sessions say of a peer's index *)

(* A cursor is not ahead of the index that it was read from. *)
Within(x, c) == c.epoch <= x.epoch /\ (c.epoch = x.epoch => c.seq <= x.seq)

(* Whoever holds it knows the rows of the index as far as the cursor says. *)
Covers(x, c, known) ==
    c.epoch = x.epoch =>
        \A p \in Path : x.seqOf[p] <= c.seq => KnownIn(x.versions[p], known[p])

Staging   == {"pull", "pulled"}
Committed == {"rescan", "applying", "published", "applied"}

(* What a device will know when its session has committed. *)
Coming(d) ==
    [p \in Path |-> IF sess[d].phase \in Staging
                    THEN db[d].versions[p] \cup sess[d].incoming[p]
                    ELSE db[d].versions[p]]

(* A device whose disk is not put back from a backup: the activation of one that
   was would let out rows that its peers have taken for read. *)
NeverRebuilt(e) == MaxRestores = 0 \/ "device" \notin Restores[e]

CursorsRead(d) ==
    \A e \in Device :
        /\ Within(db[e], db[d].cursor[e])
        /\ (d # e /\ NeverRebuilt(e) /\ Exports(e, d)) =>
              Covers(db[e], db[d].cursor[e], db[d].versions)

SessionReads(d) ==
    LET s == sess[d]
        e == s.peer IN
    /\ Within(db[e], s.remote)
    /\ (s.phase \in Staging \cup Committed /\ d # e /\ NeverRebuilt(e) /\ Exports(e, d)) =>
          Covers(db[e], s.remote, Coming(d))

(* Two ends of one session know where each other's index was at the Hello. *)
EndsAgree(d, e) ==
    Linked(d, e) => sess[d].remote = [epoch |-> db[e].epoch, seq |-> sess[e].seq]

(* A cursor is not past what the peer had when its session began. *)
SinceBehind(d, e) == Linked(d, e) => Since(e, d) <= sess[e].seq

(* Whether a device does something on its own or with another. *)
PeerKnown(d) ==
    /\ sess[d].phase \in {"idle", "choosing", "chosen"} => sess[d].peer = d
    /\ sess[d].phase \in {"hello", "pull", "pulled", "rescan", "applying", "applied"} =>
          sess[d].peer # d

(* A checkpoint has numbered rows and the mode that the share was given, and a
   device has that mode or only receives. *)
SavedOK(d) ==
    /\ \A s \in saved[d] : Numbered(s.index) /\ s.mode = InitialMode[d]
    /\ mode[d] \in {InitialMode[d], "ReceiveOnly"}
    /\ saved[d] = {} => mode[d] = InitialMode[d]

ReadInv ==
    /\ \A d \in Device : Numbered(db[d]) /\ SavedOK(d)
    /\ \A d \in Device : CursorsRead(d) /\ SessionReads(d) /\ PeerKnown(d)
    /\ \A d, e \in Device : EndsAgree(d, e) /\ SinceBehind(d, e)

-----------------------------------------------------------------------------
(* What steps do to them *)

(* An older index takes the place of an idle device's. *)
Replaced(d) ==
    /\ db[d].epoch < db'[d].epoch
    /\ db'[d].cursor = EmptyIndex.cursor
    /\ Idle(d) /\ sess'[d] = sess[d]

IndexMoves(d) ==
    /\ Numbered(db'[d])
    /\ \/ db'[d].epoch = db[d].epoch /\ Advances(db[d], db'[d])
       \/ Replaced(d)

CursorMoves(d) ==
    \/ Replaced(d)
    \/ db'[d].cursor = db[d].cursor
    \/ /\ sess[d].phase = "applied"
       /\ db'[d].cursor = [db[d].cursor EXCEPT ![sess[d].peer] = sess[d].remote]

(* A session goes on with what it has staged, or stages or commits. *)
PhaseMoves(d) ==
    LET s == sess[d]
        t == sess'[d] IN
    \/ t.phase = s.phase /\ t.incoming = s.incoming
    \/ s.peer = d /\ t.phase \in {"idle", "choosing", "chosen", "published"}
    \/ s.phase = "pull" /\ t.phase = "pulled" /\ t.incoming = s.incoming
    \/ s.peer # d /\ s.phase \in Committed /\ t.phase \in Committed
    \/ /\ s.phase = "pulled" /\ t.phase \in Committed
       /\ mode[d] = "SendOnly" \/ \A p \in Path : KnownIn(s.incoming[p], db'[d].versions[p])
    \/ /\ s.phase = "hello" /\ t.phase = "pull" /\ UNCHANGED db
       /\ Linked(d, s.peer) /\ t.incoming = Records(s.peer, d)

(* Two devices have opened their shares and said Hello. *)
Greet(d, e) ==
    /\ d # e
    /\ sess'[d].phase = "hello" /\ sess'[d].peer = e
    /\ sess'[e].phase = "hello" /\ sess'[e].peer = d
    /\ sess'[d].remote = [epoch |-> db'[e].epoch, seq |-> sess'[e].seq]
    /\ sess'[e].remote = [epoch |-> db'[d].epoch, seq |-> sess'[d].seq]
    /\ sess'[d].seq = db'[d].seq /\ sess'[e].seq = db'[e].seq

SessionMoves(d) ==
    \/ sess'[d] = NoSession(d)
    \/ /\ sess'[d].peer = sess[d].peer
       /\ sess'[d].seq = sess[d].seq
       /\ sess'[d].remote = sess[d].remote
       /\ PhaseMoves(d)
    \/ \E e \in Device : Greet(d, e)

(* The direction changes where a disk is put back from a backup, outside any
   session. A device that only sends gets another one with another index. *)
ModeMoves(d) ==
    \/ mode'[d] = mode[d]
    \/ ~NeverRebuilt(d) /\ Idle(d) /\ (Replaced(d) \/ mode[d] # "SendOnly")

Moves ==
    /\ \A d \in Device : SavedOK(d)' /\ ModeMoves(d)
    /\ \A d \in Device : IndexMoves(d) /\ CursorMoves(d) /\ SessionMoves(d)

LEMMA CoversStill ==
    ASSUME NEW x \in Index, NEW y \in Index, NEW c \in Cursor,
           NEW known \in [Path -> SUBSET Revision], NEW later \in [Path -> SUBSET Revision],
           Within(x, c),
           \A p \in Path : KnownIn(known[p], later[p]),
           \/ x.epoch < y.epoch
           \/ y.epoch = x.epoch /\ Advances(x, y)
    PROVE  /\ Within(y, c)
           /\ Covers(x, c, known) => Covers(y, c, later)
<1>1. /\ x.seq \in Nat /\ y.seq \in Nat /\ c.seq \in Nat
      /\ x.epoch \in Nat /\ y.epoch \in Nat /\ c.epoch \in Nat
      /\ \A p \in Path : x.seqOf[p] \in Nat /\ y.seqOf[p] \in Nat
  BY FolderAssumption DEF Index, Cursor, Epoch
<1>2. CASE x.epoch < y.epoch
  <2>1. c.epoch < y.epoch
    BY <1>1, <1>2 DEF Within
  <2>2. QED
    BY <1>1, <2>1 DEF Within, Covers
<1>3. CASE y.epoch = x.epoch /\ Advances(x, y)
  <2>1. Within(y, c)
    BY <1>1, <1>3 DEF Within, Advances
  <2>2. ASSUME Covers(x, c, known), c.epoch = y.epoch,
               NEW p \in Path, y.seqOf[p] <= c.seq
        PROVE  KnownIn(y.versions[p], later[p])
    <3>1. c.seq <= x.seq
      BY <1>3, <2>2 DEF Within
    <3>2. ~(x.seq < y.seqOf[p])
      BY <1>1, <2>2, <3>1
    <3>3. y.versions[p] = x.versions[p] /\ y.seqOf[p] = x.seqOf[p]
      BY <1>3, <3>2 DEF Advances
    <3>4. KnownIn(x.versions[p], known[p])
      BY <1>3, <2>2, <3>3 DEF Covers
    <3>5. x.versions[p] \in SUBSET Revision
      BY DEF Index
    <3>6. QED
      BY <3>3, <3>4, <3>5, KnownInTransitive
  <2>3. QED
    BY <2>1, <2>2 DEF Covers
<1>4. QED
  BY <1>2, <1>3

(* Knowing two things is knowing both. *)
LEMMA KnownInBoth ==
    ASSUME NEW H, NEW K, NEW L, KnownIn(H, L), KnownIn(K, L)
    PROVE  KnownIn(H \cup K, L)
BY DEF KnownIn

(* The types of what follows. *)
LEMMA ReadTypes ==
    ASSUME Inv
    PROVE  /\ db \in [Device -> Index] /\ sess \in [Device -> Session]
           /\ \A d, e \in Device : db[d].cursor[e] \in Cursor
           /\ \A d \in Device : sess[d].remote \in Cursor /\ sess[d].peer \in Device
           /\ \A d \in Device : /\ db[d].versions \in [Path -> SUBSET Revision]
                                /\ sess[d].incoming \in [Path -> SUBSET Revision]
                                /\ Coming(d) \in [Path -> SUBSET Revision]
                                /\ db[d].epoch \in Nat /\ db[d].seq \in Nat
                                /\ 0 < db[d].epoch
<1>1. db \in [Device -> Index] /\ sess \in [Device -> Session]
  BY DEF Inv, TypeOK
<1>2. /\ \A d, e \in Device : db[d].cursor[e] \in Cursor
      /\ \A d \in Device : sess[d].remote \in Cursor /\ sess[d].peer \in Device
      /\ \A d \in Device : db[d].versions \in [Path -> SUBSET Revision]
      /\ \A d \in Device : sess[d].incoming \in [Path -> SUBSET Revision]
  BY <1>1 DEF Index, Session
<1>3. \A d \in Device : Coming(d) \in [Path -> SUBSET Revision]
  BY <1>2 DEF Coming
<1>4. \A d \in Device : db[d].epoch \in Nat /\ db[d].seq \in Nat /\ 0 < db[d].epoch
  BY <1>1, FolderAssumption DEF Index, Epoch
<1>5. QED
  BY <1>1, <1>2, <1>3, <1>4

(* What is known of one index after a step, when more is known than before. *)
LEMMA StepCovers ==
    ASSUME Inv, Inv', Moves, NEW e \in Device, NEW c \in Cursor,
           NEW known \in [Path -> SUBSET Revision], NEW later \in [Path -> SUBSET Revision],
           Within(db[e], c), \A p \in Path : KnownIn(known[p], later[p])
    PROVE  /\ Within(db'[e], c)
           /\ Covers(db[e], c, known) => Covers(db'[e], c, later)
<1>1. db[e] \in Index /\ db'[e] \in Index
  BY DEF Inv, TypeOK
<1>2. \/ db[e].epoch < db'[e].epoch
      \/ db'[e].epoch = db[e].epoch /\ Advances(db[e], db'[e])
  BY DEF Moves, IndexMoves, Replaced
<1>3. QED
  BY <1>1, <1>2, CoversStill

LEMMA NothingWithin ==
    ASSUME NEW x \in Index
    PROVE  /\ Within(x, [epoch |-> 0, seq |-> 0])
           /\ \A known : Covers(x, [epoch |-> 0, seq |-> 0], known)
<1>1. x.epoch \in Nat /\ 0 < x.epoch
  BY FolderAssumption DEF Index, Epoch
<1>2. QED
  BY <1>1 DEF Within, Covers

(* What reaches a device that keeps its index was let out to it before. *)
LEMMA ExportedBefore ==
    ASSUME Moves, NEW d \in Device, NEW e \in Device,
           NeverRebuilt(e), Exports(e, d)', ~Replaced(d)
    PROVE  Exports(e, d)
<1>1. mode'[e] = mode[e]
  BY DEF Moves, ModeMoves
<1>2. mode'[d] = mode[d] \/ mode[d] # "SendOnly"
  BY DEF Moves, ModeMoves
<1>3. QED
  BY <1>1, <1>2 DEF Exports

LEMMA CursorsStillRead ==
    ASSUME Inv, Good, ReadInv, Moves, NEW d \in Device
    PROVE  CursorsRead(d)'
<1> SUFFICES ASSUME NEW e \in Device
             PROVE  /\ Within(db'[e], db'[d].cursor[e])
                    /\ (d # e /\ NeverRebuilt(e) /\ Exports(e, d)') =>
                          Covers(db'[e], db'[d].cursor[e], db'[d].versions)
  BY DEF CursorsRead, NeverRebuilt
<1>0. Inv'
  BY DEF Good
<1>1. db'[e] \in Index /\ db'[d].epoch \in Nat /\ db[d].epoch \in Nat
  BY <1>0, FolderAssumption DEF Inv, TypeOK, Index, Epoch
<1>2. CASE Replaced(d)
  <2>1. db'[d].cursor[e] = [epoch |-> 0, seq |-> 0]
    BY <1>2 DEF Replaced, EmptyIndex
  <2>2. QED
    BY <1>1, <2>1, NothingWithin
<1>3. CASE ~Replaced(d)
  <2>1. db'[d].epoch = db[d].epoch
    BY <1>3 DEF Moves, IndexMoves
  <2>2. \A p \in Path : KnownIn(db[d].versions[p], db'[d].versions[p])
    BY <2>1 DEF Good
  <2>3. /\ db[d].versions \in [Path -> SUBSET Revision]
        /\ db'[d].versions \in [Path -> SUBSET Revision]
        /\ db[d].cursor[e] \in Cursor /\ sess[d].remote \in Cursor /\ sess[d].peer \in Device
    BY <1>0, ReadTypes DEF Inv, TypeOK, Index
  <2>4. /\ Within(db[e], db[d].cursor[e])
        /\ (d # e /\ NeverRebuilt(e) /\ Exports(e, d)) =>
              Covers(db[e], db[d].cursor[e], db[d].versions)
    BY DEF ReadInv, CursorsRead
  <2>5. NeverRebuilt(e) /\ Exports(e, d)' => Exports(e, d)
    BY <1>3, ExportedBefore
  <2>6. CASE db'[d].cursor[e] = db[d].cursor[e]
    BY <1>0, <2>2, <2>3, <2>4, <2>6, <2>5, StepCovers
  <2>7. CASE /\ sess[d].phase = "applied" /\ sess[d].peer = e
             /\ db'[d].cursor[e] = sess[d].remote
    <3>1. Coming(d) = db[d].versions
      BY <2>3, <2>7 DEF Coming, Staging
    <3>2. /\ Within(db[e], sess[d].remote)
          /\ (d # e /\ NeverRebuilt(e) /\ Exports(e, d)) =>
                Covers(db[e], sess[d].remote, db[d].versions)
      BY <2>7, <3>1 DEF ReadInv, SessionReads, Committed
    <3>3. QED
      BY <1>0, <2>2, <2>3, <2>7, <2>5, <3>2, StepCovers
  <2>8. \/ db'[d].cursor[e] = db[d].cursor[e]
        \/ sess[d].phase = "applied" /\ sess[d].peer = e /\ db'[d].cursor[e] = sess[d].remote
    <3>1. db[d].cursor \in [Device -> Cursor]
      BY DEF Inv, TypeOK, Index
    <3>2. QED
      BY <1>3, <3>1 DEF Moves, CursorMoves
  <2>9. QED
    BY <2>6, <2>7, <2>8
<1>4. QED
  BY <1>2, <1>3

(* A session that stages the peer's records will know its rows up to Hello. *)
LEMMA StagedCovers ==
    ASSUME Inv, ReadInv, NEW d \in Device, NEW e \in Device,
           e = sess[d].peer, Linked(d, e), NeverRebuilt(e), Exports(e, d),
           NEW known \in [Path -> SUBSET Revision],
           \A p \in Path : known[p] = db[d].versions[p] \cup Records(e, d)[p]
    PROVE  Covers(db[e], sess[d].remote, known)
<1>1. sess[d].remote = [epoch |-> db[e].epoch, seq |-> sess[e].seq]
  BY DEF ReadInv, EndsAgree
<1>2. SUFFICES ASSUME NEW p \in Path, db[e].seqOf[p] <= sess[e].seq
               PROVE  KnownIn(db[e].versions[p], known[p])
  BY <1>1 DEF Covers
<1>3. /\ db[e].versions[p] \in SUBSET Revision /\ db[d].versions[p] \in SUBSET Revision
      /\ Records(e, d)[p] \in SUBSET Revision
      /\ db[e].seqOf[p] \in Nat /\ Since(e, d) \in Nat
  BY ReadTypes, RecordsOK DEF Index, Cursor, Since
<1>4. CASE Since(e, d) < db[e].seqOf[p]
  <2>1. Records(e, d)[p] = db[e].versions[p]
    BY <1>2, <1>4 DEF Records
  <2>2. QED
    BY <2>1 DEF KnownIn
<1>5. CASE ~(Since(e, d) < db[e].seqOf[p]) /\ db[d].cursor[e].epoch = db[e].epoch
  <2>1. db[e].seqOf[p] <= db[d].cursor[e].seq
    BY <1>3, <1>5 DEF Since
  <2>2. d # e
    BY DEF Linked
  <2>3. Covers(db[e], db[d].cursor[e], db[d].versions)
    BY <2>2 DEF ReadInv, CursorsRead
  <2>4. KnownIn(db[e].versions[p], db[d].versions[p])
    BY <1>5, <2>1, <2>3 DEF Covers
  <2>5. known[p] = db[d].versions[p] \cup Records(e, d)[p]
    OBVIOUS
  <2>6. QED
    BY <2>4, <2>5 DEF KnownIn
<1>6. CASE ~(Since(e, d) < db[e].seqOf[p]) /\ db[d].cursor[e].epoch # db[e].epoch
  <2>1. db[e].seqOf[p] = 0
    BY <1>3, <1>6 DEF Since
  <2>2. db[e].versions[p] = {}
    BY <2>1 DEF ReadInv, Numbered
  <2>3. QED
    BY <2>2 DEF KnownIn
<1>7. QED
  BY <1>4, <1>5, <1>6

(* A session that goes on knows what it knew, and what it has committed. *)
LEMMA SessionGoesOn ==
    ASSUME Inv, Good, ReadInv, Moves, NEW d \in Device,
           sess'[d].peer = sess[d].peer, sess'[d].remote = sess[d].remote, PhaseMoves(d)
    PROVE  SessionReads(d)'
<1> DEFINE e == sess[d].peer
           c == sess[d].remote
<1>0. Inv'
  BY DEF Good
<1>1. /\ e \in Device /\ c \in Cursor
      /\ db[d].versions \in [Path -> SUBSET Revision]
      /\ db'[d].versions \in [Path -> SUBSET Revision]
      /\ sess[d].incoming \in [Path -> SUBSET Revision]
      /\ sess'[d].incoming \in [Path -> SUBSET Revision]
      /\ Coming(d) \in [Path -> SUBSET Revision]
  BY <1>0, ReadTypes DEF Inv, TypeOK, Index, Session
<1>2. Coming(d)' \in [Path -> SUBSET Revision]
  BY <1>1 DEF Coming
<1>3. Within(db[e], c)
  BY DEF ReadInv, SessionReads
<1>4. Within(db'[e], c)
  <2>1. \A p \in Path : KnownIn(Coming(d)[p], Coming(d)[p])
    BY <1>1, KnownInItself
  <2>2. QED
    BY <1>0, <1>1, <1>3, <2>1, StepCovers
<1>5. ASSUME sess'[d].phase \in Staging \cup Committed, d # e, NeverRebuilt(e), Exports(e, d)
      PROVE  Covers(db'[e], c, Coming(d)')
  <2>1. db'[d].epoch = db[d].epoch
    <3>1. ~Replaced(d)
      BY <1>5 DEF Replaced, Idle, Staging, Committed
    <3>2. QED
      BY <3>1 DEF Moves, IndexMoves
  <2>2. \A p \in Path : KnownIn(db[d].versions[p], db'[d].versions[p])
    BY <2>1 DEF Good
  <2>3. ASSUME sess[d].phase \in Staging \cup Committed,
               \A p \in Path : KnownIn(Coming(d)[p], (Coming(d)')[p])
        PROVE  Covers(db'[e], c, Coming(d)')
    <3>1. Covers(db[e], c, Coming(d))
      BY <1>5, <2>3 DEF ReadInv, SessionReads
    <3>2. QED
      BY <1>0, <1>1, <1>2, <1>3, <2>3, <3>1, StepCovers
  <2>4. ASSUME sess[d].phase \in Staging, sess'[d].phase \in Staging,
               sess'[d].incoming = sess[d].incoming
        PROVE  Covers(db'[e], c, Coming(d)')
    <3>1. \A p \in Path : /\ Coming(d)[p] = db[d].versions[p] \cup sess[d].incoming[p]
                          /\ (Coming(d)')[p] = db'[d].versions[p] \cup sess[d].incoming[p]
      BY <2>4 DEF Coming
    <3>2. \A p \in Path : KnownIn(Coming(d)[p], (Coming(d)')[p])
      BY <2>2, <3>1 DEF KnownIn
    <3>3. QED
      BY <2>3, <2>4, <3>2
  <2>5. ASSUME sess[d].phase \in Committed, sess'[d].phase \in Committed
        PROVE  Covers(db'[e], c, Coming(d)')
    <3>1. \A p \in Path : /\ Coming(d)[p] = db[d].versions[p]
                          /\ (Coming(d)')[p] = db'[d].versions[p]
      BY <2>5 DEF Coming, Staging, Committed
    <3>2. QED
      BY <2>2, <2>3, <2>5, <3>1
  <2>6. ASSUME sess[d].phase = "pulled", sess'[d].phase \in Committed,
               \A p \in Path : KnownIn(sess[d].incoming[p], db'[d].versions[p])
        PROVE  Covers(db'[e], c, Coming(d)')
    <3>1. \A p \in Path : /\ Coming(d)[p] = db[d].versions[p] \cup sess[d].incoming[p]
                          /\ (Coming(d)')[p] = db'[d].versions[p]
      BY <2>6 DEF Coming, Staging, Committed
    <3>2. \A p \in Path : KnownIn(Coming(d)[p], (Coming(d)')[p])
      BY <2>2, <2>6, <3>1, KnownInBoth
    <3>3. QED
      BY <2>3, <2>6, <3>2 DEF Staging
  <2>7. ASSUME sess'[d].phase = "pull", UNCHANGED db, Linked(d, e),
               sess'[d].incoming = Records(e, d)
        PROVE  Covers(db'[e], c, Coming(d)')
    <3>1. \A p \in Path : (Coming(d)')[p] = db[d].versions[p] \cup Records(e, d)[p]
      BY <2>7 DEF Coming, Staging
    <3>2. Covers(db[e], c, Coming(d)')
      BY <1>1, <1>2, <1>5, <2>7, <3>1, StagedCovers
    <3>3. QED
      BY <2>7, <3>2
  <2>8. mode[d] # "SendOnly"
    BY <1>5 DEF Exports
  <2>9. \/ sess'[d].phase = sess[d].phase /\ sess'[d].incoming = sess[d].incoming
        \/ /\ sess[d].phase = "pull" /\ sess'[d].phase = "pulled"
           /\ sess'[d].incoming = sess[d].incoming
        \/ sess[d].phase \in Committed /\ sess'[d].phase \in Committed
        \/ /\ sess[d].phase = "pulled" /\ sess'[d].phase \in Committed
           /\ \A p \in Path : KnownIn(sess[d].incoming[p], db'[d].versions[p])
        \/ /\ sess'[d].phase = "pull" /\ UNCHANGED db /\ Linked(d, e)
           /\ sess'[d].incoming = Records(e, d)
    BY <1>5, <2>8 DEF PhaseMoves
  <2>10. QED
    BY <1>5, <2>4, <2>5, <2>6, <2>7, <2>9 DEF Staging
<1>6. ASSUME sess'[d].phase \in Staging \cup Committed, NeverRebuilt(e), Exports(e, d)'
      PROVE  Exports(e, d)
  <2>1. ~Replaced(d)
    BY <1>6 DEF Replaced, Idle, Staging, Committed
  <2>2. QED
    BY <1>1, <1>6, <2>1, ExportedBefore
<1>7. QED
  BY <1>4, <1>5, <1>6 DEF SessionReads, NeverRebuilt

LEMMA SessionsStillRead ==
    ASSUME Inv, Good, ReadInv, Moves, NEW d \in Device
    PROVE  SessionReads(d)' /\ PeerKnown(d)'
<1>0. db' \in [Device -> Index]
  BY DEF Good, Inv, TypeOK
<1>1. CASE sess'[d] = NoSession(d)
  <2>1. /\ sess'[d].phase = "idle" /\ sess'[d].peer = d
        /\ sess'[d].remote = [epoch |-> 0, seq |-> 0]
    BY <1>1 DEF NoSession
  <2>2. Within(db'[d], sess'[d].remote)
    BY <1>0, <2>1, NothingWithin
  <2>3. QED
    BY <2>1, <2>2 DEF SessionReads, PeerKnown, Staging, Committed
<1>2. CASE \E e \in Device : Greet(d, e)
  <2>1. PICK e \in Device : Greet(d, e)
    BY <1>2
  <2>2. db'[e].epoch \in Nat /\ db'[e].seq \in Nat
    BY <1>0, FolderAssumption DEF Index, Epoch
  <2>3. Within(db'[e], sess'[d].remote)
    BY <2>1, <2>2 DEF Greet, Within
  <2>4. QED
    BY <2>1, <2>3 DEF Greet, SessionReads, PeerKnown, Staging, Committed
<1>3. CASE /\ sess'[d].peer = sess[d].peer /\ sess'[d].remote = sess[d].remote
           /\ PhaseMoves(d)
  <2>1. SessionReads(d)'
    BY <1>3, SessionGoesOn
  <2>2. PeerKnown(d)
    BY DEF ReadInv
  <2>3. PeerKnown(d)'
    BY <1>3, <2>2 DEF PeerKnown, PhaseMoves, Committed, Linked
  <2>4. QED
    BY <2>1, <2>3
<1>4. QED
  BY <1>1, <1>2, <1>3 DEF Moves, SessionMoves

(* Of two ends that stay in one session, neither index is replaced. *)
LEMMA EndsStay ==
    ASSUME Inv, ReadInv, Moves, NEW d \in Device, NEW e \in Device, d # e,
           sess'[d].peer = e, sess'[e].peer = d, ~Greet(d, e), ~Greet(e, d)
    PROVE  /\ Linked(d, e)
           /\ sess'[d].remote = sess[d].remote /\ sess'[e].seq = sess[e].seq
           /\ db'[d].epoch = db[d].epoch /\ db'[e].epoch = db[e].epoch
<1>1. sess'[d] # NoSession(d) /\ sess'[e] # NoSession(e)
  BY DEF NoSession
<1>2. /\ ~\E k \in Device : Greet(d, k)
      /\ ~\E k \in Device : Greet(e, k)
  BY DEF Greet
<1>3. /\ sess[d].peer = e /\ sess'[d].remote = sess[d].remote
      /\ sess[e].peer = d /\ sess'[e].seq = sess[e].seq
  BY <1>1, <1>2 DEF Moves, SessionMoves
<1>4. sess[d].phase # "idle" /\ sess[e].phase # "idle"
  BY <1>3 DEF ReadInv, PeerKnown
<1>5. db'[d].epoch = db[d].epoch /\ db'[e].epoch = db[e].epoch
  BY <1>4 DEF Moves, IndexMoves, Replaced, Idle
<1>6. QED
  BY <1>3, <1>5 DEF Linked

LEMMA EndsStillAgree ==
    ASSUME Inv, ReadInv, Moves, NEW d \in Device, NEW e \in Device
    PROVE  EndsAgree(d, e)'
<1> SUFFICES ASSUME d # e, sess'[d].peer = e, sess'[e].peer = d
             PROVE  sess'[d].remote = [epoch |-> db'[e].epoch, seq |-> sess'[e].seq]
  BY DEF EndsAgree, Linked
<1>1. CASE Greet(d, e) \/ Greet(e, d)
  BY <1>1 DEF Greet
<1>2. CASE ~Greet(d, e) /\ ~Greet(e, d)
  <2>1. /\ sess'[d].remote = sess[d].remote /\ sess'[e].seq = sess[e].seq
        /\ db'[e].epoch = db[e].epoch /\ Linked(d, e)
    BY <1>2, EndsStay
  <2>2. QED
    BY <2>1 DEF ReadInv, EndsAgree
<1>3. QED
  BY <1>1, <1>2

LEMMA SinceStillBehind ==
    ASSUME Inv, Good, ReadInv, Moves, NEW d \in Device, NEW e \in Device
    PROVE  SinceBehind(d, e)'
<1> SUFFICES ASSUME d # e, sess'[d].peer = e, sess'[e].peer = d,
                    db'[d].cursor[e].epoch = db'[e].epoch
             PROVE  db'[d].cursor[e].seq <= sess'[e].seq
  <2>1. sess'[e].seq \in Nat
    BY DEF Good, Inv, TypeOK, Session
  <2>2. Linked(d, e)' <=> d # e /\ sess'[d].peer = e /\ sess'[e].peer = d
    BY DEF Linked
  <2>3. Since(e, d)' = IF db'[d].cursor[e].epoch = db'[e].epoch THEN db'[d].cursor[e].seq ELSE 0
    BY DEF Since
  <2>4. QED
    BY <2>1, <2>2, <2>3 DEF SinceBehind
<1>1. CASE Greet(d, e) \/ Greet(e, d)
  <2>1. sess'[e].seq = db'[e].seq
    BY <1>1 DEF Greet
  <2>2. Within(db'[e], db'[d].cursor[e])
    BY CursorsStillRead DEF CursorsRead
  <2>3. QED
    BY <2>1, <2>2 DEF Within
<1>2. CASE ~Greet(d, e) /\ ~Greet(e, d)
  <2>1. /\ sess'[e].seq = sess[e].seq /\ Linked(d, e)
        /\ db'[d].epoch = db[d].epoch /\ db'[e].epoch = db[e].epoch
    BY <1>2, EndsStay
  <2>2. CASE db'[d].cursor[e] = db[d].cursor[e]
    <3>1. Since(e, d) <= sess[e].seq
      BY <2>1 DEF ReadInv, SinceBehind
    <3>2. db[d].cursor[e].epoch = db[e].epoch
      BY <2>1, <2>2
    <3>3. Since(e, d) = db[d].cursor[e].seq
      BY <3>2 DEF Since
    <3>4. QED
      BY <2>1, <2>2, <3>1, <3>3
  <2>3. CASE db'[d].cursor[e] = sess[d].remote
    <3>1. sess[d].remote = [epoch |-> db[e].epoch, seq |-> sess[e].seq]
      BY <2>1 DEF ReadInv, EndsAgree
    <3>2. sess[e].seq \in Nat
      BY DEF Inv, TypeOK, Session
    <3>3. QED
      BY <2>1, <2>3, <3>1, <3>2
  <2>4. db'[d].cursor[e] = db[d].cursor[e] \/ db'[d].cursor[e] = sess[d].remote
    <3>1. ~Replaced(d)
      BY <2>1, ReadTypes DEF Replaced
    <3>2. db[d].cursor \in [Device -> Cursor]
      BY DEF Inv, TypeOK, Index
    <3>3. QED
      BY <3>1, <3>2 DEF Moves, CursorMoves
  <2>5. QED
    BY <2>2, <2>3, <2>4
<1>3. QED
  BY <1>1, <1>2

LEMMA StillRead ==
    ASSUME Inv, Good, ReadInv, Moves
    PROVE  ReadInv'
<1>1. \A d \in Device : Numbered(db'[d]) /\ SavedOK(d)'
  BY DEF Moves, IndexMoves
<1>2. \A d \in Device : CursorsRead(d)' /\ SessionReads(d)' /\ PeerKnown(d)'
  BY CursorsStillRead, SessionsStillRead
<1>3. \A d, e \in Device : EndsAgree(d, e)' /\ SinceBehind(d, e)'
  BY EndsStillAgree, SinceStillBehind
<1>4. QED
  BY <1>1, <1>2, <1>3 DEF ReadInv, Numbered

-----------------------------------------------------------------------------
(* Each action moves them so *)

LEMMA SaveAside ==
    ASSUME NEW x \in Index, NEW row
    PROVE  Save(x, row).epoch = x.epoch /\ Save(x, row).cursor = x.cursor
BY DEF Save, Write, Index

LEMMA SameIndexesMove ==
    ASSUME Inv, ReadInv, UNCHANGED db
    PROVE  \A d \in Device : IndexMoves(d) /\ CursorMoves(d)
<1>1. \A d \in Device : db[d] \in Index /\ Numbered(db[d])
  BY DEF Inv, TypeOK, ReadInv
<1>2. QED
  BY <1>1, AdvancesItself DEF IndexMoves, CursorMoves

LEMMA OneIndexMoves ==
    ASSUME Inv, ReadInv, NEW d \in Device, NEW y,
           y.epoch = db[d].epoch, Numbered(y), Advances(db[d], y),
           \/ y.cursor = db[d].cursor
           \/ /\ sess[d].phase = "applied"
              /\ y.cursor = [db[d].cursor EXCEPT ![sess[d].peer] = sess[d].remote],
           db' = [db EXCEPT ![d] = y]
    PROVE  \A e \in Device : IndexMoves(e) /\ CursorMoves(e)
<1>1. \A e \in Device : db[e] \in Index /\ Numbered(db[e])
  BY DEF Inv, TypeOK, ReadInv
<1>2. \A e \in Device : db'[e] = IF e = d THEN y ELSE db[e]
  BY DEF Inv, TypeOK
<1>3. IndexMoves(d) /\ CursorMoves(d)
  BY <1>2 DEF IndexMoves, CursorMoves
<1>4. \A e \in Device \ {d} : IndexMoves(e) /\ CursorMoves(e)
  BY <1>1, <1>2, AdvancesItself DEF IndexMoves, CursorMoves
<1>5. QED
  BY <1>3, <1>4

LEMMA SavedMoves ==
    ASSUME Inv, ReadInv, NEW d \in Device, NEW row, \A p \in Path : Sharp(row[p]),
           db' = [db EXCEPT ![d] = Save(db[d], row)]
    PROVE  \A e \in Device : IndexMoves(e) /\ CursorMoves(e)
<1>1. db[d] \in Index /\ Numbered(db[d])
  BY DEF Inv, TypeOK, ReadInv
<1>2. Numbered(Save(db[d], row)) /\ Advances(db[d], Save(db[d], row))
  BY <1>1, SaveAdvances
<1>3. Save(db[d], row).epoch = db[d].epoch /\ Save(db[d], row).cursor = db[d].cursor
  BY <1>1, SaveAside
<1>4. QED
  BY <1>2, <1>3, OneIndexMoves

LEMMA ScanRowsSharp ==
    ASSUME NEW x, Numbered(x), NEW d, NEW folder, NEW approve
    PROVE  \A p \in Path : Sharp(ScanRows(x, d, folder, approve)[p])
BY ScanRowSharp DEF ScanRows

LEMMA ScannedMoves ==
    ASSUME Inv, ReadInv, NEW d \in Device, NEW approve,
           db' = [db EXCEPT ![d] = Save(db[d], ScanRows(db[d], d, disk[d], approve))]
    PROVE  \A e \in Device : IndexMoves(e) /\ CursorMoves(e)
<1>1. Numbered(db[d])
  BY DEF ReadInv
<1>2. QED
  BY <1>1, ScanRowsSharp, SavedMoves

(* Of two transactions: the one that opens the share, or scans, comes first. *)
LEMMA TwiceMoves ==
    ASSUME Inv, Good, ReadInv, NEW d \in Device, NEW x \in Index,
           Numbered(x), Advances(db[d], x), x.epoch = db[d].epoch, x.cursor = db[d].cursor,
           NEW row, \A p \in Path : Sharp(row[p]),
           db' = [db EXCEPT ![d] = Save(x, row)]
    PROVE  \A e \in Device : IndexMoves(e) /\ CursorMoves(e)
<1>1. db[d] \in Index /\ db'[d] \in Index /\ db'[d] = Save(x, row)
  BY DEF Good, Inv, TypeOK
<1>2. Numbered(Save(x, row)) /\ Advances(x, Save(x, row))
  BY SaveAdvances
<1>3. Save(x, row).epoch = db[d].epoch /\ Save(x, row).cursor = db[d].cursor
  BY SaveAside
<1>4. Advances(db[d], Save(x, row))
  BY <1>1, <1>2, AdvancesTwice
<1>5. QED
  BY <1>2, <1>3, <1>4, OneIndexMoves

LEMMA SameSessionsMove ==
    ASSUME UNCHANGED sess
    PROVE  \A d \in Device : SessionMoves(d)
BY DEF SessionMoves, PhaseMoves

LEMMA EndMoves ==
    ASSUME Inv, NEW d \in Device, End(d)
    PROVE  \A e \in Device : SessionMoves(e)
<1>1. \A e \in Device : sess'[e] = IF e = d THEN NoSession(d) ELSE sess[e]
  BY DEF Inv, TypeOK, End
<1>2. QED
  BY <1>1 DEF SessionMoves, PhaseMoves

LEMMA TurnMoves ==
    ASSUME Inv, NEW d \in Device, NEW phase, Goto(d, phase),
           \/ sess[d].peer = d /\ phase \in {"idle", "choosing", "chosen", "published"}
           \/ sess[d].peer # d /\ sess[d].phase \in Committed /\ phase \in Committed
           \/ /\ sess[d].phase = "pulled" /\ phase \in Committed
              /\ mode[d] = "SendOnly"
                    \/ \A p \in Path : KnownIn(sess[d].incoming[p], db'[d].versions[p])
    PROVE  \A e \in Device : SessionMoves(e)
<1>1. sess[d] \in Session
  BY DEF Inv, TypeOK
<1>2. \A e \in Device : sess'[e] = IF e = d THEN [sess[d] EXCEPT !.phase = phase] ELSE sess[e]
  BY DEF Inv, TypeOK, Goto
<1>3. /\ sess'[d].phase = phase /\ sess'[d].peer = sess[d].peer
      /\ sess'[d].seq = sess[d].seq /\ sess'[d].remote = sess[d].remote
  BY <1>1, <1>2 DEF Session
<1>4. SessionMoves(d)
  BY <1>3 DEF SessionMoves, PhaseMoves
<1>5. QED
  BY <1>2, <1>4 DEF SessionMoves, PhaseMoves

LEMMA SavedStays ==
    ASSUME ReadInv, UNCHANGED <<mode, saved>>
    PROVE  \A d \in Device : SavedOK(d)' /\ ModeMoves(d)
BY DEF ReadInv, SavedOK, ModeMoves

LEMMA AppWriteMoves ==
    ASSUME Inv, ReadInv, NEW d \in Device, NEW p \in Path, NEW content \in Payload,
           AppWrite(d, p, content)
    PROVE  Moves
BY SameIndexesMove, SameSessionsMove, SavedStays DEF AppWrite, Moves

LEMMA ScanMoves ==
    ASSUME Inv, ReadInv, NEW d \in Device, NEW approve \in BOOLEAN, Scan(d, approve)
    PROVE  Moves
<1>1. UNCHANGED <<mode, sess, saved>>
  BY DEF Scan
<1>2. \/ db' = [db EXCEPT ![d] = Save(db[d], ScanRows(db[d], d, disk[d], approve))]
      \/ UNCHANGED db
  BY DEF Scan
<1>3. QED
  BY <1>1, <1>2, ScannedMoves, SameIndexesMove, SameSessionsMove, SavedStays DEF Moves

LEMMA ApproveDeletionMoves ==
    ASSUME Inv, Good, ReadInv, NEW d \in Device, NEW p \in Path, ApproveDeletion(d, p)
    PROVE  Moves
<1> DEFINE row     == ScanRows(db[d], d, disk[d], FALSE)
           scanned == Save(db[d], row)
           deleted == Edited(scanned, d, p, Deleted)
           rows    == [q \in Path |-> IF q = p THEN deleted ELSE Stored(scanned, q)]
<1>1. /\ UNCHANGED <<mode, sess, saved>> /\ CanScan(db[d], d, disk[d], FALSE)
      /\ db' = [db EXCEPT ![d] = SaveRow(scanned, p, deleted)]
  BY DEF ApproveDeletion
<1>2. db[d] \in Index /\ Whole(db[d]) /\ Numbered(db[d]) /\ disk[d] \in [Path -> Content]
  BY DEF Inv, TypeOK, ReadInv
<1>3. Numbered(scanned) /\ Advances(db[d], scanned)
  BY <1>2, ScanAdvances
<1>4. scanned \in Index
  BY <1>1, <1>2, ScanRowsOK DEF Grown
<1>5. scanned.epoch = db[d].epoch /\ scanned.cursor = db[d].cursor
  BY <1>2, SaveAside
<1>6. db' = [db EXCEPT ![d] = Save(scanned, rows)]
  BY <1>1 DEF SaveRow
<1> HIDE DEF scanned
<1>7. \A q \in Path : Sharp(rows[q])
  BY <1>3, EditedSharp, StoredSharp
<1> HIDE DEF rows
<1>8. \A e \in Device : IndexMoves(e) /\ CursorMoves(e)
  BY <1>3, <1>4, <1>5, <1>6, <1>7, TwiceMoves
<1>9. QED
  BY <1>1, <1>8, SameSessionsMove, SavedStays DEF Moves

LEMMA ChooseScanMoves ==
    ASSUME Inv, ReadInv, NEW d \in Device, ChooseScan(d)
    PROVE  Moves
<1>1. /\ Goto(d, "choosing") /\ sess[d].phase = "idle" /\ UNCHANGED <<mode, saved>>
      /\ db' = [db EXCEPT ![d] = Save(db[d], ScanRows(db[d], d, disk[d], FALSE))]
  BY DEF ChooseScan, Idle
<1>2. sess[d].peer = d
  BY <1>1 DEF ReadInv, PeerKnown
<1>3. \A e \in Device : SessionMoves(e)
  BY <1>1, <1>2, TurnMoves
<1>4. QED
  BY <1>1, <1>3, ScannedMoves, SavedStays DEF Moves

LEMMA ChooseCommitMoves ==
    ASSUME Inv, ReadInv, NEW d \in Device, NEW p \in Path, NEW chosen, ChooseCommit(d, p, chosen)
    PROVE  Moves
<1> DEFINE made == Made(db[d], d, db[d].versions[p], chosen.content)
           row  == Row({made.rev}, disk[d][p], db[d].observed[p], FALSE, {made})
           rows == [q \in Path |-> IF q = p THEN row ELSE Stored(db[d], q)]
<1>1. /\ sess[d].phase = "choosing" /\ UNCHANGED <<mode, saved>>
      /\ db' = [db EXCEPT ![d] = SaveRow(db[d], p, row)]
      /\ sess' = [sess EXCEPT ![d].phase = "chosen", ![d].path = p]
  BY DEF ChooseCommit
<1>2. db' = [db EXCEPT ![d] = Save(db[d], rows)]
  BY <1>1 DEF SaveRow
<1>3. Sharp(row)
  <2>1. row.versions = {made.rev}
    BY DEF Row
  <2> HIDE DEF made, row
  <2>2. QED
    BY <2>1 DEF Sharp, Before, Relation
<1>4. Numbered(db[d])
  BY DEF ReadInv
<1> HIDE DEF row
<1>5. \A q \in Path : Sharp(rows[q])
  BY <1>3, <1>4, StoredSharp
<1> HIDE DEF rows
<1>6. \A e \in Device : IndexMoves(e) /\ CursorMoves(e)
  BY <1>2, <1>5, SavedMoves
<1>7. sess[d].peer = d
  BY <1>1 DEF ReadInv, PeerKnown
<1>8. /\ sess'[d].phase = "chosen" /\ sess'[d].peer = sess[d].peer
      /\ sess'[d].seq = sess[d].seq /\ sess'[d].remote = sess[d].remote
      /\ \A e \in Device \ {d} : sess'[e] = sess[e]
  BY <1>1 DEF Inv, TypeOK, Session
<1>9. \A e \in Device : SessionMoves(e)
  BY <1>7, <1>8 DEF SessionMoves, PhaseMoves
<1>10. QED
  BY <1>1, <1>6, <1>9, SavedStays DEF Moves

LEMMA ConnectMoves ==
    ASSUME Inv, ReadInv, NEW c \in Device, NEW s \in Device, Connect(c, s)
    PROVE  Moves
<1> DEFINE hello(d, e, client) ==
              [NoSession(d) EXCEPT
                !.phase = "hello", !.peer = e, !.client = client,
                !.seq = HelloSeq(d),
                !.remote = [epoch |-> db[e].epoch, seq |-> HelloSeq(e)]]
<1>1. /\ c # s /\ UNCHANGED <<mode, saved>>
      /\ db' = [db EXCEPT ![c] = Opened(c), ![s] = Opened(s)]
      /\ sess' = [sess EXCEPT ![c] = hello(c, s, TRUE), ![s] = hello(s, c, FALSE)]
  BY DEF Connect
<1>2. \A d \in Device : db[d] \in Index /\ Numbered(db[d])
  BY DEF Inv, TypeOK, ReadInv
<1>3. \A d \in Device : /\ Numbered(Opened(d)) /\ Advances(db[d], Opened(d))
                        /\ Opened(d).epoch = db[d].epoch /\ Opened(d).cursor = db[d].cursor
  BY <1>2, OpenedAdvances, SaveAside DEF Opened
<1>4. /\ db'[c] = Opened(c) /\ db'[s] = Opened(s)
      /\ \A d \in Device \ {c, s} : db'[d] = db[d]
  BY <1>1 DEF Inv, TypeOK
<1>5. \A d \in Device : IndexMoves(d) /\ CursorMoves(d)
  BY <1>2, <1>3, <1>4, AdvancesItself DEF IndexMoves, CursorMoves
<1>6. /\ sess'[c] = hello(c, s, TRUE) /\ sess'[s] = hello(s, c, FALSE)
      /\ \A d \in Device \ {c, s} : sess'[d] = sess[d]
  BY <1>1 DEF Inv, TypeOK
<1>7. /\ sess'[c].phase = "hello" /\ sess'[c].peer = s /\ sess'[c].seq = Opened(c).seq
      /\ sess'[c].remote = [epoch |-> db[s].epoch, seq |-> Opened(s).seq]
      /\ sess'[s].phase = "hello" /\ sess'[s].peer = c /\ sess'[s].seq = Opened(s).seq
      /\ sess'[s].remote = [epoch |-> db[c].epoch, seq |-> Opened(c).seq]
  BY <1>6 DEF NoSession, HelloSeq
<1>8. Greet(c, s) /\ Greet(s, c)
  BY <1>1, <1>3, <1>4, <1>7 DEF Greet
<1>9. \A d \in Device : SessionMoves(d)
  BY <1>6, <1>8 DEF SessionMoves, PhaseMoves
<1>10. QED
  BY <1>1, <1>5, <1>9, SavedStays DEF Moves

LEMMA StageMoves ==
    ASSUME Inv, ReadInv, NEW d \in Device, Stage(d)
    PROVE  Moves
<1> DEFINE e        == sess[d].peer
           incoming == Records(e, d)
           needed   == {h.content : h \in UNION {incoming[p] : p \in Path}}
                          \cap (File \ objects[d])
<1>1. /\ UNCHANGED <<db, mode, saved>> /\ sess[d].phase = "hello" /\ Linked(d, e)
      /\ \/ sess' = [sess EXCEPT ![e] = NoSession(e)]
         \/ sess' = [sess EXCEPT ![d] = NoSession(d)]
         \/ sess' = [sess EXCEPT ![d].phase = "pull", ![d].incoming = incoming,
                                 ![d].needed = needed]
  BY DEF Stage
<1>2. e \in Device
  BY ReadTypes
<1>3. CASE \/ sess' = [sess EXCEPT ![e] = NoSession(e)]
           \/ sess' = [sess EXCEPT ![d] = NoSession(d)]
  <2>1. \A k \in Device : SessionMoves(k)
    BY <1>2, <1>3, EndMoves DEF End
  <2>2. QED
    BY <1>1, <2>1, SameIndexesMove, SavedStays DEF Moves
<1>4. CASE sess' = [sess EXCEPT ![d].phase = "pull", ![d].incoming = incoming,
                                ![d].needed = needed]
  <2> HIDE DEF incoming, needed
  <2>1. /\ sess'[d].phase = "pull" /\ sess'[d].incoming = incoming
        /\ sess'[d].peer = sess[d].peer
        /\ sess'[d].seq = sess[d].seq /\ sess'[d].remote = sess[d].remote
        /\ \A k \in Device \ {d} : sess'[k] = sess[k]
    BY <1>4 DEF Inv, TypeOK, Session
  <2>2. \A k \in Device : SessionMoves(k)
    BY <1>1, <2>1 DEF SessionMoves, PhaseMoves, incoming
  <2>3. QED
    BY <1>1, <2>2, SameIndexesMove, SavedStays DEF Moves
<1>5. QED
  BY <1>1, <1>3, <1>4

LEMMA PullMoves ==
    ASSUME Inv, ReadInv, NEW d \in Device, NEW f \in File, Pull(d, f)
    PROVE  Moves
<1>1. /\ UNCHANGED <<db, mode, saved>>
      /\ \/ sess' = [sess EXCEPT ![d].needed = @ \ {f}]
         \/ End(sess[d].peer)
  BY DEF Pull
<1>2. sess[d].peer \in Device
  BY ReadTypes
<1>3. \A k \in Device : SessionMoves(k)
  <2>1. CASE End(sess[d].peer)
    BY <1>2, <2>1, EndMoves
  <2>2. CASE sess' = [sess EXCEPT ![d].needed = @ \ {f}]
    <3>1. \A k \in Device : /\ sess'[k].phase = sess[k].phase
                            /\ sess'[k].incoming = sess[k].incoming
                            /\ sess'[k].peer = sess[k].peer
                            /\ sess'[k].seq = sess[k].seq
                            /\ sess'[k].remote = sess[k].remote
      BY <2>2 DEF Inv, TypeOK, Session
    <3>2. QED
      BY <3>1 DEF SessionMoves, PhaseMoves
  <2>3. QED
    BY <1>1, <2>1, <2>2
<1>4. QED
  BY <1>1, <1>3, SameIndexesMove, SavedStays DEF Moves

(* One session goes on; what it tells its peer changes nothing there. *)
LEMMA ToldMoves ==
    ASSUME Inv, NEW d \in Device, NEW phase,
           sess'[d] = [sess[d] EXCEPT !.phase = phase],
           \/ sess[d].phase = "pull" /\ phase = "pulled"
           \/ sess[d].peer # d /\ sess[d].phase \in Committed /\ phase \in Committed
           \/ sess[d].phase = "pulled" /\ phase \in Committed /\ mode[d] = "SendOnly",
           \A k \in Device \ {d} :
              \/ sess'[k] = sess[k]
              \/ sess'[k] = [sess[k] EXCEPT !.released = TRUE]
              \/ sess'[k] = [sess[k] EXCEPT !.done = TRUE]
    PROVE  \A k \in Device : SessionMoves(k)
<1>1. \A k \in Device : sess[k] \in Session
  BY DEF Inv, TypeOK
<1>2. /\ sess'[d].phase = phase /\ sess'[d].incoming = sess[d].incoming
      /\ sess'[d].peer = sess[d].peer
      /\ sess'[d].seq = sess[d].seq /\ sess'[d].remote = sess[d].remote
  BY <1>1 DEF Session
<1>3. SessionMoves(d)
  BY <1>2 DEF SessionMoves, PhaseMoves
<1>4. ASSUME NEW k \in Device \ {d}
      PROVE  /\ sess'[k].phase = sess[k].phase /\ sess'[k].incoming = sess[k].incoming
             /\ sess'[k].peer = sess[k].peer
             /\ sess'[k].seq = sess[k].seq /\ sess'[k].remote = sess[k].remote
  <2>1. CASE sess'[k] = sess[k]
    BY <2>1
  <2>2. CASE sess'[k] = [sess[k] EXCEPT !.released = TRUE]
    BY <1>1, <2>2 DEF Session
  <2>3. CASE sess'[k] = [sess[k] EXCEPT !.done = TRUE]
    BY <1>1, <2>3 DEF Session
  <2>4. QED
    BY <2>1, <2>2, <2>3
<1>5. \A k \in Device \ {d} : SessionMoves(k)
  BY <1>4 DEF SessionMoves, PhaseMoves
<1>6. QED
  BY <1>3, <1>5

LEMMA PullDoneMoves ==
    ASSUME Inv, ReadInv, NEW d \in Device, PullDone(d)
    PROVE  Moves
<1> DEFINE e == sess[d].peer
<1>1. /\ UNCHANGED <<db, mode, saved>> /\ sess[d].phase = "pull"
      /\ sess' = [k \in Device |->
                    CASE k = d                      -> [sess[k] EXCEPT !.phase = "pulled"]
                      [] k = e /\ Linked(d, e)      -> [sess[k] EXCEPT !.released = TRUE]
                      [] k # d /\ ~(k = e /\ Linked(d, e)) -> sess[k]]
  BY DEF PullDone
<1>2. Linked(d, e) => d # e
  BY DEF Linked
<1> HIDE DEF e
<1>3. sess'[d] = [sess[d] EXCEPT !.phase = "pulled"]
  BY <1>1, <1>2
<1>4. \A k \in Device \ {d} : \/ sess'[k] = sess[k]
                              \/ sess'[k] = [sess[k] EXCEPT !.released = TRUE]
  BY <1>1
<1>5. \A k \in Device : SessionMoves(k)
  BY <1>1, <1>3, <1>4, ToldMoves
<1>6. QED
  BY <1>1, <1>5, SameIndexesMove, SavedStays DEF Moves

LEMMA SayAppliedMoves ==
    ASSUME Inv, NEW d \in Device, SayApplied(d),
           \/ sess[d].peer # d /\ sess[d].phase \in Committed
           \/ sess[d].phase = "pulled" /\ mode[d] = "SendOnly"
    PROVE  \A k \in Device : SessionMoves(k)
<1> DEFINE e == sess[d].peer
<1>1. sess' = [k \in Device |->
                 CASE k = d                 -> [sess[k] EXCEPT !.phase = "applied"]
                   [] k = e /\ Linked(d, e) -> [sess[k] EXCEPT !.done = TRUE]
                   [] k # d /\ ~(k = e /\ Linked(d, e)) -> sess[k]]
  BY DEF SayApplied
<1>2. Linked(d, e) => d # e
  BY DEF Linked
<1> HIDE DEF e
<1>3. sess'[d] = [sess[d] EXCEPT !.phase = "applied"]
  BY <1>1, <1>2
<1>4. \A k \in Device \ {d} : \/ sess'[k] = sess[k]
                              \/ sess'[k] = [sess[k] EXCEPT !.done = TRUE]
  BY <1>1
<1>5. "applied" \in Committed
  BY DEF Committed
<1>6. QED
  BY <1>3, <1>4, <1>5, ToldMoves

(* What was staged is known once it has been joined (commit_incoming). *)
LEMMA JoinedKnown ==
    ASSUME NEW x \in Index, Whole(x), NEW p \in Path,
           NEW H \in SUBSET Revision, IsFiniteSet(H)
    PROVE  KnownIn(H, JoinRow(x, p, H).versions)
<1>1. CASE H = {}
  BY <1>1 DEF KnownIn
<1>2. CASE H # {}
  <2>1. JoinRow(x, p, H).versions = Join(x.versions[p], H)
    BY <1>2 DEF JoinRow, Stored, Row
  <2>2. x.versions[p] \in SUBSET Revision /\ IsFiniteSet(x.versions[p])
    BY DEF Index, Whole
  <2>3. \A h \in H : \E k \in Join(x.versions[p], H) : h = k \/ Before(h.clock, k.clock)
    BY <2>2, JoinKeeps
  <2>4. QED
    BY <2>1, <2>3 DEF KnownIn
<1>3. QED
  BY <1>1, <1>2

LEMMA CommitMoves ==
    ASSUME Inv, Good, ReadInv, NEW d \in Device, Commit(d)
    PROVE  Moves
<1> DEFINE x     == Opened(d)
           row   == [p \in Path |-> JoinRow(x, p, sess[d].incoming[p])]
           phase == IF db[d].recovering THEN "rescan" ELSE "applying"
<1>1. /\ CanOpen(d) /\ sess[d].phase = "pulled" /\ UNCHANGED <<mode, saved>>
      /\ db' = [db EXCEPT ![d] = Save(x, row)]
      /\ Goto(d, phase)
  BY DEF Commit, ReadyToCommit
<1>2. TypeOK /\ db[d] \in Index /\ Whole(db[d]) /\ Numbered(db[d]) /\ sess[d] \in Session
  BY DEF Inv, TypeOK, ReadInv
<1>3. x \in Index /\ Whole(x)
  BY <1>1, <1>2, OpenRowsOK DEF Grown
<1>4. Numbered(x) /\ Advances(db[d], x)
  BY <1>2, OpenedAdvances
<1>5. x.epoch = db[d].epoch /\ x.cursor = db[d].cursor
  BY <1>2, SaveAside DEF Opened
<1> HIDE DEF x
<1>6. \A p \in Path : Sharp(row[p])
  BY <1>4, JoinRowSharp
<1>7. \A p \in Path : sess[d].incoming[p] \in SUBSET Revision /\ IsFiniteSet(sess[d].incoming[p])
  BY <1>2 DEF Session, Inv, SessionReady
<1>8. \A p \in Path : RowOK(row[p]) /\ KnownIn(sess[d].incoming[p], row[p].versions)
  BY <1>3, <1>7, JoinRowOK, JoinedKnown
<1> HIDE DEF row
<1>9. \A e \in Device : IndexMoves(e) /\ CursorMoves(e)
  BY <1>1, <1>3, <1>4, <1>5, <1>6, TwiceMoves
<1>10. \A p \in Path : Save(x, row).versions[p] = row[p].versions
  BY <1>3, <1>8, SaveOK
<1>11. db'[d] = Save(x, row)
  BY <1>1 DEF Inv, TypeOK
<1>12. \A p \in Path : KnownIn(sess[d].incoming[p], db'[d].versions[p])
  BY <1>8, <1>10, <1>11
<1>13. phase \in Committed
  BY DEF Committed
<1> HIDE DEF phase
<1>14. \A e \in Device : SessionMoves(e)
  BY <1>1, <1>12, <1>13, TurnMoves
<1>15. QED
  BY <1>1, <1>9, <1>14, SavedStays DEF Moves

LEMMA CommitRefusedMoves ==
    ASSUME Inv, ReadInv, NEW d \in Device, CommitRefused(d)
    PROVE  Moves
<1>1. /\ UNCHANGED <<mode, saved>> /\ End(d)
      /\ \/ db' = [db EXCEPT ![d] = Opened(d)]
         \/ UNCHANGED db
  BY DEF CommitRefused
<1>2. db[d] \in Index /\ Numbered(db[d])
  BY DEF Inv, TypeOK, ReadInv
<1>3. /\ Numbered(Opened(d)) /\ Advances(db[d], Opened(d))
      /\ Opened(d).epoch = db[d].epoch /\ Opened(d).cursor = db[d].cursor
  BY <1>2, OpenedAdvances, SaveAside DEF Opened
<1>4. \A e \in Device : IndexMoves(e) /\ CursorMoves(e)
  BY <1>1, <1>3, OneIndexMoves, SameIndexesMove
<1>5. QED
  BY <1>1, <1>4, EndMoves, SavedStays DEF Moves

LEMMA RescanMoves ==
    ASSUME Inv, ReadInv, NEW d \in Device, Rescan(d)
    PROVE  Moves
<1>1. /\ UNCHANGED <<mode, saved>> /\ sess[d].phase = "rescan"
      /\ \/ /\ db' = [db EXCEPT ![d] = Save(db[d], ScanRows(db[d], d, disk[d], FALSE))]
            /\ Goto(d, "applying")
         \/ End(d) /\ UNCHANGED db
  BY DEF Rescan
<1>2. sess[d].peer # d /\ "rescan" \in Committed /\ "applying" \in Committed
  BY <1>1 DEF ReadInv, PeerKnown, Committed
<1>3. \A e \in Device : IndexMoves(e) /\ CursorMoves(e)
  BY <1>1, ScannedMoves, SameIndexesMove
<1>4. \A e \in Device : SessionMoves(e)
  BY <1>1, <1>2, TurnMoves, EndMoves
<1>5. QED
  BY <1>1, <1>3, <1>4, SavedStays DEF Moves

LEMMA PublishMoves ==
    ASSUME Inv, ReadInv, NEW d \in Device, NEW p \in Path,
           Publish(d, p) \/ PublishRefused(d, p)
    PROVE  Moves
<1>1. UNCHANGED <<db, mode, saved>>
  BY DEF Publish, PublishRefused
<1>2. \A e \in Device : SessionMoves(e)
  <2>1. CASE PublishRefused(d, p)
    BY <2>1, EndMoves DEF PublishRefused
  <2>2. CASE Publish(d, p)
    <3>1. /\ sess[d].phase \in {"applying", "chosen"}
          /\ sess' = [sess EXCEPT ![d].phase = "published", ![d].path = p]
      BY <2>2 DEF Publish, Applies
    <3>2. /\ sess'[d].phase = "published" /\ sess'[d].peer = sess[d].peer
          /\ sess'[d].seq = sess[d].seq /\ sess'[d].remote = sess[d].remote
          /\ \A e \in Device \ {d} : sess'[e] = sess[e]
      BY <3>1 DEF Inv, TypeOK, Session
    <3>3. \/ sess[d].phase = "applying" /\ sess[d].peer # d
          \/ sess[d].phase = "chosen" /\ sess[d].peer = d
      BY <3>1 DEF ReadInv, PeerKnown
    <3>4. QED
      BY <3>2, <3>3 DEF SessionMoves, PhaseMoves, Committed
  <2>3. QED
    BY <2>1, <2>2
<1>3. QED
  BY <1>1, <1>2, SameIndexesMove, SavedStays DEF Moves

LEMMA AcknowledgeMoves ==
    ASSUME Inv, ReadInv, NEW d \in Device, Acknowledge(d)
    PROVE  Moves
<1> DEFINE p    == sess[d].path
           r    == Row(db[d].versions[p], Target(d, p), db[d].versions[p],
                       p \in db[d].pending, {})
           rows == [q \in Path |-> IF q = p THEN r ELSE Stored(db[d], q)]
<1>1. /\ sess[d].phase = "published" /\ UNCHANGED <<mode, saved>>
      /\ db' = [db EXCEPT ![d] = Save(db[d], rows)]
      /\ IF sess[d].peer = d THEN End(d) ELSE Goto(d, "applying")
  BY DEF Acknowledge, Acknowledged, SaveRow
<1>2. Numbered(db[d]) /\ p \in Path
  BY DEF ReadInv, Inv, TypeOK, Session
<1>3. r.versions = db[d].versions[p]
  BY DEF Row
<1> HIDE DEF r, p
<1>4. Sharp(r)
  BY <1>2, <1>3 DEF Sharp, Numbered
<1>5. \A q \in Path : Sharp(rows[q])
  BY <1>2, <1>4, StoredSharp
<1> HIDE DEF rows
<1>6. \A e \in Device : IndexMoves(e) /\ CursorMoves(e)
  BY <1>1, <1>5, SavedMoves
<1>7. "published" \in Committed /\ "applying" \in Committed
  BY DEF Committed
<1>8. \A e \in Device : SessionMoves(e)
  BY <1>1, <1>7, TurnMoves, EndMoves
<1>9. QED
  BY <1>1, <1>6, <1>8, SavedStays DEF Moves

LEMMA AppliedMoves ==
    ASSUME Inv, ReadInv, NEW d \in Device, Applied(d)
    PROVE  Moves
<1> DEFINE y == [db[d] EXCEPT !.recovering = FALSE]
<1>1. /\ sess[d].phase = "applying" /\ UNCHANGED <<mode, saved>>
      /\ db' = [db EXCEPT ![d] = y] /\ SayApplied(d)
  BY DEF Applied
<1>2. db[d] \in Index /\ Numbered(db[d])
  BY DEF Inv, TypeOK, ReadInv
<1>3. /\ y.versions = db[d].versions /\ y.seqOf = db[d].seqOf /\ y.seq = db[d].seq
      /\ y.epoch = db[d].epoch /\ y.cursor = db[d].cursor
  BY <1>2 DEF Index
<1> HIDE DEF y
<1>4. Numbered(y) /\ Advances(db[d], y)
  BY <1>2, <1>3, AdvancesItself DEF Numbered, Advances
<1>5. \A e \in Device : IndexMoves(e) /\ CursorMoves(e)
  BY <1>1, <1>3, <1>4, OneIndexMoves
<1>6. sess[d].peer # d /\ sess[d].phase \in Committed
  BY <1>1 DEF ReadInv, PeerKnown, Committed
<1>7. QED
  BY <1>1, <1>5, <1>6, SayAppliedMoves, SavedStays DEF Moves

LEMMA AppliedNothingMoves ==
    ASSUME Inv, ReadInv, NEW d \in Device, AppliedNothing(d)
    PROVE  Moves
<1>1. /\ sess[d].phase = "pulled" /\ mode[d] = "SendOnly" /\ UNCHANGED <<db, mode, saved>>
      /\ SayApplied(d)
  BY DEF AppliedNothing, ReadyToCommit
<1>2. QED
  BY <1>1, SayAppliedMoves, SameIndexesMove, SavedStays DEF Moves

LEMMA SetCursorMoves ==
    ASSUME Inv, ReadInv, NEW d \in Device, SetCursor(d)
    PROVE  Moves
<1> DEFINE y == [db[d] EXCEPT !.cursor[sess[d].peer] = sess[d].remote]
<1>1. /\ sess[d].phase = "applied" /\ UNCHANGED <<mode, saved>>
      /\ db' = [db EXCEPT ![d] = y] /\ End(d)
  BY DEF SetCursor, CursorDue
<1>2. db[d] \in Index /\ Numbered(db[d])
  BY DEF Inv, TypeOK, ReadInv
<1>3. /\ y.versions = db[d].versions /\ y.seqOf = db[d].seqOf /\ y.seq = db[d].seq
      /\ y.epoch = db[d].epoch
      /\ y.cursor = [db[d].cursor EXCEPT ![sess[d].peer] = sess[d].remote]
  BY <1>2 DEF Index
<1> HIDE DEF y
<1>4. Numbered(y) /\ Advances(db[d], y)
  BY <1>2, <1>3, AdvancesItself DEF Numbered, Advances
<1>5. \A e \in Device : IndexMoves(e) /\ CursorMoves(e)
  BY <1>1, <1>3, <1>4, OneIndexMoves
<1>6. QED
  BY <1>1, <1>5, EndMoves, SavedStays DEF Moves

LEMMA DisconnectMoves ==
    ASSUME Inv, ReadInv, NEW d \in Device, Disconnect(d)
    PROVE  Moves
BY EndMoves, SameIndexesMove, SavedStays DEF Disconnect, Moves

LEMMA AbortMoves ==
    ASSUME Inv, ReadInv, NEW d \in Device, Abort(d)
    PROVE  Moves
<1>1. UNCHANGED <<db, mode, saved>>
  BY DEF Abort
<1>2. PICK arrives \in BOOLEAN :
          sess' = [e \in Device |->
                     CASE e = d -> NoSession(d)
                       [] e # d /\ Linked(d, e) -> [sess[e] EXCEPT !.done = @ /\ arrives]
                       [] e # d /\ ~Linked(d, e) -> sess[e]]
  BY DEF Abort
<1>3. \A e \in Device : \/ sess'[e] = sess[e]
                        \/ sess'[e] = NoSession(e)
                        \/ sess'[e] = [sess[e] EXCEPT !.done = @ /\ arrives]
  BY <1>2
<1>4. \A e \in Device :
         LET s == [sess[e] EXCEPT !.done = @ /\ arrives]
         IN  /\ s.phase = sess[e].phase /\ s.incoming = sess[e].incoming
             /\ s.peer = sess[e].peer /\ s.seq = sess[e].seq /\ s.remote = sess[e].remote
  BY DEF Inv, TypeOK, Session
<1>5. \A e \in Device : SessionMoves(e)
  <2> TAKE e \in Device
  <2>1. \/ sess'[e] = NoSession(e)
        \/ /\ sess'[e].phase = sess[e].phase /\ sess'[e].incoming = sess[e].incoming
           /\ sess'[e].peer = sess[e].peer /\ sess'[e].seq = sess[e].seq
           /\ sess'[e].remote = sess[e].remote
    BY <1>3, <1>4
  <2>2. QED
    BY <2>1 DEF SessionMoves, PhaseMoves
<1>6. QED
  BY <1>1, <1>5, SameIndexesMove, SavedStays DEF Moves

LEMMA BackupMoves ==
    ASSUME Inv, ReadInv, NEW d \in Device, Backup(d)
    PROVE  Moves
<1>1. /\ saved' = [saved EXCEPT ![d] = {[index |-> db[d], mode |-> mode[d]]}]
      /\ UNCHANGED <<db, mode, sess>>
  BY DEF Backup
<1>2. /\ saved'[d] = {[index |-> db[d], mode |-> mode[d]]} /\ saved[d] = {}
      /\ \A e \in Device \ {d} : saved'[e] = saved[e]
  BY <1>1 DEF Inv, TypeOK, Backup
<1>3. \A e \in Device : SavedOK(e)' /\ ModeMoves(e)
  <2>1. SavedOK(d)'
    BY <1>1, <1>2 DEF ReadInv, SavedOK
  <2>2. \A e \in Device \ {d} : SavedOK(e)'
    BY <1>1, <1>2 DEF ReadInv, SavedOK
  <2>3. QED
    BY <1>1, <2>1, <2>2 DEF ModeMoves
<1>4. QED
  BY <1>1, <1>3, SameIndexesMove, SameSessionsMove DEF Moves

(* An index that goes back, alone or with the folder and the direction. *)
LEMMA RestoredMoves ==
    ASSUME Inv, ReadInv, NEW d \in Device, Idle(d), UNCHANGED sess, NEW s \in saved[d],
           NEW y, y.versions = s.index.versions, y.seqOf = s.index.seqOf,
           y.seq = s.index.seq, y.epoch = db[d].epoch + 1, y.cursor = EmptyIndex.cursor,
           db' = [db EXCEPT ![d] = y]
    PROVE  Replaced(d) /\ \A e \in Device : IndexMoves(e) /\ CursorMoves(e)
<1>1. Numbered(s.index) /\ db[d].epoch \in Nat
  BY FolderAssumption DEF Inv, TypeOK, ReadInv, SavedOK, Index, Epoch
<1>2. \A e \in Device : db'[e] = IF e = d THEN y ELSE db[e]
  BY DEF Inv, TypeOK
<1>3. Numbered(db'[d]) /\ Replaced(d)
  BY <1>1, <1>2 DEF Numbered, Replaced
<1>4. IndexMoves(d) /\ CursorMoves(d)
  BY <1>3 DEF IndexMoves, CursorMoves
<1>5. \A e \in Device \ {d} : db'[e] = db[e] /\ db[e] \in Index /\ Numbered(db[e])
  BY <1>2 DEF Inv, TypeOK, ReadInv
<1>6. \A e \in Device \ {d} : IndexMoves(e) /\ CursorMoves(e)
  BY <1>5, AdvancesItself DEF IndexMoves, CursorMoves
<1>7. QED
  BY <1>3, <1>4, <1>6

LEMMA RestoredParts ==
    ASSUME Inv, NEW d \in Device, NEW s \in saved[d]
    PROVE  /\ Restored(d, s).versions = s.index.versions
           /\ Restored(d, s).seqOf = s.index.seqOf
           /\ Restored(d, s).seq = s.index.seq
           /\ Restored(d, s).epoch = db[d].epoch + 1
           /\ Restored(d, s).cursor = EmptyIndex.cursor
<1>1. s.index \in Index
  BY DEF Inv, TypeOK
<1>2. QED
  BY <1>1 DEF Restored, Index

LEMMA RecoverIndexMoves ==
    ASSUME Inv, ReadInv, NEW d \in Device, RecoverIndex(d)
    PROVE  Moves
<1>1. Idle(d) /\ UNCHANGED <<mode, sess, saved>>
  BY DEF RecoverIndex
<1>2. PICK s \in saved[d] : db' = [db EXCEPT ![d] = Restored(d, s)]
  BY DEF RecoverIndex
<1>3. \A e \in Device : IndexMoves(e) /\ CursorMoves(e)
  BY <1>1, <1>2, RestoredParts, RestoredMoves
<1>4. QED
  BY <1>1, <1>3, SameSessionsMove, SavedStays DEF Moves

LEMMA RecoverDeviceMoves ==
    ASSUME Inv, ReadInv, NEW d \in Device, RecoverDevice(d)
    PROVE  Moves
<1>1. /\ Idle(d) /\ "device" \in Restores[d] /\ db[d].epoch <= MaxRestores
      /\ mode' = [mode EXCEPT ![d] = "ReceiveOnly"] /\ UNCHANGED <<sess, saved>>
  BY DEF RecoverDevice
<1>2. PICK s \in saved[d] :
          db' = [db EXCEPT ![d] = [Restored(d, s) EXCEPT !.recovering = TRUE]]
  BY DEF RecoverDevice
<1> DEFINE y == [Restored(d, s) EXCEPT !.recovering = TRUE]
<1>3. /\ y.versions = s.index.versions /\ y.seqOf = s.index.seqOf
      /\ y.seq = s.index.seq /\ y.epoch = db[d].epoch + 1
      /\ y.cursor = EmptyIndex.cursor
  <2>1. s.index \in Index
    BY DEF Inv, TypeOK
  <2>2. QED
    BY <2>1 DEF Restored, Index
<1>4. db' = [db EXCEPT ![d] = y]
  BY <1>2
<1> HIDE DEF y
<1>5. Replaced(d) /\ \A e \in Device : IndexMoves(e) /\ CursorMoves(e)
  BY <1>1, <1>3, <1>4, RestoredMoves
<1>6. ~NeverRebuilt(d)
  <2>1. db[d].epoch \in 1 .. MaxRestores + 1
    BY DEF Inv, TypeOK, Index, Epoch
  <2>2. MaxRestores # 0
    BY <1>1, <2>1
  <2>3. QED
    BY <1>1, <2>2 DEF NeverRebuilt
<1>7. mode'[d] = "ReceiveOnly" /\ \A e \in Device \ {d} : mode'[e] = mode[e]
  BY <1>1 DEF Inv, TypeOK
<1>8. \A e \in Device : SavedOK(e)' /\ ModeMoves(e)
  <2>1. SavedOK(d)'
    BY <1>1, <1>7 DEF ReadInv, SavedOK
  <2>2. \A e \in Device \ {d} : SavedOK(e)' /\ ModeMoves(e)
    BY <1>1, <1>7 DEF ReadInv, SavedOK, ModeMoves
  <2>3. ModeMoves(d)
    BY <1>1, <1>5, <1>6 DEF ModeMoves
  <2>4. QED
    BY <2>1, <2>2, <2>3
<1>9. QED
  BY <1>1, <1>5, <1>8, SameSessionsMove DEF Moves

LEMMA ActivateMoves ==
    ASSUME Inv, ReadInv, NEW d \in Device, NEW offline \in BOOLEAN, Activate(d, offline)
    PROVE  Moves
<1> DEFINE y == [db[d] EXCEPT !.recovering = @ /\ ~offline]
<1>1. /\ Idle(d) /\ "device" \in Restores[d] /\ db[d].epoch > 1
      /\ db' = [db EXCEPT ![d].recovering = @ /\ ~offline]
      /\ UNCHANGED <<sess, saved>>
  BY DEF Activate
<1>2. PICK s \in saved[d] : mode' = [mode EXCEPT ![d] = s.mode]
  BY DEF Activate
<1>3. db[d] \in Index /\ Numbered(db[d])
  BY DEF Inv, TypeOK, ReadInv
<1>4. /\ y.versions = db[d].versions /\ y.seqOf = db[d].seqOf /\ y.seq = db[d].seq
      /\ y.epoch = db[d].epoch /\ y.cursor = db[d].cursor
  BY <1>3 DEF Index
<1>5. db' = [db EXCEPT ![d] = y]
  BY <1>1
<1> HIDE DEF y
<1>6. Numbered(y) /\ Advances(db[d], y)
  BY <1>3, <1>4, AdvancesItself DEF Numbered, Advances
<1>7. \A e \in Device : IndexMoves(e) /\ CursorMoves(e)
  BY <1>4, <1>5, <1>6, OneIndexMoves
<1>8. ~NeverRebuilt(d)
  <2>1. db[d].epoch \in 1 .. MaxRestores + 1
    BY DEF Inv, TypeOK, Index, Epoch
  <2>2. MaxRestores # 0
    BY <1>1, <2>1
  <2>3. QED
    BY <1>1, <2>2 DEF NeverRebuilt
<1>9. mode'[d] = InitialMode[d] /\ \A e \in Device \ {d} : mode'[e] = mode[e]
  BY <1>2 DEF Inv, TypeOK, ReadInv, SavedOK
<1>10. \A e \in Device : SavedOK(e)' /\ ModeMoves(e)
  <2>1. SavedOK(d)'
    BY <1>1, <1>9 DEF ReadInv, SavedOK
  <2>2. \A e \in Device \ {d} : SavedOK(e)' /\ ModeMoves(e)
    BY <1>1, <1>9 DEF ReadInv, SavedOK, ModeMoves
  <2>3. mode'[d] = mode[d] \/ mode[d] # "SendOnly"
    BY <1>9 DEF ReadInv, SavedOK
  <2>4. ModeMoves(d)
    BY <1>1, <1>8, <2>3 DEF ModeMoves
  <2>5. QED
    BY <2>1, <2>2, <2>4
<1>11. QED
  BY <1>1, <1>7, <1>10, SameSessionsMove DEF Moves

LEMMA StepMoves ==
    ASSUME Inv, Good, ReadInv, NEW d \in Device, Step(d)
    PROVE  Moves
BY StageMoves, PullMoves, PullDoneMoves, CommitMoves, CommitRefusedMoves, RescanMoves,
   PublishMoves, AcknowledgeMoves, AppliedMoves, AppliedNothingMoves, SetCursorMoves,
   DisconnectMoves DEF Step

LEMMA CommandMoves ==
    ASSUME Inv, Good, ReadInv, NEW d \in Device, Command(d)
    PROVE  Moves
BY ScanMoves, ApproveDeletionMoves, ChooseScanMoves, ChooseCommitMoves, BackupMoves,
   RecoverIndexMoves, RecoverDeviceMoves, ActivateMoves DEF Command

LEMMA NextMoves ==
    ASSUME Inv, ReadInv, [Next]_vars
    PROVE  Moves
<1>0. Good
  BY NextGood
<1>1. CASE \E d \in Device : Step(d)
  BY <1>0, <1>1, StepMoves
<1>2. CASE \E d \in Device : Command(d)
  BY <1>0, <1>2, CommandMoves
<1>3. CASE \E d \in Device : Abort(d)
  BY <1>3, AbortMoves
<1>4. CASE \E c, s \in Device : Connect(c, s)
  BY <1>4, ConnectMoves
<1>5. CASE \E d \in Device, p \in Path, content \in Payload : AppWrite(d, p, content)
  BY <1>5, AppWriteMoves
<1>6. CASE UNCHANGED vars
  <2>1. UNCHANGED <<db, mode, sess, saved>>
    BY <1>6 DEF vars
  <2>2. QED
    BY <2>1, SameIndexesMove, SameSessionsMove, SavedStays DEF Moves
<1>7. QED
  BY <1>1, <1>2, <1>3, <1>4, <1>5, <1>6 DEF Next

LEMMA NextReads ==
    ASSUME Inv, ReadInv, [Next]_vars
    PROVE  ReadInv'
BY NextGood, NextMoves, StillRead

LEMMA InitReads == Init => ReadInv
<1> SUFFICES ASSUME Init PROVE ReadInv
  OBVIOUS
<1>1. \A d \in Device : db[d] = EmptyIndex /\ sess[d] = NoSession(d) /\ saved[d] = {}
  BY DEF Init
<1>2. Numbered(EmptyIndex)
  BY DEF Numbered, EmptyIndex
<1>3. EmptyIndex \in Index
  BY EmptyIndexOK
<1>4. \A d, e \in Device : db[d].cursor[e] = [epoch |-> 0, seq |-> 0]
  BY <1>1 DEF EmptyIndex
<1>5. \A d \in Device : /\ sess[d].phase = "idle" /\ sess[d].peer = d
                        /\ sess[d].remote = [epoch |-> 0, seq |-> 0]
  <2> TAKE d \in Device
  <2>1. sess[d] = NoSession(d)
    BY <1>1
  <2>2. /\ NoSession(d).phase = "idle" /\ NoSession(d).peer = d
        /\ NoSession(d).remote = [epoch |-> 0, seq |-> 0]
    BY DEF NoSession
  <2>3. QED
    BY <2>1, <2>2
<1>6. \A d \in Device : CursorsRead(d)
  BY <1>1, <1>3, <1>4, NothingWithin DEF CursorsRead
<1>7. \A d \in Device : SessionReads(d) /\ PeerKnown(d)
  <2> TAKE d \in Device
  <2>1. Within(db[d], sess[d].remote)
    BY <1>1, <1>3, <1>5, NothingWithin
  <2>2. sess[d].phase \notin Staging \cup Committed
    BY <1>5 DEF Staging, Committed
  <2>3. SessionReads(d)
    BY <1>5, <2>1, <2>2 DEF SessionReads
  <2>4. PeerKnown(d)
    BY <1>5 DEF PeerKnown
  <2>5. QED
    BY <2>3, <2>4
<1>8. \A d, e \in Device : EndsAgree(d, e) /\ SinceBehind(d, e)
  BY <1>5 DEF EndsAgree, SinceBehind, Linked
<1>9. \A d \in Device : SavedOK(d)
  BY <1>1 DEF SavedOK, Init
<1>10. QED
  BY <1>1, <1>2, <1>6, <1>7, <1>8, <1>9 DEF ReadInv

LEMMA ReadAlways == Spec => []ReadInv
<1>1. Init => ReadInv
  BY InitReads
<1>2. Inv /\ ReadInv /\ [Next]_vars => ReadInv'
  BY NextReads
<1>3. QED
  BY <1>1, <1>2, Invariance, PTL DEF Spec

(* A device that holds a cursor at a peer's index has every row up to it, or
   what replaced it: whichever sessions were cut short, whatever was recovered
   from a checkpoint of an index, and whichever other disks were put back from a
   backup, the holder's own among them, what a cursor skips is known
   (Share::acknowledge moves it after both have applied, and Hello's sequence
   bounds what was sent). *)
THEOREM CursorsAtKeptDisks ==
    ASSUME NEW d \in Device, NEW e \in Device, NeverRebuilt(e)
    PROVE  Spec => []CursorSoundAt(d, e)
<1>1. ReadInv => CursorSoundAt(d, e)
  BY DEF ReadInv, CursorsRead, Covers, CursorSoundAt
<1>2. QED
  BY <1>1, ReadAlways, PTL

(* No disk is put back from a backup: an index alone may be. *)
NoneRebuilt == \A d \in Device : NeverRebuilt(d)

(* So every cursor is sound where no disk is put back (Share::acknowledge). *)
THEOREM CursorsTrue ==
    ASSUME NoneRebuilt
    PROVE  Spec => []CursorSound
<1>1. ReadInv => CursorSound
  BY DEF NoneRebuilt, ReadInv, CursorsRead, Covers, CursorSoundAt, CursorSound
<1>2. QED
  BY <1>1, ReadAlways, PTL

LEMMA KnownBothWays ==
    ASSUME NEW H \in SUBSET Revision, NEW K \in SUBSET Revision,
           KnownIn(H, K), KnownIn(K, H),
           \A h, k \in H : ~Before(h.clock, k.clock)
    PROVE  H \subseteq K
<1> SUFFICES ASSUME NEW h \in H PROVE h \in K
  OBVIOUS
<1>1. PICK k \in K : h = k \/ Before(h.clock, k.clock)
  BY DEF KnownIn
<1>2. PICK l \in H : k = l \/ Before(k.clock, l.clock)
  BY DEF KnownIn
<1>3. h.clock \in Clock /\ k.clock \in Clock /\ l.clock \in Clock
  BY DEF Revision
<1>4. ~Before(h.clock, l.clock)
  OBVIOUS
<1>5. QED
  BY <1>1, <1>2, <1>3, <1>4, BeforeTransitive

(* No session is refused because the peer's cursor is past the sequence that
   this side said in its Hello ("peer cursor exceeds local sequence; index
   rollback requires a new epoch", send_metadata in sync.rs): an index that goes
   back, in a recovery or with a rebuilt disk, always has taken a new epoch. *)
CursorsWithinHello ==
    \A d, e \in Device : Linked(d, e) => Since(e, d) <= sess[e].seq

THEOREM CursorsNeverExceed == Spec => []CursorsWithinHello
<1>1. ReadInv => CursorsWithinHello
  BY DEF ReadInv, SinceBehind, CursorsWithinHello
<1>2. QED
  BY <1>1, ReadAlways, PTL

(* Two devices whose cursors are at the ends of each other's indexes. *)
LEMMA SettledPair ==
    ASSUME Inv, ReadInv, NEW d \in Device, NEW e \in Device,
           NeverRebuilt(d), NeverRebuilt(e)
    PROVE  SettledAgreeAt(d, e)
<1> SUFFICES ASSUME d # e,
                    mode[d] = "Bidirectional", mode[e] = "Bidirectional",
                    db[d].cursor[e] = [epoch |-> db[e].epoch, seq |-> db[e].seq],
                    db[e].cursor[d] = [epoch |-> db[d].epoch, seq |-> db[d].seq]
             PROVE  db[d].versions = db[e].versions
  BY DEF SettledAgreeAt
<1>1. Exports(e, d) /\ Exports(d, e)
  BY DEF Exports
<1>2. /\ Covers(db[e], db[d].cursor[e], db[d].versions)
      /\ Covers(db[d], db[e].cursor[d], db[e].versions)
  BY <1>1 DEF ReadInv, CursorsRead
<1>3. \A p \in Path : /\ db[e].seqOf[p] <= db[e].seq /\ db[d].seqOf[p] <= db[d].seq
                      /\ \A h, k \in db[e].versions[p] : ~Before(h.clock, k.clock)
                      /\ \A h, k \in db[d].versions[p] : ~Before(h.clock, k.clock)
  BY DEF ReadInv, Numbered
<1>4. \A p \in Path : /\ KnownIn(db[e].versions[p], db[d].versions[p])
                      /\ KnownIn(db[d].versions[p], db[e].versions[p])
  BY <1>2, <1>3 DEF Covers
<1>5. db[d].versions \in [Path -> SUBSET Revision] /\ db[e].versions \in [Path -> SUBSET Revision]
  BY ReadTypes
<1>6. \A p \in Path : db[d].versions[p] = db[e].versions[p]
  <2> SUFFICES ASSUME NEW p \in Path PROVE db[d].versions[p] = db[e].versions[p]
    OBVIOUS
  <2>1. db[d].versions[p] \subseteq db[e].versions[p]
    BY <1>3, <1>4, <1>5, KnownBothWays
  <2>2. db[e].versions[p] \subseteq db[d].versions[p]
    BY <1>3, <1>4, <1>5, KnownBothWays
  <2>3. QED
    BY <2>1, <2>2
<1>7. QED
  BY <1>5, <1>6

(* They have the same heads on every path: a session that says "nothing to send"
   is right, whatever was put back from a backup elsewhere (Share::records). *)
THEOREM KeptDisksAgree ==
    ASSUME NEW d \in Device, NEW e \in Device, NeverRebuilt(d), NeverRebuilt(e)
    PROVE  Spec => []SettledAgreeAt(d, e)
<1>1. Inv /\ ReadInv => SettledAgreeAt(d, e)
  BY SettledPair
<1>2. QED
  BY <1>1, Invariance, ReadAlways, PTL

(* So all that are settled agree where no disk is put back (Share::records). *)
THEOREM SettledAgree ==
    ASSUME NoneRebuilt
    PROVE  Spec => []SettledDevicesAgree
<1>1. Inv /\ ReadInv => SettledDevicesAgree
  BY SettledPair DEF NoneRebuilt, SettledDevicesAgree
<1>2. QED
  BY <1>1, Invariance, ReadAlways, PTL

=============================================================================
