------------------------------ MODULE FolderSync ------------------------------
(***************************************************************************)
(* Shared folders on several devices: the index each device keeps          *)
(* (src/share.rs), the commands a user gives it, the synchronization       *)
(* session between two devices (src/sync.rs), and the replacement of an    *)
(* index by an older checkpoint (src/share/backup.rs).                     *)
(*                                                                         *)
(* Each device has a folder on disk that applications write at any moment, *)
(* an index in SQLite, and content objects.  Share::open holds index.lock  *)
(* for a command or for a whole session, so one device does one thing at a *)
(* time; only applications interleave with it, and the other device.       *)
(*                                                                         *)
(* Abstractions.  Root::apply is one step that either publishes or refuses *)
(* (its own steps and crashes are another module's subject).  A session's  *)
(* two Share::open run in one action: each only touches its own device, so *)
(* an edit in between is an edit before or after.  Metadata of a peer is   *)
(* read from its index: the peer cannot change it before both have read.   *)
(* Grants, and the revocation that can stop a session at any check, appear *)
(* as Abort.                                                               *)
(***************************************************************************)
EXTENDS Causality

CONSTANTS
    Device,
    Path,          \* paths are numbered in the order the index sorts them
    InitialMode,   \* [Device -> Mode]: the mode given at share-create
    Hub,           \* the devices that accept connections
    Payload,       \* what applications write
    MaxEdits,      \* bound: edits by applications
    MaxAborts,     \* bound: sessions or commands cut short
    MaxChoices,    \* bound: conflict choices
    MaxRestores,   \* bound: index replacements, per device
    Restores,      \* the kind of restore tried on each device, if any
    AtomicChoose   \* nothing disturbs share-choose between its steps

ASSUME FolderAssumption ==
    /\ IsFiniteSet(Path) /\ Path # {}
    /\ Path \subseteq Nat
    /\ InitialMode \in [Device -> Mode]
    /\ Hub \subseteq Device
    /\ Payload \subseteq Content
    /\ MaxEdits \in Nat /\ MaxAborts \in Nat
    /\ MaxChoices \in Nat /\ MaxRestores \in Nat
    /\ Restores \in [Device -> {{}, {"index"}, {"device"}}]
    /\ AtomicChoose \in BOOLEAN

Epoch == 1 .. MaxRestores + 1    \* 0 is "no epoch seen"

ASSUME ReplicaAssumption == Device \X Epoch \subseteq Replica

VARIABLES
    disk,      \* the visible folder: [Device -> [Path -> Content]]
    db,        \* the SQLite index
    objects,   \* content objects cached beside the index
    mode,      \* the direction in config.json
    sess,      \* the command or session that holds index.lock
    saved,     \* the checkpoints taken by share-backup or device-backup
    born,      \* history variable: every revision made, with what it had seen
    budget     \* what is left of the bounds

vars == <<disk, db, objects, mode, sess, saved, born, budget>>

-----------------------------------------------------------------------------
(* The index *)

Cursor == [epoch : 0 .. MaxRestores + 1, seq : Nat]

Index ==
    [versions     : [Path -> SUBSET Revision],   \* {} : the path has no row
     materialized : [Path -> Content],
     observed     : [Path -> SUBSET Revision],
     seqOf        : [Path -> Nat],
     seq          : Nat,
     history      : [Path -> SUBSET Revision],
     pending      : SUBSET Path,
     cursor       : [Device -> Cursor],
     epoch        : Epoch,
     recovering   : BOOLEAN]

EmptyIndex ==
    [versions     |-> [p \in Path |-> {}],
     materialized |-> [p \in Path |-> Deleted],
     observed     |-> [p \in Path |-> {}],
     seqOf        |-> [p \in Path |-> 0],
     seq          |-> 0,
     history      |-> [p \in Path |-> {}],
     pending      |-> {},
     cursor       |-> [e \in Device |-> [epoch |-> 0, seq |-> 0]],
     epoch        |-> 1,
     recovering   |-> FALSE]

ReplicaOf(d) == <<d, db[d].epoch>>

(* The row a step writes for a path: its heads, the content on disk it is
   known to have, what the user is known to have seen, whether its deletion
   awaits approval, and the revisions this device made for it. *)
Row(heads, content, seen, held, made) ==
    [versions |-> heads, materialized |-> content, observed |-> seen,
     pending |-> held, made |-> made]

Stored(x, p) ==
    Row(x.versions[p], x.materialized[p], x.observed[p], p \in x.pending, {})

(* Mutant: the first row of a transaction reuses the last number given. *)
NumberLow(x, changed, p) == x.seq + Cardinality({q \in changed : q < p})

(* The sequence number a transaction gives to a row whose heads it changes. *)
Number(x, changed, p) == x.seq + Cardinality({q \in changed : q <= p})

(* One transaction: the rows it saves, the revisions it keeps in history, and
   one sequence number for each row whose heads changed. *)
Write(x, row, kept) ==
    LET changed == {p \in Path : row[p].versions # x.versions[p]} IN
    [x EXCEPT
        !.versions     = [p \in Path |-> row[p].versions],
        !.materialized = [p \in Path |-> row[p].materialized],
        !.observed     = [p \in Path |-> row[p].observed],
        !.history      = [p \in Path |-> @[p] \cup kept[p]],
        !.pending      = {p \in Path : row[p].pending},
        !.seq          = @ + Cardinality(changed),
        !.seqOf        = [p \in Path |->
                            IF p \in changed THEN Number(x, changed, p) ELSE @[p]]]

(* Mutant: only the heads a row loses are recorded. *)
SaveSuperseded(x, row) == Write(x, row, x.versions)

(* Superseded heads are kept before the register is replaced. *)
Save(x, row) ==
    Write(x, row, [p \in Path |-> x.versions[p] \cup row[p].versions])

(* The row of one path replaced, every other one as it is. *)
SaveRow(x, p, r) ==
    Save(x, [q \in Path |-> IF q = p THEN r ELSE Stored(x, q)])

-----------------------------------------------------------------------------
(* Scanning the folder *)

(* The revision a device makes for a path, and the heads it was made from. *)
Made(x, d, heads, content) ==
    [rev   |-> CHOOSE e \in Edit(heads, <<d, x.epoch>>, content) : TRUE,
     basis |-> heads]

(* The disk holds what a head says although the index has not recorded its
   application: a publication whose acknowledgement was lost, or bytes that
   arrived by other means. *)
AlreadyKnown(x, p, content) ==
    /\ x.versions[p] # x.observed[p]
    /\ IF content = Deleted
       THEN Selected(x.versions[p]).content = Deleted
       ELSE \E h \in x.versions[p] : h.content = content

Adopted(x, p, content) ==
    Row(x.versions[p],
        content,
        IF Selected(x.versions[p]).content = content
        THEN x.versions[p] ELSE x.observed[p],
        FALSE, {})

(* Mutant: the row's `observed' is not moved to the edit just made. *)
EditedUnobserved(x, d, p, content) ==
    LET made == Made(x, d, x.observed[p], content) IN
    Row(Join(x.versions[p], {made.rev}), content, x.observed[p], FALSE, {made})

(* A change the user made: it has seen what was observed, not what has only
   been received. *)
Edited(x, d, p, content) ==
    LET made == Made(x, d, x.observed[p], content) IN
    Row(Join(x.versions[p], {made.rev}), content, {made.rev}, FALSE, {made})

(* Mutant: an absence is an edit like any other. *)
IsEditUnapproved(x, p, content, approve) ==
    ~AlreadyKnown(x, p, content) /\ x.materialized[p] # content

(* Whether the scan of a path records an edit. *)
IsEdit(x, p, content, approve) ==
    /\ ~AlreadyKnown(x, p, content)
    /\ x.materialized[p] # content
    /\ content = Deleted => approve

ScanRow(x, d, p, content, approve) ==
    CASE AlreadyKnown(x, p, content) ->
            Adopted(x, p, content)
      [] IsEdit(x, p, content, approve) ->
            Edited(x, d, p, content)
      [] content # Deleted /\ ~AlreadyKnown(x, p, content)
            /\ x.materialized[p] = content ->
            [Stored(x, p) EXCEPT !.pending = FALSE]
      [] content = Deleted /\ ~AlreadyKnown(x, p, content)
            /\ x.materialized[p] = Deleted ->
            Stored(x, p)
      [] content = Deleted /\ ~AlreadyKnown(x, p, content)
            /\ x.materialized[p] # Deleted /\ ~approve ->
            [Stored(x, p) EXCEPT !.pending = TRUE]

(* The transaction commits only if every edit can be made and joined. *)
CanScan(x, d, folder, approve) ==
    \A p \in Path : IsEdit(x, p, folder[p], approve) =>
        /\ CanEdit(x.observed[p], <<d, x.epoch>>)
        /\ CanJoin(x.versions[p], Edit(x.observed[p], <<d, x.epoch>>, folder[p]))

ScanRows(x, d, folder, approve) ==
    [p \in Path |-> ScanRow(x, d, p, folder[p], approve)]

Captured(d) == {disk[d][p] : p \in Path} \cap File

(* History variable: a revision, its maker, and every revision in its past. *)
Births(d, x, row) ==
    [p \in Path |->
        {[rev  |-> m.rev,
          by   |-> <<d, x.epoch>>,
          past |-> m.basis \cup UNION {b.past : b \in {k \in born[p] : k.rev \in m.basis}}]
         : m \in row[p].made}]

Record(d, x, row) ==
    born' = [p \in Path |-> born[p] \cup Births(d, x, row)[p]]

-----------------------------------------------------------------------------
(* Sessions and commands: what holds a device's index.lock *)

Phase == {"idle", "choosing", "chosen",
          "hello", "pull", "pulled", "rescan", "applying", "published", "applied"}

Session ==
    [phase    : Phase,
     peer     : Device,              \* the device itself: a local command
     client   : BOOLEAN,
     seq      : Nat,                 \* own sequence in the Hello sent
     remote   : Cursor,              \* epoch and sequence of the peer's Hello
     incoming : [Path -> SUBSET Revision],
     needed   : SUBSET File,
     released : BOOLEAN,             \* the peer has pulled all it needs
     done     : BOOLEAN,             \* the peer has said "applied"
     path     : Path]                \* the path being applied

NoSession(d) ==
    [phase |-> "idle", peer |-> d, client |-> FALSE, seq |-> 0,
     remote |-> [epoch |-> 0, seq |-> 0], incoming |-> [p \in Path |-> {}],
     needed |-> {}, released |-> FALSE, done |-> FALSE,
     path |-> CHOOSE p \in Path : TRUE]

Idle(d) == sess[d].phase = "idle"

Linked(d, e) == d # e /\ sess[d].peer = e /\ sess[e].peer = d

End(d) == sess' = [sess EXCEPT ![d] = NoSession(d)]

Goto(d, phase) == sess' = [sess EXCEPT ![d].phase = phase]

(* share-choose is between its scan and the acknowledgement of its choice. *)
Choosing(d) ==
    \/ sess[d].phase \in {"choosing", "chosen"}
    \/ sess[d].phase = "published" /\ sess[d].peer = d

(* With AtomicChoose no application writes and no crash hits a device while it
   is choosing. *)
Undisturbed(d) == AtomicChoose => ~Choosing(d)

Spend(what) ==
    /\ budget[what] > 0
    /\ budget' = [budget EXCEPT ![what] = @ - 1]

Init ==
    /\ disk = [d \in Device |-> [p \in Path |-> Deleted]]
    /\ db = [d \in Device |-> EmptyIndex]
    /\ objects = [d \in Device |-> {}]
    /\ mode = InitialMode
    /\ sess = [d \in Device |-> NoSession(d)]
    /\ saved = [d \in Device |-> {}]
    /\ born = [p \in Path |-> {}]
    /\ budget = [edits |-> MaxEdits, aborts |-> MaxAborts, choices |-> MaxChoices]

-----------------------------------------------------------------------------
(* Applications and local commands *)

(* An application creates, replaces or removes a file, at any moment. *)
AppWrite(d, p, content) ==
    /\ Spend("edits")
    /\ Undisturbed(d)
    /\ content # disk[d][p]
    /\ disk' = [disk EXCEPT ![d][p] = content]
    /\ UNCHANGED <<db, objects, mode, sess, saved, born>>

(* share-scan, with or without --approve-deletes.  Objects are captured even
   when the transaction is refused. *)
Scan(d, approve) ==
    /\ Idle(d)
    /\ ~db[d].recovering
    /\ objects' = [objects EXCEPT ![d] = @ \cup Captured(d)]
    /\ LET row == ScanRows(db[d], d, disk[d], approve) IN
       IF CanScan(db[d], d, disk[d], approve)
       THEN db' = [db EXCEPT ![d] = Save(@, row)] /\ Record(d, db[d], row)
       ELSE UNCHANGED <<db, born>>
    /\ UNCHANGED <<disk, mode, sess, saved, budget>>

(* share-approve-deletion: scan, then turn one reviewed absence into a
   tombstone made from what the user had seen. *)
ApproveDeletion(d, p) ==
    /\ Idle(d)
    /\ ~db[d].recovering
    /\ CanScan(db[d], d, disk[d], FALSE)
    /\ LET row     == ScanRows(db[d], d, disk[d], FALSE)
           scanned == Save(db[d], row)
           deleted == Edited(scanned, d, p, Deleted)
       IN  /\ p \in scanned.pending
           /\ scanned.versions[p] = db[d].versions[p]
           /\ disk[d][p] = Deleted
           /\ CanEdit(scanned.observed[p], ReplicaOf(d))
           /\ CanJoin(scanned.versions[p],
                      Edit(scanned.observed[p], ReplicaOf(d), Deleted))
           /\ db' = [db EXCEPT ![d] = SaveRow(scanned, p, deleted)]
           /\ Record(d, db[d], [row EXCEPT ![p].made = deleted.made])
    /\ objects' = [objects EXCEPT ![d] = @ \cup Captured(d)]
    /\ UNCHANGED <<disk, mode, sess, saved, budget>>

(* share-choose and share-restore, first step: the scan. *)
ChooseScan(d) ==
    /\ Idle(d)
    /\ Spend("choices")
    /\ ~db[d].recovering
    /\ CanScan(db[d], d, disk[d], FALSE)
    /\ LET row == ScanRows(db[d], d, disk[d], FALSE) IN
       /\ \E p \in Path :
             row[p].versions # {} /\ CanEdit(row[p].versions, ReplicaOf(d))
       /\ db' = [db EXCEPT ![d] = Save(@, row)]
       /\ Record(d, db[d], row)
    /\ objects' = [objects EXCEPT ![d] = @ \cup Captured(d)]
    /\ Goto(d, "choosing")
    /\ UNCHANGED <<disk, mode, saved>>

(* Second step: the transaction that installs the resolution.  The bytes on
   disk are read again and taken as materialized; `observed' stays. *)
ChooseCommit(d, p, chosen) ==
    /\ sess[d].phase = "choosing"
    /\ chosen \in db[d].versions[p] \cup db[d].history[p]
    /\ chosen.content \in File => chosen.content \in objects[d]
    /\ CanEdit(db[d].versions[p], ReplicaOf(d))
    /\ LET made == Made(db[d], d, db[d].versions[p], chosen.content)
           row  == Row({made.rev}, disk[d][p], db[d].observed[p], FALSE, {made})
       IN  /\ db' = [db EXCEPT ![d] = SaveRow(@, p, row)]
           /\ Record(d, db[d], [q \in Path |-> IF q = p THEN row ELSE Stored(db[d], q)])
    /\ sess' = [sess EXCEPT ![d].phase = "chosen", ![d].path = p]
    /\ UNCHANGED <<disk, objects, mode, saved, budget>>

-----------------------------------------------------------------------------
(* The synchronization session *)

(* Mutant: the sender's direction is forgotten. *)
ExportsFromAnyone(e, d) == mode[d] # "SendOnly"

(* Whether e's metadata and content may go to d: the direction policies. *)
Exports(e, d) == mode[e] # "ReceiveOnly" /\ mode[d] # "SendOnly"

CanOpen(d) == db[d].recovering \/ CanScan(db[d], d, disk[d], FALSE)

(* Mutant: a restored index is scanned before it has joined. *)
OpenRowsAlways(d) == ScanRows(db[d], d, disk[d], FALSE)

OpenRows(d) ==
    IF db[d].recovering
    THEN [p \in Path |-> Stored(db[d], p)]
    ELSE ScanRows(db[d], d, disk[d], FALSE)

Opened(d) == Save(db[d], OpenRows(d))

HelloSeq(d) == Opened(d).seq

(* Both sides open their share, scan it unless its index was just restored,
   and exchange Hello. *)
Connect(c, s) ==
    LET at(d) == Opened(d)
        hello(d, e, client) ==
            [NoSession(d) EXCEPT
                !.phase = "hello", !.peer = e, !.client = client,
                !.seq = HelloSeq(d),
                !.remote = [epoch |-> db[e].epoch, seq |-> HelloSeq(e)]]
    IN
    /\ c # s /\ s \in Hub
    /\ Idle(c) /\ Idle(s)
    /\ CanOpen(c) /\ CanOpen(s)
    /\ db[c].recovering => mode[s] # "ReceiveOnly"
    /\ db[s].recovering => mode[c] # "ReceiveOnly"
    /\ db' = [db EXCEPT ![c] = at(c), ![s] = at(s)]
    /\ born' = [p \in Path |->
                  born[p] \cup Births(c, db[c], OpenRows(c))[p]
                          \cup Births(s, db[s], OpenRows(s))[p]]
    /\ objects' = [d \in Device |->
                     IF d \in {c, s} /\ ~db[d].recovering
                     THEN objects[d] \cup Captured(d) ELSE objects[d]]
    /\ sess' = [sess EXCEPT ![c] = hello(c, s, TRUE), ![s] = hello(s, c, FALSE)]
    /\ UNCHANGED <<disk, mode, saved, budget>>

(* Mutant: a cursor is used whatever epoch it was recorded for. *)
SinceAnyEpoch(e, d) == db[d].cursor[e].seq

(* The sequence after which e sends its records to d. *)
Since(e, d) ==
    IF db[d].cursor[e].epoch = db[e].epoch THEN db[d].cursor[e].seq ELSE 0

(* The records e sends: those whose heads changed since the cursor. *)
Records(e, d) ==
    [p \in Path |->
        IF Exports(e, d) /\ Since(e, d) < db[e].seqOf[p] /\ db[e].seqOf[p] <= sess[e].seq
        THEN db[e].versions[p] ELSE {}]

(* Metadata from the peer is staged and the objects it lacks are listed.  The
   server reads first, then sends; the client reads after that.  A sender whose
   sequence is behind the peer's cursor, or a receiver of revisions that cannot
   be joined, ends its session. *)
Stage(d) ==
    LET e == sess[d].peer
        incoming == Records(e, d)
    IN
    /\ sess[d].phase = "hello"
    /\ Linked(d, e)
    /\ sess[d].client => sess[e].phase # "hello"
    /\ sess' =
         IF Exports(e, d) /\ Since(e, d) > sess[e].seq
         THEN [sess EXCEPT ![e] = NoSession(e)]
         ELSE IF \E p \in Path : ~CanJoin({}, incoming[p])
         THEN [sess EXCEPT ![d] = NoSession(d)]
         ELSE [sess EXCEPT
                ![d].phase = "pull",
                ![d].incoming = incoming,
                ![d].needed = {h.content : h \in UNION {incoming[p] : p \in Path}}
                                \cap (File \ objects[d])]
    /\ UNCHANGED <<disk, db, objects, mode, saved, born, budget>>

(* One content object arrives, or the peer refuses and hangs up.  The client
   serves the server's requests before it sends its own. *)
Pull(d, f) ==
    LET e == sess[d].peer IN
    /\ sess[d].phase = "pull"
    /\ Linked(d, e)
    /\ IF sess[d].client
       THEN sess[d].released /\ sess[e].phase = "pulled"
       ELSE sess[e].phase = "pull"
    /\ f \in sess[d].needed
    /\ IF mode[e] # "ReceiveOnly" /\ f \in objects[e]
       THEN /\ objects' = [objects EXCEPT ![d] = @ \cup {f}]
            /\ sess' = [sess EXCEPT ![d].needed = @ \ {f}]
       ELSE End(e) /\ UNCHANGED objects
    /\ UNCHANGED <<disk, db, mode, saved, born, budget>>

(* Mutant: the objects requested last are not waited for. *)
NothingMissingSkipped(d) == TRUE

NothingMissing(d) == sess[d].needed = {}

(* Nothing is missing; an empty request tells the peer so. *)
PullDone(d) ==
    LET e == sess[d].peer IN
    /\ sess[d].phase = "pull"
    /\ NothingMissing(d)
    /\ sess[d].client => sess[d].released
    /\ sess' = [k \in Device |->
                  CASE k = d                      -> [sess[k] EXCEPT !.phase = "pulled"]
                    [] k = e /\ Linked(d, e)      -> [sess[k] EXCEPT !.released = TRUE]
                    [] k # d /\ ~(k = e /\ Linked(d, e)) -> sess[k]]
    /\ UNCHANGED <<disk, db, objects, mode, saved, born, budget>>

ReadyToCommit(d) ==
    /\ sess[d].phase = "pulled"
    /\ ~sess[d].client => sess[d].released

(* Mutant: received heads replace the local ones. *)
ReplaceRow(x, p, heads) ==
    IF heads = {} THEN Stored(x, p)
    ELSE [Stored(x, p) EXCEPT !.versions = heads]

(* What the peer sent joins what the device has; nothing is applied yet. *)
JoinRow(x, p, heads) ==
    IF heads = {} THEN Stored(x, p)
    ELSE [Stored(x, p) EXCEPT !.versions = Join(@, heads)]

CanJoinAll(d) ==
    \E x \in {Opened(d)} : \A p \in Path :
        sess[d].incoming[p] # {} => CanJoin(x.versions[p], sess[d].incoming[p])

(* commit_incoming: changes made during the transfer are scanned first, then
   every staged record is joined.  A restored index joins before it scans. *)
Commit(d) ==
    /\ ReadyToCommit(d)
    /\ mode[d] # "SendOnly"
    /\ CanOpen(d)
    /\ CanJoinAll(d)
    /\ \E x \in {Opened(d)} :
       \E row \in {[p \in Path |-> JoinRow(x, p, sess[d].incoming[p])]} :
          db' = [db EXCEPT ![d] = Save(x, row)]
    /\ Record(d, db[d], OpenRows(d))
    /\ objects' = [objects EXCEPT
                     ![d] = IF db[d].recovering THEN @ ELSE @ \cup Captured(d)]
    /\ Goto(d, IF db[d].recovering THEN "rescan" ELSE "applying")
    /\ UNCHANGED <<disk, mode, saved, budget>>

(* The scan or the join is refused: the session ends, and a scan that was
   committed stays. *)
CommitRefused(d) ==
    /\ ReadyToCommit(d)
    /\ mode[d] # "SendOnly"
    /\ ~(CanOpen(d) /\ CanJoinAll(d))
    /\ objects' = [objects EXCEPT
                     ![d] = IF db[d].recovering THEN @ ELSE @ \cup Captured(d)]
    /\ IF CanOpen(d)
       THEN db' = [db EXCEPT ![d] = Opened(d)] /\ Record(d, db[d], OpenRows(d))
       ELSE UNCHANGED <<db, born>>
    /\ End(d)
    /\ UNCHANGED <<disk, mode, saved, budget>>

(* A restored index scans once it has joined what its peer knows. *)
Rescan(d) ==
    /\ sess[d].phase = "rescan"
    /\ objects' = [objects EXCEPT ![d] = @ \cup Captured(d)]
    /\ LET row == ScanRows(db[d], d, disk[d], FALSE) IN
       IF CanScan(db[d], d, disk[d], FALSE)
       THEN /\ db' = [db EXCEPT ![d] = Save(@, row)]
            /\ Record(d, db[d], row)
            /\ Goto(d, "applying")
       ELSE End(d) /\ UNCHANGED <<db, born>>
    /\ UNCHANGED <<disk, mode, saved, budget>>

(* Mutant: paths whose deletion awaits approval are applied too. *)
CandidatesPendingToo(x) == {p \in Path : x.versions[p] # x.observed[p]}

(* What apply_pending still has to apply, removals last. *)
Candidates(x) ==
    {p \in Path : x.versions[p] # x.observed[p] /\ p \notin x.pending}

First(x, p) ==
    \A q \in Candidates(x) \ {p} :
        \/ ~Removing(x.versions[p]) /\ Removing(x.versions[q])
        \/ (Removing(x.versions[p]) <=> Removing(x.versions[q])) /\ p < q

Target(d, p) == Selected(db[d].versions[p]).content

(* The path the device applies next: a session's candidate or a choice. *)
Applies(d, p) ==
    \/ sess[d].phase = "applying" /\ p \in Candidates(db[d]) /\ First(db[d], p)
    \/ sess[d].phase = "chosen" /\ p = sess[d].path

(* Mutant: the file found on disk is replaced whatever it is. *)
ExpectedAnything(d, p) == TRUE

(* Root::apply replaces only what the index expects to find, and never a file
   by a directory or a directory by a file. *)
Expected(d, p) ==
    \/ disk[d][p] = Target(d, p)
    \/ /\ disk[d][p] = db[d].materialized[p]
       /\ Target(d, p) = Directory => disk[d][p] = Deleted
       /\ disk[d][p] = Directory => Target(d, p) = Deleted

Publish(d, p) ==
    /\ Applies(d, p)
    /\ Expected(d, p)
    /\ Target(d, p) \in File => Target(d, p) \in objects[d]
    /\ disk' = [disk EXCEPT ![d][p] = Target(d, p)]
    /\ sess' = [sess EXCEPT ![d].phase = "published", ![d].path = p]
    /\ UNCHANGED <<db, objects, mode, saved, born, budget>>

(* "local file changed before application": the session or the choice fails. *)
PublishRefused(d, p) ==
    /\ Applies(d, p)
    /\ ~Expected(d, p)
    /\ End(d)
    /\ UNCHANGED <<disk, db, objects, mode, saved, born, budget>>

(* Mutant: only the head that was applied counts as seen. *)
AcknowledgedSelected(x, p, content) ==
    Row(x.versions[p], content, {Selected(x.versions[p])}, p \in x.pending, {})

(* What was applied stands for every head of the path: the user has seen them. *)
Acknowledged(x, p, content) ==
    Row(x.versions[p], content, x.versions[p], p \in x.pending, {})

(* The index acknowledges the publication. *)
Acknowledge(d) ==
    LET p == sess[d].path IN
    /\ sess[d].phase = "published"
    /\ db' = [db EXCEPT ![d] = SaveRow(@, p, Acknowledged(@, p, Target(d, p)))]
    /\ IF sess[d].peer = d THEN End(d) ELSE Goto(d, "applying")
    /\ UNCHANGED <<disk, objects, mode, saved, born, budget>>

SayApplied(d) ==
    LET e == sess[d].peer IN
    sess' = [k \in Device |->
               CASE k = d                 -> [sess[k] EXCEPT !.phase = "applied"]
                 [] k = e /\ Linked(d, e) -> [sess[k] EXCEPT !.done = TRUE]
                 [] k # d /\ ~(k = e /\ Linked(d, e)) -> sess[k]]

(* Everything is applied: a restored index is whole again, and the peer is
   told. *)
Applied(d) ==
    /\ sess[d].phase = "applying"
    /\ Candidates(db[d]) = {}
    /\ db' = [db EXCEPT ![d].recovering = FALSE]
    /\ SayApplied(d)
    /\ UNCHANGED <<disk, objects, mode, saved, born, budget>>

(* A send-only device commits nothing. *)
AppliedNothing(d) ==
    /\ ReadyToCommit(d)
    /\ mode[d] = "SendOnly"
    /\ SayApplied(d)
    /\ UNCHANGED <<disk, db, objects, mode, saved, born, budget>>

(* Mutant: the cursor moves without waiting for the device's own commit. *)
CursorEarly(d) == sess[d].phase = "pulled" \/ (sess[d].phase = "applied" /\ sess[d].done)

CursorDue(d) == sess[d].phase = "applied" /\ sess[d].done

(* Both have applied: remember how far the peer's sequence was read. *)
SetCursor(d) ==
    /\ CursorDue(d)
    /\ db' = [db EXCEPT ![d].cursor[sess[d].peer] = sess[d].remote]
    /\ End(d)
    /\ UNCHANGED <<disk, objects, mode, saved, born, budget>>

(* The peer is gone: a device that waits for more from it gives up. *)
Disconnect(d) ==
    /\ sess[d].phase \in {"hello", "pull", "pulled", "applied"}
    /\ ~CursorDue(d)
    /\ ~Linked(d, sess[d].peer)
    /\ End(d)
    /\ UNCHANGED <<disk, db, objects, mode, saved, born, budget>>

(* A crash, a lost connection, a failed disk write or a revoked approval ends
   the command or the session wherever it is.  An "applied" it had sent may
   be lost with it. *)
Abort(d) ==
    /\ ~Idle(d)
    /\ Undisturbed(d)
    /\ Spend("aborts")
    /\ \E arrives \in BOOLEAN :
          sess' = [e \in Device |->
                     CASE e = d -> NoSession(d)
                       [] e # d /\ Linked(d, e) -> [sess[e] EXCEPT !.done = @ /\ arrives]
                       [] e # d /\ ~Linked(d, e) -> sess[e]]
    /\ UNCHANGED <<disk, db, objects, mode, saved, born>>

-----------------------------------------------------------------------------
(* Checkpoints *)

(* share-backup and device-backup: the index, its objects and the mode. *)
Backup(d) ==
    /\ Idle(d)
    /\ saved[d] = {}
    /\ Restores[d] # {} /\ MaxRestores > 0
    /\ saved' = [saved EXCEPT ![d] = {[index |-> db[d], mode |-> mode[d]]}]
    /\ UNCHANGED <<disk, db, objects, mode, sess, born, budget>>

(* Mutant: the restored index continues under its old epoch. *)
RestoredSameEpoch(d, s) ==
    [s.index EXCEPT !.cursor = EmptyIndex.cursor, !.recovering = TRUE]

(* A restored index: a fresh epoch, no cursors, and no local scan before a
   peer's metadata has been merged - unless the device only sends. *)
Restored(d, s) ==
    [s.index EXCEPT
        !.epoch = db[d].epoch + 1,
        !.cursor = EmptyIndex.cursor,
        !.recovering = mode[d] # "SendOnly"]

(* share-recover: the index is replaced, the folder is left as it is. *)
RecoverIndex(d) ==
    /\ "index" \in Restores[d]
    /\ Idle(d)
    /\ db[d].epoch <= MaxRestores
    /\ \E s \in saved[d] : db' = [db EXCEPT ![d] = Restored(d, s)]
    /\ UNCHANGED <<disk, objects, mode, sess, saved, born, budget>>

(* device-recover of a retired device: folder, index and objects come from the
   backup, and the folder only receives until it is activated. *)
RecoverDevice(d) ==
    /\ "device" \in Restores[d]
    /\ Idle(d)
    /\ db[d].epoch <= MaxRestores
    /\ \E s \in saved[d] :
          /\ db' = [db EXCEPT ![d] = [Restored(d, s) EXCEPT !.recovering = TRUE]]
          /\ disk' = [disk EXCEPT ![d] =
                        [p \in Path |->
                            IF p \in s.index.pending THEN Deleted
                            ELSE s.index.materialized[p]]]
          /\ objects' = [objects EXCEPT ![d] =
                {h.content : h \in UNION {s.index.history[p] : p \in Path}} \cap File]
    /\ mode' = [mode EXCEPT ![d] = "ReceiveOnly"]
    /\ UNCHANGED <<sess, saved, born, budget>>

(* device-activate gives a recovered device its old mode back, once it has
   reconciled or on the user's offline authority. *)
Activate(d, offline) ==
    /\ "device" \in Restores[d] /\ db[d].epoch > 1
    /\ Idle(d)
    /\ offline \/ ~db[d].recovering
    /\ \E s \in saved[d] : mode' = [mode EXCEPT ![d] = s.mode]
    /\ db' = [db EXCEPT ![d].recovering = @ /\ ~offline]
    /\ UNCHANGED <<disk, objects, sess, saved, born, budget>>

-----------------------------------------------------------------------------
(* The specification *)

Step(d) ==
    \/ Stage(d)
    \/ \E f \in File : Pull(d, f)
    \/ PullDone(d)
    \/ Commit(d)
    \/ CommitRefused(d)
    \/ Rescan(d)
    \/ \E p \in Path : Publish(d, p) \/ PublishRefused(d, p)
    \/ Acknowledge(d)
    \/ Applied(d)
    \/ AppliedNothing(d)
    \/ SetCursor(d)
    \/ Disconnect(d)

Command(d) ==
    \/ \E approve \in BOOLEAN : Scan(d, approve)
    \/ \E p \in Path : ApproveDeletion(d, p)
    \/ ChooseScan(d)
    \/ \E p \in Path : \E r \in db[d].versions[p] \cup db[d].history[p] : ChooseCommit(d, p, r)
    \/ Backup(d)
    \/ RecoverIndex(d)
    \/ RecoverDevice(d)
    \/ \E offline \in BOOLEAN : Activate(d, offline)

Next ==
    \/ \E d \in Device : Step(d)
    \/ \E d \in Device : Command(d)
    \/ \E d \in Device : Abort(d)
    \/ \E c, s \in Device : Connect(c, s)
    \/ \E d \in Device, p \in Path, content \in Payload : AppWrite(d, p, content)

Spec == Init /\ [][Next]_vars

(* The runtime retries: a command or a session that can proceed does, a lost
   peer is noticed, and a client's `sync' job connects again and again. *)
Fairness ==
    /\ \A d \in Device :
          WF_vars(Step(d) \/ \E p \in Path :
                    \E r \in db[d].versions[p] \cup db[d].history[p] : ChooseCommit(d, p, r))
    /\ \A s \in Hub : \A c \in Device \ {s} : WF_vars(Connect(c, s))

FairSpec == Spec /\ Fairness

-----------------------------------------------------------------------------
(* Properties *)

Birth == [rev : Revision, by : Replica, past : SUBSET Revision]

(* Every variable has its type. *)
TypeOK ==
    /\ disk \in [Device -> [Path -> Content]]
    /\ db \in [Device -> Index]
    /\ objects \in [Device -> SUBSET File]
    /\ mode \in [Device -> Mode]
    /\ sess \in [Device -> Session]
    /\ saved \in [Device -> SUBSET [index : Index, mode : Mode]]
    /\ born \in [Path -> SUBSET Birth]
    /\ budget \in [{"edits", "aborts", "choices"} -> Nat]

(* Clocks are causality: one clock names one revision, and a revision's clock
   is larger than another's only if its author had seen the other one.  Scans,
   choices, joins and restored indexes together must keep this; Join drops
   what is Before, so anything else is a lost edit. *)
ClocksAreCausality ==
    \A p \in Path : \A x, y \in born[p] :
        /\ x.rev.clock = y.rev.clock => x = y
        /\ Before(x.rev.clock, y.rev.clock) => x.rev \in y.past

(* What an application wrote can always be recorded: the clock a device is
   about to give an edit was never given to another revision, so that the join
   with the heads it holds is not refused for `equal clocks with different
   payloads' - short of an exhausted counter (folder-sync-design.md:18, "An
   explicit local edit/resolution observes every head and advances the local
   device counter"). *)
EditsAreAccepted ==
    \A d \in Device : \A p \in Path :
        ( /\ ~db[d].recovering
          /\ IsEdit(db[d], p, disk[d][p], TRUE)
          /\ CanEdit(db[d].observed[p], ReplicaOf(d)) )
        => CanJoin(db[d].versions[p],
                   Edit(db[d].observed[p], ReplicaOf(d), disk[d][p]))

(* The heads of a path come from different replicas: an edit supersedes what
   its author made before, on every device it has reached and in whatever
   order it got there.  A register therefore holds at most one head for each
   replica, and joins and edits stay below the limit on concurrent versions
   (Versions::join in model.rs) while the replicas do. *)
OneHeadPerReplica ==
    \A d \in Device : \A p \in Path : \A b, c \in born[p] :
        (b.by = c.by /\ {b.rev, c.rev} \subseteq db[d].versions[p]) => b.rev = c.rev

(* Every revision a device makes stays in its history, whatever later joins,
   choices and restarts do to the heads (folder-sync-design.md:21, "Content
   objects are retained"; save() keeps superseded heads). *)
OwnRevisionsRetained ==
    \A p \in Path : \A b \in born[p] : \A d \in Device :
        b.by = ReplicaOf(d) => b.rev \in db[d].history[p]

(* What one head set says is known in another: each revision is there or one
   that dominates it is. *)
KnownIn(heads, others) ==
    \A h \in heads : \E k \in others : h = k \/ Before(h.clock, k.clock)

(* A cursor is only ever as far as the device has really read: when d holds a
   cursor for e's current epoch, d knows every row of e up to it. *)
CursorSoundAt(d, e) ==
    (d # e /\ Exports(e, d) /\ db[d].cursor[e].epoch = db[e].epoch) =>
        \A p \in Path : db[e].seqOf[p] <= db[d].cursor[e].seq =>
            KnownIn(db[e].versions[p], db[d].versions[p])

CursorSound == \A d, e \in Device : CursorSoundAt(d, e)

(* Every revision a device can show, choose or send has its content object
   (a head is installed only after its objects, and scans capture first). *)
ObjectsPresent ==
    \A d \in Device : \A p \in Path :
        \A h \in db[d].versions[p] \cup db[d].history[p] :
            h.content \in File => h.content \in objects[d]

(* No step makes a device forget: within one epoch, what its heads say stays
   known to its later heads. *)
NothingForgotten ==
    [][\A d \in Device : \A p \in Path :
          db'[d].epoch = db[d].epoch =>
              KnownIn(db[d].versions[p], db'[d].versions[p])]_vars

(* Bytes that synchronization displaces in a folder are the content of a
   revision the device keeps, so that they can be brought back
   (folder-sync-design.md:34, "retain the actual displaced file"). *)
DisplacedIsKept ==
    [][\A d \in Device : \A p \in Path :
          ( /\ disk'[d][p] # disk[d][p]
            /\ disk[d][p] # Deleted
            /\ budget'.edits = budget.edits
            /\ db'[d].epoch = db[d].epoch )
          => \E h \in db[d].history[p] : h.content = disk[d][p]]_vars

(* Deletion approval is local: no exchange turns a file's absence into a
   tombstone (folder-sync-design.md:23, "a local pending intent until
   approved.  It is not exported as a tombstone"). *)
OnlyApprovalsDelete ==
    [][\A d \in Device : \A p \in Path : \A b \in born'[p] \ born[p] :
          (b.by = ReplicaOf(d) /\ b.rev.content = Deleted) =>
              /\ sess[d].phase \in {"idle", "choosing"}
              /\ sess'[d].phase \in {"idle", "chosen"}]_vars

(* A restored index never turns bytes that its peer already knows into a
   conflicting edit of its own: no step leaves a recovering device with a new
   revision and another head of the same content (state-backup.md:53, "the
   scan recognizes already known remote bytes, preserves distinct local
   edits"). *)
RestoredIndexAdopts ==
    [][\A d \in Device : db[d].recovering =>
          \A p \in Path : \A b \in born'[p] \ born[p] :
              \A h \in db'[d].versions[p] \ {b.rev} :
                  b.by = ReplicaOf(d) => h.content # b.rev.content]_vars

(* The direction policies hold across any number of exchanges: what is made on
   a receive-only device stays there, and no exchange writes into the folder
   of a send-only one that still has the index it began with - one rebuilt on a
   new disk first takes its own files back (folder-sync-design.md:45,
   "Direction policy applies to metadata, content and deletion requests"). *)
DirectionKept ==
    /\ \A d, e \in Device : d # e /\ mode[d] = "ReceiveOnly" =>
          \A p \in Path : \A b \in born[p] :
              b.by = ReplicaOf(d) => b.rev \notin db[e].history[p]
    /\ \A d \in Device : \A p \in Path :
          mode[d] = "SendOnly" /\ db[d].epoch = 1 =>
              \A h \in db[d].history[p] :
                  \E b \in born[p] : b.rev = h /\ b.by[1] = d

(* Two devices with nothing more to send each other know the same: when each
   holds a cursor at the other's current sequence, their heads agree. *)
SettledAgreeAt(d, e) ==
    ( /\ d # e
      /\ mode[d] = "Bidirectional" /\ mode[e] = "Bidirectional"
      /\ db[d].cursor[e] = [epoch |-> db[e].epoch, seq |-> db[e].seq]
      /\ db[e].cursor[d] = [epoch |-> db[d].epoch, seq |-> db[d].seq] )
    => db[d].versions = db[e].versions

SettledDevicesAgree == \A d, e \in Device : SettledAgreeAt(d, e)

(* A device is settled on a path when it shows what it knows. *)
Shown(d, p) ==
    \/ p \in db[d].pending
    \/ /\ db[d].observed[p] = db[d].versions[p]
       /\ disk[d][p] = db[d].materialized[p]
       /\ db[d].versions[p] # {} => disk[d][p] = Target(d, p)

Agreed ==
    \A p \in Path :
        /\ \A d, e \in Device : db[d].versions[p] = db[e].versions[p]
        /\ \A d \in Device : Shown(d, p)

(* Nothing is left to send: every cursor is at the end of the peer's index. *)
Exchanged ==
    \A d, e \in Device :
        (d # e /\ {d, e} \cap Hub # {}) =>
            db[d].cursor[e] = [epoch |-> db[e].epoch, seq |-> db[e].seq]

(* An edit on the disk needs a counter past the maximum: the share cannot be
   opened for an exchange. *)
Exhausted(d) ==
    \E p \in Path :
        /\ IsEdit(db[d], p, disk[d][p], FALSE)
        /\ ~CanEdit(db[d].observed[p], ReplicaOf(d))

(* When applications stop writing, the devices end up with the same heads,
   show them, and have nothing left to exchange, whatever was interrupted
   before and whatever deletion still awaits approval - short of an exhausted
   counter. *)
Convergence == <>[](\/ Agreed /\ Exchanged
                    \/ \E d \in Device : Exhausted(d))
=============================================================================
