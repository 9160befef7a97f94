# Verification of Happy Active Everywhere

TLA+ modules, TLC instances and TLAPS proofs about Happy Active Everywhere, a
peer-to-peer folder synchronizer written in Rust. The crate is under `src/`, so
the code lives in `src/src/` and its documents in `src/docs/`; `root.rs:346`
below means line 346 of `src/src/root.rs`.

To check a run: `tlc -workers 2 -config Sync.cfg MCFolderSync.tla`. To check the
proofs: `tlapm FolderSyncProofs.tla`, and so on for the other `...Proofs` modules. `PROJECT.json` lists the runs, the lines
each definition stands for, and the hazards that the properties are about.

## 1. Inventory

A device keeps *shares* (a folder, an index of it, cached contents), exchanges
them with *peers* over authenticated connections, and may be managed by a
*central server*, which never sees file content.

| Part | Source | State | Operations | Correct when |
|---|---|---|---|---|
| Causal register | `versions.rs`, `model.rs` | none (values) | advance, relation, edit, join, selected | heads do not depend on the order of delivery; only what was seen is dropped |
| Shared folder index | `share.rs` | `shares/<id>`: configuration, SQLite rows (`versions`, `materialized`, `observed`, sequence), history, pending deletions, cursors, objects | register, grant, open, scan, approve deletions, choose, capture, commit, apply, acknowledge | no edit loses its identity, its bytes or its place in the order; no deletion without approval |
| Synchronization session | `sync.rs` | one exchange between two open shares | hello, metadata, objects, commit, applied, cursor | a cursor says what was read; devices that exchange agree in the end |
| Folder root | `root.rs` | the visible files, `.everywhere-recovery/*` | apply, recover, walk | a publication replaces what was known and nothing else, also when interrupted |
| Checkpoints | `share/backup.rs`, `device.rs` | backup images, recovery intents, config | backup, share-recover, device-recover, activate | a restored index neither repeats a clock nor sends before it has reconciled |
| Central registry | `central/store.rs`, `web.rs` | `central.sqlite`: invitations, devices, commands | invite, enrol, approve, revoke, queue, cancel, poll | a command is given to its device in order and its status is true |
| Central agent | `central/agent.rs` | `central-agent.sqlite`: executed commands; one worker | poll, start, finish, recover on open | a command runs once, and its outcome is reported |
| Operations, local socket | `management.rs` | token | execute one operation: deploy registers a share, trusts and admits a peer, saves a job | an operation that ends half-way can be repeated, beside others |
| Job supervisor | `jobs.rs` | `jobs.json`, child processes | save, save a deployment, enable, disable, tick, retry after 5 s, stop | no child of a job that was disabled or replaced; a deployment takes nothing from a person or another one |
| Objects and receiver | `storage.rs` | blocks, checkpoint, install journal | receive, resume, install, recover | a download is installed once or not at all |
| Block transfer | `transport.rs`, `wire.rs` | 16-block window | send, acknowledge | every block stored before it is acknowledged |
| Service and locks | `service.rs` | lock files, readiness | start, hand over, stop | one service per state directory |
| Identities, snapshot index, command line, UI | `identity.rs`, `index.rs`, `main.rs` | trust list; a stand-alone tree index | check, build | - |

How they interact. `sync` and `serve` open a share (`Share::open` takes
`index.lock`, finishes an interrupted restore, then `Root::recover`), and hold
the lock for the whole session; every command line operation on a share does the
same. So one device does one thing at a time with one share, and what runs
concurrently with it is *applications* writing into the folder at any moment,
and the *peer*. The agent runs commands in one worker beside its polling loop;
the registry handles requests of many connections one at a time under a mutex.
Jobs are child processes that run the same binary. Operations of the manager, asked
for by the local interface or by the agent, run in parallel; `config_guard`, which
they take, is a shared lock and keeps only backups of the whole device out.

What is hard, and hard to test: applications that write between any two steps;
a process that stops between a transaction in SQLite and the filesystem
operation it goes with; metadata that arrives out of order over several peers;
indexes that go back in time; replies lost after the server has acted; operations
of several steps, each of them a file, that meet each other half-way. Each such
place is a hazard in `PROJECT.json`, with its line.

## 2. Modules and plan

Done, in this order:

1. `Causality` - the register, as pure operators. `MCCausality` enumerates
   triples of head sets; `CausalityProofs` proves its laws.
2. `FolderSync` (extends `Causality`) - shares on several devices, sessions,
   applications, checkpoints. `MCFolderSync` gives instances,
   `FolderSyncProofs` proves its types, what no step forgets and what cursors
   say; `FolderRevisionsProofs` (extends it) what revisions mean, what is kept and
   where directions let it go.
3. `CommandQueue` - registry and agents; `MCCommandQueue` gives instances;
   `CommandQueueProofs` proves that a command runs at most once, that its outcome
   is told truly and that commands are given in order.
4. `VisibleFile` - what a folder promises about one path; `FileApply` - how
   `Root::apply` and `Root::recover` keep it, file by file and step by step.
   `FileApply` implements `VisibleFile`; `FileApplyProofs` proves it.
5. `Receiver` - the checkpoint, install intent and recovery of `storage.rs`;
   `Transfer` (extends `Receiver`) - a file sent to it over `transport.rs`.
   `MCTransfer` gives instances; `TransferProofs` proves its four safety
   properties.
6. `ShareState` - what a share promises about its index, its mode and its grants;
   `IndexRecovery` - how it opens, how `share-recover` replaces the index file by
   file, activation's two writes, grants and the catalog. `IndexRecovery`
   implements `ShareState`; `IndexRecoveryProofs` proves it.
7. `Deployment` - operations of the manager that register a folder, trust and
   admit a peer and save a job, and the supervisor of the jobs. `MCDeployment`
   gives instances, `DeploymentProofs` the proofs.

Still to do, most important first: directories in `FileApply`, and the console's
sessions in `central/web.rs`.

## 3. The models and the code

### Causality

A revision is a clock (a function from replicas to counters, zero where the map
has no entry) and a content. `Join` keeps the revisions no other one dominates
(`model.rs:83`) and is refused (`CanJoin`) on inconsistent sets or past
`MaxHeads`; `Edit` merges what was observed and advances the author's counter;
`Selected` prefers contents over deletions as `model.rs:103` does. Counters stop
at `MaxCounter` and are refused, as the code refuses `u64::MAX`. `MaxHeads` stands
for what a register may hold: the code counts to 128 heads and measures 64 KiB of
JSON, in which up to 24 heads over 24 replicas always fit, however large their
counters. Not modelled: the size itself, and `versions::reconcile`, which only its
own tests call.

### FolderSync

`db[d]` is the index of device `d`, `disk[d]` its folder, `sess[d]` the command
or session that holds `index.lock`, `objects[d]` the contents cached, `mode[d]`
the direction in `config.json`. `born` is a history variable: every revision
made and what its author had seen; `saved` holds the checkpoints.

| Code | Actions |
|---|---|
| an application writes | `AppWrite`, enabled between any two steps |
| `Share::scan`, `approve_deletion` | `Scan`, `ApproveDeletion` |
| `Share::choose` | `ChooseScan`, `ChooseCommit`, then `Publish`, `Acknowledge` |
| `connect`/`serve`, `session` | `Connect`, `Stage`, `Pull`, `PullDone`, `Commit` or `CommitRefused`, `Rescan`, then for each path `Publish` or `PublishRefused`, `Acknowledge`; `Applied`, `AppliedNothing`, `SetCursor`, `Disconnect` |
| a lost connection, a revoked grant, a stop | `Abort`, at any step |
| `share-backup`, `share-recover`, `device-recover`, `device-activate` | `Backup`, `RecoverIndex`, `RecoverDevice`, `Activate` |

Sequence numbers of rows, cursors with epochs, adoption of known bytes, the
pending deletions and the `recovering` flag are all there. Abstracted: a path is
a number in sort order, independent of the others (no path contains another, so
"directory not empty" does not occur); `Root::apply` is one step here and the
subject of `FileApply`; a session's two `Share::open` happen in one action; the
registration of a share is its initial state and the subject of `Deployment`;
grants appear only as `Abort`; a recovery of the index is one step and
`activate_device`'s two writes are one, and both are the subject of
`IndexRecovery`.

### CommandQueue

`store` is `central.sqlite`, `journal[d]` is `central-agent.sqlite`, `agent[d]`
is the loop of `agent.rs:248` with its exchange in flight and its worker. A poll
is three actions: `Poll` (the top of the loop: an ended worker is journalled and
a request is made), `Answer` (the registry's transaction) and `Receive`
(acknowledgements, then the command). `GiveUp` abandons an exchange; the request
is lost, was handled, or is kept in `stale` and handled later (`AnswerStale`).
`Crash` and `Start` (`Journal::open` turns what was executing into "uncertain").
`Backup` and `Restore` put an older registry in place, as
`central-management.md` section 6 describes. A worker may complete, fail or
panic, and a completed command whose output is too large is reported as failed
(`Reportable`, `agent.rs:191`). `ran` is a history variable: how often a command
was started, how it really ended, and whether a restore changed what the
registry says of it.

Credentials are checked before the registry is reached and are left out, as are
reports and the audit table. A registration and the first poll are two turns of
the loop in the model and one in the code.

### VisibleFile and FileApply

Files are inodes, a name is a link to an inode. `Root::apply` is the actions
`Begin`, `Stage`, `CreateRecord`, `WriteRecord`, `MoveAside`, `Check`,
`Publish`, `Undo`, `MarkDone`, `Unstage`; `Acknowledge` is the transaction of
`Share::apply_local`; `Open`, `RecoverOne`, `Relink`, `Recovered` are
`Root::recover` as `Share::open` and the scan call it. `Replace`, `Rewrite` and
`Remove` are applications and may come between any two steps; `Interrupt` is a
stop or a failed operation at any step.

`VisibleFile` says what users see: edits, and publications that replace exactly
what the index knew. The mapping: a file that was moved aside still counts as
shown until the publication is decided. Two disjuncts of the abstract
specification record what the code really promises and a reader might not
expect: `LateDeletion` (a deletion interrupted after the rename is completed by
recovery without comparing the file with what was expected, `root.rs:411`; the
file stays in the recovery directory) and the second disjunct of `Interrupt` (a
file removed while it was being published may come back).

Not modelled: directories (one system call each), power loss (what was done
stays done; the `sync` calls are for it), applications that hold a file open
while it is moved aside.

### Receiver and Transfer

Files are inodes again, so that a published file and the partial data it was
published from are one inode until the latter is removed. `journal` and `intent`
are the `.json` and `.install` records, by content; both are created and written
afterwards, so each may be absent, torn or whole.

| Code | Actions |
|---|---|
| `recover_install` | `Recover`, `DropIntent` |
| `Receiver::open`, `missing_from` | `OpenJournal`, `WriteJournal`, `Survey` |
| `put` | `Put` |
| `finish_checked` | `Verify`, `Archive`, `Recheck`, then with an original `CreateIntent`, `WriteIntent`, `Displace`, `Compare` (`prepare_install`), then `Link` or `LinkRefused`, `RemoveIntent`, `RemovePart`, `RemoveJournal` |
| `send` | `Start`, `Requested`, `SendCommit`, `SourceChanged`, `Completed` |
| `send_blocks` | `SendBlock` and `Acknowledged`, two futures |
| `receive` | `Accept`, `SendMissing`, `ReceiveBlock`, `SendAck`, `ReceiveCommit`, `SendComplete` |
| `wire::work` | `Done`: a task that was begun ends, also when its connection is gone |

`finish_checked` calls `recover_install` once more at its beginning; while the
receiver holds its locks there is no intent then, and the model leaves it out.
`Damage` changes a block of partial data, but of none that is published or moved
aside already: that file belongs to the applications, and what happens to it is an
edit of theirs. A survey that finds no partial data creates some, at most
`MaxParts` times.

`send_object` and `receive_object` are the same exchange inside a session of
`FolderSync`, where `Pull` is what it amounts to.

Not modelled: power loss, a basis other than the target, `restore`, an archived
copy that is torn (it is quarantined and made again), file sizes that differ, an
application that rewrites the target in place. The last would matter for a few
instructions: between publication and the removal of the partial file both names
are one inode, and after a stop there a resumed transfer writes to it.

### ShareState and IndexRecovery

`dir` is `index.sqlite` and what SQLite keeps next to it; `candidate`, `archive`
and `intent` are `index-recover-*.sqlite`, `index-before-*/` and
`state-recovery.json`; `config` is `config.json`, `report` the mode in
`device-recovery.json`. `command` holds `index.lock`, and `config.lock` too in the
phases `ConfigLocked`; `grant` is a `share-grant` or `share-revoke` that holds
`config.lock`. An index is its epoch (`gen`, numbered in the order made), its
transactions so far and the flag `recovery_pending`.

| Code | Actions |
|---|---|
| `Share::open` | `Begin`, `Resume`, `Connect` |
| a transaction, a session over a restored index, the last connection | `Write`, `Reconcile`, `Close` |
| `recover`: `prepare`, `publish_intent` | `Prepare`, `PublishIntent` |
| `finish`, also from `resume` | `Check`, `MoveSide`, `MoveIndex`, `Link`, `Unlink`, `Verify`, `ReplaceConfig`, `DropIntent` |
| `activate_device` | `TakeAuthority`, `RestoreMode` |
| `grant` | `LockConfig`, `SetGrant` |
| `catalog` | `ReadCatalog`, and the disjunct of `Close` that leaves the log |
| a stop | `Crash`, between any two steps and within a transaction |

`ShareState` says what a user sees: transactions, a replacement of the index that
happens at once and keeps the old index, grants, and an activation that waits for
reconciliation. The mapping: the intent is the commit point. From then on the
index is the one the intent names, although its file is still a candidate, and
the old index is what lies in the archive and, as long as it was not moved, in
the share.

Abstracted: `-wal`, `-shm` and `-journal` are one `side`, the image that SQLite
would make of the database with it, so the order in which they are archived does
not show; an index is compared as an image where the code takes a digest; a
restored index has no log (`prepare` copies the checkpoint's database, which is
not in that mode). Left out: the checks of a checkpoint and of its rows
(`backup/validate.rs`), the repair of objects, the root's marker, power loss.

### Deployment

`share`, `marker`, `granted` and `trust` are `shares/<id>`, `.everywhere-folder`
in each root, the peers in `config.json`, and `peers/<id>.der`; `jobs` is
`jobs.json` with its copy in memory, `running` and `waiting` are `Inner`'s maps.
`worker[w]` is a thread that executes an operation. `decided`, `byHand`,
`together` and `deployed` are history variables.

| Code | Actions |
|---|---|
| `execute`: deploy, save a job, create a folder | `Begin` |
| `validate_deployment`, `ensure_registration` | `Validate`, `Register` |
| `Share::create` | `CheckRoots`, `CreateDirectory`, `CreateMarker`, `WriteConfig`, `CreateDatabase` |
| `TrustPeer`, `identity::trust`, `grant` | `TrustPeer`, `CreateTrust`, `WriteTrust`, `GrantPeer` |
| `save_inner` | `CheckAccess`, then under the mutex `SaveDeployment` or `SaveJob` |
| `set_enabled`, `grant` with `remove` | `SetEnabled`, `Revoke` |
| `tick` | `Tick`, `ChildEnds`, `Retry` |
| the manager stops and starts | `Stop`, `Start` |

Abstracted: a grant is one step, since `config.lock` is held around it; two workers
that collide on `config.lock` or `index.lock` get an error in the code, which a
repetition gets over, and never meet in the model; files that are renamed into
place (`config.json` of a grant, `jobs.json`) are replaced in one step; a request
has no mode. `CreateMarker` and `WriteConfig` are a step each: a stop within
`write_new` of a new `config.json` leaves what a stop before it leaves, a share
that cannot be read. A child ends with the manager: it reads the end of its
standard input, a moment later in the code. The limit of 32 jobs and the removal
of a peer's certificate (`identity::revoke`) are left out.

## 4. Runs

| Run | Question and bounds |
|---|---|
| `causality` | The five laws of the register for all triples of head sets of one or two revisions over two replicas, counters to 2. Three sets are what associativity needs; two heads each give every relation between clocks. |
| `sync` | Two devices, one path, four edits that write or remove a file, one interruption, registers of two heads and no more: `OneHeadPerReplica`, `ObjectsPresent`, `EditsAreAccepted`, `DisplacedIsKept` and, with fairness, `Convergence`. Four edits are a conflict and edits over it on both sides, or a deletion that awaits approval while the peer edits; counters end at 2, so that a third edit of one device is refused (`Exhausted` in `Convergence`). Two heads are as many as there are replicas: one more and a join would be refused. |
| `paths` | Two paths, a choice, an interruption and counters that end at 2: `OwnRevisionsRetained`, `CursorSound`, `SettledDevicesAgree`, `OnlyApprovalsDelete`, `NothingForgotten`. Two paths make sequence numbers differ and let one be pending while the other is applied. |
| `recover` | Two contents, two edits; one device's index goes back to an older checkpoint: `RestoredIndexAdopts`, `ClocksAreCausality` and `Convergence`. Two contents are a conflict between two files, which `sync` has not. |
| `one_way` | Send-only source, relay, receive-only copy; the source's device may be rebuilt from a backup and activated: `DirectionKept`. |
| `commands` | One device, two commands, one withdrawal (revocation or cancellation), one failure (exchange given up or crash), one restore of the registry: `RunsOnce`, `OutcomeTrue`, `InOrder`, `EveryCommandEnds`. Two commands are the least that can overtake each other. |
| `file_apply` | One path, two contents, two edits by applications, two interruptions, three publications: `NothingUnlinked`, `OneUnfinished`, `InterruptionRecovers` and the refinement of `VisibleFile`. |
| `transfer` | Files of three blocks that share one, a window of two, streams that hold one message, one edit of the target, one of the source, one lost connection or stop, one damaged block: `TargetWhole`, `NothingLost`, `AckedIsStored`, `CompleteIsInstalled`, `EveryTransferEnds`. A window below the number of blocks makes the sender wait for a permit; streams of one message make each end wait for the other; one loss and one damaged block are a resumed transfer over partial data that is not what was stored. |
| `index_recovery` | One peer, two recoveries, one transaction per index, two stops, a reader of the catalog, two grants: `Usable`, `IntentFinishes`, `RecoveryEnds` and the refinement of `ShareState`. Two recoveries archive into two places and let the second begin over what the first left; two stops interrupt a recovery and its resumption; a grant can be waiting while both happen. |
| `deployment` | Two workers, two folders with nested roots, two jobs that want one port, a job identifier wanted for two folders, one stop of the manager and one change by hand: `RootsDisjoint`, `DeploymentsYield`, `ChildrenFollowJobs`, `EveryDeploymentEnds`. Every conflict that the code checks for is one of two requests, and a stop at each step of one leaves each remainder the other may meet. |

The other two runs are violated on purpose, each by what the code does against
what a document says: `choose_disturbed`, `activate_settled`; see section 6.

Types are not among the properties of the runs where they are proved
(`FolderSync`, `CommandQueue`, `FileApply`, `Transfer`, `IndexRecovery`,
`Deployment`).

Bounds are `MaxEdits`, `MaxAborts`, `MaxChoices`, `MaxRestores`, `MaxCounter`,
`MaxHeads` (`FolderSync`), `MaxCommands`, `MaxWithdrawals`, `MaxFailures`,
`MaxRestores` (`CommandQueue`), `MaxEdits`, `MaxFaults`, `MaxApplies`
(`FileApply`), `MaxEdits`, `MaxParts`, `MaxSources`, `MaxFaults`, `MaxDamage`, `Capacity`
(`Transfer`), `MaxRecoveries`, `MaxWrites`, `MaxCrashes`, `MaxReads`, `MaxGrants`
(`IndexRecovery`), `MaxStops`, `MaxChanges` (`Deployment`). They limit what the environment does, never what the code does;
`MaxDevices`, `MaxPending` and `Window` are limits of the code itself. When they are used
up the system goes on with exchanges and polls, so deadlock is checked
everywhere but in `causality`, whose state never changes, and in `transfer`,
where a sender that is done stops.

`AtomicChoose` keeps applications and interruptions out of `Share::choose` in the
runs that pass: `choose_disturbed` shows what happens otherwise, and most other
properties (`ClocksAreCausality`, `OneHeadPerReplica`, `EditsAreAccepted`) fail for the
same reason under its bounds.

Batches for a pair of devices (`Batch` in `CommandQueue`) are in the model but
the run has one device, so only single commands are queued there. The proofs of
`RunsOnce`, `OutcomeTrue` and `InOrder` cover them.

### Fairness

`FolderSync!Fairness`: a step of a session or command that can be taken is
taken; a choice that was begun is finished; the two ends connect again and
again. The code justifies it by timeouts on every read and write, which turn a
silent peer into an ended session, and by the retry of the sync job. Nothing is
assumed of applications, users or interruptions. Convergence is not claimed for
three devices: a hub that is always busy with one peer may starve another, and
weak fairness on `Connect` is all the code gives.

`CommandQueue!Fairness`: an agent that is down is started, it polls (every three
seconds), the server answers, a reply is read, and a worker ends. Operators owe
nothing: a command of a device that is no longer approved need not end.

`Transfer!Fairness`: each future of the sender and the receiver's loop go on, and
a sender whose attempt failed tries again. The two futures of `send_blocks` have
a condition each, because `try_join!` polls both. `EveryTransferEnds` excepts
`Blocked`: a record torn by a stop, or a target that applications changed since
the transfer or its installation began, needs a person (`storage.rs:311`, `:249`).

`IndexRecovery!Fairness`: a command goes on until it ends, and the share is opened
again and again, by its synchronization job if by nobody else. `RecoveryEnds`
excepts `Recreated`, which section 6 describes.

`Deployment!Fairness`: an operation goes on until it ends, the manager is started
again (by the platform's service manager), and whoever wants a deployment repeats
it until it is reported as done, as the central registry's operator does; strong
fairness, because a worker is busy with other operations in between. Nothing is
assumed of ticks. `EveryDeploymentEnds` excepts `Obstructed`: the folder, an
overlapping root, the job's identifier or its port is taken, or an earlier attempt
left a directory or certificate half-written that the code refuses to take over.

`EveryCommandEnds` excepts `Stuck`: after the registry has been restored, an
agent may hold a result for a command that the registry no longer knows as
delivered. It is never acknowledged, and since `Journal::results` reports one row
at a time, the first, no later result of that device is ever reported, and its
commands stay open. This was found by TLC when the exception was absent.

## 5. Proofs

`CausalityProofs` proves, for every set of replicas, contents and counters:
what a join removes is dominated by what it keeps (`SurvivorAbove`, by
well-foundedness of finite sets of clocks under domination), hence
`JoinInStages` and `JoinAssociative`; an edit dominates what it was made from
(`EditDominates`); the selected revision is of the best rank. From these it
derives that the laws checked by the run `causality` hold for every value of the
constants.

`FolderSyncProofs` proves `TypeCorrect` and `ForgetsNothing`, for any number of
devices, paths, contents, edits, restores. Types alone are not inductive: a
joined head set must be finite to have maximal elements, so the invariant `Inv`
adds that head sets are finite, that a path without heads was observed without
any, that checkpoints have the same shape, and what a session in each phase may
rely on (records that were staged can be joined; a path being applied has a
head). `ForgetsNothing` is an action property: each step that writes an index
writes heads above the old ones (`GrownItself`, `JoinRowOK`, `EditedOK`), and
being above is transitive. One lemma per action, joined in `StepGood`,
`CommandGood` and `NextGood`.

It also proves what cursors say of a peer's index, and from it `CursorSound` and
`SettledDevicesAgree`. A cursor is moved at the end of a session that read the
peer's rows at its beginning, so the invariant `ReadInv` follows the session: rows
have numbers up to the index's sequence, and each write takes a fresh one
(`Numbered`, `Advances`); a cursor is never ahead of the index it was read from,
and covers it (`CursorsRead`); what was staged, and once committed what is known,
covers the peer's rows up to the sequence of its Hello (`SessionReads`); two ends of
one connection agree on that sequence, and neither's cursor is past it
(`EndsAgree`, `SinceBehind`). A row that changes later gets a higher number, so what
is covered stays covered. An index that goes back gets a new epoch, and cursors at
the old one say nothing of it. Each action is first summarized as one of the moves
of `Moves`, and the invariant is proved from those (`StillRead`).

The cover is claimed of the indexes of devices that are `NeverRebuilt`, and only of
those: the activation of a rebuilt disk keeps the epoch while the rows it lets out
are older than cursors that its peers moved before, and `activate_settled` shows
how. Recoveries of an index alone are allowed everywhere, and the device that
*holds* the cursor may be rebuilt: it begins again with no cursors, and gets back
the direction it was given (`SavedOK`), so that nothing begins to be let out to it
within an epoch (`ExportedBefore`). So one rebuilt device does not spoil what the
others know of each other: `CursorsAtKeptDisks` and `KeptDisksAgree` say it of each
device and each pair, and `CursorsTrue` (`CursorSound`) and `SettledAgree`
(`SettledDevicesAgree`) collect it under `NoneRebuilt`. The agreement adds that heads
are unrelated to each other: two such sets of which each is known in the other are
the same. `CursorsNeverExceed` needs no such assumption: no session is ever refused
with "peer cursor exceeds local sequence".

`FolderRevisionsProofs` builds on that invariant. Five of its theorems hold for
every value of the constants:

* `ObjectsAreThere` (`ObjectsPresent`): the history of an index and its
  checkpoints have their objects, and what a session has staged has them or is
  still in `needed` (`HasInv`).
* `RequestsAlwaysServed`: what a device asks its peer for while it pulls, the peer
  has and may send, so the refusals of `serve_objects` never end a session. What is
  asked for comes from heads of the peer (`StagedServed`), nothing is added to it
  later (`AsksNoMore`), and objects are lost only with a disk, outside any session
  (`ObjectsStay`).
* `DeletionsAreApproved` (`OnlyApprovalsDelete`) and `RestoredIndexAdoptsBytes`
  (`RestoredIndexAdopts`) are about single steps: each lemma says which revisions
  an action can make, and of what content.
* `DirectionsKept` (`DirectionKept`) follows what a device keeps to where it came
  from. `Flows` says it of every step: a revision that an index keeps was there
  before, or was staged from a device whose direction lets it out, or was made
  there from what was there; an index that goes back keeps what its checkpoint
  kept. It is not enough to follow the revisions of a receive-only device, because
  a revision made from one of them counts it in its clock. So `HiddenInv` is about
  clocks: a replica that is not in use yet, or whose device only receives, has a
  zero in every clock that another device keeps, stages or saved. The replicas not
  in use yet are needed because a device that is rebuilt receives only, with a new
  replica, whatever its direction was. `ModeInv` says that a checkpoint remembers
  the direction that the device was given, which activation restores; `OwnInv` is
  the second half of the property, for all that an index keeps.

The others are about clocks. `Causal` says of the revisions of a path made so far
that whoever has counted as far as a revision in its author's counter has seen
it, that a clock is above everything its author had seen, and that no revision was
made twice. To keep that, an edit must get a counter its author never used, and
its clock is made from `observed`, not from the heads. So `DevicePath` relates,
for each path, `observed`, the heads, the history and everything that was made:
nothing is ahead of the heads, or of what was observed, in the device's own
counter (`Top`), and what the device made is in its history. An edit is the only
step that needs it, and joins, adoption of known bytes, acknowledgements and
scans keep it. A restored index breaks it for what was made after the
checkpoint, which is why it gets a new epoch, hence a replica that has made
nothing (`Fresh`). From `RevInv`, which collects this, follow
`ClocksTellCausality` (`ClocksAreCausality`), `OwnRevisionsStay`
(`OwnRevisionsRetained`), `DisplacedStays` (`DisplacedIsKept`), `EditsAccepted`,
`OneHeadEach` (`OneHeadPerReplica`), `EditsAlwaysAccepted` (`EditsAreAccepted`) and
`ExchangesAlwaysJoined`.

The last four are about the limit on concurrent versions. `EditsAccepted` holds
for any `MaxHeads` and says that an edit is not refused while the register has
room. Whether it ever runs out is a question of causality: of two revisions of one
replica the later one has seen the earlier one (`OneOfEach`), and heads are
apart, so a register has at most one head of each replica (`OneHeadEach`,
`HeadsFit`, which counts heads by their authors). Hence two registers that hold
revisions of one history can always be joined while the replicas are no more
than `MaxHeads` (`RegistersJoin`): in a full register the edit displaces the head
its author has there, and `EditsAlwaysAccepted` states `EditsAreAccepted` as the run
checks it. `ExchangesAlwaysJoined` says the same of exchanges: what a session is
about to stage is accepted, and what it staged joins the heads it finds when it
commits, with the edits made in between (`ExchangesAreJoined`, checked by the
theorem only). For that `Received` keeps that what is staged was a register once.
Both assume `IsFiniteSet(Replica)` and `Cardinality(Replica) <= MaxHeads`: the devices,
each counted once more for every time its index was restored, are at most as many
as a register has room for. The runs `sync`, `paths` and `recover` take `MaxHeads`
no larger than that.

All of these assume `Calm`: nobody chooses, or nothing comes between the steps of a
choice and its publication is never refused. A choice makes a revision and leaves
`observed` where it was until the publication is acknowledged, so `DevicePath`
is weaker for the path in between (`Resolved`), and without the assumption
they are false: `choose_disturbed` shows how. The runs
that check these properties satisfy `Calm`.

`CommandQueueProofs` proves `RunsOnce` for any number of devices and commands,
and every number of losses, crashes and restores. The count of starts is bounded
by one only because a started command is in the journal of the device that runs
it and of no other; the journal never shrinks, but the registry may go back, so
the invariant cannot rest on what the registry says of a command now. It rests
on the only thing a restore cannot change: which device a command number was
given to. The invariant says that all copies of a target - in the registry, in
its backup, in a reply on its way, in a journal - agree.

It also proves `OutcomesTrue` (`OutcomeTrue`) and `OrderKept` (`InOrder`), for
single commands and batches. `Faithful` says of each place that tells of a command
that it tells the truth: the rows of a journal are commands that were started, with
the results they had, or a failure where the output was too large (`RowsTrue`); the
worker's command is in the journal and has no result yet (`WorkersTrue`); a result
on its way, given up or late, is one of the journal it came from (`ReportsTrue`); a
result in the registry or in a backup of it is in the journal of the command's
target (`RegistriesTrue`). Journals never lose a row or change a result, so nothing
of this is undone by what is lost, repeated or late. `GivenInOrder` is what a
restore does undo: a command that a device was given is marked delivered or ended,
and those queued before it are settled, unless a restore rolled them back. The
properties except these commands, and only these: after a restore the registry
hands out again what was already executed, and the journal answers for it.

`FileApplyProofs` proves `NothingLosesItsName`, `OneAwaits`, `InterruptionsRecover`
and the refinement `ApplyImplementsVisibleFile`, for any number of edits,
publications and interruptions. None of the three invariants is inductive.
`NamedInv` is the stronger form of the first: a file that applications wrote is at
the path or was moved aside, never under a staging link alone, because what
`finish_record` removes is that link. `PhaseInv` says what the process relies on
at each step: the transaction in its hands is the one that is unfinished, the
incoming inode holds the target and no application can reach it (`Prepared`), and
what was moved aside is what the index knew, once it has been checked. `QuietInv`
is `InterruptionRecovers` with what it rests on while nobody edits: what was moved
aside is unchanged, and no step has found the path other than expected. For the
refinement, `Shown` counts what was moved aside as still there; `Publish` is then
the only step that replaces it, and a recovery that takes an empty path for the
end of a deletion (`LateDeletion`) the only other one that users see.

`IndexRecoveryProofs` proves `AlwaysUsable`, `AlwaysFinishable` and the refinement
`RecoveryImplementsShareState`, for any number of recoveries, transactions,
stops, reads and grants. That a share without an intent can be opened says
nothing while there is one, so `Inv` describes every place where `finish` can be:
until the link, the candidate is whole and each of the old files is in the share
or in the archive (`Displacing`); after it, the new index is in place, nothing
lies next to it and the old one is archived (`Replaced`); the phase of the command
that holds the lock agrees with either (`PhaseInv`); and the intent's
configuration differs from `config.json` in nothing but the epoch, because grants
and activations keep out (`LockInv`, `SettledInv`). Each action either leaves what
`ShareState` sees (`Shown`) or is one action of it, one lemma per action; only
`PublishIntent` is a `Replace`.

`TransferProofs` proves `Wholeness` (`TargetWhole`), `Preservation`
(`NothingLost`), `Completion` (`CompleteIsInstalled`) and `Storage`
(`AckedIsStored`), for any number of blocks, windows, streams, contents, edits and
faults. `TargetWhole` is not inductive, because the file at the target and partial
data are one inode between publication and the removal of the latter, also after a
stop there: `FilesInv` says that a file that applications can reach is whole, and
that partial data which is such a file is already what it should become, so that
nothing more is written to it; `PartsDistinct` that no two transfers share partial
data; `CheckedInv` that what was verified stays so until it is linked. The
connection is described phase by phase of the sender: where the receiver is then,
and what is under way in each stream. While blocks are sent (`Blocking`), the list
of the sender and the rest of it that the receiver has differ by a number of blocks
(`Through`), and counting the messages in both streams gives the window and the
order of blocks. `Committing` and `Answered` carry the publication to the sender:
"complete" is under way only when the content was published. `StoredInv` is what an
acknowledgement means; damage undoes it and nothing else does: not a lost
connection, a stop of the receiver or a second attempt, which asks anew.

`DeploymentProofs` proves `OverlapsMet`, `DeploymentsAlwaysYield` and
`ChildrenAlwaysFollow`, for any number of workers, folders, roots, jobs, requests
and stops. The two properties of jobs are inductive beside the types, because
what they need is checked in the same hold of the mutex. `RootsDisjoint` is not:
`RootsInv` adds that a registered root carries the marker of its share
(`MarkerInv`), that the steps after `create_dir` belong to one worker per share
(`OwnerInv`), and that a registration past its check has met every other one that
overlaps with it (`MeetInv`).

Assumptions are `Calm`, `NoneRebuilt` and the bound on the replicas where they were
named above, and the named ones of the modules: finite path sets, replicas of the
form device and epoch, contents and files that are not the markers, bounds that
are natural numbers, requests that are well-formed.

Only model-checked: liveness (`Convergence`, `EveryCommandEnds`,
`EveryTransferEnds`, `RecoveryEnds`, `EveryDeploymentEnds`), which is beyond the
prover like all of `ENABLED`.

## 6. Disagreements with the documents

* `choose_disturbed`: `Share::choose` commits a resolution but leaves `observed`
  at the heads from before it. When an application writes before the publication
  is acknowledged, or the process stops there, the next scan makes its edit from
  `observed` (`share.rs:812`, `:558`). Two things can come of it. If a resolved head
  had been received and not yet shown, the edit's clock is below the
  resolution's: the join drops it, `save` keeps only heads, the row calls its bytes
  materialized, and the next exchange replaces them. The edit is in no history; this
  is what the run shows. If everything had been observed, the edit gets the clock
  of the resolution, the join refuses equal clocks with different contents, and
  every later scan of the share fails: `EditsAreAccepted` is violated under the
  run's constants too, and already without an interruption.
* `activate_settled`: while a rebuilt device only receives, its peer still moves
  its cursor to the device's sequence; activation keeps the epoch, so the
  restored rows are never sent (`sync.rs:234`).

Met while modelling, and not counted as runs:

* A choice of a directory where the folder has a file, or the reverse, is
  committed and exported and never shown (`share.rs:816`).
* `record.json` is created and then written in place; a full disk or a stop in
  between leaves a record that `recover` cannot parse, and the share cannot be
  opened any more (`root.rs:346`).
* A `.json` or `.install` record of a transfer is written in place likewise: a stop
  between its creation and the end of its write makes every later attempt at that
  content fail (`storage.rs:321`, `:200`; `Blocked` in `Transfer`).
* An application's edit between `apply`'s read and its rename is put back, but the
  record stays unfinished and recovery calls it ambiguous, so the share stays
  closed until someone intervenes (`root.rs:419`; the message says so).
* Bytes that an application writes between the scan of `choose` and its second read
  of the disk are taken as materialized (`share.rs:810`).
* The catalog reads an index without a lock. If it opens the old index after its
  log was archived, SQLite makes a new log; a stop before the index itself is moved
  then leaves two, and every later opening of the share fails with "index recovery
  found two different generations" (`backup.rs:519`; `Recreated` in
  `IndexRecovery`). `state-recovery-design.md:31` says that opening the share
  finishes an interrupted intent.
* Two registrations at once with nested roots both succeed, each having checked
  before the other was registered (`share.rs:167`; `together` in `Deployment`);
  `folder-sync-design.md:10` says such roots are rejected. With the same root, the
  one that comes second to the marker leaves a directory without `config.json`, and
  every later registration fails on it (`share.rs:172`), which the comment at
  `share.rs:186` means to avoid. A stop before `config.json` is written leaves the
  same (`Unfinished`).
* A stop between `config.json` and the database leaves a share that
  `ensure_registration` takes as registered: the deployment, repeated, reports
  success and its share cannot be opened (stage "configured" in `Deployment`).
* A stop while a certificate is written makes later deployments with that peer fail
  (`management.rs:250`; `Obstructed`).
* Revocation cancels commands in state `queued`; a command marked delivered in a
  reply that was lost is not cancelled and runs when the device is approved again
  (`store.rs:200`).

## 7. Not modelled

* `service.rs` takes one try-lock on a file and writes a readiness record; the
  platform's service manager does the rest.
* `index.rs` is a stand-alone tree index, used by diagnostics only.
* Of `identity.rs`: keys, TLS and the removal of trust. Of `management.rs`: the
  socket, its token and its page. Of `central/web.rs`: console sessions, forms.
* Of `device.rs` and `share/backup.rs`: the archive's encryption and layout, and the
  copying and validation of checkpoints - sequential code whose result is accepted
  as a whole or not at all.
* Of `share.rs`: paths that contain each other, listings, history.
* The UI, the scripts and `main.rs` have no state that the properties could be
  about.
