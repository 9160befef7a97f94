---------------------------- MODULE IndexRecovery ----------------------------
(***************************************************************************)
(* How a registered share opens, and how its index is replaced by a        *)
(* checkpoint: Share::open, share-recover (prepare, publish_intent, finish *)
(* and resume in share/backup.rs), device-activate's two writes, grants,   *)
(* and the catalog, which reads an index that others write.  A command may *)
(* stop between any two steps.                                             *)
(*                                                                         *)
(* An index is an image: its generation (the epoch), its transactions so   *)
(* far, the recovery_pending flag, and whether SQLite keeps it with a      *)
(* write-ahead log.  `side` is what lies next to it: the log or the        *)
(* rollback journal, as the image SQLite would make of the database with   *)
(* it; Empty when it says nothing.                                         *)
(***************************************************************************)
EXTENDS Naturals

CONSTANTS
    Peer,
    Missing,                        \* no such file, nobody there
    Empty,                          \* a file without content
    MaxRecoveries, MaxWrites, MaxCrashes, MaxReads, MaxGrants

Mode == {"Bidirectional", "SendOnly", "ReceiveOnly"}
Image == [gen : Nat, rev : Nat, pending : BOOLEAN, wal : BOOLEAN]
Config == [gen : Nat, mode : Mode, peers : SUBSET Peer]
Intent == [gen : Nat, index : Image, config : Config]
Files == [index : Image \cup {Missing}, side : Image \cup {Missing, Empty}]
Grant == [peer : Peer, remove : BOOLEAN]

(* Markers are not data. *)
ASSUME MarkersAssumption ==
    /\ Missing # Empty
    /\ {Missing, Empty} \cap Image = {}
    /\ Missing \notin Intent

ASSUME BoundsAssumption ==
    /\ MaxRecoveries \in Nat /\ MaxWrites \in Nat /\ MaxCrashes \in Nat
    /\ MaxReads \in Nat /\ MaxGrants \in Nat

VARIABLES
    dir,        \* index.sqlite and its log or journal
    candidate,  \* index-recover-<nonce>.sqlite of the latest recovery
    archive,    \* index-before-<nonce>/, by generation
    intent,     \* state-recovery.json
    config,     \* config.json
    report,     \* the mode in device-recovery.json
    command,    \* what holds index.lock, and where it is
    grant,      \* a share-grant or share-revoke that holds config.lock
    last,       \* generations made so far
    spent       \* what the environment did so far

store == <<candidate, archive, intent, last>>
vars == <<dir, candidate, archive, intent, config, report, command, grant, last, spent>>

Op == {"use", "recover", "activate"}
Finishing == {"check", "side", "index", "link", "unlink", "verify", "config", "drop"}
ConfigLocked == Finishing \cup {"publish", "authority", "mode"}
At == {"idle", "resume", "prepare", "connect", "open", "close"} \cup ConfigLocked
Command == [op : Op, at : At, own : BOOLEAN, offline : BOOLEAN]
Idle == [op |-> "use", at |-> "idle", own |-> FALSE, offline |-> FALSE]

(* What SQLite reads: the index with its log, or without what a journal undoes. *)
Committed(f) == IF f.side \in {Missing, Empty} THEN f.index ELSE f.side

(* Mutant: finish does not see that the candidate was linked already. *)
PublishedNever == FALSE

(* The candidate has been linked. *)
Published == dir.index # Missing /\ dir.index = candidate

(* A share that was registered here, or one that device-recover rebuilt. *)
Init ==
    /\ \E mode \in Mode : \E rebuilt \in BOOLEAN :
           /\ dir = [index |-> [gen |-> 0, rev |-> 0, pending |-> rebuilt, wal |-> ~rebuilt],
                     side |-> Missing]
           /\ config = [gen |-> 0, mode |-> IF rebuilt THEN "ReceiveOnly" ELSE mode,
                        peers |-> {}]
           /\ report = IF rebuilt THEN mode ELSE Missing
    /\ candidate = Missing /\ intent = Missing /\ grant = Missing
    /\ archive = [g \in 1..MaxRecoveries |-> [index |-> Missing, side |-> Missing]]
    /\ command = Idle
    /\ last = 0
    /\ spent = [crashes |-> 0, reads |-> 0, grants |-> 0]

Go(at) == command' = [command EXCEPT !.at = at]
(* The command ends, with success or with an error, and drops its locks. *)
End == command' = Idle
ConfigFree == grant = Missing /\ command.at \notin ConfigLocked

-----------------------------------------------------------------------------
(* Opening: index.lock, then what an interrupted recovery left to do. *)

Begin(op, offline) ==
    /\ command.at = "idle"
    /\ op = "activate" => report # Missing
    /\ op = "recover" => last < MaxRecoveries
    /\ command' = [op |-> op, at |-> "resume", own |-> FALSE, offline |-> offline]
    /\ UNCHANGED <<dir, candidate, archive, intent, config, report, grant, last, spent>>

Opened == IF command.op = "recover" THEN Go("prepare") ELSE Go("connect")

Resume ==
    /\ command.at = "resume"
    /\ IF intent = Missing THEN Opened
       ELSE IF ConfigFree THEN Go("check")
       ELSE End
    /\ UNCHANGED <<dir, candidate, archive, intent, config, report, grant, last, spent>>

(* Mutant: device-activate does not look at the flag. *)
SettledAnyway == TRUE

(* device-activate: the share has been reconciled, or the user does without. *)
Settled == command.offline \/ ~Committed(dir).pending

(* Share::open: the index must exist and be of the generation that config.json
   names.  SQLite takes back a transaction whose journal is still there. *)
Connect ==
    /\ command.at = "connect"
    /\ dir.index # Missing /\ Committed(dir).gen = config.gen
    /\ dir' = IF dir.index.wal
              THEN [dir EXCEPT !.side = IF @ = Missing THEN Empty ELSE @]
              ELSE IF dir.side = Empty THEN dir
              ELSE [index |-> Committed(dir), side |-> Missing]
    /\ IF command.op = "use" THEN Go("open")
       ELSE IF ConfigFree /\ Settled
       THEN Go(IF command.offline THEN "authority" ELSE "mode")
       ELSE Go("close")
    /\ UNCHANGED <<candidate, archive, intent, config, report, grant, last, spent>>

(* A transaction: into the log, or into the database once its journal is gone. *)
Save(image) ==
    dir' = IF dir.index.wal THEN [dir EXCEPT !.side = image] ELSE [dir EXCEPT !.index = image]

Written == [Committed(dir) EXCEPT !.rev = @ + 1]

Write ==
    /\ command.at = "open" /\ Committed(dir).rev < MaxWrites
    /\ Save(Written)
    /\ UNCHANGED <<store, config, report, command, grant, spent>>

(* A session that has reconciled a restored index. *)
Reconcile ==
    /\ command.at = "open" /\ Committed(dir).pending
    /\ Save([Committed(dir) EXCEPT !.pending = FALSE])
    /\ UNCHANGED <<store, config, report, command, grant, spent>>

(* The last connection moves the log into the database and removes it, unless
   the catalog has the database open. *)
Close ==
    /\ command.at \in {"open", "close"}
    /\ \/ /\ dir' = IF dir.index.wal THEN [index |-> Committed(dir), side |-> Missing] ELSE dir
          /\ UNCHANGED spent
       \/ /\ spent.reads < MaxReads /\ dir.index.wal
          /\ spent' = [spent EXCEPT !.reads = @ + 1]
          /\ UNCHANGED dir
    /\ End
    /\ UNCHANGED <<store, config, report, grant>>

-----------------------------------------------------------------------------
(* device-activate *)

(* Offline authority: the user does without reconciliation. *)
TakeAuthority ==
    /\ command.at = "authority"
    /\ Save([Committed(dir) EXCEPT !.pending = FALSE])
    /\ Go("mode")
    /\ UNCHANGED <<store, config, report, grant, spent>>

RestoreMode ==
    /\ command.at = "mode"
    /\ config' = [config EXCEPT !.mode = report]
    /\ Go("close")
    /\ UNCHANGED <<dir, store, report, grant, spent>>

-----------------------------------------------------------------------------
(* share-recover *)

(* prepare: the checkpoint's index becomes a candidate of a new generation.
   Its transactions are those of the checkpoint, so they count from zero. *)
Prepare ==
    /\ command.at = "prepare"
    /\ IF ConfigFree /\ last < MaxRecoveries
       THEN /\ last' = last + 1
            /\ candidate' = [gen |-> last + 1, rev |-> 0, wal |-> FALSE,
                             pending |-> config.mode # "SendOnly"]
            /\ Go("publish")
       ELSE End /\ UNCHANGED <<last, candidate>>
    /\ UNCHANGED <<dir, archive, intent, config, report, grant, spent>>

(* Mutant: the configuration keeps its epoch. *)
RenewedNot(g) == config

(* The configuration that goes with the new generation. *)
Renewed(g) == [config EXCEPT !.gen = g]

PublishIntent ==
    /\ command.at = "publish"
    /\ intent' = [gen |-> last, index |-> candidate, config |-> Renewed(last)]
    /\ command' = [command EXCEPT !.at = "check", !.own = TRUE]
    /\ UNCHANGED <<dir, candidate, archive, config, report, grant, last, spent>>

(* finish, by the command that published the intent or by one that resumes it. *)
Check ==
    /\ command.at = "check"
    /\ IF config.mode # intent.config.mode \/ config.peers # intent.config.peers THEN End
       ELSE IF candidate = Missing THEN Go("verify")
       ELSE IF candidate # intent.index THEN End
       ELSE IF Published THEN Go("unlink")
       ELSE Go("side")
    /\ UNCHANGED <<dir, store, config, report, grant, spent>>

(* A rename into the archive, refused if there is such a file already. *)
MoveSide ==
    /\ command.at = "side"
    /\ IF dir.side = Missing THEN Go("index") /\ UNCHANGED <<dir, archive>>
       ELSE IF archive[intent.gen].side # Missing THEN End /\ UNCHANGED <<dir, archive>>
       ELSE /\ archive' = [archive EXCEPT ![intent.gen].side = dir.side]
            /\ dir' = [dir EXCEPT !.side = Missing]
            /\ Go("index")
    /\ UNCHANGED <<candidate, intent, config, report, grant, last, spent>>

MoveIndex ==
    /\ command.at = "index"
    /\ IF dir.index = Missing THEN Go("link") /\ UNCHANGED <<dir, archive>>
       ELSE IF archive[intent.gen].index # Missing THEN End /\ UNCHANGED <<dir, archive>>
       ELSE /\ archive' = [archive EXCEPT ![intent.gen].index = dir.index]
            /\ dir' = [dir EXCEPT !.index = Missing]
            /\ Go("link")
    /\ UNCHANGED <<candidate, intent, config, report, grant, last, spent>>

Link ==
    /\ command.at = "link"
    /\ IF dir.index # Missing THEN End /\ UNCHANGED dir
       ELSE dir' = [dir EXCEPT !.index = candidate] /\ Go("unlink")
    /\ UNCHANGED <<store, config, report, grant, spent>>

Unlink ==
    /\ command.at = "unlink"
    /\ candidate' = Missing
    /\ Go("verify")
    /\ UNCHANGED <<dir, archive, intent, config, report, grant, last, spent>>

Verify ==
    /\ command.at = "verify"
    /\ IF dir.index = intent.index THEN Go("config") ELSE End
    /\ UNCHANGED <<dir, store, config, report, grant, spent>>

ReplaceConfig ==
    /\ command.at = "config"
    /\ config' = intent.config
    /\ Go("drop")
    /\ UNCHANGED <<dir, store, report, grant, spent>>

DropIntent ==
    /\ command.at = "drop"
    /\ intent' = Missing
    /\ IF command.own THEN End ELSE Opened
    /\ UNCHANGED <<dir, candidate, archive, config, report, grant, last, spent>>

-----------------------------------------------------------------------------
(* Others: grants under config.lock alone, the catalog under no lock, and stops. *)

LockConfig(p, remove) ==
    /\ ConfigFree /\ spent.grants < MaxGrants
    /\ grant' = [peer |-> p, remove |-> remove]
    /\ spent' = [spent EXCEPT !.grants = @ + 1]
    /\ UNCHANGED <<dir, store, config, report, command>>

(* Mutant: a grant does not look for an unfinished recovery. *)
NoRecoveryUnchecked == TRUE

NoRecovery == intent = Missing

SetGrant ==
    /\ grant # Missing
    /\ grant' = Missing
    /\ config' = IF ~NoRecovery THEN config
                 ELSE [config EXCEPT !.peers = IF grant.remove THEN @ \ {grant.peer}
                                               ELSE @ \cup {grant.peer}]
    /\ UNCHANGED <<dir, store, report, command, spent>>

(* share::catalog opens the index read-only; one with a log gets an empty log. *)
ReadCatalog ==
    /\ spent.reads < MaxReads
    /\ dir.index # Missing /\ dir.side = Missing
    /\ dir.index.wal
    /\ dir' = [dir EXCEPT !.side = Empty]
    /\ spent' = [spent EXCEPT !.reads = @ + 1]
    /\ UNCHANGED <<store, config, report, command, grant>>

Crash ==
    /\ spent.crashes < MaxCrashes
    /\ spent' = [spent EXCEPT !.crashes = @ + 1]
    /\ \/ command.at # "idle" /\ End /\ UNCHANGED <<dir, grant>>
       \/ grant # Missing /\ grant' = Missing /\ UNCHANGED <<dir, command>>
       \/ (* within a transaction: the database is changed, its journal is there *)
          /\ command.at = "open" /\ ~dir.index.wal /\ dir.index.rev < MaxWrites
          /\ dir' = [index |-> Written, side |-> dir.index]
          /\ End
          /\ UNCHANGED grant
    /\ UNCHANGED <<store, config, report>>

Step ==
    \/ Resume \/ Connect \/ Close \/ TakeAuthority \/ RestoreMode
    \/ Prepare \/ PublishIntent \/ Check \/ MoveSide \/ MoveIndex \/ Link \/ Unlink
    \/ Verify \/ ReplaceConfig \/ DropIntent

Next ==
    \/ \E op \in Op, offline \in BOOLEAN : Begin(op, offline)
    \/ Step
    \/ Write \/ Reconcile
    \/ \E p \in Peer, remove \in BOOLEAN : LockConfig(p, remove)
    \/ SetGrant
    \/ ReadCatalog
    \/ Crash

Spec == Init /\ [][Next]_vars

(* A command goes on until it ends, a grant too, and the share is opened again
   and again, by its synchronization job if by nobody else. *)
Fairness ==
    /\ WF_vars(Begin("use", FALSE))
    /\ WF_vars(Step)
    /\ WF_vars(SetGrant)

FairSpec == Spec /\ Fairness

-----------------------------------------------------------------------------
(* Properties *)

TypeOK ==
    /\ dir \in Files
    /\ candidate \in Image \cup {Missing}
    /\ archive \in [1..MaxRecoveries -> Files]
    /\ intent \in Intent \cup {Missing}
    /\ config \in Config
    /\ report \in Mode \cup {Missing}
    /\ command \in Command
    /\ grant \in Grant \cup {Missing}
    /\ last \in 0..MaxRecoveries
    /\ spent \in [crashes : Nat, reads : Nat, grants : Nat]

(* Whatever was interrupted, a share without an intent has an index, of the
   generation that config.json names: Share::open succeeds. *)
Usable ==
    intent = Missing => dir.index # Missing /\ Committed(dir).gen = config.gen

(* The catalog gave the old index a new log after its log was archived, and the
   recovery stopped before the index was. *)
Recreated ==
    /\ intent # Missing /\ candidate # Missing /\ ~Published
    /\ dir.side = Empty /\ archive[intent.gen].side # Missing

(* What an intent promises can be done by whoever opens the share next: nobody
   changed the configuration, and each file is in one place. *)
CanFinish ==
    /\ config.mode = intent.config.mode /\ config.peers = intent.config.peers
    /\ IF candidate = Missing THEN dir.index = intent.index
       ELSE /\ candidate = intent.index
            /\ \/ Published
               \/ /\ dir.side = Missing \/ archive[intent.gen].side = Missing
                  /\ dir.index = Missing \/ archive[intent.gen].index = Missing

(* Wherever finish was stopped, resume can finish it (backup.rs:474), but for
   what a reader does to the log of an index being archived. *)
IntentFinishes == intent # Missing => CanFinish \/ Recreated

(* ... and does. *)
RecoveryEnds == intent # Missing ~> intent = Missing \/ Recreated

(* The refinement.  The intent is the commit point of a replacement: from then
   on the index is the one it names, and the old one is what lies in the archive
   and, as long as it was not moved, in the share. *)
Retired(g) ==
    IF intent # Missing /\ intent.gen = g
    THEN [index |-> IF archive[g].index = Missing THEN dir.index ELSE archive[g].index,
          side |-> IF archive[g].side = Missing THEN dir.side ELSE archive[g].side]
    ELSE archive[g]

ShareIndex == IF intent = Missing THEN Committed(dir) ELSE intent.index
Kept ==
    {Committed(Retired(g)) : g \in {n \in 1..MaxRecoveries : Retired(n).index # Missing}}

Share == INSTANCE ShareState WITH
    index <- ShareIndex, kept <- Kept, mode <- config.mode, peers <- config.peers

(* The share behaves as ShareState says: recoveries, grants and activations are
   each one step of it, and no interruption shows. *)
ImplementsShareState == Share!Spec
===============================================================================
