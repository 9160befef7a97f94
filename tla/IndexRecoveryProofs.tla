------------------------- MODULE IndexRecoveryProofs -------------------------
(***************************************************************************)
(* For every number of recoveries, transactions, stops, readers and        *)
(* grants: a share without an intent is usable, an intent can be finished, *)
(* and the share behaves as ShareState says.                               *)
(*                                                                         *)
(* Inv says where every file is.  Without an intent the index and its log  *)
(* are of the configured generation.  With one, either the new index is    *)
(* not in place (Displacing): then the old one is in the share or in the   *)
(* archive and never in both; or it is (Replaced), and the old one is in   *)
(* the archive.                                                            *)
(***************************************************************************)
EXTENDS IndexRecovery, TLAPS

Absent == {Missing, Empty}

LockInv == grant # Missing => command.at \notin ConfigLocked

PhaseInv ==
    /\ command.at \in Finishing => intent # Missing
    /\ command.at \notin Finishing \cup {"idle", "resume"} => intent = Missing
    /\ command.op = "activate" \/ command.at \in {"authority", "mode"} => report # Missing
    /\ command.at = "connect" => command.op # "recover"

Older(f, g) ==
    /\ f.index # Missing => f.index.gen < g
    /\ f.side \notin Absent => f.side.gen < g

ArchiveInv ==
    \A g \in 1..MaxRecoveries :
        /\ Older(archive[g], g)
        /\ g > last \/ (g = last /\ command.at = "publish")
             => archive[g] = [index |-> Missing, side |-> Missing]

SettledInv ==
    intent = Missing =>
        /\ dir.index # Missing /\ dir.index.gen = config.gen
        /\ dir.side \notin Absent => dir.side.gen = config.gen
        /\ command.at = "publish" =>
               /\ config.gen < last
               /\ candidate = [gen |-> last, rev |-> 0, wal |-> FALSE,
                               pending |-> config.mode # "SendOnly"]
        /\ command.at \in {"open", "authority", "mode"} /\ ~dir.index.wal => dir.side \in Absent
        /\ command.at = "mode" => ~Committed(dir).pending

Displacing ==
    /\ candidate = intent.index
    /\ Older(dir, last)
    /\ dir.index = Missing <=> archive[last].index # Missing
    /\ archive[last].side # Missing \/ dir.index = Missing \/ command.at \in {"index", "link"}
         => dir.side \in Absent
    /\ command.at = "link" => dir.index = Missing
    /\ command.at \in {"idle", "resume", "check", "side", "index", "link"}

Replaced ==
    /\ dir.index = intent.index
    /\ dir.side \in Absent
    /\ archive[last].index # Missing
    /\ candidate \in {Missing, intent.index}
    /\ command.at \in {"verify", "config", "drop"} => candidate = Missing
    /\ command.at = "drop" => config.gen = last
    /\ command.at \in {"idle", "resume", "check", "unlink", "verify", "config", "drop"}

IntentInv ==
    intent # Missing =>
        /\ intent.gen = last /\ last \in 1..MaxRecoveries /\ intent.index.gen = last
        /\ intent.config = [config EXCEPT !.gen = last]
        /\ Displacing \/ Replaced

Inv ==
    /\ TypeOK /\ LockInv /\ PhaseInv /\ ArchiveInv /\ SettledInv /\ IntentInv
    /\ config.gen <= last
-----------------------------------------------------------------------------
(* Commands, files and transactions *)

LEMMA GoCommand ==
    ASSUME NEW at \in At, command \in Command, Go(at)
    PROVE  command' \in Command /\ command'.at = at /\ command'.op = command.op
BY DEF Go, Command

LEMMA EndCommand ==
    ASSUME End
    PROVE  command' \in Command /\ command'.at = "idle" /\ command'.op = "use"
BY DEF End, Idle, Command, Op, At

LEMMA FilesWith ==
    ASSUME NEW f \in Files
    PROVE  /\ \A x \in Image \cup {Missing} : [f EXCEPT !.index = x] \in Files
           /\ \A x \in Image \cup {Missing, Empty} : [f EXCEPT !.side = x] \in Files
           /\ \A x \in Image \cup {Missing}, y \in Image \cup {Missing, Empty} :
                 [index |-> x, side |-> y] \in Files
           /\ f.index \in Image \cup {Missing} /\ f.side \in Image \cup {Missing, Empty}
BY DEF Files

LEMMA CommittedImage ==
    ASSUME dir \in Files, dir.index # Missing
    PROVE  Committed(dir) \in Image
BY DEF Files, Committed

(* A transaction is what is read afterwards, whichever file it went to. *)
LEMMA SaveCommits ==
    ASSUME Inv, command.at \in {"open", "authority"},
           NEW i \in Image, i.gen = config.gen, Save(i)
    PROVE  /\ dir' \in Files
           /\ Committed(dir') = i
           /\ dir'.index # Missing /\ dir'.index.gen = config.gen
           /\ dir'.side \notin Absent => dir'.side.gen = config.gen
           /\ ~dir'.index.wal => dir'.side \in Absent
<1> USE MarkersAssumption DEF Absent
<1>1. /\ dir \in Files /\ dir.index # Missing /\ dir.index.gen = config.gen
      /\ ~dir.index.wal => dir.side \in Absent
  BY DEF Inv, TypeOK, PhaseInv, SettledInv, Finishing
<1>2. CASE dir.index.wal
  <2>1. dir' = [dir EXCEPT !.side = i]
    BY <1>2 DEF Save
  <2>2. dir' \in Files /\ dir'.side = i /\ dir'.index = dir.index
    BY <1>1, <2>1 DEF Files
  <2>3. QED
    BY <1>1, <1>2, <2>2 DEF Committed
<1>3. CASE ~dir.index.wal
  <2>1. dir' = [dir EXCEPT !.index = i]
    BY <1>3 DEF Save
  <2>2. dir' \in Files /\ dir'.side = dir.side /\ dir'.index = i
    BY <1>1, <2>1 DEF Files
  <2>3. QED
    BY <1>1, <1>3, <2>2 DEF Committed
<1>4. QED
  BY <1>2, <1>3

LEMMA Readable ==
    ASSUME Inv, intent = Missing
    PROVE  Committed(dir) \in Image /\ Committed(dir).gen = config.gen /\ dir.index \in Image
BY FilesWith, CommittedImage, MarkersAssumption DEF Inv, TypeOK, SettledInv, Committed,
   Absent

-----------------------------------------------------------------------------
(* Every step keeps the invariant. *)

LEMMA BeginGood ==
    ASSUME NEW op \in Op, NEW offline \in BOOLEAN, Inv, Begin(op, offline)
    PROVE  Inv'
<1> USE MarkersAssumption, BoundsAssumption DEF Inv, store, Finishing, ConfigLocked, Absent
<1>1. TypeOK'
  BY DEF TypeOK, Files, Intent, Config, Command, Idle, Image, Mode, Grant, Begin, Op, At
<1>2. LockInv' /\ PhaseInv'
  BY DEF LockInv, PhaseInv, TypeOK, Command, Idle, Begin, Op, At
<1>3. ArchiveInv'
  BY DEF ArchiveInv, Older, PhaseInv, IntentInv, Displacing, Replaced, SettledInv, TypeOK,
     Command, Idle, Begin, Op, At
<1>4. SettledInv'
  BY DEF SettledInv, LockInv, PhaseInv, IntentInv, Displacing, Replaced, Older, TypeOK,
     Committed, Command, Idle, Begin, Op, At
<1>5. IntentInv' /\ (config.gen <= last)'
  BY DEF IntentInv, Displacing, Replaced, ArchiveInv, Older, LockInv, PhaseInv, SettledInv,
     TypeOK, Command, Idle, Begin, Op, At
<1>6. QED
  BY <1>1, <1>2, <1>3, <1>4, <1>5

LEMMA ResumeGood ==
    ASSUME Inv, Resume
    PROVE  Inv'
<1> USE MarkersAssumption, BoundsAssumption DEF Inv, store, Finishing, ConfigLocked, Absent
<1>1. TypeOK'
  BY GoCommand, EndCommand DEF TypeOK, Resume, Opened, At
<1>2. LockInv' /\ PhaseInv'
  BY DEF LockInv, PhaseInv, TypeOK, Command, Idle, Resume, Opened, Go, End, ConfigFree, At
<1>3. ArchiveInv'
  BY DEF ArchiveInv, Older, PhaseInv, IntentInv, Displacing, Replaced, SettledInv, TypeOK,
     Command, Idle, Resume, Opened, Go, End, ConfigFree, At
<1>4. SettledInv'
  BY DEF SettledInv, LockInv, PhaseInv, IntentInv, Displacing, Replaced, Older, TypeOK,
     Committed, Command, Idle, Resume, Opened, Go, End, ConfigFree, At
<1>5. IntentInv' /\ (config.gen <= last)'
  <2>1. /\ command'.at \in {"prepare", "connect", "check", "idle"}
        /\ intent # Missing => command'.at \in {"check", "idle"}
    BY GoCommand, EndCommand DEF Resume, Opened, At, TypeOK
  <2>2. QED
    BY <2>1 DEF IntentInv, Displacing, Replaced, Older, Resume
<1>6. QED
  BY <1>1, <1>2, <1>3, <1>4, <1>5

LEMMA ConnectGood ==
    ASSUME Inv, Connect
    PROVE  Inv'
<1> USE MarkersAssumption, BoundsAssumption DEF Inv, store, Finishing, ConfigLocked, Absent
<1>1. TypeOK'
  <2>1. dir' \in Files
    BY FilesWith, Readable DEF TypeOK, Connect, Settled, PhaseInv
  <2>2. command' \in Command
    BY GoCommand DEF TypeOK, Connect, Settled, At
  <2>3. QED
    BY <2>1, <2>2 DEF TypeOK, Connect, Settled
<1>2. LockInv' /\ PhaseInv'
  <2>1. /\ command'.op = command.op /\ command'.at \in {"open", "authority", "mode", "close"}
        /\ command'.at \in {"authority", "mode"} => command.op = "activate" /\ ConfigFree
    <3>1. command.op \in {"use", "activate"}
      BY DEF TypeOK, PhaseInv, Connect, Settled, Command, Op
    <3>2. QED
      BY <3>1, GoCommand DEF TypeOK, Connect, Settled, At
  <2>2. QED
    BY <2>1 DEF LockInv, PhaseInv, Connect, Settled, ConfigFree
<1>3. ArchiveInv'
  BY DEF ArchiveInv, Older, PhaseInv, IntentInv, Displacing, Replaced, SettledInv, TypeOK,
     Command, Idle, Connect, Settled, Go, ConfigFree, Committed, At
<1>4. SettledInv'
  BY DEF SettledInv, LockInv, PhaseInv, IntentInv, Displacing, Replaced, Older, TypeOK,
     Committed, Command, Idle, Connect, Settled, Go, ConfigFree, At
<1>5. IntentInv' /\ (config.gen <= last)'
  BY DEF IntentInv, Displacing, Replaced, ArchiveInv, Older, LockInv, PhaseInv, SettledInv,
     TypeOK, Command, Idle, Connect, Settled, Go, ConfigFree, Committed, At
<1>6. QED
  BY <1>1, <1>2, <1>3, <1>4, <1>5

LEMMA WriteGood ==
    ASSUME Inv, Write
    PROVE  Inv'
<1> USE MarkersAssumption, BoundsAssumption DEF Inv, store, Finishing, ConfigLocked, Absent
<1> DEFINE i == Written
<1>a. intent = Missing
  BY DEF PhaseInv, Write
<1>b. i \in Image /\ i.gen = config.gen
  BY <1>a, Readable DEF Image, Written
<1> HIDE DEF i
<1>c. /\ dir' \in Files /\ Committed(dir') = i
      /\ dir'.index # Missing /\ dir'.index.gen = config.gen
      /\ dir'.side \notin Absent => dir'.side.gen = config.gen
      /\ ~dir'.index.wal => dir'.side \in Absent
  BY <1>b, SaveCommits DEF i, Write
<1>1. TypeOK'
  BY <1>c DEF TypeOK, Write
<1>2. LockInv' /\ PhaseInv'
  BY DEF LockInv, PhaseInv, TypeOK, Command, Idle, Write, Written, Save, Committed
<1>3. ArchiveInv'
  BY DEF ArchiveInv, Older, PhaseInv, IntentInv, Displacing, Replaced, SettledInv, TypeOK,
     Command, Idle, Write, Written, Save, Committed
<1>4. SettledInv'
  BY <1>c DEF SettledInv, Write
<1>5. IntentInv' /\ (config.gen <= last)'
  BY DEF IntentInv, Displacing, Replaced, ArchiveInv, Older, LockInv, PhaseInv, SettledInv,
     TypeOK, Command, Idle, Write, Written, Save, Committed
<1>6. QED
  BY <1>1, <1>2, <1>3, <1>4, <1>5

LEMMA ReconcileGood ==
    ASSUME Inv, Reconcile
    PROVE  Inv'
<1> USE MarkersAssumption, BoundsAssumption DEF Inv, store, Finishing, ConfigLocked, Absent
<1> DEFINE i == [Committed(dir) EXCEPT !.pending = FALSE]
<1>a. intent = Missing
  BY DEF PhaseInv, Reconcile
<1>b. i \in Image /\ i.gen = config.gen
  BY <1>a, Readable DEF Image
<1> HIDE DEF i
<1>c. /\ dir' \in Files /\ Committed(dir') = i
      /\ dir'.index # Missing /\ dir'.index.gen = config.gen
      /\ dir'.side \notin Absent => dir'.side.gen = config.gen
      /\ ~dir'.index.wal => dir'.side \in Absent
  BY <1>b, SaveCommits DEF i, Reconcile
<1>1. TypeOK'
  BY <1>c DEF TypeOK, Reconcile
<1>2. LockInv' /\ PhaseInv'
  BY DEF LockInv, PhaseInv, TypeOK, Command, Idle, Reconcile, Save, Committed
<1>3. ArchiveInv'
  BY DEF ArchiveInv, Older, PhaseInv, IntentInv, Displacing, Replaced, SettledInv, TypeOK,
     Command, Idle, Reconcile, Save, Committed
<1>4. SettledInv'
  BY <1>c DEF SettledInv, Reconcile
<1>5. IntentInv' /\ (config.gen <= last)'
  BY DEF IntentInv, Displacing, Replaced, ArchiveInv, Older, LockInv, PhaseInv, SettledInv,
     TypeOK, Command, Idle, Reconcile, Save, Committed
<1>6. QED
  BY <1>1, <1>2, <1>3, <1>4, <1>5

LEMMA CloseGood ==
    ASSUME Inv, Close
    PROVE  Inv'
<1> USE MarkersAssumption, BoundsAssumption DEF Inv, store, Finishing, ConfigLocked, Absent
<1>1. TypeOK'
  <2>1. intent = Missing
    BY DEF PhaseInv, Close
  <2>2. dir' \in Files
    BY <2>1, FilesWith, Readable DEF TypeOK, Close
  <2>3. spent' \in [crashes : Nat, reads : Nat, grants : Nat]
    BY DEF TypeOK, Close
  <2>4. QED
    BY <2>2, <2>3, EndCommand DEF TypeOK, Close
<1>2. LockInv' /\ PhaseInv'
  BY DEF LockInv, PhaseInv, TypeOK, Command, Idle, Close, End, Committed, Op, At
<1>3. ArchiveInv'
  BY DEF ArchiveInv, Older, PhaseInv, IntentInv, Displacing, Replaced, SettledInv, TypeOK,
     Command, Idle, Close, End, Committed, Op, At
<1>4. SettledInv'
  BY DEF SettledInv, LockInv, PhaseInv, IntentInv, Displacing, Replaced, Older, TypeOK,
     Committed, Command, Idle, Close, End, Op, At
<1>5. IntentInv' /\ (config.gen <= last)'
  BY DEF IntentInv, Displacing, Replaced, ArchiveInv, Older, LockInv, PhaseInv, SettledInv,
     TypeOK, Command, Idle, Close, End, Committed, Op, At
<1>6. QED
  BY <1>1, <1>2, <1>3, <1>4, <1>5

LEMMA TakeAuthorityGood ==
    ASSUME Inv, TakeAuthority
    PROVE  Inv'
<1> USE MarkersAssumption, BoundsAssumption DEF Inv, store, Finishing, ConfigLocked, Absent
<1> DEFINE i == [Committed(dir) EXCEPT !.pending = FALSE]
<1>a. intent = Missing
  BY DEF PhaseInv, TakeAuthority
<1>b. i \in Image /\ i.gen = config.gen
  BY <1>a, Readable DEF Image
<1> HIDE DEF i
<1>c. /\ dir' \in Files /\ Committed(dir') = i
      /\ dir'.index # Missing /\ dir'.index.gen = config.gen
      /\ dir'.side \notin Absent => dir'.side.gen = config.gen
      /\ ~dir'.index.wal => dir'.side \in Absent
  BY <1>b, SaveCommits DEF i, TakeAuthority
<1>1. TypeOK'
  BY <1>c, GoCommand DEF TypeOK, TakeAuthority, At
<1>2. LockInv' /\ PhaseInv'
  BY DEF LockInv, PhaseInv, TypeOK, Command, Idle, TakeAuthority, Save, Committed, Go, At
<1>3. ArchiveInv'
  BY DEF ArchiveInv, Older, PhaseInv, IntentInv, Displacing, Replaced, SettledInv, TypeOK,
     Command, Idle, TakeAuthority, Save, Committed, Go, At
<1>4. SettledInv'
  <2>1. command'.at = "mode" /\ ~i.pending
    BY <1>a, Readable, GoCommand DEF TakeAuthority, At, TypeOK, i, Image
  <2>2. QED
    BY <1>c, <2>1 DEF SettledInv, TakeAuthority
<1>5. IntentInv' /\ (config.gen <= last)'
  BY DEF IntentInv, Displacing, Replaced, ArchiveInv, Older, LockInv, PhaseInv, SettledInv,
     TypeOK, Command, Idle, TakeAuthority, Save, Committed, Go, At
<1>6. QED
  BY <1>1, <1>2, <1>3, <1>4, <1>5

LEMMA RestoreModeGood ==
    ASSUME Inv, RestoreMode
    PROVE  Inv'
<1> USE MarkersAssumption, BoundsAssumption DEF Inv, store, Finishing, ConfigLocked, Absent
<1>1. TypeOK'
  <2>1. report \in Mode
    BY DEF TypeOK, PhaseInv, SettledInv, RestoreMode, Mode
  <2>2. config' \in Config
    BY <2>1 DEF TypeOK, RestoreMode, Config
  <2>3. QED
    BY <2>2, GoCommand DEF TypeOK, RestoreMode, At
<1>2. LockInv' /\ PhaseInv'
  BY DEF LockInv, PhaseInv, TypeOK, Command, Idle, RestoreMode, Go, At
<1>3. ArchiveInv'
  BY DEF ArchiveInv, Older, PhaseInv, IntentInv, Displacing, Replaced, SettledInv, TypeOK,
     Command, Idle, RestoreMode, Go, At
<1>4. SettledInv'
  BY DEF SettledInv, LockInv, PhaseInv, IntentInv, Displacing, Replaced, Older, TypeOK,
     Committed, Command, Idle, RestoreMode, Go, At
<1>5. IntentInv' /\ (config.gen <= last)'
  BY DEF IntentInv, Displacing, Replaced, ArchiveInv, Older, LockInv, PhaseInv, SettledInv,
     TypeOK, Command, Idle, RestoreMode, Go, At
<1>6. QED
  BY <1>1, <1>2, <1>3, <1>4, <1>5

LEMMA PrepareGood ==
    ASSUME Inv, Prepare
    PROVE  Inv'
<1> USE MarkersAssumption, BoundsAssumption DEF Inv, store, Finishing, ConfigLocked, Absent
<1>1. TypeOK'
  <2>1. CASE ConfigFree /\ last < MaxRecoveries
    <3>1. last' = last + 1 /\ last' \in Nat /\ last' \in 0..MaxRecoveries
      BY <2>1 DEF TypeOK, Prepare
    <3>2. candidate' = [gen |-> last', rev |-> 0, wal |-> FALSE, pending |-> config.mode # "SendOnly"]
      BY <2>1, <3>1 DEF Prepare
    <3>3. candidate' \in Image
      BY <3>1, <3>2 DEF Image
    <3>4. QED
      BY <2>1, <3>1, <3>3, GoCommand DEF TypeOK, Prepare, At
  <2>2. CASE ~(ConfigFree /\ last < MaxRecoveries)
    BY <2>2, EndCommand DEF TypeOK, Prepare
  <2>3. QED
    BY <2>1, <2>2
<1>2. LockInv' /\ PhaseInv'
  BY DEF LockInv, PhaseInv, TypeOK, Command, Idle, Prepare, ConfigFree, Go, End, Op, At
<1>3. ArchiveInv'
  BY DEF ArchiveInv, Older, PhaseInv, IntentInv, Displacing, Replaced, SettledInv, TypeOK,
     Command, Idle, Prepare, ConfigFree, Go, End, Op, At
<1>4. SettledInv'
  BY DEF SettledInv, LockInv, PhaseInv, IntentInv, Displacing, Replaced, Older, TypeOK,
     Committed, Command, Idle, Files, Intent, Config, Image, Prepare, ConfigFree, Go, End,
     Op, At
<1>5. IntentInv' /\ (config.gen <= last)'
  BY DEF IntentInv, Displacing, Replaced, ArchiveInv, Older, LockInv, PhaseInv, SettledInv,
     TypeOK, Command, Idle, Files, Intent, Config, Image, Prepare, ConfigFree, Go, End, Op,
     At
<1>6. QED
  BY <1>1, <1>2, <1>3, <1>4, <1>5

LEMMA PublishIntentGood ==
    ASSUME Inv, PublishIntent
    PROVE  Inv'
<1> USE MarkersAssumption, BoundsAssumption DEF Inv, store, Finishing, ConfigLocked, Absent
<1>a. /\ intent' = [gen |-> last, index |-> candidate, config |-> [config EXCEPT !.gen = last]]
      /\ candidate \in Image /\ config \in Config /\ last \in Nat
  <2>1. last \in Nat /\ config \in Config
    BY DEF TypeOK
  <2>2. candidate = [gen |-> last, rev |-> 0, wal |-> FALSE, pending |-> config.mode # "SendOnly"]
    BY DEF PublishIntent, Renewed, PhaseInv, SettledInv
  <2>3. QED
    BY <2>1, <2>2 DEF PublishIntent, Renewed, Image
<1>b. intent' \in Intent /\ intent' # Missing
  BY <1>a DEF Intent, Config
<1>c. command' \in Command /\ command'.at = "check" /\ command'.op = command.op
  BY DEF PublishIntent, Renewed, TypeOK, Command, At
<1>1. TypeOK'
  BY <1>b, <1>c DEF TypeOK, PublishIntent, Renewed
<1>2. LockInv' /\ PhaseInv'
  BY <1>b, <1>c DEF LockInv, PhaseInv, PublishIntent, Renewed
<1>3. ArchiveInv'
  BY DEF ArchiveInv, Older, PhaseInv, IntentInv, Displacing, Replaced, SettledInv, TypeOK,
     Command, Idle, PublishIntent, Renewed, At
<1>4. SettledInv'
  BY DEF SettledInv, LockInv, PhaseInv, IntentInv, Displacing, Replaced, Older, TypeOK,
     Committed, Command, Idle, PublishIntent, Renewed, At
<1>5. IntentInv' /\ (config.gen <= last)'
  BY DEF IntentInv, Displacing, Replaced, ArchiveInv, Older, LockInv, PhaseInv, SettledInv,
     TypeOK, Command, Idle, Files, Intent, Config, Image, PublishIntent, Renewed, At
<1>6. QED
  BY <1>1, <1>2, <1>3, <1>4, <1>5

LEMMA CheckGood ==
    ASSUME Inv, Check
    PROVE  Inv'
<1> USE MarkersAssumption, BoundsAssumption DEF Inv, store, Finishing, ConfigLocked, Absent
<1>1. TypeOK'
  BY GoCommand, EndCommand DEF TypeOK, Check, At
<1>2. LockInv' /\ PhaseInv'
  BY GoCommand, EndCommand DEF LockInv, PhaseInv, TypeOK, Check, At
<1>3. ArchiveInv'
  BY DEF ArchiveInv, Older, PhaseInv, IntentInv, Displacing, Replaced, SettledInv, TypeOK,
     Command, Idle, Check, Published, Go, End, Op, At
<1>4. SettledInv'
  BY DEF SettledInv, LockInv, PhaseInv, IntentInv, Displacing, Replaced, Older, TypeOK,
     Committed, Command, Idle, Check, Published, Go, End, Op, At
<1>5. IntentInv' /\ (config.gen <= last)'
  <2>1. intent # Missing /\ intent \in Intent
    BY DEF PhaseInv, TypeOK, Check
  <2>2. CASE Displacing
    <3>1. ~Published /\ candidate # Missing
      BY <2>1, <2>2, FilesWith DEF Published, Displacing, IntentInv, Older, TypeOK, Intent,
         Image
    <3>2. command'.at \in {"idle", "side"}
      BY <2>2, <3>1, GoCommand, EndCommand DEF Check, At, TypeOK, Displacing
    <3>3. QED
      BY <2>2, <3>2 DEF IntentInv, Displacing, Older, Check
  <2>3. CASE Replaced
    <3>1. command'.at = "idle" \/ (candidate = Missing /\ command'.at = "verify")
             \/ (candidate # Missing /\ command'.at \in {"unlink"})
      BY <2>1, <2>3, GoCommand, EndCommand DEF Check, At, TypeOK, Replaced, Published,
         Intent
    <3>2. QED
      BY <2>3, <3>1 DEF IntentInv, Replaced, Check
  <2>4. QED
    BY <2>1, <2>2, <2>3 DEF IntentInv
<1>6. QED
  BY <1>1, <1>2, <1>3, <1>4, <1>5

LEMMA MoveSideGood ==
    ASSUME Inv, MoveSide
    PROVE  Inv'
<1> USE MarkersAssumption, BoundsAssumption DEF Inv, store, Finishing, ConfigLocked, Absent
<1>1. /\ intent # Missing /\ intent.gen = last /\ last \in 1..MaxRecoveries
      /\ dir \in Files /\ archive \in [1..MaxRecoveries -> Files] /\ Displacing
      /\ intent' = intent /\ candidate' = candidate /\ last' = last /\ config' = config
      /\ grant' = grant /\ report' = report /\ spent' = spent
  BY DEF PhaseInv, IntentInv, TypeOK, Replaced, MoveSide
<1>2. command' \in Command /\ command'.at \in {"idle", "index"}
      /\ (command'.op = command.op \/ command'.op = "use")
  BY GoCommand, EndCommand DEF MoveSide, TypeOK, At
<1>3. LockInv' /\ PhaseInv'
  BY <1>1, <1>2 DEF LockInv, PhaseInv, MoveSide
<1>4. SettledInv' /\ (config.gen <= last)'
  BY <1>1 DEF SettledInv
<1>5. CASE dir' = dir /\ archive' = archive
  <2>1. TypeOK' /\ ArchiveInv'
    BY <1>1, <1>2, <1>5 DEF TypeOK, ArchiveInv
  <2>2. IntentInv'
    <3>1. command'.at = "index" => dir.side = Missing
      <4>1. command'.at = "index" => ~End
        BY EndCommand
      <4>2. [dir EXCEPT !.side = Missing].side = Missing
        BY <1>1 DEF Files
      <4>3. QED
        BY <1>5, <4>1, <4>2 DEF MoveSide
    <3>2. QED
      BY <1>1, <1>2, <1>5, <3>1 DEF IntentInv, Displacing, MoveSide
  <2>3. QED
    BY <1>3, <1>4, <2>1, <2>2
<1>6. CASE /\ dir.side # Missing /\ archive[last].side = Missing
           /\ archive' = [archive EXCEPT ![last].side = dir.side]
           /\ dir' = [dir EXCEPT !.side = Missing]
           /\ command'.at = "index"
  <2>1. dir' \in Files /\ dir'.side = Missing /\ dir'.index = dir.index
    BY <1>1, <1>6 DEF Files
  <2>2. /\ archive' \in [1..MaxRecoveries -> Files]
        /\ archive'[last].side = dir.side /\ archive'[last].index = archive[last].index
        /\ \A g \in 1..MaxRecoveries : g # last => archive'[g] = archive[g]
    <3>1. archive[last] \in Files /\ [archive[last] EXCEPT !.side = dir.side] \in Files
      BY <1>1, FilesWith
    <3>2. archive' = [archive EXCEPT ![last] = [archive[last] EXCEPT !.side = dir.side]]
      BY <1>6
    <3>3. QED
      BY <1>1, <3>1, <3>2 DEF Files
  <2>3. TypeOK'
    BY <1>1, <1>2, <2>1, <2>2 DEF TypeOK
  <2>4. ArchiveInv'
    BY <1>1, <1>6, <2>2 DEF ArchiveInv, Older, Displacing
  <2>5. IntentInv'
    BY <1>1, <1>6, <2>1, <2>2 DEF IntentInv, Displacing, Older, MoveSide
  <2>6. QED
    BY <1>3, <1>4, <2>3, <2>4, <2>5
<1>7. QED
  BY <1>1, <1>5, <1>6, GoCommand, EndCommand DEF MoveSide, TypeOK, At

LEMMA MoveIndexGood ==
    ASSUME Inv, MoveIndex
    PROVE  Inv'
<1> USE MarkersAssumption, BoundsAssumption DEF Inv, store, Finishing, ConfigLocked, Absent
<1>1. /\ intent # Missing /\ intent.gen = last /\ last \in 1..MaxRecoveries
      /\ dir \in Files /\ archive \in [1..MaxRecoveries -> Files] /\ Displacing
      /\ intent' = intent /\ candidate' = candidate /\ last' = last /\ config' = config
      /\ grant' = grant /\ report' = report /\ spent' = spent
  BY DEF PhaseInv, IntentInv, TypeOK, Replaced, MoveIndex
<1>2. command' \in Command /\ command'.at \in {"idle", "link"}
      /\ (command'.op = command.op \/ command'.op = "use")
  BY GoCommand, EndCommand DEF MoveIndex, TypeOK, At
<1>3. LockInv' /\ PhaseInv'
  BY <1>1, <1>2 DEF LockInv, PhaseInv, MoveIndex
<1>4. SettledInv' /\ (config.gen <= last)'
  BY <1>1 DEF SettledInv
<1>5. CASE dir' = dir /\ archive' = archive
  <2>1. TypeOK' /\ ArchiveInv'
    BY <1>1, <1>2, <1>5 DEF TypeOK, ArchiveInv
  <2>2. IntentInv'
    <3>1. command'.at = "link" => dir.index = Missing
      <4>1. command'.at = "link" => ~End
        BY EndCommand
      <4>2. [dir EXCEPT !.index = Missing].index = Missing
        BY <1>1 DEF Files
      <4>3. QED
        BY <1>5, <4>1, <4>2 DEF MoveIndex
    <3>2. QED
      BY <1>1, <1>2, <1>5, <3>1 DEF IntentInv, Displacing, MoveIndex
  <2>3. QED
    BY <1>3, <1>4, <2>1, <2>2
<1>6. CASE /\ dir.index # Missing /\ archive[last].index = Missing
           /\ archive' = [archive EXCEPT ![last].index = dir.index]
           /\ dir' = [dir EXCEPT !.index = Missing]
           /\ command'.at = "link"
  <2>1. dir' \in Files /\ dir'.index = Missing /\ dir'.side = dir.side
    BY <1>1, <1>6 DEF Files
  <2>2. /\ archive' \in [1..MaxRecoveries -> Files]
        /\ archive'[last].index = dir.index /\ archive'[last].side = archive[last].side
        /\ \A g \in 1..MaxRecoveries : g # last => archive'[g] = archive[g]
    <3>1. archive[last] \in Files /\ [archive[last] EXCEPT !.index = dir.index] \in Files
      BY <1>1, FilesWith
    <3>2. archive' = [archive EXCEPT ![last] = [archive[last] EXCEPT !.index = dir.index]]
      BY <1>6
    <3>3. QED
      BY <1>1, <3>1, <3>2 DEF Files
  <2>3. TypeOK'
    BY <1>1, <1>2, <2>1, <2>2 DEF TypeOK
  <2>4. ArchiveInv'
    BY <1>1, <1>6, <2>2 DEF ArchiveInv, Older, Displacing
  <2>5. IntentInv'
    BY <1>1, <1>6, <2>1, <2>2 DEF IntentInv, Displacing, Older, MoveIndex
  <2>6. QED
    BY <1>3, <1>4, <2>3, <2>4, <2>5
<1>7. QED
  BY <1>1, <1>5, <1>6, GoCommand, EndCommand DEF MoveIndex, TypeOK, At

LEMMA LinkGood ==
    ASSUME Inv, Link
    PROVE  Inv'
<1> USE MarkersAssumption, BoundsAssumption DEF Inv, store, Finishing, ConfigLocked, Absent
<1>1. TypeOK'
  <2>1. dir' \in Files
    BY FilesWith DEF TypeOK, Link
  <2>2. QED
    BY <2>1, GoCommand, EndCommand DEF TypeOK, Link, At
<1>2. LockInv' /\ PhaseInv'
  BY DEF LockInv, PhaseInv, TypeOK, Command, Idle, Link, Go, End, Op, At
<1>3. ArchiveInv'
  BY DEF ArchiveInv, Older, PhaseInv, IntentInv, Displacing, Replaced, SettledInv, TypeOK,
     Command, Idle, Link, Go, End, Op, At
<1>4. SettledInv'
  BY DEF SettledInv, LockInv, PhaseInv, IntentInv, Displacing, Replaced, Older, TypeOK,
     Committed, Command, Idle, Link, Go, End, Op, At
<1>5. IntentInv' /\ (config.gen <= last)'
  <2>1. /\ command.at = "link" /\ UNCHANGED <<candidate, archive, intent, last, config>>
        /\ intent # Missing
    BY DEF Link, PhaseInv
  <2>2. Displacing
    BY <2>1 DEF IntentInv, Replaced
  <2>3. /\ dir.index = Missing /\ candidate = intent.index /\ dir.side \in Absent
        /\ archive[last].index # Missing
    BY <2>1, <2>2 DEF Displacing
  <2>4. dir' = [dir EXCEPT !.index = candidate] /\ Go("unlink")
    BY <2>3 DEF Link
  <2>5. dir'.index = candidate /\ dir'.side = dir.side /\ command'.at = "unlink"
    BY <2>4 DEF TypeOK, Files, Go, Command
  <2>6. Replaced'
    BY <2>1, <2>3, <2>5 DEF Replaced
  <2>7. QED
    BY <2>1, <2>6 DEF IntentInv
<1>6. QED
  BY <1>1, <1>2, <1>3, <1>4, <1>5

LEMMA UnlinkGood ==
    ASSUME Inv, Unlink
    PROVE  Inv'
<1> USE MarkersAssumption, BoundsAssumption DEF Inv, store, Finishing, ConfigLocked, Absent
<1>1. TypeOK'
  <2>1. command' \in Command
    BY GoCommand DEF TypeOK, Unlink, At
  <2>2. QED
    BY <2>1 DEF TypeOK, Unlink
<1>2. LockInv' /\ PhaseInv'
  BY DEF LockInv, PhaseInv, TypeOK, Command, Idle, Unlink, Go, At
<1>3. ArchiveInv'
  BY DEF ArchiveInv, Older, PhaseInv, IntentInv, Displacing, Replaced, SettledInv, TypeOK,
     Command, Idle, Unlink, Go, At
<1>4. SettledInv'
  BY DEF SettledInv, LockInv, PhaseInv, IntentInv, Displacing, Replaced, Older, TypeOK,
     Committed, Command, Idle, Unlink, Go, At
<1>5. IntentInv' /\ (config.gen <= last)'
  BY DEF IntentInv, Displacing, Replaced, ArchiveInv, Older, LockInv, PhaseInv, SettledInv,
     TypeOK, Command, Idle, Unlink, Go, At
<1>6. QED
  BY <1>1, <1>2, <1>3, <1>4, <1>5

LEMMA VerifyGood ==
    ASSUME Inv, Verify
    PROVE  Inv'
<1> USE MarkersAssumption, BoundsAssumption DEF Inv, store, Finishing, ConfigLocked, Absent
<1>1. TypeOK'
  BY GoCommand, EndCommand DEF TypeOK, Verify, At
<1>2. LockInv' /\ PhaseInv'
  BY DEF LockInv, PhaseInv, TypeOK, Command, Idle, Verify, Go, End, Op, At
<1>3. ArchiveInv'
  BY DEF ArchiveInv, Older, PhaseInv, IntentInv, Displacing, Replaced, SettledInv, TypeOK,
     Command, Idle, Verify, Go, End, Op, At
<1>4. SettledInv'
  BY DEF SettledInv, LockInv, PhaseInv, IntentInv, Displacing, Replaced, Older, TypeOK,
     Committed, Command, Idle, Verify, Go, End, Op, At
<1>5. IntentInv' /\ (config.gen <= last)'
  BY DEF IntentInv, Displacing, Replaced, ArchiveInv, Older, LockInv, PhaseInv, SettledInv,
     TypeOK, Command, Idle, Verify, Go, End, Op, At
<1>6. QED
  BY <1>1, <1>2, <1>3, <1>4, <1>5

LEMMA ReplaceConfigGood ==
    ASSUME Inv, ReplaceConfig
    PROVE  Inv'
<1> USE MarkersAssumption, BoundsAssumption DEF Inv, store, Finishing, ConfigLocked, Absent
<1>1. TypeOK'
  <2>1. config' \in Config
    BY DEF TypeOK, ReplaceConfig, PhaseInv, Intent
  <2>2. QED
    BY <2>1, GoCommand DEF TypeOK, ReplaceConfig, At
<1>2. LockInv' /\ PhaseInv'
  BY DEF LockInv, PhaseInv, TypeOK, Command, Idle, ReplaceConfig, Go, At
<1>3. ArchiveInv'
  BY DEF ArchiveInv, Older, PhaseInv, IntentInv, Displacing, Replaced, SettledInv, TypeOK,
     Command, Idle, ReplaceConfig, Go, At
<1>4. SettledInv'
  BY DEF SettledInv, LockInv, PhaseInv, IntentInv, Displacing, Replaced, Older, TypeOK,
     Committed, Command, Idle, ReplaceConfig, Go, At
<1>5. IntentInv' /\ (config.gen <= last)'
  <2>1. /\ command.at = "config" /\ config' = intent.config /\ Go("drop")
        /\ UNCHANGED <<dir, candidate, archive, intent, last>> /\ intent # Missing
    BY DEF ReplaceConfig, PhaseInv
  <2>2. /\ intent.gen = last /\ last \in 1..MaxRecoveries /\ intent.index.gen = last
        /\ intent.config = [config EXCEPT !.gen = last] /\ Replaced
    BY <2>1 DEF IntentInv, Displacing
  <2>3. config \in Config /\ command'.at = "drop" /\ last \in Nat
    BY <2>1, <2>2, BoundsAssumption DEF TypeOK, Go, Command
  <2>4. config' = [config EXCEPT !.gen = last] /\ config'.gen = last
    BY <2>1, <2>2, <2>3 DEF Config
  <2>5. intent.config = [config' EXCEPT !.gen = last]
    BY <2>2, <2>3, <2>4 DEF Config
  <2>6. Replaced'
    BY <2>1, <2>2, <2>3, <2>4 DEF Replaced
  <2>7. IntentInv'
    BY <2>1, <2>2, <2>5, <2>6 DEF IntentInv
  <2>8. QED
    BY <2>1, <2>3, <2>4, <2>7
<1>6. QED
  BY <1>1, <1>2, <1>3, <1>4, <1>5

LEMMA DropIntentGood ==
    ASSUME Inv, DropIntent
    PROVE  Inv'
<1> USE MarkersAssumption, BoundsAssumption DEF Inv, store, Finishing, ConfigLocked, Absent
<1>1. TypeOK'
  BY GoCommand, EndCommand DEF TypeOK, DropIntent, Opened, At
<1>2. LockInv' /\ PhaseInv'
  BY DEF LockInv, PhaseInv, TypeOK, Command, Idle, DropIntent, Opened, Go, End, Op, At
<1>3. ArchiveInv'
  BY DEF ArchiveInv, Older, PhaseInv, IntentInv, Displacing, Replaced, SettledInv, TypeOK,
     Command, Idle, DropIntent, Opened, Go, End, Op, At
<1>4. SettledInv'
  BY DEF SettledInv, LockInv, PhaseInv, IntentInv, Displacing, Replaced, Older, TypeOK,
     Committed, Command, Idle, Files, Intent, Config, Image, DropIntent, Opened, Go, End,
     Op, At
<1>5. IntentInv' /\ (config.gen <= last)'
  BY DEF IntentInv, DropIntent
<1>6. QED
  BY <1>1, <1>2, <1>3, <1>4, <1>5

LEMMA LockConfigGood ==
    ASSUME NEW p \in Peer, NEW remove \in BOOLEAN, Inv, LockConfig(p, remove)
    PROVE  Inv'
<1> USE MarkersAssumption, BoundsAssumption DEF Inv, store, Finishing, ConfigLocked, Absent
<1>1. TypeOK'
  BY DEF TypeOK, LockConfig, Grant
<1>2. LockInv' /\ PhaseInv'
  BY DEF LockInv, PhaseInv, TypeOK, Command, Idle, LockConfig, ConfigFree
<1>3. ArchiveInv'
  BY DEF ArchiveInv, Older, PhaseInv, IntentInv, Displacing, Replaced, SettledInv, TypeOK,
     Command, Idle, LockConfig, ConfigFree
<1>4. SettledInv'
  BY DEF SettledInv, LockInv, PhaseInv, IntentInv, Displacing, Replaced, Older, TypeOK,
     Committed, Command, Idle, LockConfig, ConfigFree
<1>5. IntentInv' /\ (config.gen <= last)'
  BY DEF IntentInv, Displacing, Replaced, ArchiveInv, Older, LockInv, PhaseInv, SettledInv,
     TypeOK, Command, Idle, LockConfig, ConfigFree
<1>6. QED
  BY <1>1, <1>2, <1>3, <1>4, <1>5

LEMMA SetGrantGood ==
    ASSUME Inv, SetGrant
    PROVE  Inv'
<1> USE MarkersAssumption, BoundsAssumption DEF Inv, store, Finishing, ConfigLocked, Absent
<1>1. TypeOK'
  <2>1. config' \in Config
    <3>1. grant.peer \in Peer /\ config \in Config
      BY DEF TypeOK, Grant, SetGrant, NoRecovery
    <3>2. QED
      BY <3>1 DEF Config, SetGrant, NoRecovery
  <2>2. QED
    BY <2>1 DEF TypeOK, SetGrant, NoRecovery
<1>2. LockInv' /\ PhaseInv'
  BY DEF LockInv, PhaseInv, TypeOK, Command, Idle, SetGrant, NoRecovery
<1>3. ArchiveInv'
  BY DEF ArchiveInv, Older, PhaseInv, IntentInv, Displacing, Replaced, SettledInv, TypeOK,
     Command, Idle, SetGrant, NoRecovery
<1>4. SettledInv'
  BY DEF SettledInv, LockInv, PhaseInv, IntentInv, Displacing, Replaced, Older, TypeOK,
     Committed, Command, Idle, SetGrant, NoRecovery
<1>5. IntentInv' /\ (config.gen <= last)'
  BY DEF IntentInv, Displacing, Replaced, ArchiveInv, Older, LockInv, PhaseInv, SettledInv,
     TypeOK, Command, Idle, SetGrant, NoRecovery
<1>6. QED
  BY <1>1, <1>2, <1>3, <1>4, <1>5

LEMMA ReadCatalogGood ==
    ASSUME Inv, ReadCatalog
    PROVE  Inv'
<1> USE MarkersAssumption, BoundsAssumption DEF Inv, store, Finishing, ConfigLocked, Absent
<1>1. TypeOK'
  <2>1. dir' \in Files
    BY FilesWith DEF TypeOK, ReadCatalog
  <2>2. spent' \in [crashes : Nat, reads : Nat, grants : Nat]
    BY DEF TypeOK, ReadCatalog
  <2>3. QED
    BY <2>1, <2>2 DEF TypeOK, ReadCatalog
<1>2. LockInv' /\ PhaseInv'
  BY DEF LockInv, PhaseInv, TypeOK, Command, Idle, ReadCatalog, Committed
<1>3. ArchiveInv'
  BY DEF ArchiveInv, Older, PhaseInv, IntentInv, Displacing, Replaced, SettledInv, TypeOK,
     Command, Idle, ReadCatalog, Committed
<1>4. SettledInv'
  BY DEF SettledInv, LockInv, PhaseInv, IntentInv, Displacing, Replaced, Older, TypeOK,
     Committed, Command, Idle, ReadCatalog
<1>5. IntentInv' /\ (config.gen <= last)'
  BY DEF IntentInv, Displacing, Replaced, ArchiveInv, Older, LockInv, PhaseInv, SettledInv,
     TypeOK, Command, Idle, ReadCatalog, Committed
<1>6. QED
  BY <1>1, <1>2, <1>3, <1>4, <1>5

LEMMA CrashGood ==
    ASSUME Inv, Crash
    PROVE  Inv'
<1> USE MarkersAssumption, BoundsAssumption DEF Inv, store, Finishing, ConfigLocked, Absent
<1>1. TypeOK'
  <2>1. command' \in Command
    BY EndCommand DEF TypeOK, Crash
  <2>2. dir' \in Files
    <3>1. CASE dir' = dir
      BY <3>1 DEF TypeOK
    <3>2. CASE dir' = [index |-> Written, side |-> dir.index] /\ command.at = "open"
      <4>1. Written \in Image /\ dir.index \in Image
        BY <3>2, Readable DEF Written, Image, PhaseInv
      <4>2. QED
        BY <3>2, <4>1, FilesWith DEF TypeOK
    <3>3. QED
      BY <3>1, <3>2 DEF Crash
  <2>3. spent' \in [crashes : Nat, reads : Nat, grants : Nat]
    BY DEF TypeOK, Crash
  <2>4. QED
    BY <2>1, <2>2, <2>3 DEF TypeOK, Crash
<1>2. LockInv' /\ PhaseInv'
  BY DEF LockInv, PhaseInv, TypeOK, Command, Idle, Crash, Written, Committed, End, Op, At
<1>3. ArchiveInv'
  BY DEF ArchiveInv, Older, PhaseInv, IntentInv, Displacing, Replaced, SettledInv, TypeOK,
     Command, Idle, Crash, Written, Committed, End, Op, At
<1>4. SettledInv'
  <2>1. CASE dir' = dir
    BY <2>1, EndCommand DEF SettledInv, Crash
  <2>2. CASE dir' = [index |-> Written, side |-> dir.index] /\ command.at = "open" /\ End
    <3>1. Written.gen = config.gen /\ dir.index.gen = config.gen
      BY <2>2, Readable DEF Written, Image, PhaseInv, SettledInv
    <3>2. Written \in Image /\ dir.index \in Image
      BY <2>2, Readable DEF Written, Image, PhaseInv
    <3>3. dir'.index = Written /\ dir'.side = dir.index /\ config' = config
      BY <2>2 DEF Crash
    <3>4. command'.at = "idle"
      BY <2>2, EndCommand
    <3>5. QED
      BY <3>1, <3>2, <3>3, <3>4 DEF SettledInv
  <2>3. QED
    BY <2>1, <2>2 DEF Crash
<1>5. IntentInv' /\ (config.gen <= last)'
  <2>1. CASE intent = Missing
    BY <2>1 DEF IntentInv, Crash
  <2>2. CASE intent # Missing
    <3>1. dir' = dir /\ (command'.at = "idle" \/ command' = command)
      BY <2>2, EndCommand DEF Crash, PhaseInv
    <3>2. QED
      BY <2>2, <3>1 DEF IntentInv, Displacing, Replaced, Crash
  <2>3. QED
    BY <2>1, <2>2
<1>6. QED
  BY <1>1, <1>2, <1>3, <1>4, <1>5

LEMMA InitGood == Init => Inv
<1> SUFFICES ASSUME Init PROVE Inv
  OBVIOUS
<1> USE MarkersAssumption, BoundsAssumption DEF Init
<1>1. PICK m \in Mode, r \in BOOLEAN :
         /\ dir = [index |-> [gen |-> 0, rev |-> 0, pending |-> r, wal |-> ~r],
                   side |-> Missing]
         /\ config = [gen |-> 0, mode |-> IF r THEN "ReceiveOnly" ELSE m, peers |-> {}]
         /\ report = IF r THEN m ELSE Missing
  OBVIOUS
<1>2. TypeOK
  BY <1>1 DEF TypeOK, Files, Image, Config, Mode, Command, Idle, Op, At
<1>3. LockInv /\ PhaseInv /\ ArchiveInv /\ IntentInv
  BY <1>1 DEF LockInv, PhaseInv, ArchiveInv, IntentInv, Idle, Finishing, Older, Absent
<1>4. SettledInv /\ config.gen <= last
  <2>1. dir.index \in Image
    BY <1>1 DEF Image
  <2>2. QED
    BY <1>1, <2>1 DEF SettledInv, Idle, Absent
<1>5. QED
  BY <1>2, <1>3, <1>4 DEF Inv

LEMMA NextGood == Inv /\ [Next]_vars => Inv'
<1> SUFFICES ASSUME Inv, [Next]_vars PROVE Inv'
  OBVIOUS
<1>1. CASE \E op \in Op, offline \in BOOLEAN : Begin(op, offline)
  BY <1>1, BeginGood
<1>2. CASE Step
  BY <1>2, ResumeGood, ConnectGood, CloseGood, TakeAuthorityGood, RestoreModeGood,
     PrepareGood,
     PublishIntentGood, CheckGood, MoveSideGood, MoveIndexGood, LinkGood, UnlinkGood,
     VerifyGood, ReplaceConfigGood, DropIntentGood DEF Step
<1>3. CASE Write \/ Reconcile
  BY <1>3, WriteGood, ReconcileGood
<1>4. CASE \E p \in Peer, remove \in BOOLEAN : LockConfig(p, remove)
  BY <1>4, LockConfigGood
<1>5. CASE SetGrant \/ ReadCatalog \/ Crash
  BY <1>5, SetGrantGood, ReadCatalogGood, CrashGood
<1>6. CASE UNCHANGED vars
  BY <1>6 DEF vars, Inv, TypeOK, LockInv, PhaseInv, ArchiveInv, Older, SettledInv,
     IntentInv,
     Displacing, Replaced, Committed
<1>7. QED
  BY <1>1, <1>2, <1>3, <1>4, <1>5, <1>6 DEF Next

LEMMA InvHolds == Spec => []Inv
BY InitGood, NextGood, PTL DEF Spec

-----------------------------------------------------------------------------
(* What a share keeps through interruptions *)

(* Every file has its shape, and what is not there is not data, in every state
   of share-recover, device-activate and the commands around them. *)
THEOREM TypeCorrect == Spec => []TypeOK
<1>1. Inv => TypeOK
  BY DEF Inv
<1>2. QED
  BY InvHolds, <1>1, PTL

(* However finish was interrupted (backup.rs:474), a share whose intent is gone
   opens: it has an index, and of the epoch in config.json (share.rs:259). *)
THEOREM AlwaysUsable == Spec => []Usable
<1>1. Inv => Usable
  <2> SUFFICES ASSUME Inv, intent = Missing
               PROVE  dir.index # Missing /\ Committed(dir).gen = config.gen
    BY DEF Usable
  <2>1. QED
    BY Readable DEF Inv, SettledInv
<1>2. QED
  BY InvHolds, <1>1, PTL

(* The next command that opens the share can finish what an intent says, unless
   a reader of the catalog gave the old index a second log. *)
THEOREM AlwaysFinishable == Spec => []IntentFinishes
<1>1. Inv => IntentFinishes
  <2> SUFFICES ASSUME Inv, intent # Missing, ~CanFinish
               PROVE  Recreated
    BY DEF IntentFinishes
  <2> USE MarkersAssumption DEF Inv
  <2>1. /\ intent \in Intent /\ config \in Config /\ intent.gen = last
        /\ intent.config = [config EXCEPT !.gen = last]
        /\ Displacing \/ Replaced
    BY DEF IntentInv, TypeOK
  <2>2. config.mode = intent.config.mode /\ config.peers = intent.config.peers
    BY <2>1 DEF Config
  <2>3. intent.index # Missing
    BY <2>1 DEF Intent
  <2>4. CASE Replaced
    BY <2>1, <2>2, <2>3, <2>4 DEF CanFinish, Replaced, Published
  <2>5. CASE Displacing /\ ~Replaced
    <3>1. ~Published /\ candidate # Missing
      BY <2>2, <2>3, <2>5 DEF CanFinish, Displacing, Published
    <3>2. dir.side # Missing /\ archive[last].side # Missing
      BY <2>1, <2>2, <2>3, <2>5 DEF CanFinish, Displacing
    <3>3. QED
      BY <2>1, <2>5, <3>1, <3>2 DEF Recreated, Displacing, Absent
  <2>6. QED
    BY <2>1, <2>4, <2>5
<1>2. QED
  BY InvHolds, <1>1, PTL

-----------------------------------------------------------------------------
(* The refinement *)

Shown == <<ShareIndex, Kept, config.mode, config.peers>>

(* Two sets of files that SQLite reads alike. *)
Alike(e, f) ==
    /\ e.index = Missing <=> f.index = Missing
    /\ e.index # Missing => Committed(e) = Committed(f)

LEMMA KeptAlike ==
    ASSUME \A g \in 1..MaxRecoveries : Alike(Retired(g), Retired(g)')
    PROVE  Kept' = Kept
BY DEF Kept, Alike, Committed

(* Without an intent, what is kept is what lies in the archive. *)
LEMMA KeptWithout ==
    ASSUME intent = Missing, intent' = Missing, archive' = archive
    PROVE  Kept' = Kept
BY KeptAlike DEF Retired, Alike

LEMMA NothingMoved ==
    ASSUME UNCHANGED <<dir, archive, intent>>
    PROVE  Kept' = Kept /\ ShareIndex' = ShareIndex
<1>1. \A g \in 1..MaxRecoveries : Retired(g)' = Retired(g)
  BY DEF Retired
<1>2. Kept' = Kept
  BY <1>1, KeptAlike DEF Alike
<1>3. QED
  BY <1>2 DEF ShareIndex, Committed

LEMMA InitSimulates == Init => Share!Init
<1> SUFFICES ASSUME Init PROVE Share!Init
  OBVIOUS
<1>1. ShareIndex.gen = 0 /\ ShareIndex.rev = 0
  BY MarkersAssumption DEF Init, ShareIndex, Committed
<1>2. \A g \in 1..MaxRecoveries : Retired(g).index = Missing
  BY DEF Init, Retired
<1>3. Kept = {}
  BY <1>2 DEF Kept
<1>4. QED
  BY <1>1, <1>3 DEF Share!Init

(* SQLite's own: opening, closing, a reader, a transaction that was not ended. *)
LEMMA ConnectSimulates == Inv /\ Connect => UNCHANGED Shown
<1> SUFFICES ASSUME Inv, Connect PROVE UNCHANGED Shown
  OBVIOUS
<1>1. intent = Missing /\ intent' = Missing /\ archive' = archive
  BY DEF Connect, Settled, Inv, PhaseInv, Finishing
<1>2. Committed(dir') = Committed(dir)
  BY MarkersAssumption, <1>1, Readable DEF Connect, Settled, Committed, Inv, TypeOK, Files
<1>3. QED
  BY <1>1, <1>2, KeptWithout DEF Shown, ShareIndex, Connect, Settled

LEMMA CloseSimulates == Inv /\ Close => UNCHANGED Shown
<1> SUFFICES ASSUME Inv, Close PROVE UNCHANGED Shown
  OBVIOUS
<1>1. intent = Missing /\ intent' = Missing /\ archive' = archive
  BY DEF Close, Inv, PhaseInv, Finishing, store
<1>2. Committed(dir') = Committed(dir)
  BY <1>1 DEF Close, Committed
<1>3. QED
  BY <1>1, <1>2, KeptWithout DEF Shown, ShareIndex, Close

LEMMA CrashSimulates == Inv /\ Crash => UNCHANGED Shown
<1> SUFFICES ASSUME Inv, Crash PROVE UNCHANGED Shown
  OBVIOUS
<1>1. CASE dir' = dir
  BY <1>1, NothingMoved DEF Shown, Crash, store
<1>2. CASE command.at = "open" /\ ~dir.index.wal /\ dir' = [index |-> Written, side |-> dir.index]
  <2>1. intent = Missing /\ intent' = Missing /\ archive' = archive
    BY <1>2 DEF Crash, Inv, PhaseInv, Finishing, store
  <2>2. dir.index \in Image /\ dir.side \in {Missing, Empty}
    BY <1>2, <2>1, Readable DEF Inv, SettledInv, Absent
  <2>3. Committed(dir') = Committed(dir)
    BY <1>2, <2>2, MarkersAssumption DEF Committed
  <2>4. QED
    BY <2>1, <2>3, KeptWithout DEF Shown, ShareIndex, Crash
<1>3. QED
  BY <1>1, <1>2 DEF Crash

LEMMA ReadSimulates == Inv /\ ReadCatalog => UNCHANGED Shown
<1> SUFFICES ASSUME Inv, ReadCatalog PROVE UNCHANGED Shown
  OBVIOUS
<1> USE MarkersAssumption DEF ReadCatalog, store
<1>1. dir' \in Files /\ dir'.index = dir.index /\ dir.side = Missing /\ dir'.side = Empty
  BY DEF Inv, TypeOK, Files
<1>2. \A g \in 1..MaxRecoveries : Alike(Retired(g), Retired(g)')
  BY <1>1 DEF Retired, Alike, Committed
<1>3. Committed(dir') = Committed(dir)
  BY <1>1 DEF Committed
<1>4. QED
  BY <1>2, <1>3, KeptAlike DEF Shown, ShareIndex

(* Transactions *)
LEMMA WriteSimulates == Inv /\ Write => Share!Commit
<1> SUFFICES ASSUME Inv, Write PROVE Share!Commit
  OBVIOUS
<1>1. intent = Missing /\ intent' = Missing /\ archive' = archive /\ config' = config
  BY DEF Write, Inv, PhaseInv, Finishing, store
<1>2. Written \in Image /\ Written.gen = config.gen
  BY <1>1, Readable DEF Written, Image
<1>3. Committed(dir') = Written
  BY <1>2, SaveCommits DEF Write
<1>4. QED
  BY <1>1, <1>3, KeptWithout DEF Share!Commit, ShareIndex, Written

LEMMA SettleSimulates == Inv /\ (Reconcile \/ TakeAuthority) => Share!Settle
<1> SUFFICES ASSUME Inv, Reconcile \/ TakeAuthority PROVE Share!Settle
  OBVIOUS
<1> DEFINE i == [Committed(dir) EXCEPT !.pending = FALSE]
<1>1. intent = Missing /\ intent' = Missing /\ archive' = archive /\ config' = config
  BY DEF Reconcile, TakeAuthority, Inv, PhaseInv, Finishing, ConfigLocked, store
<1>2. i \in Image /\ i.gen = config.gen
  BY <1>1, Readable DEF Image
<1>3. Save(i) /\ command.at \in {"open", "authority"}
  BY DEF Reconcile, TakeAuthority
<1>4. Committed(dir') = i
  <2> HIDE DEF i
  <2>1. QED
    BY <1>2, <1>3, SaveCommits
<1>5. QED
  BY <1>1, <1>4, KeptWithout DEF Share!Settle, ShareIndex

LEMMA ActivationSimulates == Inv /\ RestoreMode => Share!Activate(report) /\ report \in Mode
<1> SUFFICES ASSUME Inv, RestoreMode PROVE Share!Activate(report) /\ report \in Mode
  OBVIOUS
<1>1. intent = Missing /\ intent' = Missing /\ UNCHANGED <<dir, archive>>
  BY DEF RestoreMode, Inv, PhaseInv, Finishing, store
<1>2. report \in Mode /\ ~Committed(dir).pending
  BY <1>1 DEF RestoreMode, Inv, TypeOK, PhaseInv, SettledInv
<1>3. config'.mode = report /\ config'.peers = config.peers
  BY <1>2 DEF RestoreMode, Inv, TypeOK, Config
<1>4. QED
  BY <1>1, <1>2, <1>3, NothingMoved, KeptWithout DEF Share!Activate, ShareIndex

LEMMA GrantSimulates ==
    Inv /\ SetGrant => \/ UNCHANGED Shown
                       \/ \E p \in Peer : Share!Approve(p) \/ Share!Revoke(p)
<1> SUFFICES ASSUME Inv, SetGrant
             PROVE  \/ UNCHANGED Shown
                    \/ \E p \in Peer : Share!Approve(p) \/ Share!Revoke(p)
  OBVIOUS
<1>1. Kept' = Kept /\ ShareIndex' = ShareIndex
  BY NothingMoved DEF SetGrant, NoRecovery, store
<1>2. grant.peer \in Peer /\ config \in Config
  BY DEF SetGrant, NoRecovery, Inv, TypeOK, Grant
<1>3. CASE intent # Missing
  BY <1>1, <1>3 DEF Shown, SetGrant, NoRecovery
<1>4. CASE intent = Missing /\ grant.remove
  BY <1>1, <1>2, <1>4 DEF Share!Revoke, SetGrant, NoRecovery, Config
<1>5. CASE intent = Missing /\ ~grant.remove
  BY <1>1, <1>2, <1>5 DEF Share!Approve, SetGrant, NoRecovery, Config
<1>6. QED
  BY <1>3, <1>4, <1>5

(* The steps of finish *)
LEMMA MoveSimulates == Inv /\ (MoveSide \/ MoveIndex) => UNCHANGED Shown
<1> SUFFICES ASSUME Inv, MoveSide \/ MoveIndex PROVE UNCHANGED Shown
  OBVIOUS
<1> USE MarkersAssumption
<1>1. /\ intent # Missing /\ intent' = intent /\ config' = config /\ intent.gen = last
      /\ last' = last /\ last \in 1..MaxRecoveries
      /\ dir \in Files /\ archive \in [1..MaxRecoveries -> Files]
  BY DEF MoveSide, MoveIndex, Inv, PhaseInv, IntentInv, TypeOK, Finishing
<1>2. \A g \in 1..MaxRecoveries : g # last => archive'[g] = archive[g]
  BY <1>1 DEF MoveSide, MoveIndex
<1>3. Alike(Retired(last), Retired(last)')
  <2>1. CASE dir' = dir /\ archive' = archive
    BY <1>1, <2>1 DEF Alike, Retired
  <2>2. CASE /\ archive[last].side = Missing /\ dir.side # Missing
             /\ archive' = [archive EXCEPT ![last].side = dir.side]
             /\ dir' = [dir EXCEPT !.side = Missing]
    <3>1. dir'.index = dir.index /\ dir'.side = Missing
      BY <1>1, <2>2 DEF Files
    <3>2. archive'[last].index = archive[last].index /\ archive'[last].side = dir.side
      BY <1>1, <2>2 DEF Files
    <3>3. Retired(last)' = Retired(last)
      BY <1>1, <2>2, <3>1, <3>2 DEF Retired
    <3>4. QED
      BY <3>3 DEF Alike
  <2>3. CASE /\ archive[last].index = Missing /\ dir.index # Missing
             /\ archive' = [archive EXCEPT ![last].index = dir.index]
             /\ dir' = [dir EXCEPT !.index = Missing]
    <3>1. dir'.index = Missing /\ dir'.side = dir.side
      BY <1>1, <2>3 DEF Files
    <3>2. archive'[last].index = dir.index /\ archive'[last].side = archive[last].side
      BY <1>1, <2>3 DEF Files
    <3>3. Retired(last)' = Retired(last)
      BY <1>1, <2>3, <3>1, <3>2 DEF Retired
    <3>4. QED
      BY <3>3 DEF Alike
  <2>4. QED
    BY <1>1, <2>1, <2>2, <2>3 DEF MoveSide, MoveIndex
<1>4. \A g \in 1..MaxRecoveries : Alike(Retired(g), Retired(g)')
  BY <1>1, <1>2, <1>3 DEF Alike, Retired
<1>5. QED
  BY <1>1, <1>4, KeptAlike DEF Shown, ShareIndex

(* The old index is in the archive before the new one is linked. *)
LEMMA LinkSimulates == Inv /\ Link => UNCHANGED Shown
<1> SUFFICES ASSUME Inv, Link PROVE UNCHANGED Shown
  OBVIOUS
<1>1. /\ intent # Missing /\ UNCHANGED <<intent, config, archive>> /\ intent.gen = last
      /\ dir \in Files /\ Displacing
  BY DEF Link, Inv, PhaseInv, IntentInv, Replaced, TypeOK, Finishing, store
<1>2. archive[last].index # Missing /\ dir'.side = dir.side
  BY <1>1 DEF Link, Displacing, Files
<1>3. \A g \in 1..MaxRecoveries : Retired(g)' = Retired(g)
  BY <1>1, <1>2 DEF Retired
<1>4. QED
  BY <1>1, <1>3, KeptAlike DEF Alike, Shown, ShareIndex

LEMMA ConfigSimulates == Inv /\ ReplaceConfig => UNCHANGED Shown
<1> SUFFICES ASSUME Inv, ReplaceConfig PROVE UNCHANGED Shown
  OBVIOUS
<1>1. intent.config = [config EXCEPT !.gen = last] /\ config \in Config
  BY DEF ReplaceConfig, Inv, PhaseInv, IntentInv, TypeOK, Finishing
<1>2. config'.mode = config.mode /\ config'.peers = config.peers
  BY <1>1 DEF ReplaceConfig, Config
<1>3. QED
  BY <1>2, NothingMoved DEF Shown, ReplaceConfig, store

LEMMA DropSimulates == Inv /\ DropIntent => UNCHANGED Shown
<1> SUFFICES ASSUME Inv, DropIntent PROVE UNCHANGED Shown
  OBVIOUS
<1>1. /\ intent # Missing /\ intent' = Missing /\ UNCHANGED <<dir, config, archive>>
      /\ intent.gen = last /\ archive[last].index # Missing
      /\ dir.index = intent.index /\ dir.side \in {Missing, Empty}
  BY DEF DropIntent, Inv, PhaseInv, IntentInv, Replaced, Displacing, Finishing, Absent
<1>2. \A g \in 1..MaxRecoveries : Alike(Retired(g), Retired(g)')
  <2> SUFFICES ASSUME NEW g \in 1..MaxRecoveries PROVE Alike(Retired(g), Retired(g)')
    OBVIOUS
  <2>1. Retired(g)' = archive[g]
    BY <1>1 DEF Retired
  <2>2. CASE g # last
    BY <1>1, <2>1, <2>2 DEF Retired, Alike
  <2>3. CASE g = last
    <3>1. archive[g] \in Files
      BY DEF Inv, TypeOK
    <3>2. Retired(g) = [index |-> archive[g].index,
                        side |-> IF archive[g].side = Missing THEN dir.side ELSE archive[g].side]
      BY <1>1, <2>3 DEF Retired
    <3>3. QED
      BY <1>1, <2>1, <2>3, <3>1, <3>2 DEF Alike, Committed
  <2>4. QED
    BY <2>2, <2>3
<1>3. Committed(dir) = intent.index
  BY <1>1 DEF Committed
<1>4. QED
  BY <1>1, <1>2, <1>3, KeptAlike DEF Shown, ShareIndex

(* The commit point. *)
LEMMA PublishSimulates == Inv /\ PublishIntent => Share!Replace
<1> SUFFICES ASSUME Inv, PublishIntent PROVE Share!Replace
  OBVIOUS
<1> DEFINE new == [gen |-> last, rev |-> 0, pending |-> config.mode # "SendOnly", wal |-> FALSE]
<1>1. /\ intent = Missing /\ UNCHANGED <<dir, config, archive, last>>
      /\ candidate = new /\ config.gen < last /\ last \in 1..MaxRecoveries
      /\ config \in Config
      /\ archive[last] = [index |-> Missing, side |-> Missing]
      /\ dir \in Files /\ dir.index # Missing
  <2>1. intent = Missing
    BY DEF PublishIntent, Renewed, Inv, PhaseInv, Finishing
  <2>2. last \in 0..MaxRecoveries /\ config.gen < last /\ config \in Config
    BY <2>1 DEF PublishIntent, Renewed, Inv, SettledInv, TypeOK
  <2>3. last \in 1..MaxRecoveries
    BY <2>2, BoundsAssumption DEF Config
  <2>4. QED
    BY <2>1, <2>2, <2>3 DEF PublishIntent, Renewed, Inv, SettledInv, TypeOK, ArchiveInv
<1>2. intent' = [gen |-> last, index |-> candidate, config |-> [config EXCEPT !.gen = last]]
  BY DEF PublishIntent, Renewed
<1>3. intent' \in Intent
  BY <1>1, <1>2 DEF Intent, Image, Config
<1>4. intent' # Missing /\ ShareIndex = Committed(dir) /\ ShareIndex' = new
  BY <1>1, <1>2, <1>3, MarkersAssumption DEF ShareIndex
<1>5. Committed(dir) \in Image /\ Committed(dir).gen = config.gen
  BY <1>1, Readable
<1>6. /\ \A g \in 1..MaxRecoveries : Retired(g) = archive[g]
      /\ \A g \in 1..MaxRecoveries : g # last => Retired(g)' = archive[g]
      /\ Retired(last)' = dir
  BY <1>1, <1>2, <1>4 DEF Retired, Files
<1>7. Kept' = Kept \cup {ShareIndex}
  <2>1. Kept = {Committed(archive[g]) : g \in {n \in 1..MaxRecoveries : archive[n].index # Missing}}
    BY <1>6 DEF Kept
  <2>2. Kept' = {Committed(archive[g]) : g \in {n \in 1..MaxRecoveries : archive[n].index # Missing}}
                  \cup {Committed(dir)}
    <3>1. Kept' = {Committed(Retired(g)') :
                     g \in {n \in 1..MaxRecoveries : Retired(n)'.index # Missing}}
      BY DEF Kept, Committed
    <3>2. \A g \in 1..MaxRecoveries : (archive[g].index # Missing) => g # last
      BY <1>1
    <3>3. QED
      BY <1>1, <1>6, <3>1, <3>2
  <2>3. QED
    BY <1>4, <2>1, <2>2
<1>8. \A old \in Kept : old.gen < last
  <2> SUFFICES ASSUME NEW g \in 1..MaxRecoveries, archive[g].index # Missing
               PROVE  Committed(archive[g]).gen < last
    BY <1>6 DEF Kept
  <2>1. g < last
    BY <1>1 DEF PublishIntent, Renewed, Inv, ArchiveInv
  <2>2. archive[g] \in Files /\ Older(archive[g], g)
    BY DEF Inv, TypeOK, ArchiveInv
  <2>3. Committed(archive[g]) \in Image /\ Committed(archive[g]).gen < g
    BY <2>2 DEF Older, Committed, Files, Absent
  <2>4. QED
    BY <1>1, <2>1, <2>3 DEF Image
<1>9. QED
  BY <1>1, <1>4, <1>5, <1>7, <1>8 DEF Share!Replace, Image

(* Recoveries, activations and grants are one step each of what a share
   promises, whatever was interrupted and resumed (backup.rs:474, :347,
   share.rs:111). *)
THEOREM RecoveryImplementsShareState == Spec => ImplementsShareState
<1>1. Inv /\ [Next]_vars => [Share!Next]_(Share!vars)
  <2> SUFFICES ASSUME Inv, [Next]_vars
               PROVE  Share!Next \/ UNCHANGED Shown
    BY DEF Share!vars, Shown
  <2>1. CASE \E op \in Op, offline \in BOOLEAN : Begin(op, offline)
    <3>1. UNCHANGED <<dir, archive, intent, config>>
      BY <2>1 DEF Begin
    <3>2. QED
      BY <3>1, NothingMoved DEF Shown
  <2>2. CASE \E p \in Peer, remove \in BOOLEAN : LockConfig(p, remove)
    <3>1. UNCHANGED <<dir, archive, intent, config>>
      BY <2>2 DEF LockConfig, store
    <3>2. QED
      BY <3>1, NothingMoved DEF Shown
  <2>3. CASE Resume \/ Prepare \/ Check \/ Unlink \/ Verify
    <3>1. UNCHANGED <<dir, archive, intent, config>>
      BY <2>3 DEF Resume, Prepare, Check, Unlink, Verify, store
    <3>2. QED
      BY <3>1, NothingMoved DEF Shown
  <2>4. CASE Step
    BY <2>3, <2>4, ConnectSimulates, CloseSimulates, SettleSimulates, ActivationSimulates,
       PublishSimulates, MoveSimulates, LinkSimulates, ConfigSimulates, DropSimulates
       DEF Step, Share!Next, Mode
  <2>5. CASE Write \/ Reconcile
    BY <2>5, WriteSimulates, SettleSimulates DEF Share!Next
  <2>6. CASE SetGrant
    BY <2>6, GrantSimulates DEF Share!Next
  <2>7. CASE ReadCatalog \/ Crash
    BY <2>7, ReadSimulates, CrashSimulates
  <2>8. CASE UNCHANGED vars
    BY <2>8, NothingMoved DEF vars, Shown
  <2>9. QED
    BY <2>1, <2>2, <2>4, <2>5, <2>6, <2>7, <2>8 DEF Next
<1>2. QED
  BY InitSimulates, InvHolds, <1>1, PTL DEF Spec, ImplementsShareState, Share!Spec
===============================================================================
