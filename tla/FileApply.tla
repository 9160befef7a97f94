------------------------------ MODULE FileApply ------------------------------
(***************************************************************************)
(* How a device publishes received content at one path of a folder:        *)
(* Root::apply and Root::recover (src/root.rs), step by step, with the     *)
(* acknowledgement in the index (Share::apply_local, src/share.rs).        *)
(*                                                                         *)
(* Files are inodes and names are links to them.  Applications act on the  *)
(* path between any two steps; the process stops, or an operation of the   *)
(* filesystem fails, at any step.                                          *)
(*                                                                         *)
(* Abstractions.  A directory is made or removed by one system call and is *)
(* left to FolderSync.  A stop of the process keeps what was done; a power *)
(* loss, which the calls to sync are for, is left out.  Applications do    *)
(* not keep a file open while it is moved aside.                           *)
(***************************************************************************)
EXTENDS Integers, Sequences

CONSTANTS
    Bytes,      \* contents of files
    Absent,     \* no file; also the content of a deletion
    MaxEdits,   \* bound: edits by applications
    MaxFaults,  \* bound: stops and failed operations
    MaxApplies  \* bound: publications begun

ASSUME FileAssumption ==
    /\ Bytes # {} /\ Absent \notin Bytes
    /\ MaxEdits \in Nat /\ MaxFaults \in Nat /\ MaxApplies \in Nat

Inode == 1 .. MaxEdits + MaxApplies
Image == Bytes \cup {Absent}

VARIABLES
    bytes,   \* the content of each inode
    name,    \* the inode at the path, 0 if there is none
    txn,     \* the transactions under .everywhere-recovery
    pc,      \* what the process that holds index.lock does next
    at,      \* the transaction it works on
    target,  \* what it publishes
    known,   \* what the index has recorded of the path
    used,    \* inodes given out
    mine,    \* history variable: inodes applications wrote and did not remove
    budget   \* what is left of the bounds

vars == <<bytes, name, txn, pc, at, target, known, used, mine, budget>>

Transaction ==
    {t \in [incoming : Inode \cup {0}, previous : Inode \cup {0},
            record : {"none", "torn", "whole"},
            before : Image, after : Image, done : BOOLEAN] :
        t.done => t.record = "whole"}

Step ==
    {"closed", "recover", "relink", "settle", "tidy",
     "open", "stage", "record", "write", "move", "check", "publish", "undo",
     "finish", "clean", "ack"}

Content(i) == IF i = 0 THEN Absent ELSE bytes[i]

Spend(what) ==
    /\ budget[what] > 0
    /\ budget' = [budget EXCEPT ![what] = @ - 1]

Init ==
    /\ bytes = [i \in Inode |-> CHOOSE b \in Bytes : TRUE]
    /\ name = 0 /\ txn = <<>>
    /\ pc = "closed" /\ at = 0
    /\ target = Absent /\ known = Absent
    /\ used = 0 /\ mine = {}
    /\ budget = [edits |-> MaxEdits, faults |-> MaxFaults, applies |-> MaxApplies]

-----------------------------------------------------------------------------
(* Applications *)

(* A new file takes the path: saved aside and renamed over it, or created. *)
Replace(b) ==
    /\ Spend("edits")
    /\ bytes' = [bytes EXCEPT ![used + 1] = b]
    /\ used' = used + 1
    /\ name' = used + 1
    /\ mine' = (mine \ {name}) \cup {used + 1}
    /\ UNCHANGED <<txn, pc, at, target, known>>

(* The file at the path is rewritten in place, through every link to it. *)
Rewrite(b) ==
    /\ Spend("edits")
    /\ name # 0 /\ bytes[name] # b
    /\ bytes' = [bytes EXCEPT ![name] = b]
    /\ mine' = mine \cup {name}
    /\ UNCHANGED <<name, txn, pc, at, target, known, used>>

Remove ==
    /\ Spend("edits")
    /\ name # 0
    /\ name' = 0
    /\ mine' = mine \ {name}
    /\ UNCHANGED <<bytes, txn, pc, at, target, known, used>>

-----------------------------------------------------------------------------
(* Root::apply *)

Go(step) == pc' = step

(* The folder already holds the content: only the index learns. *)
Agree(goal) ==
    /\ pc = "open"
    /\ Content(name) = goal
    /\ known' = goal
    /\ UNCHANGED <<bytes, name, txn, pc, at, target, used, mine, budget>>

(* Mutant: whatever is at the path is replaced. *)
MayReplaceAnything == TRUE

MayReplace == Content(name) = known

Begin(goal) ==
    /\ pc = "open"
    /\ Spend("applies")
    /\ Content(name) # goal
    /\ MayReplace
    /\ target' = goal
    /\ Go("stage")
    /\ UNCHANGED <<bytes, name, txn, at, known, used, mine>>

(* A transaction directory with the incoming file, a copy of the object. *)
Stage ==
    /\ pc = "stage"
    /\ LET file == target # Absent IN
       /\ bytes' = IF file THEN [bytes EXCEPT ![used + 1] = target] ELSE bytes
       /\ used' = IF file THEN used + 1 ELSE used
       /\ txn' = Append(txn, [incoming |-> IF file THEN used + 1 ELSE 0,
                              previous |-> 0, record |-> "none",
                              before |-> known, after |-> target, done |-> FALSE])
    /\ at' = Len(txn) + 1
    /\ Go("record")
    /\ UNCHANGED <<name, target, known, mine, budget>>

(* record.json is created, then written. *)
CreateRecord ==
    /\ pc = "record"
    /\ txn' = [txn EXCEPT ![at].record = "torn"]
    /\ Go("write")
    /\ UNCHANGED <<bytes, name, at, target, known, used, mine, budget>>

WriteRecord ==
    /\ pc = "write"
    /\ txn' = [txn EXCEPT ![at].record = "whole"]
    /\ Go("move")
    /\ UNCHANGED <<bytes, name, at, target, known, used, mine, budget>>

(* What was at the path is moved into the transaction; if it has gone, the
   rename fails. *)
MoveAside ==
    /\ pc = "move"
    /\ IF known # Absent /\ name # 0
       THEN txn' = [txn EXCEPT ![at].previous = name] /\ name' = 0
       ELSE UNCHANGED <<txn, name>>
    /\ Go(CASE known = Absent              -> "publish"
            [] known # Absent /\ name # 0  -> "check"
            [] known # Absent /\ name = 0  -> "closed")
    /\ UNCHANGED <<bytes, at, target, known, used, mine, budget>>

(* Mutant: what was moved aside is taken for what was expected. *)
AsExpectedUnchecked == TRUE

AsExpected == bytes[txn[at].previous] = known

Check ==
    /\ pc = "check"
    /\ Go(IF AsExpected THEN "publish" ELSE "undo")
    /\ UNCHANGED <<bytes, name, txn, at, target, known, used, mine, budget>>

(* Mutant: the incoming file is renamed over the path. *)
LinkedOver(old, new) == new

(* A hard link never replaces what is there. *)
Linked(old, new) == IF old = 0 THEN new ELSE old

(* A deletion only looks whether anything has come to the path since. *)
Publish ==
    /\ pc = "publish"
    /\ name' = Linked(name, txn[at].incoming)
    /\ Go(IF name' = txn[at].incoming THEN "finish"
          ELSE IF target # Absent /\ known # Absent THEN "undo" ELSE "closed")
    /\ UNCHANGED <<bytes, txn, at, target, known, used, mine, budget>>

(* What was moved aside is linked back if the path is still free; apply fails. *)
Undo ==
    /\ pc = "undo"
    /\ name' = Linked(name, txn[at].previous)
    /\ Go("closed")
    /\ UNCHANGED <<bytes, txn, at, target, known, used, mine, budget>>

(* finish_record: the transaction is marked, then its staging link removed. *)
MarkDone ==
    /\ pc \in {"finish", "settle"}
    /\ txn' = [txn EXCEPT ![at].done = TRUE]
    /\ Go(IF pc = "finish" THEN "clean" ELSE "tidy")
    /\ UNCHANGED <<bytes, name, at, target, known, used, mine, budget>>

Unstage ==
    /\ pc \in {"clean", "tidy"}
    /\ txn' = [txn EXCEPT ![at].incoming = 0]
    /\ Go(IF pc = "clean" THEN "ack" ELSE "recover")
    /\ UNCHANGED <<bytes, name, at, target, known, used, mine, budget>>

(* The transaction of apply_local. *)
Acknowledge ==
    /\ pc = "ack"
    /\ known' = target
    /\ Go("open")
    /\ UNCHANGED <<bytes, name, txn, at, target, used, mine, budget>>

(* The process stops or an operation fails: the lock is released. *)
Interrupt ==
    /\ pc # "closed"
    /\ Spend("faults")
    /\ Go("closed")
    /\ UNCHANGED <<bytes, name, txn, at, target, known, used, mine>>

-----------------------------------------------------------------------------
(* Root::recover, when the share is opened or scanned *)

Open ==
    /\ pc = "closed"
    /\ Go("recover")
    /\ UNCHANGED <<bytes, name, txn, at, target, known, used, mine, budget>>

(* Transactions that recovery looks at: those without a record moved nothing. *)
Unfinished == {t \in DOMAIN txn : ~txn[t].done /\ txn[t].record # "none"}

Readable(t) == txn[t].record = "whole"

(* The path shows one side of the transaction: nothing is left to do. *)
Settled(t) == Content(name) \in {txn[t].before, txn[t].after}

(* Mutant: a missing file is never taken back from the transaction. *)
ReturnableNever(t) == FALSE

(* The path is empty and the transaction has what was there. *)
Returnable(t) == name = 0 /\ txn[t].previous # 0

RecoverOne(t) ==
    /\ pc = "recover"
    /\ t \in Unfinished
    /\ at' = t
    /\ Go(CASE Readable(t) /\ Settled(t)                     -> "settle"
            [] Readable(t) /\ ~Settled(t) /\ Returnable(t)   -> "relink"
            [] ~Readable(t) \/ (~Settled(t) /\ ~Returnable(t)) -> "closed")
    /\ UNCHANGED <<bytes, name, txn, target, known, used, mine, budget>>

Relink ==
    /\ pc = "relink"
    /\ name' = Linked(name, txn[at].previous)
    /\ Go(IF name = 0 THEN "settle" ELSE "closed")
    /\ UNCHANGED <<bytes, txn, at, target, known, used, mine, budget>>

(* Mutant: the scan does not wait for recovery. *)
RecoveredEarly ==
    /\ pc = "recover"
    /\ known' = Content(name)
    /\ Go("open")
    /\ UNCHANGED <<bytes, name, txn, at, target, used, mine, budget>>

(* All are finished: the scan that follows records what it finds.  An absence
   is recorded once it is approved or known; until then it is pending. *)
Recovered ==
    /\ pc = "recover"
    /\ Unfinished = {}
    /\ known' \in {Content(name)} \cup {k \in {known} : name = 0}
    /\ Go("open")
    /\ UNCHANGED <<bytes, name, txn, at, target, used, mine, budget>>

(* The command or session ends. *)
Close ==
    /\ pc = "open"
    /\ Go("closed")
    /\ UNCHANGED <<bytes, name, txn, at, target, known, used, mine, budget>>

-----------------------------------------------------------------------------
(* The specification *)

Application ==
    \/ \E b \in Bytes : Replace(b)
    \/ \E b \in Bytes : Rewrite(b)
    \/ Remove

Apply ==
    \/ \E goal \in Image : Agree(goal)
    \/ \E goal \in Image : Begin(goal)
    \/ Stage \/ CreateRecord \/ WriteRecord \/ MoveAside \/ Check
    \/ Publish \/ Undo \/ MarkDone \/ Unstage \/ Acknowledge

Recover ==
    \/ Open \/ Relink \/ Recovered \/ Close
    \/ \E t \in Unfinished : RecoverOne(t)

Next == Application \/ Apply \/ Recover \/ Interrupt

Spec == Init /\ [][Next]_vars

-----------------------------------------------------------------------------
(* Properties *)

(* Every variable has its type; only a whole record is marked done. *)
TypeOK ==
    /\ bytes \in [Inode -> Bytes]
    /\ name \in Inode \cup {0}
    /\ txn \in Seq(Transaction)
    /\ pc \in Step
    /\ at \in 0 .. Len(txn)
    /\ target \in Image /\ known \in Image
    /\ used \in 0 .. MaxEdits + MaxApplies
    /\ mine \in SUBSET Inode
    /\ budget \in [{"edits", "faults", "applies"} -> Nat]

(* What applications wrote, and did not remove themselves, always has a name:
   the path, or a link in a transaction (folder-sync-design.md:34, "retain the
   actual displaced file and publish without overwriting a new directory
   entry"). *)
NothingUnlinked ==
    \A i \in mine :
        \/ i = name
        \/ \E t \in DOMAIN txn : i \in {txn[t].incoming, txn[t].previous}

(* At most one transaction awaits recovery: whoever takes index.lock after a
   failure finishes it, or is refused, before it publishes again (share.rs:486,
   the scan recovers first). *)
OneUnfinished == \A t, u \in Unfinished : t = u

(* A transaction that recovery would refuse. *)
Refused(t) == ~Readable(t) \/ (~Settled(t) /\ ~Returnable(t))

Untouched == budget.edits = MaxEdits

(* Without an application's hand, an interruption after the record was written
   leaves a folder that opens again. *)
InterruptionRecovers ==
    Untouched => \A t \in Unfinished : txn[t].record = "whole" => ~Refused(t)

(* What the path holds for its users.  Between the two renames of a
   publication it is empty, and what was moved aside still counts. *)
Displaced == {t \in Unfinished : txn[t].previous # 0}

Shown ==
    IF name = 0 /\ pc \notin {"finish", "settle"} /\ Displaced # {}
    THEN bytes[txn[CHOOSE t \in Displaced : TRUE].previous]
    ELSE Content(name)

Visible ==
    INSTANCE VisibleFile WITH
        shown   <- Shown,
        goal    <- target,
        shipped <- pc \in {"finish", "clean", "ack"},
        edits   <- budget.edits,
        faults  <- budget.faults

(* Root::apply replaces what the index knows and nothing else, in one step as
   its users see it, and acknowledges only what was published. *)
ImplementsVisibleFile == Visible!Spec
=============================================================================
