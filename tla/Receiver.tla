------------------------------- MODULE Receiver -------------------------------
(***************************************************************************)
(* The receiver of a file (src/storage.rs): partial data that survives     *)
(* interruptions, and its installation at a name that applications use.    *)
(*                                                                         *)
(* Files are inodes, names are links to them: a published file and the     *)
(* partial data it was published from are one inode until the latter is    *)
(* removed.  Each action is one step that a stop of the process can come   *)
(* before or after; applications act between any two.                      *)
(*                                                                         *)
(* Abstractions.  A content is a function from block numbers to blocks,    *)
(* and equal manifests are equal contents.  Files have one length.  One    *)
(* receiver at a time works on the target: it holds two locks.  An         *)
(* archived version is whole or it is replaced (a torn copy is moved to    *)
(* quarantine), so only whole ones count.  A stop of the process keeps     *)
(* what was written; a power loss, which the calls to sync are for, is     *)
(* left out.                                                               *)
(***************************************************************************)
EXTENDS Integers, Sequences, FiniteSets

CONSTANTS
    Blocks,     \* number of blocks of a file
    Block,      \* what a block holds
    File,       \* the contents that applications write
    Hole,       \* a block of partial data that was not received
    Absent,     \* no file
    MaxEdits,   \* bound: edits of the target by applications
    MaxParts    \* bound: partial files ever created

Index == 1 .. Blocks

ASSUME ReceiverAssumption ==
    /\ Blocks \in Nat \ {0}
    /\ Hole \notin Block
    /\ File \subseteq [Index -> Block] /\ File # {}
    /\ Absent \notin [Index -> Block \cup {Hole}]
    /\ MaxEdits \in Nat /\ MaxParts \in Nat

VARIABLES
    bytes,      \* the content of each inode given out so far
    target,     \* the inode at the target, 0 if there is none
    part,       \* the inode of each content's partial data
    journal,    \* the .json record of each transfer, by content
    intent,     \* the .install record of each transfer, by content
    kept,       \* inodes linked under .everywhere-recovery
    archive,    \* contents whole under .everywhere-versions
    rx,         \* the receiver at work
    published   \* history variable: contents published since they were last sent

disk == <<bytes, target, part, journal, intent, kept, archive>>
receiverVars == <<disk, rx, published>>

Bytes == [Index -> Block \cup {Hole}]
Image == Bytes \cup {Absent}
Inode == 1 .. 1 + MaxEdits + MaxParts

Journal == [state : {"none", "torn", "whole"}, original : Image]
Intent  == [state : {"none", "torn", "whole"}, original : Image, previous : Inode \cup {0}]

NoJournal == [state |-> "none", original |-> Absent]
NoIntent  == [state |-> "none", original |-> Absent, previous |-> 0]

(* What a blocking task does next, and what the receiver waits for. *)
Working == {"recover", "recovered", "open", "journal", "survey", "put", "verify", "archive", "recheck",
            "intent", "write", "displace", "compare", "link", "unintend", "unpart",
            "unjournal"}
Waiting == {"listening", "surveyed", "blocks", "stored", "installed"}

(* "open": the connection that the work is for is still there. *)
Rx == [phase : Working \cup Waiting, open : BOOLEAN, manifest : File, original : Image,
       missing : Seq(Index)]

Listening == [phase |-> "listening", open |-> FALSE, manifest |-> CHOOSE f \in File : TRUE,
              original |-> Absent, missing |-> <<>>]

(* The content of the target. *)
Visible == IF target = 0 THEN Absent ELSE bytes[target]

At(phase) == rx.phase = phase
Go(phase) == rx' = [rx EXCEPT !.phase = phase]

(* A blocking task ends; if the connection is gone, nobody takes its result. *)
Done(next) == rx' = IF rx.open THEN next ELSE Listening

(* An error ends the receiver; what is on the disk stays. *)
Refuse == rx' = Listening

ReceiverInit ==
    /\ \E f \in File \cup {Absent} :
          /\ bytes = IF f = Absent THEN <<>> ELSE <<f>>
          /\ target = IF f = Absent THEN 0 ELSE 1
    /\ part = [f \in File |-> 0]
    /\ journal = [f \in File |-> NoJournal]
    /\ intent = [f \in File |-> NoIntent]
    /\ kept = {} /\ archive = {} /\ published = {}
    /\ rx = Listening

(* Every variable of the receiver has its type. *)
ReceiverTypeOK ==
    /\ bytes \in Seq(Bytes) /\ Len(bytes) <= 1 + MaxEdits + MaxParts
    /\ target \in 0 .. Len(bytes)
    /\ part \in [File -> 0 .. Len(bytes)]
    /\ journal \in [File -> Journal] /\ intent \in [File -> Intent]
    /\ kept \subseteq 1 .. Len(bytes) /\ archive \subseteq Image
    /\ rx \in Rx /\ published \subseteq File

-----------------------------------------------------------------------------
(* Receiver::open *)

(* recover_install: a file that was displaced is linked back to a free name. *)
Recover ==
    LET i == intent[rx.manifest] IN
    /\ At("recover")
    /\ CASE i.state = "none" -> Go("open")
         [] i.state = "whole" /\ (target # 0 \/ i.previous # 0) -> Go("recovered")
         [] OTHER -> Refuse
    /\ target' = IF i.state = "whole" /\ target = 0 THEN i.previous ELSE target
    /\ UNCHANGED <<bytes, part, journal, intent, kept, archive, published>>

(* The intent is dropped if the target is what it was or what was installed. *)
DropIntent ==
    /\ At("recovered")
    /\ IF Visible \in {intent[rx.manifest].original, rx.manifest}
       THEN intent' = [intent EXCEPT ![rx.manifest] = NoIntent] /\ Go("open")
       ELSE intent' = intent /\ Refuse
    /\ UNCHANGED <<bytes, target, part, journal, kept, archive, published>>

(* Mutant: a transfer that was installed and not cleaned up does not resume. *)
CanResumeUnchanged(m) == journal[m].original = Visible

CanResume(m) == journal[m].original = Visible \/ Visible = m

(* The target is read; a journal is begun, or compared with it. *)
OpenJournal ==
    LET j == journal[rx.manifest] IN
    /\ At("open")
    /\ CASE j.state = "none" /\ part[rx.manifest] = 0 ->
              /\ journal' = [journal EXCEPT ![rx.manifest].state = "torn"]
              /\ rx' = [rx EXCEPT !.phase = "journal", !.original = Visible]
         [] j.state = "whole" /\ CanResume(rx.manifest) ->
              /\ UNCHANGED journal
              /\ rx' = [rx EXCEPT !.phase = "survey", !.original = Visible]
         [] OTHER ->
              UNCHANGED journal /\ Refuse
    /\ UNCHANGED <<bytes, target, part, intent, kept, archive, published>>

WriteJournal ==
    /\ At("journal")
    /\ journal' = [journal EXCEPT ![rx.manifest] = [state |-> "whole", original |-> rx.original]]
    /\ Go("survey")
    /\ UNCHANGED <<bytes, target, part, intent, kept, archive, published>>

(* A set of block numbers in the order in which the blocks are read. *)
Ordered(S) == CHOOSE s \in [1 .. Cardinality(S) -> S] :
                 \A j, k \in DOMAIN s : j < k => s[j] < s[k]

(* Blocks that the partial data or the target already has are not asked for
   (missing_from, without a basis). *)
Survey ==
    LET m    == rx.manifest
        own  == IF part[m] = 0 THEN Len(bytes) + 1 ELSE part[m]
        old  == IF part[m] = 0 THEN [i \in Index |-> Hole] ELSE bytes[part[m]]
        have == {i \in Index : old[i] = m[i] \/ (target # 0 /\ bytes[target][i] = m[i])}
        new  == [i \in Index |-> IF i \in have THEN m[i] ELSE old[i]]
    IN
    /\ At("survey")
    /\ own \in Inode
    /\ part' = [part EXCEPT ![m] = own]
    /\ bytes' = IF part[m] = 0 THEN Append(bytes, new) ELSE [bytes EXCEPT ![own] = new]
    /\ Done([rx EXCEPT !.phase = "surveyed", !.missing = Ordered(Index \ have)])
    /\ UNCHANGED <<target, journal, intent, kept, archive, published>>

-----------------------------------------------------------------------------
(* Receiver::put and Receiver::finish_checked *)

(* Mutant: a block is acknowledged and never written. *)
PutUnwritten ==
    /\ At("put")
    /\ Done([rx EXCEPT !.phase = "stored"])
    /\ UNCHANGED <<disk, published>>

(* The next missing block is written, through every link to the data. *)
Put ==
    LET i == Head(rx.missing) IN
    /\ At("put")
    /\ bytes' = [bytes EXCEPT ![part[rx.manifest]][i] = rx.manifest[i]]
    /\ Done([rx EXCEPT !.phase = "stored"])
    /\ UNCHANGED <<target, part, journal, intent, kept, archive, published>>

(* Mutant: the partial data is taken to be what was received. *)
VerifiedUnread(m) == TRUE

Verified(m) == bytes[part[m]] = m

Verify ==
    /\ At("verify")
    /\ IF Verified(rx.manifest) /\ Visible = rx.original
       THEN Go(IF rx.original = Absent THEN "recheck" ELSE "archive")
       ELSE Refuse
    /\ UNCHANGED <<disk, published>>

(* The version that will be replaced is copied, unless it was before. *)
Archive ==
    /\ At("archive")
    /\ IF rx.original \in archive \/ Visible = rx.original
       THEN archive' = archive \cup {rx.original} /\ Go("recheck")
       ELSE archive' = archive /\ Refuse
    /\ UNCHANGED <<bytes, target, part, journal, intent, kept, published>>

Recheck ==
    /\ At("recheck")
    /\ IF Visible = rx.original
       THEN Go(IF rx.original = Absent THEN "link" ELSE "intent")
       ELSE Refuse
    /\ UNCHANGED <<disk, published>>

(* prepare_install: the incoming file is linked into a recovery directory and
   the intent is created, then written; then the target is moved there. *)
CreateIntent ==
    /\ At("intent")
    /\ kept' = kept \cup {part[rx.manifest]}
    /\ intent' = [intent EXCEPT ![rx.manifest].state = "torn"]
    /\ Go("write")
    /\ UNCHANGED <<bytes, target, part, journal, archive, published>>

WriteIntent ==
    /\ At("write")
    /\ intent' = [intent EXCEPT ![rx.manifest] =
                    [state |-> "whole", original |-> rx.original, previous |-> 0]]
    /\ Go("displace")
    /\ UNCHANGED <<bytes, target, part, journal, kept, archive, published>>

Displace ==
    /\ At("displace")
    /\ IF target = 0
       THEN Refuse /\ UNCHANGED <<target, intent, kept>>
       ELSE /\ kept' = kept \cup {target}
            /\ intent' = [intent EXCEPT ![rx.manifest].previous = target]
            /\ target' = 0
            /\ Go("compare")
    /\ UNCHANGED <<bytes, part, journal, archive, published>>

(* What was moved aside is compared; if it is not the original it returns to
   its name, if that is free. *)
Compare ==
    LET displaced == intent[rx.manifest].previous IN
    /\ At("compare")
    /\ IF bytes[displaced] = rx.original
       THEN target' = target /\ Go("link")
       ELSE /\ target' = IF target = 0 THEN displaced ELSE target
            /\ Refuse
    /\ UNCHANGED <<bytes, part, journal, intent, kept, archive, published>>

(* Mutant: the partial file is renamed over whatever has the name. *)
FreeAlways == TRUE

Free == target = 0

Link ==
    /\ At("link") /\ Free
    /\ target' = part[rx.manifest]
    /\ published' = published \cup {rx.manifest}
    /\ Go("unintend")
    /\ UNCHANGED <<bytes, part, journal, intent, kept, archive>>

(* Mutant: the error of a link that was refused is not returned. *)
LinkIgnored ==
    /\ At("link") /\ ~Free
    /\ Go("unintend")
    /\ UNCHANGED <<disk, published>>

(* A file has appeared at the name: it stays. *)
LinkRefused ==
    /\ At("link") /\ ~Free
    /\ intent' = IF Visible \in {intent[rx.manifest].original, rx.manifest}
                 THEN [intent EXCEPT ![rx.manifest] = NoIntent] ELSE intent
    /\ Refuse
    /\ UNCHANGED <<bytes, target, part, journal, kept, archive, published>>

RemoveIntent ==
    /\ At("unintend")
    /\ intent' = [intent EXCEPT ![rx.manifest] = NoIntent]
    /\ Go("unpart")
    /\ UNCHANGED <<bytes, target, part, journal, kept, archive, published>>

RemovePart ==
    /\ At("unpart")
    /\ part' = [part EXCEPT ![rx.manifest] = 0]
    /\ Go("unjournal")
    /\ UNCHANGED <<bytes, target, journal, intent, kept, archive, published>>

RemoveJournal ==
    /\ At("unjournal")
    /\ journal' = [journal EXCEPT ![rx.manifest] = NoJournal]
    /\ Done([rx EXCEPT !.phase = "installed"])
    /\ UNCHANGED <<bytes, target, part, intent, kept, archive, published>>

Work ==
    \/ Recover \/ DropIntent \/ OpenJournal \/ WriteJournal \/ Survey \/ Put
    \/ Verify \/ Archive \/ Recheck
    \/ CreateIntent \/ WriteIntent \/ Displace \/ Compare
    \/ Link \/ LinkRefused
    \/ RemoveIntent \/ RemovePart \/ RemoveJournal
=============================================================================
