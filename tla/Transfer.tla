------------------------------- MODULE Transfer -------------------------------
(***************************************************************************)
(* A file sent over one connection (src/transport.rs, on src/wire.rs) to a *)
(* receiver (Receiver).  The sender keeps a window of blocks that are not  *)
(* acknowledged; it writes blocks and reads acknowledgements concurrently. *)
(* Both directions of the connection hold a bounded number of messages.    *)
(*                                                                         *)
(* Applications edit the source and the target, the connection is lost,    *)
(* the receiving process stops, partial data is damaged.  A lost           *)
(* connection does not stop what a blocking task of the receiver has       *)
(* begun.  The same sender tries again.                                    *)
(*                                                                         *)
(* Abstractions.  Certificates are checked before every step, and a check  *)
(* that fails is a lost connection.  Heartbeats only keep a connection     *)
(* from being lost.  While a task of an earlier connection runs, the locks *)
(* it holds make the receiver refuse new ones; here they wait.             *)
(***************************************************************************)
EXTENDS Receiver

CONSTANTS
    Window,      \* blocks in flight, 16 in the code
    Capacity,    \* bound: messages in one direction of a connection
    MaxSources,  \* bound: edits of the source
    MaxFaults,   \* bound: lost connections, stops
    MaxDamage    \* bound: blocks that go bad

ASSUME TransferAssumption ==
    /\ Window \in Nat \ {0} /\ Capacity \in Nat \ {0}
    /\ MaxSources \in Nat /\ MaxFaults \in Nat /\ MaxDamage \in Nat

VARIABLES
    source,   \* the content of the sender's file
    tx,       \* the sender
    up,       \* messages to the receiver
    down,     \* messages to the sender
    budget    \* what is left of the bounds

vars == <<receiverVars, source, tx, up, down, budget>>

Spend(what) ==
    /\ budget[what] > 0
    /\ budget' = [budget EXCEPT ![what] = @ - 1]

Tx == [phase : {"idle", "asked", "sending", "committed", "done"}, manifest : File,
       missing : Seq(Index), sent : Nat, acked : Nat]

Idle == [phase |-> "idle", manifest |-> CHOOSE f \in File : TRUE,
         missing |-> <<>>, sent |-> 0, acked |-> 0]

Message(kind, value) == [kind |-> kind, value |-> value]

(* A message is written while there is room, and read in order. *)
Room(stream) == Len(stream) < Capacity
Reads(stream, kind) == stream # <<>> /\ Head(stream).kind = kind

Init ==
    /\ ReceiverInit
    /\ source \in File
    /\ tx = Idle /\ up = <<>> /\ down = <<>>
    /\ budget = [edits |-> MaxEdits, sources |-> MaxSources, faults |-> MaxFaults,
                 damage |-> MaxDamage]

(* The connection is gone, with what was in it and the sender's attempt. *)
Closed == tx' = Idle /\ up' = <<>> /\ down' = <<>>

(* The receiver's end of it: a blocking task runs on. *)
Dropped == rx' = IF rx.phase \in Waiting THEN Listening ELSE [rx EXCEPT !.open = FALSE]

Open == UNCHANGED <<tx, up, down>>

-----------------------------------------------------------------------------
(* The sender *)

(* The source is hashed and announced.  What was sent is sent again only when
   it has changed. *)
Start ==
    /\ tx.phase = "idle" \/ (tx.phase = "done" /\ tx.manifest # source)
    /\ up = <<>> /\ down = <<>>
    /\ tx' = [Idle EXCEPT !.phase = "asked", !.manifest = source]
    /\ up' = <<Message("manifest", source)>>
    /\ published' = published \ {source}
    /\ UNCHANGED <<disk, rx, source, down, budget>>

Requested ==
    /\ tx.phase = "asked" /\ Reads(down, "missing")
    /\ tx' = [tx EXCEPT !.phase = "sending", !.missing = Head(down).value]
    /\ down' = Tail(down)
    /\ UNCHANGED <<receiverVars, source, up, budget>>

WindowOpen == tx.sent - tx.acked < Window

(* A block is read, compared with the manifest and written. *)
SendBlock ==
    LET i == tx.missing[tx.sent + 1] IN
    /\ tx.phase = "sending" /\ tx.sent < Len(tx.missing)
    /\ WindowOpen
    /\ source[i] = tx.manifest[i] /\ Room(up)
    /\ up' = Append(up, Message("block", i))
    /\ tx' = [tx EXCEPT !.sent = @ + 1]
    /\ UNCHANGED <<receiverVars, source, down, budget>>

Acknowledged ==
    /\ tx.phase = "sending" /\ Reads(down, "ack")
    /\ Head(down).value = tx.missing[tx.acked + 1]
    /\ tx' = [tx EXCEPT !.acked = @ + 1]
    /\ down' = Tail(down)
    /\ UNCHANGED <<receiverVars, source, up, budget>>

(* Everything is acknowledged and the source is still what was announced. *)
SendCommit ==
    /\ tx.phase = "sending" /\ tx.acked = Len(tx.missing)
    /\ source = tx.manifest /\ Room(up)
    /\ up' = Append(up, Message("commit", 0))
    /\ tx' = [tx EXCEPT !.phase = "committed"]
    /\ UNCHANGED <<receiverVars, source, down, budget>>

(* The source has changed: a block, or the whole at the end, does not match. *)
SourceChanged ==
    /\ tx.phase = "sending"
    /\ \/ /\ tx.sent < Len(tx.missing) /\ WindowOpen
          /\ source[tx.missing[tx.sent + 1]] # tx.manifest[tx.missing[tx.sent + 1]]
       \/ tx.acked = Len(tx.missing) /\ source # tx.manifest
    /\ Closed /\ Dropped
    /\ UNCHANGED <<disk, published, source, budget>>

Completed ==
    /\ tx.phase = "committed" /\ Reads(down, "complete")
    /\ tx' = [tx EXCEPT !.phase = "done"]
    /\ down' = Tail(down)
    /\ UNCHANGED <<receiverVars, source, up, budget>>

-----------------------------------------------------------------------------
(* The receiver's end of the connection *)

Accept ==
    /\ At("listening") /\ Reads(up, "manifest")
    /\ rx' = [Listening EXCEPT !.phase = "recover", !.open = TRUE,
                              !.manifest = Head(up).value]
    /\ up' = Tail(up)
    /\ UNCHANGED <<disk, published, source, tx, down, budget>>

SendMissing ==
    /\ At("surveyed") /\ Room(down)
    /\ down' = Append(down, Message("missing", rx.missing))
    /\ Go("blocks")
    /\ UNCHANGED <<disk, published, source, tx, up, budget>>

(* Blocks come in the order in which they were asked for. *)
ReceiveBlock ==
    /\ At("blocks") /\ rx.missing # <<>> /\ Reads(up, "block")
    /\ Head(up).value = Head(rx.missing)
    /\ up' = Tail(up)
    /\ Go("put")
    /\ UNCHANGED <<disk, published, source, tx, down, budget>>

SendAck ==
    /\ At("stored") /\ Room(down)
    /\ down' = Append(down, Message("ack", Head(rx.missing)))
    /\ rx' = [rx EXCEPT !.phase = "blocks", !.missing = Tail(@)]
    /\ UNCHANGED <<disk, published, source, tx, up, budget>>

ReceiveCommit ==
    /\ At("blocks") /\ rx.missing = <<>> /\ Reads(up, "commit")
    /\ up' = Tail(up)
    /\ Go("verify")
    /\ UNCHANGED <<disk, published, source, tx, down, budget>>

SendComplete ==
    /\ At("installed") /\ Room(down)
    /\ down' = Append(down, Message("complete", 0))
    /\ rx' = Listening
    /\ UNCHANGED <<disk, published, source, tx, up, budget>>

(* A step of the receiver; an error closes the connection it works for. *)
ReceiverWork ==
    /\ Work
    /\ IF rx.open /\ rx'.phase = "listening" THEN Closed ELSE Open
    /\ UNCHANGED <<source, budget>>

-----------------------------------------------------------------------------
(* What applications and the world do *)

(* A new file takes the target's name: saved aside and renamed over it. *)
Replace(f) ==
    /\ Spend("edits")
    /\ Len(bytes) + 1 \in Inode
    /\ bytes' = Append(bytes, f)
    /\ target' = Len(bytes) + 1
    /\ UNCHANGED <<part, journal, intent, kept, archive, rx, published, source>>
    /\ Open

RemoveTarget ==
    /\ Spend("edits")
    /\ target # 0
    /\ target' = 0
    /\ UNCHANGED <<bytes, part, journal, intent, kept, archive, rx, published, source>>
    /\ Open

EditSource(f) ==
    /\ Spend("sources")
    /\ f # source
    /\ source' = f
    /\ UNCHANGED <<receiverVars, tx, up, down>>

(* The connection is lost, or the sender stops. *)
HangUp ==
    /\ Spend("faults")
    /\ tx.phase \notin {"idle", "done"}
    /\ Closed /\ Dropped
    /\ UNCHANGED <<disk, published, source>>

(* The receiving process stops. *)
Crash ==
    /\ Spend("faults")
    /\ ~At("listening")
    /\ rx' = Listening
    /\ IF rx.open THEN Closed ELSE Open
    /\ UNCHANGED <<disk, published, source>>

(* Partial data that was read and found right, and is about to be published. *)
Verifying(f) ==
    /\ rx.manifest = f
    /\ rx.phase \in {"archive", "recheck", "intent", "write", "displace", "compare", "link"}

(* A block of partial data goes bad, as tests/storage.rs has it; between its
   verification and its publication nothing could notice, and once published
   or moved aside it is a file of the applications. *)
Damage(f, i) ==
    /\ Spend("damage")
    /\ ~Verifying(f)
    /\ part[f] \notin {0, target} \cup {intent[g].previous : g \in File}
    /\ bytes[part[f]][i] # Hole
    /\ bytes' = [bytes EXCEPT ![part[f]][i] = Hole]
    /\ UNCHANGED <<target, part, journal, intent, kept, archive, rx, published, source>>
    /\ Open

-----------------------------------------------------------------------------
(* The specification *)

Sender ==
    \/ Start \/ Requested \/ SendBlock \/ Acknowledged \/ SendCommit
    \/ SourceChanged \/ Completed

ReceiverStep ==
    \/ Accept \/ SendMissing \/ ReceiveBlock \/ SendAck \/ ReceiveCommit \/ SendComplete
    \/ ReceiverWork

Environment ==
    \/ \E f \in File : Replace(f) \/ EditSource(f)
    \/ RemoveTarget \/ HangUp \/ Crash
    \/ \E f \in File, i \in Index : Damage(f, i)

Next == Sender \/ ReceiverStep \/ Environment

Spec == Init /\ [][Next]_vars

(* Both processes go on, and a failed transfer is tried again.  Writing blocks
   and reading acknowledgements are two futures, polled until both are done. *)
Fairness ==
    /\ WF_vars(Start) /\ WF_vars(Requested) /\ WF_vars(SendBlock) /\ WF_vars(Acknowledged)
    /\ WF_vars(SendCommit) /\ WF_vars(SourceChanged) /\ WF_vars(Completed)
    /\ WF_vars(ReceiverStep)

FairSpec == Spec /\ Fairness

-----------------------------------------------------------------------------
(* Properties *)

(* Every variable has its type; at most a window of blocks is in flight, as
   send_blocks' semaphore has it. *)
TypeOK ==
    /\ ReceiverTypeOK
    /\ source \in File /\ tx \in Tx
    /\ tx.acked <= tx.sent /\ tx.sent <= Len(tx.missing)
    /\ tx.sent - tx.acked <= Window
    /\ Len(up) <= Capacity /\ Len(down) <= Capacity
    /\ budget \in [{"edits", "sources", "faults", "damage"} -> Nat]
    /\ budget["damage"] <= MaxDamage

(* Nobody ever sees a file at the target that is partly received or mixed:
   finish_checked reads the partial data again before it is published. *)
TargetWhole == target # 0 => bytes[target] \in File

(* What the receiver takes from the target's name is kept, in the archive of
   versions or as the file itself in the recovery directory: it never replaces
   what applications save while it installs ("Unlike rename, hard_link never
   replaces an entry that appeared after our check"). *)
NothingLost ==
    [][(budget'["edits"] = budget["edits"] /\ target # 0) =>
          bytes[target] \in archive' \cup {bytes'[i] : i \in kept' \cup ({target'} \ {0})}]_vars

(* A block that was acknowledged is in the partial data, or was published,
   unless it was damaged since. *)
AckedIsStored ==
    (tx.phase = "sending" /\ budget["damage"] = MaxDamage) =>
        \A k \in 1 .. tx.acked :
            LET i == tx.missing[k] IN
            /\ part[tx.manifest] # 0
            /\ bytes[part[tx.manifest]][i] = tx.manifest[i]

(* A sender that reports completion has had its file published at the target
   since it began, whatever became of the connection before. *)
CompleteIsInstalled == tx.phase = "done" => tx.manifest \in published

(* What keeps a transfer of m from ever completing without a human: a record
   that a stop left unfinished, or a target that applications have changed
   since the transfer or the installation began. *)
Blocked(m) ==
    \/ journal[m].state = "torn" \/ intent[m].state = "torn"
    \/ journal[m].state = "whole" /\ Visible \notin {journal[m].original, m}
    \/ /\ intent[m].state = "whole"
       /\ Visible \notin {intent[m].original, m}
       /\ target # 0 \/ intent[m].previous = 0

Delivered(m) == tx.phase = "done" /\ tx.manifest = m

(* A file is delivered in the end: a transfer that was cut off anywhere, also
   in the middle of its installation, is resumed and completes. *)
EveryTransferEnds ==
    \A m \in File :
        source = m ~> Delivered(m) \/ source # m \/ Blocked(m)
=============================================================================
