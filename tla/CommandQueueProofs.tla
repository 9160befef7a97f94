-------------------------- MODULE CommandQueueProofs --------------------------
(***************************************************************************)
(* A central command is executed at most once, its outcome is reported     *)
(* truly, and commands are given to a device in order, for any number of   *)
(* devices and commands, of lost exchanges, crashes and restored           *)
(* registries.                                                             *)
(*                                                                         *)
(* What a registry says of a command may go back in time with it, so the   *)
(* argument rests on what never changes: the device that a command was     *)
(* queued for.  Every copy of that fact - in the registry, in its backup,  *)
(* in a reply on its way, in a journal - names the same owner; so the      *)
(* journal that a command is looked up in is the one that has it.  The     *)
(* copies of an outcome (Faithful) agree in the same way with how the      *)
(* command really ended, but for what a restore has rolled back.           *)
(***************************************************************************)
EXTENDS CommandQueue, SequenceTheorems, TLAPS

-----------------------------------------------------------------------------
(* The invariant *)

Owner == [Id -> Device \cup {Nobody}]

(* A registry that gives commands to nobody but their owners. *)
Respects(s, o) == \A c \in Id : s.target[c] # Nobody => s.target[c] = o[c]

Owned(o) ==
    /\ \A c \in Id : c > queued => o[c] = Nobody
    /\ Respects(store, o)
    /\ \A s \in image : Respects(s, o)
    /\ \A d \in Device : \A c \in Id : agent[d].reply.command = c => o[c] = d
    /\ \A d \in Device : \A c \in Id : Known(journal[d], c) => o[c] = d

Owners == \E o \in Owner : Owned(o)

(* A command that was started is in a journal. *)
Journalled ==
    \A c \in Id :
        \/ ran[c].starts = 0
        \/ ran[c].starts = 1 /\ \E d \in Device : Known(journal[d], c)

Inv == TypeOK /\ Owners /\ Journalled

-----------------------------------------------------------------------------
(* The journal *)

SameRows(j, k) ==
    /\ k \in Seq(Entry)
    /\ \A c \in Id : Known(k, c) <=> Known(j, c)

(* A journal whose rows were changed, but for their commands: what every
   update of the table in Journal does to it. *)
LEMMA RowsChanged ==
    ASSUME NEW j \in Seq(Entry), NEW k \in [DOMAIN j -> Entry],
           \A i \in DOMAIN j : k[i].id = j[i].id
    PROVE  SameRows(j, k)
<1>1. DOMAIN j = 1 .. Len(j) /\ Len(j) \in Nat
  BY LenProperties
<1>2. k \in Seq(Entry)
  BY <1>1, IsASeq
<1>3. \A c \in Id : Known(k, c) <=> Known(j, c)
  BY DEF Known
<1>4. QED
  BY <1>2, <1>3 DEF SameRows

LEMMA RowType ==
    ASSUME NEW j \in Seq(Entry), NEW i \in DOMAIN j
    PROVE  j[i] \in Entry
  BY ElementOfSeq, LenProperties

Fields == [id : Id, done : BOOLEAN, outcome : Outcome \cup {"none"}, ack : BOOLEAN]

LEMMA EntryFields ==
    ASSUME NEW e \in Entry
    PROVE  e \in Fields /\ (e.done <=> e.outcome # "none") /\ (e.ack => e.done)
  BY DEF Entry, Fields

LEMMA FieldsEntry ==
    ASSUME NEW e \in Fields, e.done <=> e.outcome # "none", e.ack => e.done
    PROVE  e \in Entry
  BY DEF Entry, Fields

(* A row that is given its outcome, to be reported. *)
LEMMA RowDone ==
    ASSUME NEW e \in Entry, NEW outcome \in Outcome
    PROVE  /\ [e EXCEPT !.done = TRUE, !.outcome = outcome, !.ack = FALSE] \in Entry
           /\ [e EXCEPT !.done = TRUE, !.outcome = outcome, !.ack = FALSE].id = e.id
<1> DEFINE r == [e EXCEPT !.done = TRUE, !.outcome = outcome, !.ack = FALSE]
<1>1. r \in Fields /\ r.id = e.id /\ r.done = TRUE /\ r.outcome = outcome /\ r.ack = FALSE
  BY EntryFields DEF Fields
<1>2. outcome # "none"
  BY DEF Outcome
<1> HIDE DEF r
<1>3. (r.done <=> r.outcome # "none") /\ (r.ack => r.done)
  BY <1>1, <1>2
<1>4. r \in Entry
  BY <1>1, <1>3, FieldsEntry
<1> USE DEF r
<1>5. QED
  BY <1>1, <1>4

(* A row whose result is due again, or acknowledged. *)
LEMMA RowAck ==
    ASSUME NEW e \in Entry, NEW ack \in BOOLEAN, ack => e.done
    PROVE  /\ [e EXCEPT !.ack = ack] \in Entry
           /\ [e EXCEPT !.ack = ack].id = e.id
<1> DEFINE r == [e EXCEPT !.ack = ack]
<1>1. r \in Fields /\ r.id = e.id /\ r.done = e.done /\ r.outcome = e.outcome /\ r.ack = ack
  BY EntryFields DEF Fields
<1>2. e.done <=> e.outcome # "none"
  BY EntryFields
<1> HIDE DEF r
<1>3. (r.done <=> r.outcome # "none") /\ (r.ack => r.done)
  BY <1>1, <1>2
<1>4. r \in Entry
  BY <1>1, <1>3, FieldsEntry
<1> USE DEF r
<1>5. QED
  BY <1>1, <1>4

(* Journal::finish writes a result down. *)
LEMMA FinishRows ==
    ASSUME NEW j \in Seq(Entry), NEW c, NEW outcome \in Outcome
    PROVE  SameRows(j, Finish(j, c, outcome))
<1>1. ASSUME NEW i \in DOMAIN j
      PROVE  Finish(j, c, outcome)[i] \in Entry /\ Finish(j, c, outcome)[i].id = j[i].id
  BY RowType, RowDone DEF Finish
<1>2. Finish(j, c, outcome) \in [DOMAIN j -> Entry]
  BY <1>1 DEF Finish
<1>3. QED
  BY <1>1, <1>2, RowsChanged

(* Journal::open makes what was executing uncertain. *)
LEMMA InterruptedRows ==
    ASSUME NEW j \in Seq(Entry)
    PROVE  SameRows(j, Interrupted(j))
<1>1. ASSUME NEW i \in DOMAIN j
      PROVE  Interrupted(j)[i] \in Entry /\ Interrupted(j)[i].id = j[i].id
  BY RowType, RowDone DEF Interrupted, Outcome
<1>2. Interrupted(j) \in [DOMAIN j -> Entry]
  BY <1>1 DEF Interrupted
<1>3. QED
  BY <1>1, <1>2, RowsChanged

(* Journal::start of a known command makes its result due again. *)
LEMMA ReopenedRows ==
    ASSUME NEW j \in Seq(Entry), NEW c \in Id
    PROVE  SameRows(j, Reopened(j, c))
<1>1. ASSUME NEW i \in DOMAIN j
      PROVE  Reopened(j, c)[i] \in Entry /\ Reopened(j, c)[i].id = j[i].id
  BY RowType, RowAck DEF Reopened
<1>2. Reopened(j, c) \in [DOMAIN j -> Entry]
  BY <1>1 DEF Reopened
<1>3. QED
  BY <1>1, <1>2, RowsChanged

(* Journal::acknowledge. *)
LEMMA AcknowledgedRows ==
    ASSUME NEW j \in Seq(Entry), NEW ids \in SUBSET Id
    PROVE  SameRows(j, Acknowledged(j, ids))
<1>1. ASSUME NEW i \in DOMAIN j
      PROVE  Acknowledged(j, ids)[i] \in Entry /\ Acknowledged(j, ids)[i].id = j[i].id
  BY RowType, RowAck DEF Acknowledged
<1>2. Acknowledged(j, ids) \in [DOMAIN j -> Entry]
  BY <1>1 DEF Acknowledged
<1>3. QED
  BY <1>1, <1>2, RowsChanged

(* Journal::start of a new command adds its row and no other. *)
LEMMA StartedRow ==
    ASSUME NEW j \in Seq(Entry), NEW e \in Entry
    PROVE  /\ Append(j, e) \in Seq(Entry)
           /\ \A c \in Id : Known(Append(j, e), c) <=> Known(j, c) \/ c = e.id
<1>1. /\ Append(j, e) \in Seq(Entry)
      /\ Len(Append(j, e)) = Len(j) + 1
      /\ \A i \in 1 .. Len(j) : Append(j, e)[i] = j[i]
      /\ Append(j, e)[Len(j) + 1] = e
  BY AppendProperties
<1>2. DOMAIN j = 1 .. Len(j) /\ DOMAIN Append(j, e) = 1 .. Len(j) + 1 /\ Len(j) \in Nat
  BY <1>1, LenProperties
<1>3. QED
  BY <1>1, <1>2 DEF Known

-----------------------------------------------------------------------------
(* The registry *)

LEMMA Constants ==
    /\ 0 \notin Id
    /\ Nobody \notin Device
    /\ InvitedBy \in [Device -> Invitation]
    /\ Id \subseteq Nat
    /\ MaxCommands \in Nat
  BY QueueAssumption DEF Id

LEMMA Constructors ==
    /\ Rejected \in Reply
    /\ Rejected.command = 0
    /\ NoRequest \in Request
    /\ Down \in Agent
    /\ Down.reply.command = 0
  BY DEF Rejected, Reply, NoRequest, Request, Down, Agent, Outcome

LEMMA ReplyMade ==
    ASSUME NEW state \in {"unknown", "pending", "approved", "revoked"}, state # "unknown",
           NEW c \in Id \cup {0}, NEW ids \in SUBSET Id
    PROVE  [state |-> state, command |-> c, acknowledged |-> ids] \in Reply
  BY DEF Reply

(* A registry whose commands' rows were updated. *)
LEMMA StatusUpdated ==
    ASSUME NEW s \in Store, NEW f \in [Id -> Status]
    PROVE  /\ [s EXCEPT !.status = f] \in Store
           /\ [s EXCEPT !.status = f].target = s.target
           /\ [s EXCEPT !.status = f].state = s.state
  BY DEF Store

LEMMA EnrollOK ==
    ASSUME NEW s \in Store, NEW d \in Device
    PROVE  Enroll(s, d) \in Store /\ Enroll(s, d).target = s.target
  BY Constants DEF Enroll, Store

LEMMA SettleOK ==
    ASSUME NEW s \in Store, NEW d \in Device, NEW request \in Request
    PROVE  /\ Settle(s, d, request) \in Store
           /\ Settle(s, d, request).target = s.target
           /\ Settle(s, d, request).state = s.state
<1>1. request.outcome \in Status
  BY DEF Request, Status
<1>2. QED
  BY <1>1 DEF Settle, Store

(* What an exchange owes the device: no command changes hands, and the reply
   carries none but its own. *)
Served(s, d, x) ==
    /\ x.store \in Store
    /\ x.store.target = s.target
    /\ x.reply \in Reply
    /\ x.reply.command # 0 => s.target[x.reply.command] = d

LEMMA ServedPair ==
    ASSUME NEW s, NEW d, NEW left \in Store, left.target = s.target,
           NEW reply \in Reply, reply.command # 0 => s.target[reply.command] = d
    PROVE  Served(s, d, [store |-> left, reply |-> reply])
  BY DEF Served

(* A poll changes no command's device, and is answered with commands of the
   device that polls. *)
LEMMA PolledOK ==
    ASSUME NEW s \in Store, NEW d \in Enrolled(s), NEW request \in Request
    PROVE  Served(s, d, Polled(s, d, request))
<1> DEFINE settled == Settle(s, d, request)
           given   == Dispatch(settled, d, request)
           f       == [c \in Id |-> IF c \in given THEN "delivered" ELSE settled.status[c]]
           command == IF given = {} THEN 0 ELSE CHOOSE c \in given : TRUE
           acknowledged == {c \in Commands(settled, d) :
                              c = request.result /\ settled.status[c] \in Outcome}
<1>1. /\ settled \in Store
      /\ settled.target = s.target
      /\ settled.status \in [Id -> Status]
      /\ s.state[d] \in {"unknown", "pending", "approved", "revoked"} /\ s.state[d] # "unknown"
  BY SettleOK DEF Store, Enrolled
<1>2. given \subseteq Commands(settled, d)
  BY DEF Dispatch, Open
<1>3. Commands(settled, d) \subseteq {c \in Id : s.target[c] = d}
  BY <1>1 DEF Commands
<1>4. f \in [Id -> Status]
  BY <1>1 DEF Status
<1>5. /\ command \in Id \cup {0}
      /\ command # 0 => s.target[command] = d
  BY <1>2, <1>3
<1>6. acknowledged \in SUBSET Id
  BY <1>3
<1> DEFINE store1 == [settled EXCEPT !.status = f]
           reply1 == [state |-> s.state[d], command |-> command, acknowledged |-> acknowledged]
<1>7. Polled(s, d, request) = [store |-> store1, reply |-> reply1]
  <2>1. [settled EXCEPT !.status = [c \in Id |-> IF c \in given THEN "delivered" ELSE @[c]]]
          = store1
    OBVIOUS
  <2>2. QED
    BY <2>1 DEF Polled
<1> HIDE DEF settled, given, f, command, acknowledged
<1>8. store1 \in Store /\ store1.target = s.target
  BY <1>1, <1>4, StatusUpdated
<1>9. reply1 \in Reply
  BY <1>1, <1>5, <1>6, ReplyMade
<1>10. reply1.command = command
  OBVIOUS
<1> HIDE DEF store1, reply1
<1>11. QED
  BY <1>5, <1>7, <1>8, <1>9, <1>10, ServedPair

(* So is every request. *)
LEMMA ExchangedOK ==
    ASSUME NEW s \in Store, NEW d \in Device, NEW request \in Request, NEW fresh \in BOOLEAN
    PROVE  Served(s, d, Exchanged(s, d, request, fresh))
<1>1. request.kind \in {"enroll", "poll"}
  BY DEF Request
<1>2. CASE request.kind = "enroll" /\ CanEnroll(s, d, fresh)
  <2> DEFINE registered == [state |-> "registered", command |-> 0, acknowledged |-> {}]
  <2>1. Exchanged(s, d, request, fresh) = [store |-> Enroll(s, d), reply |-> registered]
    BY <1>2 DEF Exchanged, Rejected
  <2>2. registered \in Reply /\ registered.command = 0
    BY DEF Reply
  <2>3. Enroll(s, d) \in Store /\ Enroll(s, d).target = s.target
    BY EnrollOK
  <2> HIDE DEF registered
  <2>4. Served(s, d, [store |-> Enroll(s, d), reply |-> registered])
    BY <2>2, <2>3, ServedPair
  <2>5. QED
    BY <2>1, <2>4
<1>3. CASE request.kind = "enroll" /\ ~CanEnroll(s, d, fresh)
  <2>1. Exchanged(s, d, request, fresh) = [store |-> s, reply |-> Rejected]
    BY <1>3 DEF Exchanged
  <2>2. QED
    BY <2>1, Constructors, ServedPair
<1>4. CASE request.kind = "poll" /\ d \in Enrolled(s)
  <2>1. Exchanged(s, d, request, fresh) = Polled(s, d, request)
    BY <1>4 DEF Exchanged
  <2>2. QED
    BY <1>4, <2>1, PolledOK
<1>5. CASE request.kind = "poll" /\ d \notin Enrolled(s)
  <2>1. Exchanged(s, d, request, fresh) = [store |-> s, reply |-> Rejected]
    BY <1>5 DEF Exchanged
  <2>2. QED
    BY <2>1, Constructors, ServedPair
<1>6. QED
  BY <1>1, <1>2, <1>3, <1>4, <1>5

-----------------------------------------------------------------------------
(* What every step but Queue and Receive owes the invariant *)

(* Registries, backups, replies and journals that name no command they did not
   name before, or that the registry gives the device. *)
LEMMA OwnersKept ==
    ASSUME Owners, queued' = queued,
           store'.target = store.target \/ store' \in image,
           image' \subseteq image \cup {store},
           \A d \in Device : \A c \in Id :
              agent'[d].reply.command = c =>
                 agent[d].reply.command = c \/ store.target[c] = d,
           \A d \in Device : \A c \in Id :
              Known(journal'[d], c) => Known(journal[d], c) \/ agent[d].reply.command = c
    PROVE  Owners'
<1>1. PICK o \in Owner : Owned(o)
  BY DEF Owners
<1>2. /\ \A c \in Id : c > queued => o[c] = Nobody
      /\ Respects(store, o)
      /\ \A s \in image : Respects(s, o)
      /\ \A d \in Device : \A c \in Id : agent[d].reply.command = c => o[c] = d
      /\ \A d \in Device : \A c \in Id : Known(journal[d], c) => o[c] = d
  BY <1>1 DEF Owned
<1>3. Respects(store', o)
  BY <1>2 DEF Respects
<1>4. \A s \in image' : Respects(s, o)
  BY <1>2
<1>5. \A d \in Device : \A c \in Id : agent'[d].reply.command = c => o[c] = d
  BY <1>2, Constants DEF Respects
<1>6. \A d \in Device : \A c \in Id : Known(journal'[d], c) => o[c] = d
  BY <1>2
<1>7. Owned(o)'
  BY <1>2, <1>3, <1>4, <1>5, <1>6 DEF Owned
<1>8. QED
  BY <1>7 DEF Owners

LEMMA JournalledKept ==
    ASSUME Journalled,
           \A c \in Id : ran'[c].starts = ran[c].starts,
           \A d \in Device : \A c \in Id : Known(journal[d], c) => Known(journal'[d], c)
    PROVE  Journalled'
  BY DEF Journalled

LEMMA SpendType ==
    ASSUME TypeOK, NEW what \in {"withdrawals", "failures", "restores"}, Spend(what)
    PROVE  budget' \in [{"withdrawals", "failures", "restores"} -> Nat]
  BY DEF TypeOK, Spend

-----------------------------------------------------------------------------
(* The steps of the operators *)

(* A step that leaves agents and journals alone, and changes no command's
   device. *)
LEMMA RegistryStep ==
    ASSUME Inv, store' \in Store, store'.target = store.target,
           budget' \in [{"withdrawals", "failures", "restores"} -> Nat],
           UNCHANGED <<image, journal, agent, stale, ran, queued>>
    PROVE  Inv'
<1>1. TypeOK'
  BY DEF Inv, TypeOK
<1>2. Owners'
  BY OwnersKept DEF Inv
<1>3. Journalled'
  BY JournalledKept DEF Inv
<1>4. QED
  BY <1>1, <1>2, <1>3 DEF Inv

LEMMA InviteKept ==
    ASSUME Inv, NEW i \in Invitation, Invite(i)
    PROVE  Inv'
<1>1. store' \in Store /\ store'.target = store.target
  BY DEF Inv, TypeOK, Invite, Store
<1>2. QED
  BY <1>1, RegistryStep DEF Invite, Inv, TypeOK

LEMMA ApproveKept ==
    ASSUME Inv, NEW d \in Device, Approve(d)
    PROVE  Inv'
<1>1. store' \in Store /\ store'.target = store.target
  BY DEF Inv, TypeOK, Approve, Store
<1>2. QED
  BY <1>1, RegistryStep DEF Approve, Inv, TypeOK

LEMMA RevokeKept ==
    ASSUME Inv, NEW d \in Device, Revoke(d)
    PROVE  Inv'
<1> DEFINE status == [c \in Id |-> IF c \in Commands(store, d) /\ store.status[c] = "queued"
                                  THEN "cancelled" ELSE store.status[c]]
<1>1. status \in [Id -> Status]
  BY DEF Inv, TypeOK, Store, Status
<1>2. store' = [store EXCEPT !.state[d] = "revoked", !.status = status]
  BY DEF Revoke
<1> HIDE DEF status
<1>3. store' \in Store /\ store'.target = store.target
  BY <1>1, <1>2 DEF Inv, TypeOK, Store
<1>4. QED
  BY <1>3, RegistryStep, SpendType DEF Revoke, Inv

LEMMA CancelKept ==
    ASSUME Inv, NEW c \in Id, Cancel(c)
    PROVE  Inv'
<1>1. store' \in Store /\ store'.target = store.target
  BY DEF Inv, TypeOK, Cancel, Store, Status
<1>2. QED
  BY <1>1, RegistryStep, SpendType DEF Cancel, Inv

LEMMA BackupKept ==
    ASSUME Inv, Backup
    PROVE  Inv'
<1>1. TypeOK'
  BY DEF Inv, TypeOK, Backup
<1>2. Owners'
  BY OwnersKept DEF Inv, Backup
<1>3. Journalled'
  BY JournalledKept DEF Inv, Backup
<1>4. QED
  BY <1>1, <1>2, <1>3 DEF Inv

(* A restored registry is one that was saved. *)
LEMMA RestoreKept ==
    ASSUME Inv, Restore
    PROVE  Inv'
<1>1. PICK s \in image :
         /\ store' = s
         /\ ran' = [c \in Id |->
                      [ran[c] EXCEPT !.rolled = @ \/ s.status[c] # store.status[c]]]
  BY DEF Restore
<1>2. ran \in [Id -> [starts : Nat, end : Outcome \cup {"none"}, rolled : BOOLEAN]]
  BY DEF Inv, TypeOK
<1>3. \A c \in Id :
         /\ ran'[c].starts = ran[c].starts
         /\ ran'[c] \in [starts : Nat, end : Outcome \cup {"none"}, rolled : BOOLEAN]
  BY <1>1, <1>2
<1>4. ran' \in [Id -> [starts : Nat, end : Outcome \cup {"none"}, rolled : BOOLEAN]]
  BY <1>1, <1>3
<1>5. store' \in Store
  BY <1>1 DEF Inv, TypeOK
<1>6. TypeOK'
  BY <1>4, <1>5, SpendType DEF Inv, TypeOK, Restore
<1>7. Owners'
  BY <1>1, OwnersKept DEF Inv, Restore
<1>8. Journalled'
  BY <1>3, JournalledKept DEF Inv, Restore
<1>9. QED
  BY <1>6, <1>7, <1>8 DEF Inv

LEMMA BatchOK ==
    ASSUME NEW batch \in Batch
    PROVE  /\ Len(batch) \in {1, 2}
           /\ DOMAIN batch = 1 .. Len(batch)
           /\ \A n \in DOMAIN batch : batch[n] \in Device
  BY DEF Batch

(* The commands of a batch get numbers that nothing names yet, and owners. *)
LEMMA QueueKept ==
    ASSUME Inv, NEW batch \in Batch, Queue(batch)
    PROVE  Inv'
<1> DEFINE New(c) == c - queued \in DOMAIN batch
           status == [c \in Id |-> IF New(c) THEN "queued" ELSE store.status[c]]
           target == [c \in Id |-> IF New(c) THEN batch[c - queued] ELSE store.target[c]]
<1>1. /\ store' = [store EXCEPT !.status = status, !.target = target]
      /\ queued' = queued + Len(batch)
      /\ queued' <= MaxCommands
      /\ UNCHANGED <<image, journal, agent, stale, ran, budget>>
  BY DEF Queue
<1>2. queued \in 0 .. MaxCommands /\ queued' \in 0 .. MaxCommands
  BY <1>1, BatchOK, Constants DEF Inv, TypeOK
<1>3. status \in [Id -> Status] /\ target \in [Id -> Device \cup {Nobody}]
  BY BatchOK DEF Inv, TypeOK, Store, Status
<1>4. \A c \in Id : New(c) <=> c > queued /\ c <= queued'
  BY <1>1, <1>2, BatchOK, Constants
<1>5. \A c \in Id : ~New(c) => target[c] = store.target[c]
  OBVIOUS
<1>6. \A c \in Id : New(c) => target[c] = batch[c - queued] /\ batch[c - queued] \in Device
  BY BatchOK
<1> HIDE DEF status, target, New
<1>7. store' \in Store /\ store'.target = target
  BY <1>1, <1>3 DEF Inv, TypeOK, Store
<1>8. TypeOK'
  BY <1>1, <1>2, <1>7 DEF Inv, TypeOK
<1>9. Owners'
  <2>1. PICK o \in Owner : Owned(o)
    BY DEF Inv, Owners
  <2>2. PICK o2 \in Owner : \A c \in Id : o2[c] = IF New(c) THEN target[c] ELSE o[c]
    <3>1. [c \in Id |-> IF New(c) THEN target[c] ELSE o[c]] \in Owner
      BY <2>1, <1>3 DEF Owner
    <3>2. QED
      BY <3>1
  <2>3. \A c \in Id : o[c] # Nobody => o2[c] = o[c]
    BY <2>1, <2>2, <1>2, <1>4 DEF Owned
  <2>4. \A c \in Id : c > queued' => o2[c] = Nobody
    <3>1. ASSUME NEW c \in Id, c > queued'
          PROVE  c > queued /\ ~New(c)
      BY <1>1, <1>2, <1>4, <3>1, BatchOK, Constants
    <3>2. QED
      BY <2>1, <2>2, <3>1 DEF Owned
  <2>5. \A c \in Id : target[c] # Nobody => target[c] = o2[c]
    BY <2>1, <2>2, <2>3, <1>5 DEF Owned, Respects
  <2>6. Respects(store', o2)
    BY <2>5, <1>7 DEF Respects
  <2>7. \A s \in image' : Respects(s, o2)
    BY <2>1, <2>3, <1>1 DEF Owned, Respects
  <2>8. \A d \in Device : \A c \in Id : agent'[d].reply.command = c => o2[c] = d
    BY <2>1, <2>3, <1>1, Constants DEF Owned
  <2>9. \A d \in Device : \A c \in Id : Known(journal'[d], c) => o2[c] = d
    BY <2>1, <2>3, <1>1, Constants DEF Owned
  <2>10. Owned(o2)'
    BY <2>4, <2>6, <2>7, <2>8, <2>9 DEF Owned
  <2>11. QED
    BY <2>10 DEF Owners
<1>10. Journalled'
  BY <1>1, JournalledKept DEF Inv
<1>11. QED
  BY <1>8, <1>9, <1>10 DEF Inv

-----------------------------------------------------------------------------
(* The steps of agents, and the server's answers *)

LEMMA AgentType ==
    ASSUME TypeOK, NEW d \in Device
    PROVE  /\ agent[d] \in Agent
           /\ agent[d].request \in Request
           /\ agent[d].reply \in Reply
           /\ agent[d].worker \in Id \cup {0}
           /\ agent[d].over \in Outcome \cup {"none"}
           /\ journal[d] \in Seq(Entry)
  BY DEF TypeOK, Agent

(* A step of one agent that starts nothing: its journal keeps its commands,
   and it holds no command but the one it held. *)
LEMMA AgentStep ==
    ASSUME Inv, NEW d \in Device, NEW a \in Agent, NEW j, SameRows(journal[d], j),
           agent' = [agent EXCEPT ![d] = a],
           journal' = [journal EXCEPT ![d] = j],
           a.reply.command = 0 \/ a.reply.command = agent[d].reply.command,
           stale' \in [Device -> SUBSET Request],
           ran' \in [Id -> [starts : Nat, end : Outcome \cup {"none"}, rolled : BOOLEAN]],
           \A c \in Id : ran'[c].starts = ran[c].starts,
           budget' \in [{"withdrawals", "failures", "restores"} -> Nat],
           UNCHANGED <<store, image, queued>>
    PROVE  Inv'
<1>1. /\ \A e \in Device : agent'[e] = IF e = d THEN a ELSE agent[e]
      /\ \A e \in Device : journal'[e] = IF e = d THEN j ELSE journal[e]
  BY DEF Inv, TypeOK
<1>2. \A e \in Device : \A c \in Id : Known(journal'[e], c) <=> Known(journal[e], c)
  BY <1>1 DEF SameRows
<1>3. TypeOK'
  BY DEF Inv, TypeOK, SameRows
<1>4. \A e \in Device : \A c \in Id :
         agent'[e].reply.command = c => agent[e].reply.command = c
  BY <1>1, Constants
<1>5. Owners'
  BY <1>2, <1>4, OwnersKept DEF Inv
<1>6. Journalled'
  BY <1>2, JournalledKept DEF Inv
<1>7. QED
  BY <1>3, <1>5, <1>6 DEF Inv

LEMMA RowsKept ==
    ASSUME NEW j \in Seq(Entry)
    PROVE  SameRows(j, j)
  BY DEF SameRows

LEMMA StartKept ==
    ASSUME Inv, NEW d \in Device, Start(d)
    PROVE  Inv'
<1> DEFINE a == [Down EXCEPT !.up = TRUE]
           j == Interrupted(journal[d])
<1>1. a \in Agent /\ a.reply.command = 0
  BY Constructors DEF Agent
<1>2. SameRows(journal[d], j)
  BY AgentType, InterruptedRows DEF Inv
<1>3. agent' = [agent EXCEPT ![d] = a] /\ journal' = [journal EXCEPT ![d] = j]
  BY DEF Start
<1> HIDE DEF a, j
<1>4. QED
  BY <1>1, <1>2, <1>3, AgentStep DEF Inv, TypeOK, Start

(* The result that a poll carries is one of the journal's. *)
LEMMA ResultOK ==
    ASSUME NEW j \in Seq(Entry), NEW e \in Result(j)
    PROVE  e.id \in Id /\ e.outcome \in Outcome \cup {"none"}
<1>1. e \in Entry
  BY RowType DEF Result, Unreported
<1>2. QED
  BY <1>1, EntryFields DEF Fields

LEMMA PollKept ==
    ASSUME Inv, NEW d \in Device, Poll(d)
    PROVE  Inv'
<1> DEFINE ended == agent[d].over # "none"
           due   == Result(journal'[d])
           due1  == CHOOSE e \in due : TRUE
           poll  == [kind    |-> "poll",
                     result  |-> IF due = {} THEN 0 ELSE due1.id,
                     outcome |-> IF due = {} THEN "none" ELSE due1.outcome,
                     active  |-> agent[d].worker # 0 /\ ~ended]
           request == IF agent[d].registered THEN poll
                      ELSE [NoRequest EXCEPT !.kind = "enroll"]
           a == [agent[d] EXCEPT !.worker  = IF ended THEN 0 ELSE agent[d].worker,
                                 !.over    = "none",
                                 !.phase   = "sent",
                                 !.request = request]
<1>1. /\ agent' = [agent EXCEPT ![d] = a]
      /\ UNCHANGED <<store, image, stale, ran, queued, budget>>
  BY DEF Poll
<1>2. PICK j : SameRows(journal[d], j) /\ journal' = [journal EXCEPT ![d] = j]
  <2>1. CASE ended
    <3>1. PICK outcome \in Reportable(agent[d].over) :
             journal' = [journal EXCEPT ![d] = Finish(@, agent[d].worker, outcome)]
      BY <2>1 DEF Poll
    <3>2. outcome \in Outcome
      BY <2>1, AgentType DEF Reportable, Outcome, Inv
    <3>3. QED
      BY <3>1, <3>2, AgentType, FinishRows DEF Inv
  <2>2. CASE ~ended
    <3>1. journal' = [journal EXCEPT ![d] = journal[d]]
      BY <2>2 DEF Poll, Inv, TypeOK
    <3>2. QED
      BY <3>1, AgentType, RowsKept DEF Inv
  <2>3. QED
    BY <2>1, <2>2
<1>3. journal'[d] = j /\ j \in Seq(Entry)
  BY <1>2 DEF Inv, TypeOK, SameRows
<1>4. due # {} => due1.id \in Id /\ due1.outcome \in Outcome \cup {"none"}
  BY <1>3, ResultOK
<1> HIDE DEF due1, due
<1>5. poll \in Request
  BY <1>4 DEF Request
<1> HIDE DEF poll
<1>6. request \in Request
  BY <1>5, Constructors DEF NoRequest, Request
<1> HIDE DEF request
<1>7. a \in Agent /\ a.reply.command = agent[d].reply.command
  BY <1>6, AgentType DEF Agent, Inv
<1> HIDE DEF a
<1>8. QED
  BY <1>1, <1>2, <1>7, AgentStep DEF Inv, TypeOK

(* The registry the answer leaves names what it named; the reply names a
   command of the device. *)
LEMMA AnswerKept ==
    ASSUME Inv, NEW d \in Device, Answer(d)
    PROVE  Inv'
<1>1. PICK fresh \in BOOLEAN :
         LET x == Exchanged(store, d, agent[d].request, fresh) IN
         /\ store' = x.store
         /\ agent' = [agent EXCEPT ![d].phase = "replied", ![d].reply = x.reply]
  BY DEF Answer
<1> DEFINE x == Exchanged(store, d, agent[d].request, fresh)
<1>2. Served(store, d, x)
  BY AgentType, ExchangedOK DEF Inv, TypeOK
<1>3. store' = x.store /\ agent' = [agent EXCEPT ![d].phase = "replied", ![d].reply = x.reply]
  BY <1>1
<1> DEFINE a == [agent[d] EXCEPT !.phase = "replied", !.reply = x.reply]
<1>4. agent' = [agent EXCEPT ![d] = a]
  BY <1>3
<1> HIDE DEF x
<1>5. a \in Agent
  BY <1>2, AgentType DEF Inv, Agent, Served
<1>6. agent' \in [Device -> Agent]
  BY <1>4, <1>5 DEF Inv, TypeOK
<1>7. TypeOK'
  BY <1>2, <1>3, <1>6 DEF Inv, TypeOK, Served, Answer
<1>8. \A e \in Device : agent'[e].reply = IF e = d THEN x.reply ELSE agent[e].reply
  BY <1>3 DEF Inv, TypeOK, Agent
<1>9. \A e \in Device : \A c \in Id :
         agent'[e].reply.command = c =>
            agent[e].reply.command = c \/ store.target[c] = e
  BY <1>2, <1>8, Constants DEF Served
<1>10. Owners'
  BY <1>2, <1>3, <1>9, OwnersKept DEF Inv, Served, Answer
<1>11. Journalled'
  BY JournalledKept DEF Inv, Answer
<1>12. QED
  BY <1>7, <1>10, <1>11 DEF Inv

LEMMA AnswerStaleKept ==
    ASSUME Inv, NEW d \in Device, NEW request, AnswerStale(d, request)
    PROVE  Inv'
<1>1. PICK fresh \in BOOLEAN : store' = Exchanged(store, d, request, fresh).store
  BY DEF AnswerStale
<1>2. request \in Request /\ stale' \in [Device -> SUBSET Request]
  BY DEF AnswerStale, Inv, TypeOK
<1>3. store' \in Store /\ store'.target = store.target
  BY <1>1, <1>2, ExchangedOK DEF Served, Inv, TypeOK
<1>4. TypeOK'
  BY <1>2, <1>3 DEF Inv, TypeOK, AnswerStale
<1>5. Owners'
  BY <1>3, OwnersKept DEF Inv, AnswerStale
<1>6. Journalled'
  BY JournalledKept DEF Inv, AnswerStale
<1>7. QED
  BY <1>4, <1>5, <1>6 DEF Inv

LEMMA WorkKept ==
    ASSUME Inv, NEW d \in Device, NEW outcome \in Outcome, Work(d, outcome)
    PROVE  Inv'
<1> DEFINE a == [agent[d] EXCEPT !.over = outcome]
           w == agent[d].worker
<1>1. a \in Agent /\ a.reply = agent[d].reply
  BY AgentType DEF Agent, Inv
<1>2. w \in Id
  BY AgentType DEF Work, Inv
<1>3. ran \in [Id -> [starts : Nat, end : Outcome \cup {"none"}, rolled : BOOLEAN]]
  BY DEF Inv, TypeOK
<1>4. ran' = [ran EXCEPT ![w].end = outcome]
  BY DEF Work
<1>5. agent' = [agent EXCEPT ![d] = a] /\ journal' = [journal EXCEPT ![d] = journal[d]]
  BY DEF Work, Inv, TypeOK
<1> HIDE DEF a, w
<1>6. /\ ran' \in [Id -> [starts : Nat, end : Outcome \cup {"none"}, rolled : BOOLEAN]]
      /\ \A c \in Id : ran'[c].starts = ran[c].starts
  BY <1>2, <1>3, <1>4
<1>7. SameRows(journal[d], journal[d])
  BY AgentType, RowsKept DEF Inv
<1>8. QED
  BY <1>1, <1>5, <1>6, <1>7, AgentStep DEF Inv, TypeOK, Work

LEMMA AbandonedType ==
    ASSUME TypeOK, NEW d \in Device, Abandoned(d)
    PROVE  stale' \in [Device -> SUBSET Request]
<1>1. agent[d].request \in Request /\ stale \in [Device -> SUBSET Request]
  BY AgentType DEF TypeOK
<1>2. PICK late \in SUBSET Request : stale' = [stale EXCEPT ![d] = @ \cup late]
  BY <1>1 DEF Abandoned
<1>3. stale[d] \cup late \in SUBSET Request
  BY <1>1
<1>4. QED
  BY <1>1, <1>2, <1>3

LEMMA GiveUpKept ==
    ASSUME Inv, NEW d \in Device, GiveUp(d)
    PROVE  Inv'
<1> DEFINE a == [agent[d] EXCEPT !.phase = "idle", !.request = NoRequest, !.reply = Rejected]
<1>1. a \in Agent /\ a.reply.command = 0
  BY AgentType, Constructors DEF Agent, Inv
<1>2. agent' = [agent EXCEPT ![d] = a] /\ journal' = [journal EXCEPT ![d] = journal[d]]
  BY DEF GiveUp, Inv, TypeOK
<1> HIDE DEF a
<1>3. SameRows(journal[d], journal[d])
  BY AgentType, RowsKept DEF Inv
<1>4. QED
  BY <1>1, <1>2, <1>3, AgentStep, AbandonedType, SpendType DEF Inv, TypeOK, GiveUp

LEMMA CrashKept ==
    ASSUME Inv, NEW d \in Device, Crash(d)
    PROVE  Inv'
<1>1. agent' = [agent EXCEPT ![d] = Down] /\ journal' = [journal EXCEPT ![d] = journal[d]]
  BY DEF Crash, Inv, TypeOK
<1>2. SameRows(journal[d], journal[d])
  BY AgentType, RowsKept DEF Inv
<1>3. QED
  BY <1>1, <1>2, Constructors, AgentStep, AbandonedType, SpendType DEF Inv, TypeOK, Crash

(* Reading a reply.  A command that is started is new to the journal of its
   owner, the only journal that could have it: it was never started. *)
LEMMA ReceiveKept ==
    ASSUME Inv, NEW d \in Device, Receive(d)
    PROVE  Inv'
<1> DEFINE reply == agent[d].reply
           c     == reply.command
           j     == Acknowledged(journal[d], reply.acknowledged)
           idle  == [agent[d] EXCEPT
                       !.phase = "idle", !.request = NoRequest, !.reply = Rejected,
                       !.registered = agent[d].registered \/ reply.state = "registered"]
           started == [idle EXCEPT !.worker = c]
           row   == [id |-> c, done |-> FALSE, outcome |-> "none", ack |-> FALSE]
           busy  == c # 0 /\ agent[d].worker # 0
           runs  == c # 0 /\ agent[d].worker = 0 /\ IsNew(j, c)
<1>1. /\ agent' = [agent EXCEPT ![d] = IF busy THEN Down ELSE IF runs THEN started ELSE idle]
      /\ journal' = [journal EXCEPT ![d] =
                        IF c = 0 \/ agent[d].worker # 0 THEN j
                        ELSE IF runs THEN Append(j, row) ELSE Reopened(j, c)]
      /\ ran' = IF runs THEN [ran EXCEPT ![c].starts = @ + 1] ELSE ran
      /\ UNCHANGED <<store, image, stale, queued, budget>>
  BY DEF Receive
<1>2. reply \in Reply /\ c \in Id \cup {0} /\ reply.acknowledged \in SUBSET Id
  BY AgentType DEF Inv, Reply
<1>3. SameRows(journal[d], j)
  BY <1>2, AgentType, AcknowledgedRows DEF Inv
<1>4. idle \in Agent /\ idle.reply.command = 0
  <2>1. idle.registered \in BOOLEAN
    BY AgentType DEF Inv, Agent
  <2>2. QED
    BY <2>1, AgentType, Constructors DEF Inv, Agent
<1> HIDE DEF j, idle
<1>5. /\ stale' \in [Device -> SUBSET Request]
       /\ ran \in [Id -> [starts : Nat, end : Outcome \cup {"none"}, rolled : BOOLEAN]]
       /\ budget' \in [{"withdrawals", "failures", "restores"} -> Nat]
       /\ UNCHANGED <<store, image, queued>>
  BY <1>1 DEF Inv, TypeOK
<1>6. CASE busy
  <2>1. ~runs
    BY <1>6
  <2>2. agent' = [agent EXCEPT ![d] = Down] /\ journal' = [journal EXCEPT ![d] = j] /\ ran' = ran
    BY <1>1, <1>6, <2>1
  <2>3. QED
    BY <1>3, <1>5, <2>2, Constructors, AgentStep
<1>7. CASE ~busy /\ ~runs
  <2>1. agent' = [agent EXCEPT ![d] = idle] /\ ran' = ran
    BY <1>1, <1>7
  <2>2. PICK k : SameRows(journal[d], k) /\ journal' = [journal EXCEPT ![d] = k]
    <3>1. CASE c = 0
      BY <1>1, <1>3, <3>1
    <3>2. CASE c # 0
      <4>1. journal' = [journal EXCEPT ![d] = Reopened(j, c)]
        BY <1>1, <1>7, <3>2
      <4>2. SameRows(j, Reopened(j, c))
        BY <1>2, <1>3, <3>2, ReopenedRows DEF SameRows
      <4>3. SameRows(journal[d], Reopened(j, c))
        BY <1>3, <4>2 DEF SameRows
      <4>4. QED
        BY <4>1, <4>3
    <3>3. QED
      BY <3>1, <3>2
  <2>3. \A i \in Id : ran'[i].starts = ran[i].starts
    BY <2>1
  <2>4. QED
    BY <1>4, <1>5, <2>1, <2>2, <2>3, AgentStep
<1>8. CASE runs
  <2> DEFINE k == Append(j, row)
  <2>1. c \in Id /\ ~Known(j, c)
    BY <1>2, <1>8 DEF IsNew
  <2>2. /\ agent' = [agent EXCEPT ![d] = started]
        /\ journal' = [journal EXCEPT ![d] = k]
        /\ ran' = [ran EXCEPT ![c].starts = @ + 1]
    BY <1>1, <1>8
  <2>3. started \in Agent /\ started.reply.command = 0
    BY <1>4, <2>1 DEF Agent
  <2>4. row \in Entry /\ row.id = c
    BY <2>1, FieldsEntry DEF Fields
  <2>5. k \in Seq(Entry) /\ \A b \in Id : Known(k, b) <=> Known(journal[d], b) \/ b = c
    BY <1>3, <2>4, StartedRow DEF SameRows
  <2> HIDE DEF k, row, started
  <2>6. /\ \A e \in Device : agent'[e] = IF e = d THEN started ELSE agent[e]
        /\ \A e \in Device : journal'[e] = IF e = d THEN k ELSE journal[e]
    BY <2>2 DEF Inv, TypeOK
  <2>7. ran \in [Id -> [starts : Nat, end : Outcome \cup {"none"}, rolled : BOOLEAN]]
    BY DEF Inv, TypeOK
  <2>8. /\ ran' \in [Id -> [starts : Nat, end : Outcome \cup {"none"}, rolled : BOOLEAN]]
        /\ ran'[c].starts = ran[c].starts + 1
        /\ \A b \in Id : b # c => ran'[b] = ran[b]
    BY <2>1, <2>2, <2>7
  <2>9. TypeOK'
    <3>1. agent' \in [Device -> Agent] /\ journal' \in [Device -> Seq(Entry)]
      BY <2>2, <2>3, <2>5 DEF Inv, TypeOK
    <3>2. UNCHANGED <<store, image, stale, queued, budget>>
      BY <1>1
    <3>3. QED
      BY <2>8, <3>1, <3>2 DEF Inv, TypeOK
  <2>10. Owners'
    BY <1>1, <2>3, <2>5, <2>6, Constants, OwnersKept DEF Inv
  <2>11. ran[c].starts = 0
    <3>1. PICK o \in Owner : Owned(o)
      BY DEF Inv, Owners
    <3>2. o[c] = d
      BY <2>1, <3>1 DEF Owned
    <3>3. \A e \in Device : ~Known(journal[e], c)
      BY <1>3, <2>1, <3>1, <3>2 DEF Owned, SameRows
    <3>4. QED
      BY <2>1, <3>3 DEF Inv, Journalled
  <2>12. Journalled'
    <3>1. ran'[c].starts = 1 /\ Known(journal'[d], c)
      BY <2>1, <2>5, <2>6, <2>8, <2>11
    <3>2. \A e \in Device : \A b \in Id : Known(journal[e], b) => Known(journal'[e], b)
      BY <2>5, <2>6
    <3>3. QED
      BY <2>8, <3>1, <3>2 DEF Inv, Journalled
  <2>13. QED
    BY <2>9, <2>10, <2>12 DEF Inv
<1>9. QED
  BY <1>6, <1>7, <1>8

-----------------------------------------------------------------------------
(* What the registry says of a command is what became of it *)

(* A journal that holds this result of a command. *)
HasResult(j, c, outcome) ==
    \E i \in DOMAIN j : j[i].id = c /\ j[i].done /\ j[i].outcome = outcome

(* A result may be reported as a failure for its size, and a command that the
   agent's end interrupted is uncertain; nothing else is said that was not. *)
Happened(c, outcome) ==
    /\ outcome = "completed" => ran[c].end = "completed"
    /\ outcome = "failed" => ran[c].end \in {"completed", "failed"}

(* A journal's rows are executions, and its results true. *)
RowsTrue ==
    \A d \in Device : \A c \in Id :
        /\ Known(journal[d], c) => ran[c].starts = 1
        /\ \A outcome \in Outcome :
              HasResult(journal[d], c, outcome) => Happened(c, outcome)

(* The command of a worker is journalled, without a result; how the worker
   ended is how the command ended. *)
WorkersTrue ==
    \A d \in Device :
        /\ agent[d].worker # 0 =>
              /\ Known(journal[d], agent[d].worker)
              /\ \A outcome \in Outcome :
                    ~HasResult(journal[d], agent[d].worker, outcome)
        /\ agent[d].over # "none" =>
              agent[d].worker # 0 /\ ran[agent[d].worker].end = agent[d].over

(* A result on its way - read, not yet read, or given up - is journalled. *)
Reported(j, r) ==
    r.result # 0 => r.outcome \in Outcome /\ HasResult(j, r.result, r.outcome)

ReportsTrue ==
    \A d \in Device :
        /\ Reported(journal[d], agent[d].request)
        /\ \A r \in stale[d] : Reported(journal[d], r)

(* The rows of a registry are commands of devices, and their results are in
   the journals. *)
Recorded(s) ==
    \A c \in Id :
        /\ s.status[c] # "none" => s.target[c] \in Device
        /\ s.status[c] \in Outcome => HasResult(journal[s.target[c]], c, s.status[c])

RegistriesTrue == Recorded(store) /\ \A s \in image : Recorded(s)

(* A command that a device was given. *)
Given(d, c) == Known(journal[d], c) \/ agent[d].reply.command = c

Gone    == Outcome \cup {"delivered"}
Settled == Outcome \cup {"cancelled"}

(* What was given is not to be given or cancelled, and everything queued
   before it is settled - as far as no restore came between. *)
GivenInOrder ==
    \A d \in Device : \A c \in Id : Given(d, c) =>
        /\ ~ran[c].rolled => store.status[c] \in Gone
        /\ \A b \in Id : (b < c /\ b \in Commands(store, d) /\ ~ran[b].rolled)
              => store.status[b] \in Settled

Faithful == RowsTrue /\ WorkersTrue /\ ReportsTrue /\ RegistriesTrue /\ GivenInOrder

-----------------------------------------------------------------------------
(* Results in the journal *)

(* What Journal::finish writes is a result of that command, and no other
   result is changed. *)
LEMMA FinishResults ==
    ASSUME NEW j \in Seq(Entry), NEW c, NEW outcome \in Outcome, NEW b, NEW u \in Outcome
    PROVE  HasResult(Finish(j, c, outcome), b, u) <=>
              IF b = c THEN Known(j, c) /\ u = outcome ELSE HasResult(j, b, u)
<1> DEFINE k == Finish(j, c, outcome)
<1>1. DOMAIN k = DOMAIN j
  BY DEF Finish
<1>2. ASSUME NEW i \in DOMAIN j
      PROVE  /\ k[i].id = j[i].id
             /\ j[i].id # c => k[i] = j[i]
             /\ j[i].id = c => k[i].done = TRUE /\ k[i].outcome = outcome
  <2>1. j[i] \in Fields
    BY RowType, EntryFields
  <2>2. CASE j[i].id = c
    <3>1. k[i] = [j[i] EXCEPT !.done = TRUE, !.outcome = outcome, !.ack = FALSE]
      BY <2>2 DEF Finish
    <3>2. QED
      BY <2>1, <2>2, <3>1 DEF Fields
  <2>3. CASE j[i].id # c
    BY <2>3 DEF Finish
  <2>4. QED
    BY <2>2, <2>3
<1> HIDE DEF k
<1>3. ASSUME b = c
      PROVE  HasResult(k, b, u) <=> Known(j, c) /\ u = outcome
  <2>1. \A i \in DOMAIN j : /\ k[i].id = b <=> j[i].id = c
                            /\ j[i].id = c => k[i].done = TRUE /\ k[i].outcome = outcome
    BY <1>2, <1>3
  <2>2. HasResult(k, b, u) => Known(j, c) /\ u = outcome
    BY <1>1, <2>1 DEF HasResult, Known
  <2>3. Known(j, c) => HasResult(k, b, outcome)
    BY <1>1, <2>1 DEF HasResult, Known
  <2>4. QED
    BY <2>2, <2>3
<1>4. ASSUME b # c
      PROVE  HasResult(k, b, u) <=> HasResult(j, b, u)
  <2>1. \A i \in DOMAIN j : (k[i].id = b <=> j[i].id = b) /\ (j[i].id = b => k[i] = j[i])
    BY <1>2, <1>4
  <2>2. HasResult(k, b, u) => HasResult(j, b, u)
    BY <1>1, <2>1 DEF HasResult
  <2>3. HasResult(j, b, u) => HasResult(k, b, u)
    BY <1>1, <2>1 DEF HasResult
  <2>4. QED
    BY <2>2, <2>3
<1>5. QED
  BY <1>3, <1>4 DEF k

(* Opening a journal adds no result but `uncertain', and takes none away. *)
LEMMA InterruptedResults ==
    ASSUME NEW j \in Seq(Entry), NEW b, NEW u \in Outcome
    PROVE  /\ HasResult(j, b, u) => HasResult(Interrupted(j), b, u)
           /\ HasResult(Interrupted(j), b, u) => HasResult(j, b, u) \/ u = "uncertain"
<1> DEFINE k == Interrupted(j)
<1>1. DOMAIN k = DOMAIN j
  BY DEF Interrupted
<1>2. ASSUME NEW i \in DOMAIN j
      PROVE  (j[i].done => k[i] = j[i]) /\ (~j[i].done => k[i].outcome = "uncertain")
  <2>1. j[i] \in Fields
    BY RowType, EntryFields
  <2>2. CASE j[i].done
    BY <2>2 DEF Interrupted
  <2>3. CASE ~j[i].done
    <3>1. k[i] = [j[i] EXCEPT !.done = TRUE, !.outcome = "uncertain", !.ack = FALSE]
      BY <2>3 DEF Interrupted
    <3>2. QED
      BY <2>1, <2>3, <3>1 DEF Fields
  <2>4. QED
    BY <2>2, <2>3
<1> HIDE DEF k
<1>3. HasResult(j, b, u) => HasResult(k, b, u)
  BY <1>1, <1>2 DEF HasResult
<1>4. HasResult(k, b, u) => HasResult(j, b, u) \/ u = "uncertain"
  BY <1>1, <1>2 DEF HasResult
<1>5. QED
  BY <1>3, <1>4 DEF k

(* Acknowledgements change no result. *)
LEMMA AckResults ==
    ASSUME NEW j \in Seq(Entry), NEW k, DOMAIN k = DOMAIN j,
           \A i \in DOMAIN j : k[i] = j[i] \/ \E ack \in BOOLEAN : k[i] = [j[i] EXCEPT !.ack = ack],
           NEW b, NEW u
    PROVE  HasResult(k, b, u) <=> HasResult(j, b, u)
<1>1. ASSUME NEW i \in DOMAIN j
      PROVE  k[i].id = j[i].id /\ k[i].done = j[i].done /\ k[i].outcome = j[i].outcome
  <2>1. j[i] \in Fields
    BY RowType, EntryFields
  <2>2. QED
    BY <2>1 DEF Fields
<1>2. QED
  BY <1>1 DEF HasResult

LEMMA ReopenedResults ==
    ASSUME NEW j \in Seq(Entry), NEW c, NEW b, NEW u
    PROVE  HasResult(Reopened(j, c), b, u) <=> HasResult(j, b, u)
<1>1. DOMAIN Reopened(j, c) = DOMAIN j
  BY DEF Reopened
<1>2. ASSUME NEW i \in DOMAIN j
      PROVE  \/ Reopened(j, c)[i] = j[i]
             \/ \E ack \in BOOLEAN : Reopened(j, c)[i] = [j[i] EXCEPT !.ack = ack]
  BY DEF Reopened
<1>3. QED
  BY <1>1, <1>2, AckResults

LEMMA AcknowledgedResults ==
    ASSUME NEW j \in Seq(Entry), NEW ids, NEW b, NEW u
    PROVE  HasResult(Acknowledged(j, ids), b, u) <=> HasResult(j, b, u)
<1>1. DOMAIN Acknowledged(j, ids) = DOMAIN j
  BY DEF Acknowledged
<1>2. ASSUME NEW i \in DOMAIN j
      PROVE  \/ Acknowledged(j, ids)[i] = j[i]
             \/ \E ack \in BOOLEAN : Acknowledged(j, ids)[i] = [j[i] EXCEPT !.ack = ack]
  BY DEF Acknowledged
<1>3. QED
  BY <1>1, <1>2, AckResults

LEMMA StartedResults ==
    ASSUME NEW j \in Seq(Entry), NEW e \in Entry, ~e.done, NEW b, NEW u
    PROVE  HasResult(Append(j, e), b, u) <=> HasResult(j, b, u)
<1>1. /\ Len(Append(j, e)) = Len(j) + 1
      /\ \A i \in 1 .. Len(j) : Append(j, e)[i] = j[i]
      /\ Append(j, e)[Len(j) + 1] = e
      /\ Append(j, e) \in Seq(Entry)
  BY AppendProperties
<1>2. DOMAIN j = 1 .. Len(j) /\ DOMAIN Append(j, e) = 1 .. Len(j) + 1 /\ Len(j) \in Nat
  BY <1>1, LenProperties
<1>3. QED
  BY <1>1, <1>2 DEF HasResult

(* The journal's next result to report is one of its results. *)
LEMMA DueResult ==
    ASSUME NEW j \in Seq(Entry), NEW e \in Result(j)
    PROVE  e.outcome \in Outcome /\ HasResult(j, e.id, e.outcome)
<1>1. PICK i \in Unreported(j) : e = j[i]
  BY DEF Result
<1>2. i \in DOMAIN j /\ j[i].done
  BY DEF Unreported
<1>3. j[i].outcome \in Outcome \cup {"none"} /\ j[i].outcome # "none"
  BY <1>2, RowType, EntryFields DEF Fields
<1>4. HasResult(j, e.id, e.outcome)
  BY <1>1, <1>2 DEF HasResult
<1>5. QED
  BY <1>1, <1>3, <1>4

LEMMA ResultKnown ==
    ASSUME NEW j, NEW c, NEW u, HasResult(j, c, u)
    PROVE  Known(j, c)
  BY DEF HasResult, Known

-----------------------------------------------------------------------------
(* What every step owes the parts of the invariant *)

ResultsKept ==
    \A d \in Device : \A c \in Id : \A u \in Outcome :
        HasResult(journal[d], c, u) => HasResult(journal'[d], c, u)

LEMMA RegistriesKept ==
    ASSUME RegistriesTrue, ResultsKept, store' \in image \cup {store},
           image' \subseteq image \cup {store}
    PROVE  RegistriesTrue'
<1>1. ASSUME NEW s, Recorded(s)
      PROVE  \A c \in Id :
                /\ s.status[c] # "none" => s.target[c] \in Device
                /\ s.status[c] \in Outcome =>
                      HasResult(journal'[s.target[c]], c, s.status[c])
  <2>1. ASSUME NEW c \in Id, s.status[c] \in Outcome
        PROVE  s.target[c] \in Device /\ HasResult(journal'[s.target[c]], c, s.status[c])
    BY <1>1, <2>1 DEF Recorded, ResultsKept, Outcome
  <2>2. QED
    BY <1>1, <2>1 DEF Recorded
<1>2. \A s \in image \cup {store} : Recorded(s)
  BY DEF RegistriesTrue
<1>3. QED
  BY <1>1, <1>2 DEF RegistriesTrue, Recorded

LEMMA ReportsKept ==
    ASSUME TypeOK, ReportsTrue, ResultsKept,
           \A d \in Device : agent'[d].request = agent[d].request
                                \/ Reported(journal'[d], agent'[d].request),
           \A d \in Device : stale'[d] \subseteq stale[d] \cup {agent[d].request}
    PROVE  ReportsTrue'
<1>1. ASSUME NEW d \in Device, NEW r \in Request, Reported(journal[d], r)
      PROVE  Reported(journal'[d], r)
  <2>1. r.result \in Id \cup {0}
    BY DEF Request
  <2>2. QED
    BY <1>1, <2>1 DEF Reported, ResultsKept
<1>2. ASSUME NEW d \in Device
      PROVE  /\ agent[d].request \in Request /\ stale[d] \subseteq Request
             /\ Reported(journal[d], agent[d].request)
             /\ \A r \in stale[d] : Reported(journal[d], r)
  BY AgentType DEF ReportsTrue, TypeOK
<1>3. ASSUME NEW d \in Device
      PROVE  Reported(journal'[d], agent'[d].request)
  BY <1>1, <1>2
<1>4. ASSUME NEW d \in Device, NEW r \in stale'[d]
      PROVE  Reported(journal'[d], r)
  BY <1>1, <1>2
<1>5. QED
  BY <1>3, <1>4 DEF ReportsTrue, Reported

LEMMA GivenKept ==
    ASSUME GivenInOrder, store' = store,
           \A c \in Id : ran'[c].rolled = ran[c].rolled,
           \A d \in Device : \A c \in Id : Given(d, c)' => Given(d, c)
    PROVE  GivenInOrder'
<1>1. ASSUME NEW d \in Device, NEW c \in Id, Given(d, c)'
      PROVE  /\ ~ran'[c].rolled => store'.status[c] \in Gone
             /\ \A b \in Id : (b < c /\ b \in Commands(store', d) /\ ~ran'[b].rolled)
                   => store'.status[b] \in Settled
  BY <1>1 DEF GivenInOrder
<1>2. QED
  BY <1>1 DEF GivenInOrder

(* What has an owner is no newer than the last command queued. *)
LEMMA GivenOwned ==
    ASSUME Inv, NEW d \in Device, NEW c \in Id, Given(d, c)
    PROVE  c <= queued /\ \A e \in Device : Given(e, c) => e = d
<1>1. PICK o \in Owner : Owned(o)
  BY DEF Inv, Owners
<1>2. o[c] = d /\ \A e \in Device : Given(e, c) => o[c] = e
  BY <1>1 DEF Owned, Given
<1>3. queued \in Nat /\ c \in Nat
  BY Constants DEF Inv, TypeOK
<1>4. QED
  BY <1>1, <1>2, <1>3, Constants DEF Owned

(* A step of the operators on one command: none, a cancellation, a new one. *)
OperatorMoves(c) ==
    \/ store'.status[c] = store.status[c] /\ store'.target[c] = store.target[c]
    \/ /\ store.status[c] = "queued" /\ store'.status[c] = "cancelled"
       /\ store'.target[c] = store.target[c]
    \/ c > queued /\ store'.status[c] = "queued" /\ store'.target[c] \in Device

LEMMA OperatorStep ==
    ASSUME Inv, Faithful, \A c \in Id : OperatorMoves(c),
           image' \subseteq image \cup {store},
           UNCHANGED <<journal, agent, stale, ran>>
    PROVE  Faithful'
<1>1. RowsTrue'
  BY DEF Faithful, RowsTrue, Happened
<1>2. WorkersTrue'
  BY DEF Faithful, WorkersTrue
<1>3. ReportsTrue'
  BY DEF Faithful, ReportsTrue, Reported
<1>4. RegistriesTrue'
  <2>1. \A s \in image \cup {store} : Recorded(s)
    BY DEF Faithful, RegistriesTrue
  <2>2. \A s \in image' : Recorded(s)'
    BY <2>1 DEF Recorded
  <2>3. ASSUME NEW c \in Id
        PROVE  /\ store'.status[c] # "none" => store'.target[c] \in Device
               /\ store'.status[c] \in Outcome =>
                     HasResult(journal'[store'.target[c]], c, store'.status[c])
    <3>1. /\ store.status[c] # "none" => store.target[c] \in Device
          /\ store.status[c] \in Outcome => HasResult(journal[store.target[c]], c, store.status[c])
      BY <2>1 DEF Recorded
    <3>2. "cancelled" \notin Outcome /\ "queued" \notin Outcome
      BY DEF Outcome
    <3>3. OperatorMoves(c)
      OBVIOUS
    <3>4. QED
      BY <3>1, <3>2, <3>3 DEF OperatorMoves
  <2>4. QED
    BY <2>2, <2>3 DEF RegistriesTrue, Recorded
<1>5. GivenInOrder'
  <2>1. ASSUME NEW d \in Device, NEW c \in Id, Given(d, c)
        PROVE  ~ran[c].rolled => store'.status[c] \in Gone
    <3>1. c <= queued /\ queued \in Nat /\ c \in Nat
      BY <2>1, GivenOwned, Constants DEF Inv, TypeOK
    <3>2. ~ran[c].rolled => store.status[c] \in Gone
      BY <2>1 DEF Faithful, GivenInOrder
    <3>3. OperatorMoves(c) /\ "queued" \notin Gone
      BY DEF Gone, Outcome
    <3>4. QED
      BY <3>1, <3>2, <3>3 DEF OperatorMoves
  <2>2. ASSUME NEW d \in Device, NEW c \in Id, Given(d, c), NEW b \in Id,
               b < c, b \in Commands(store', d), ~ran[b].rolled
        PROVE  store'.status[b] \in Settled
    <3>1. b <= queued /\ queued \in Nat /\ b \in Nat
      BY <2>2, GivenOwned, Constants DEF Inv, TypeOK
    <3>2. ~(b > queued)
      BY <3>1
    <3>3. store.target[b] = d /\ store.status[b] # "none"
      BY <2>2, <3>2 DEF OperatorMoves, Commands
    <3>4. store.status[b] \in Settled
      BY <2>2, <3>3 DEF Faithful, GivenInOrder, Commands
    <3>5. OperatorMoves(b) /\ "cancelled" \in Settled
      BY DEF Settled
    <3>6. QED
      BY <3>2, <3>4, <3>5 DEF OperatorMoves
  <2>3. \A d \in Device : \A c \in Id : Given(d, c)' <=> Given(d, c)
    BY DEF Given
  <2>4. ran' = ran
    OBVIOUS
  <2>5. QED
    BY <2>1, <2>2, <2>3, <2>4 DEF GivenInOrder
<1>6. QED
  BY <1>1, <1>2, <1>3, <1>4, <1>5 DEF Faithful

(* A step of one agent that starts nothing, and the journal it leaves: the
   results stay, and what is new in it happened. *)
LEMMA JournalStep ==
    ASSUME Inv, Faithful, NEW d \in Device, NEW a \in Agent, NEW j, SameRows(journal[d], j),
           agent' = [agent EXCEPT ![d] = a],
           journal' = [journal EXCEPT ![d] = j],
           UNCHANGED <<store, image, ran>>,
           \A e \in Device : stale'[e] \subseteq stale[e] \cup {agent[e].request},
           \A c \in Id : \A u \in Outcome : HasResult(journal[d], c, u) => HasResult(j, c, u),
           \A c \in Id : \A u \in Outcome :
              HasResult(j, c, u) => HasResult(journal[d], c, u) \/ Happened(c, u),
           a.worker # 0 =>
              /\ a.worker = agent[d].worker
              /\ \A u \in Outcome : ~HasResult(j, a.worker, u),
           a.over # "none" => a.over = agent[d].over /\ a.worker = agent[d].worker,
           a.reply.command = 0 \/ a.reply.command = agent[d].reply.command,
           Reported(j, a.request)
    PROVE  Faithful'
<1>1. /\ \A e \in Device : agent'[e] = IF e = d THEN a ELSE agent[e]
      /\ \A e \in Device : journal'[e] = IF e = d THEN j ELSE journal[e]
  BY DEF Inv, TypeOK
<1>2. \A e \in Device : \A c \in Id : Known(journal'[e], c) <=> Known(journal[e], c)
  BY <1>1 DEF SameRows
<1>3. ResultsKept
  BY <1>1 DEF ResultsKept
<1>4. RowsTrue'
  <2>1. ASSUME NEW e \in Device, NEW c \in Id, NEW u \in Outcome, HasResult(journal'[e], c, u)
        PROVE  Happened(c, u)
    <3>1. HasResult(journal[e], c, u) \/ Happened(c, u)
      BY <1>1, <2>1
    <3>2. QED
      BY <3>1 DEF Faithful, RowsTrue
  <2>2. ASSUME NEW e \in Device, NEW c \in Id, Known(journal'[e], c)
        PROVE  ran[c].starts = 1
    BY <1>2, <2>2 DEF Faithful, RowsTrue
  <2>3. ran' = ran
    OBVIOUS
  <2>4. QED
    BY <2>1, <2>2, <2>3 DEF RowsTrue, Happened
<1>5. WorkersTrue'
  <2>1. ASSUME NEW e \in Device
        PROVE  /\ agent'[e].worker # 0 =>
                     /\ Known(journal'[e], agent'[e].worker)
                     /\ \A u \in Outcome : ~HasResult(journal'[e], agent'[e].worker, u)
               /\ agent'[e].over # "none" =>
                     agent'[e].worker # 0 /\ ran[agent'[e].worker].end = agent'[e].over
    <3>1. agent[e].worker \in Id \cup {0}
      BY AgentType DEF Inv
    <3>2. /\ agent[e].worker # 0 =>
                /\ Known(journal[e], agent[e].worker)
                /\ \A u \in Outcome : ~HasResult(journal[e], agent[e].worker, u)
          /\ agent[e].over # "none" =>
                agent[e].worker # 0 /\ ran[agent[e].worker].end = agent[e].over
      BY DEF Faithful, WorkersTrue
    <3>3. CASE e = d
      BY <1>1, <1>2, <3>1, <3>2, <3>3
    <3>4. CASE e # d
      BY <1>1, <3>2, <3>4
    <3>5. QED
      BY <3>3, <3>4
  <2>2. QED
    BY <2>1 DEF WorkersTrue
<1>6. ReportsTrue'
  BY <1>1, <1>3, ReportsKept DEF Faithful, Inv
<1>7. RegistriesTrue'
  BY <1>3, RegistriesKept DEF Faithful
<1>8. GivenInOrder'
  <2>1. ASSUME NEW e \in Device, NEW c \in Id, Given(e, c)'
        PROVE  Given(e, c)
    BY <1>1, <1>2, <2>1, Constants DEF Given
  <2>2. QED
    BY <2>1, GivenKept DEF Faithful
<1>9. QED
  BY <1>4, <1>5, <1>6, <1>7, <1>8 DEF Faithful

(* An answered request, as far as commands go: the result it carries is
   settled, and the command that the reply carries is the first open one. *)
AnswerMoves(s, d, request, t, c) ==
    \/ t.status[c] = s.status[c]
    \/ /\ s.status[c] = "delivered" /\ s.target[c] = d /\ c = request.result
       /\ t.status[c] = request.outcome
    \/ s.status[c] = "queued" /\ t.status[c] = "delivered"

Answers(s, d, request, x) ==
    /\ \A c \in Id : AnswerMoves(s, d, request, x.store, c)
    /\ x.reply.command # 0 =>
          /\ x.store.status[x.reply.command] = "delivered"
          /\ \A b \in Id : (b < x.reply.command /\ s.target[b] = d) =>
                x.store.status[b] \notin {"queued", "delivered"}

LEMMA PolledMoves ==
    ASSUME NEW s \in Store, NEW d \in Device, NEW request \in Request
    PROVE  Answers(s, d, request, Polled(s, d, request))
<1> DEFINE settled == Settle(s, d, request)
           given   == Dispatch(settled, d, request)
           f       == [c \in Id |-> IF c \in given THEN "delivered" ELSE settled.status[c]]
           command == IF given = {} THEN 0 ELSE CHOOSE c \in given : TRUE
           x       == Polled(s, d, request)
<1>1. /\ settled \in Store /\ settled.target = s.target
  BY SettleOK
<1>2. ASSUME NEW c \in Id
      PROVE  \/ settled.status[c] = s.status[c]
             \/ /\ s.status[c] = "delivered" /\ s.target[c] = d /\ c = request.result
                /\ settled.status[c] = request.outcome
  BY DEF Settle, Commands, Store
<1>3. /\ given \subseteq Open(settled, d)
      /\ \A c \in given : \A b \in Open(settled, d) : c <= b
  BY DEF Dispatch
<1>4. \A c \in Open(settled, d) :
         c \in Id /\ settled.target[c] = d /\ settled.status[c] \in {"queued", "delivered"}
  BY DEF Open, Commands
<1>5. x.store = [settled EXCEPT !.status = f] /\ x.reply.command = command
  BY DEF Polled
<1>6. f \in [Id -> Status]
  BY <1>1 DEF Status, Store
<1>7. \A b \in Id : (settled.target[b] = d /\ settled.status[b] \in {"queued", "delivered"})
                       => b \in Open(settled, d)
  BY DEF Open, Commands
<1>8. \A c \in Id : f[c] = IF c \in given THEN "delivered" ELSE settled.status[c]
  OBVIOUS
<1>9. command # 0 => command \in given
  OBVIOUS
<1> HIDE DEF settled, given, f, command, x
<1>10. x.store.status = f
  BY <1>1, <1>5, <1>6, StatusUpdated DEF Store
<1>11. ASSUME NEW c \in Id
       PROVE  AnswerMoves(s, d, request, x.store, c)
  <2>1. CASE c \in given
    <3>1. f[c] = "delivered" /\ settled.status[c] \in {"queued", "delivered"}
      BY <1>3, <1>4, <1>8, <2>1
    <3>2. CASE settled.status[c] = s.status[c]
      BY <1>10, <3>1, <3>2 DEF AnswerMoves
    <3>3. CASE s.status[c] = "delivered"
      BY <1>10, <3>1, <3>3 DEF AnswerMoves
    <3>4. QED
      BY <1>2, <3>2, <3>3
  <2>2. CASE c \notin given
    BY <1>2, <1>8, <1>10, <2>2 DEF AnswerMoves
  <2>3. QED
    BY <2>1, <2>2
<1>12. ASSUME command # 0
       PROVE  /\ f[command] = "delivered"
              /\ \A b \in Id : (b < command /\ s.target[b] = d) =>
                    f[b] \notin {"queued", "delivered"}
  <2>1. command \in given /\ command \in Id
    BY <1>3, <1>4, <1>9, <1>12
  <2>2. ASSUME NEW b \in Id, b < command, s.target[b] = d
        PROVE  f[b] \notin {"queued", "delivered"}
    <3>1. b \notin Open(settled, d)
      BY <1>3, <2>1, <2>2, Constants
    <3>2. b \notin given
      BY <1>3, <3>1
    <3>3. QED
      BY <1>1, <1>7, <1>8, <2>2, <3>1, <3>2
  <2>3. QED
    BY <1>8, <2>1, <2>2
<1>13. Answers(s, d, request, x)
  BY <1>5, <1>10, <1>11, <1>12 DEF Answers
<1>14. QED
  BY <1>13 DEF x

LEMMA ExchangedMoves ==
    ASSUME NEW s \in Store, NEW d \in Device, NEW request \in Request, NEW fresh \in BOOLEAN
    PROVE  Answers(s, d, request, Exchanged(s, d, request, fresh))
<1>1. request.kind \in {"enroll", "poll"}
  BY DEF Request
<1>2. ASSUME NEW x, x.store.status = s.status, x.reply.command = 0
      PROVE  Answers(s, d, request, x)
  BY <1>2 DEF Answers, AnswerMoves
<1>3. CASE request.kind = "enroll" /\ CanEnroll(s, d, fresh)
  <2>1. Exchanged(s, d, request, fresh) =
           [store |-> Enroll(s, d), reply |-> [Rejected EXCEPT !.state = "registered"]]
    BY <1>3 DEF Exchanged
  <2>2. Enroll(s, d).status = s.status
    BY DEF Enroll, Store
  <2>3. [Rejected EXCEPT !.state = "registered"].command = 0
    BY DEF Rejected
  <2>4. QED
    BY <1>2, <2>1, <2>2, <2>3
<1>4. CASE request.kind = "enroll" /\ ~CanEnroll(s, d, fresh)
  BY <1>2, <1>4, Constructors DEF Exchanged
<1>5. CASE request.kind = "poll" /\ d \in Enrolled(s)
  <2>1. Exchanged(s, d, request, fresh) = Polled(s, d, request)
    BY <1>5 DEF Exchanged
  <2>2. QED
    BY <2>1, PolledMoves
<1>6. CASE request.kind = "poll" /\ d \notin Enrolled(s)
  BY <1>2, <1>6, Constructors DEF Exchanged
<1>7. QED
  BY <1>1, <1>3, <1>4, <1>5, <1>6

(* The server answers a request whose result, if any, is journalled. *)
LEMMA ServerStep ==
    ASSUME Inv, Faithful, NEW d \in Device, NEW request \in Request, NEW x,
           Reported(journal[d], request),
           Served(store, d, x), Answers(store, d, request, x),
           store' = x.store, UNCHANGED <<image, journal, ran>>,
           \A e \in Device : \A c \in Id : agent'[e].reply.command = c =>
              agent[e].reply.command = c \/ (e = d /\ c = x.reply.command)
    PROVE  RegistriesTrue' /\ GivenInOrder'
<1>1. store'.target = store.target /\ store' \in Store
  BY DEF Served
<1>2. \A c \in Id : AnswerMoves(store, d, request, store', c)
  BY DEF Answers
<1>3. \A c \in Id : store'.status[c] \in Status
  BY <1>1 DEF Store
<1>4. "delivered" \notin Outcome /\ "queued" \notin Outcome /\ "queued" \notin Gone
  BY DEF Outcome, Gone
<1>5. request.result # 0 =>
         request.outcome \in Outcome /\ HasResult(journal[d], request.result, request.outcome)
  BY DEF Reported
<1>6. RegistriesTrue'
  <2>1. \A s \in image \cup {store} : Recorded(s)
    BY DEF Faithful, RegistriesTrue
  <2>2. \A s \in image' : Recorded(s)'
    BY <2>1 DEF Recorded
  <2>3. ASSUME NEW c \in Id
        PROVE  /\ store'.status[c] # "none" => store'.target[c] \in Device
               /\ store'.status[c] \in Outcome =>
                     HasResult(journal'[store'.target[c]], c, store'.status[c])
    <3>1. /\ store.status[c] # "none" => store.target[c] \in Device
          /\ store.status[c] \in Outcome => HasResult(journal[store.target[c]], c, store.status[c])
      BY <2>1 DEF Recorded
    <3>2. CASE store'.status[c] = store.status[c]
      BY <1>1, <3>1, <3>2
    <3>3. CASE /\ store.target[c] = d /\ c = request.result
               /\ store'.status[c] = request.outcome
      BY <1>1, <1>5, <3>3, Constants
    <3>4. CASE store.status[c] = "queued" /\ store'.status[c] = "delivered"
      BY <1>1, <1>4, <3>1, <3>4
    <3>5. QED
      BY <1>2, <3>2, <3>3, <3>4 DEF AnswerMoves
  <2>4. QED
    BY <2>2, <2>3 DEF RegistriesTrue, Recorded
<1>7. ASSUME NEW c \in Id, store.status[c] \in Gone
      PROVE  store'.status[c] \in Gone
  BY <1>2, <1>4, <1>5, <1>7, Constants DEF AnswerMoves, Gone
<1>8. ASSUME NEW c \in Id, store.status[c] \in Settled
      PROVE  store'.status[c] \in Settled
  <2>1. store.status[c] # "delivered" /\ store.status[c] # "queued"
    BY <1>8 DEF Settled, Outcome
  <2>2. QED
    BY <1>2, <1>8, <2>1 DEF AnswerMoves
<1>9. ASSUME NEW c \in Id, store'.status[c] \notin {"none", "queued", "delivered"}
      PROVE  store'.status[c] \in Settled
  BY <1>3, <1>9 DEF Status, Settled
<1>10. ASSUME NEW b \in Id, b \in Commands(store', d)
       PROVE  store'.status[b] # "none" /\ store.target[b] = d
  BY <1>1, <1>10 DEF Commands
<1>11. ASSUME NEW e \in Device, NEW b \in Id, b \in Commands(store', e)
       PROVE  b \in Commands(store, e)
  <2>1. store'.status[b] # "none" /\ store.target[b] = e
    BY <1>1, <1>11 DEF Commands
  <2>2. store.status[b] # "none"
    BY <1>2, <2>1 DEF AnswerMoves
  <2>3. QED
    BY <2>1, <2>2 DEF Commands
<1>12. ASSUME NEW e \in Device, NEW c \in Id, Given(e, c)'
       PROVE  /\ ~ran[c].rolled => store'.status[c] \in Gone
              /\ \A b \in Id : (b < c /\ b \in Commands(store', e) /\ ~ran[b].rolled)
                    => store'.status[b] \in Settled
  <2>1. CASE Given(e, c)
    BY <1>7, <1>8, <1>11, <2>1 DEF Faithful, GivenInOrder
  <2>2. CASE e = d /\ c = x.reply.command
    <3>1. /\ store'.status[c] = "delivered"
          /\ \A b \in Id : (b < c /\ store.target[b] = d) =>
                store'.status[b] \notin {"queued", "delivered"}
      BY <2>2, Constants DEF Answers
    <3>2. ASSUME NEW b \in Id, b < c, b \in Commands(store', e)
          PROVE  store'.status[b] \in Settled
      BY <1>9, <1>10, <2>2, <3>1, <3>2
    <3>3. QED
      BY <3>1, <3>2 DEF Gone
  <2>3. QED
    BY <1>12, <2>1, <2>2 DEF Given
<1>13. GivenInOrder'
  <2>1. ran' = ran
    OBVIOUS
  <2>2. QED
    BY <1>12, <2>1 DEF GivenInOrder
<1>14. QED
  BY <1>6, <1>13

-----------------------------------------------------------------------------
(* The steps *)

LEMMA InviteFaithful ==
    ASSUME Inv, Faithful, NEW i \in Invitation, Invite(i)
    PROVE  Faithful'
<1>1. store'.status = store.status /\ store'.target = store.target
  BY DEF Inv, TypeOK, Invite, Store
<1>2. QED
  BY <1>1, OperatorStep DEF Invite, OperatorMoves

LEMMA ApproveFaithful ==
    ASSUME Inv, Faithful, NEW d \in Device, Approve(d)
    PROVE  Faithful'
<1>1. store'.status = store.status /\ store'.target = store.target
  BY DEF Inv, TypeOK, Approve, Store
<1>2. QED
  BY <1>1, OperatorStep DEF Approve, OperatorMoves

(* Only what was not handed out is cancelled with a revocation. *)
LEMMA RevokeFaithful ==
    ASSUME Inv, Faithful, NEW d \in Device, Revoke(d)
    PROVE  Faithful'
<1> DEFINE status == [c \in Id |-> IF c \in Commands(store, d) /\ store.status[c] = "queued"
                                  THEN "cancelled" ELSE store.status[c]]
<1>1. store' = [store EXCEPT !.state[d] = "revoked", !.status = status]
  BY DEF Revoke
<1>2. \A c \in Id : \/ status[c] = store.status[c]
                    \/ store.status[c] = "queued" /\ status[c] = "cancelled"
  OBVIOUS
<1> HIDE DEF status
<1>3. store'.target = store.target /\ store'.status = status
  BY <1>1 DEF Inv, TypeOK, Store
<1>4. \A c \in Id : OperatorMoves(c)
  BY <1>2, <1>3 DEF OperatorMoves
<1>5. QED
  BY <1>4, OperatorStep DEF Revoke

LEMMA CancelFaithful ==
    ASSUME Inv, Faithful, NEW c \in Id, Cancel(c)
    PROVE  Faithful'
<1>1. store' = [store EXCEPT !.status[c] = "cancelled"] /\ store.status[c] = "queued"
  BY DEF Cancel, CanCancel
<1>2. /\ store'.target = store.target
      /\ \A b \in Id : store'.status[b] = IF b = c THEN "cancelled" ELSE store.status[b]
  BY <1>1 DEF Inv, TypeOK, Store
<1>3. \A b \in Id : OperatorMoves(b)
  BY <1>1, <1>2 DEF OperatorMoves
<1>4. QED
  BY <1>3, OperatorStep DEF Cancel

LEMMA QueueFaithful ==
    ASSUME Inv, Faithful, NEW batch \in Batch, Queue(batch)
    PROVE  Faithful'
<1> DEFINE New(c) == c - queued \in DOMAIN batch
           status == [c \in Id |-> IF New(c) THEN "queued" ELSE store.status[c]]
           target == [c \in Id |-> IF New(c) THEN batch[c - queued] ELSE store.target[c]]
<1>1. store' = [store EXCEPT !.status = status, !.target = target]
  BY DEF Queue
<1>2. \A c \in Id : New(c) => c > queued /\ status[c] = "queued" /\ target[c] \in Device
  BY BatchOK, Constants DEF Inv, TypeOK
<1>3. \A c \in Id : ~New(c) => status[c] = store.status[c] /\ target[c] = store.target[c]
  OBVIOUS
<1> HIDE DEF New, status, target
<1>4. store'.status = status /\ store'.target = target
  BY <1>1 DEF Inv, TypeOK, Store
<1>5. \A c \in Id : OperatorMoves(c)
  BY <1>2, <1>3, <1>4 DEF OperatorMoves
<1>6. QED
  BY <1>5, OperatorStep DEF Queue

LEMMA BackupFaithful ==
    ASSUME Inv, Faithful, Backup
    PROVE  Faithful'
  BY OperatorStep DEF Backup, OperatorMoves

(* What a restored registry says is true of the past; what it says anew is of
   commands it has rolled back. *)
LEMMA RestoreFaithful ==
    ASSUME Inv, Faithful, Restore
    PROVE  Faithful'
<1>1. PICK s \in image :
         /\ store' = s
         /\ ran' = [c \in Id |->
                      [ran[c] EXCEPT !.rolled = @ \/ s.status[c] # store.status[c]]]
  BY DEF Restore
<1>2. /\ UNCHANGED <<image, journal, agent, stale>>
      /\ ran \in [Id -> [starts : Nat, end : Outcome \cup {"none"}, rolled : BOOLEAN]]
  BY DEF Restore, Inv, TypeOK
<1>3. \A c \in Id :
         /\ ran'[c].starts = ran[c].starts /\ ran'[c].end = ran[c].end
         /\ ~ran'[c].rolled => ~ran[c].rolled /\ store'.status[c] = store.status[c]
  BY <1>1, <1>2
<1>4. RowsTrue'
  BY <1>2, <1>3 DEF Faithful, RowsTrue, Happened
<1>5. WorkersTrue'
  <2>1. \A d \in Device : agent[d].worker \in Id \cup {0}
    BY AgentType DEF Inv
  <2>2. QED
    BY <1>2, <1>3, <2>1 DEF Faithful, WorkersTrue
<1>6. ReportsTrue'
  BY <1>2 DEF Faithful, ReportsTrue, Reported
<1>7. RegistriesTrue'
  BY <1>1, <1>2, RegistriesKept DEF Faithful, ResultsKept
<1>8. ASSUME NEW c \in Id, ~ran'[c].rolled, store'.status[c] # "none"
      PROVE  store'.target[c] = store.target[c]
  <2>1. PICK o \in Owner : Owned(o)
    BY DEF Inv, Owners
  <2>2. s.target[c] \in Device /\ store.target[c] \in Device
    BY <1>1, <1>3, <1>8 DEF Faithful, RegistriesTrue, Recorded
  <2>3. s.target[c] = o[c] /\ store.target[c] = o[c]
    BY <2>1, <2>2, Constants DEF Owned, Respects
  <2>4. QED
    BY <1>1, <2>3
<1>9. ASSUME NEW d \in Device, NEW c \in Id, Given(d, c)
      PROVE  /\ ~ran'[c].rolled => store'.status[c] \in Gone
             /\ \A b \in Id : (b < c /\ b \in Commands(store', d) /\ ~ran'[b].rolled)
                   => store'.status[b] \in Settled
  <2>1. ~ran'[c].rolled => store'.status[c] \in Gone
    BY <1>3, <1>9 DEF Faithful, GivenInOrder
  <2>2. ASSUME NEW b \in Id, b < c, b \in Commands(store', d), ~ran'[b].rolled
        PROVE  store'.status[b] \in Settled
    <3>1. b \in Commands(store, d) /\ ~ran[b].rolled /\ store'.status[b] = store.status[b]
      BY <1>3, <1>8, <2>2 DEF Commands
    <3>2. QED
      BY <1>9, <2>2, <3>1 DEF Faithful, GivenInOrder
  <2>3. QED
    BY <2>1, <2>2
<1>10. GivenInOrder'
  BY <1>2, <1>9 DEF GivenInOrder, Given
<1>11. QED
  BY <1>4, <1>5, <1>6, <1>7, <1>10 DEF Faithful

LEMMA StartFaithful ==
    ASSUME Inv, Faithful, NEW d \in Device, Start(d)
    PROVE  Faithful'
<1> DEFINE a == [Down EXCEPT !.up = TRUE]
           j == Interrupted(journal[d])
<1>1. /\ a \in Agent /\ a.reply.command = 0 /\ a.worker = 0 /\ a.over = "none"
      /\ a.request = NoRequest
  BY Constructors DEF Agent, Down
<1>2. SameRows(journal[d], j)
  BY AgentType, InterruptedRows DEF Inv
<1>3. agent' = [agent EXCEPT ![d] = a] /\ journal' = [journal EXCEPT ![d] = j]
  BY DEF Start
<1>4. \A c \in Id : \A u \in Outcome :
         /\ HasResult(journal[d], c, u) => HasResult(j, c, u)
         /\ HasResult(j, c, u) => HasResult(journal[d], c, u) \/ Happened(c, u)
  <2>1. \A c \in Id : \A u \in Outcome :
           /\ HasResult(journal[d], c, u) => HasResult(j, c, u)
           /\ HasResult(j, c, u) => HasResult(journal[d], c, u) \/ u = "uncertain"
    BY AgentType, InterruptedResults DEF Inv
  <2>2. \A c \in Id : \A u : u = "uncertain" => Happened(c, u)
    BY DEF Happened
  <2>3. QED
    BY <2>1, <2>2
<1>5. UNCHANGED <<store, image, ran, stale>>
  BY DEF Start
<1>6. Reported(j, a.request)
  BY <1>1 DEF Reported, NoRequest
<1> HIDE DEF a, j
<1>7. QED
  BY <1>1, <1>2, <1>3, <1>4, <1>5, <1>6, JournalStep

(* The end of the worker becomes the result of its command; the poll carries
   a result of the journal. *)
LEMMA PollFaithful ==
    ASSUME Inv, Faithful, NEW d \in Device, Poll(d)
    PROVE  Faithful'
<1> DEFINE ended == agent[d].over # "none"
           due   == Result(journal'[d])
           due1  == CHOOSE e \in due : TRUE
           poll  == [kind    |-> "poll",
                     result  |-> IF due = {} THEN 0 ELSE due1.id,
                     outcome |-> IF due = {} THEN "none" ELSE due1.outcome,
                     active  |-> agent[d].worker # 0 /\ ~ended]
           request == IF agent[d].registered THEN poll
                      ELSE [NoRequest EXCEPT !.kind = "enroll"]
           a == [agent[d] EXCEPT !.worker  = IF ended THEN 0 ELSE agent[d].worker,
                                 !.over    = "none",
                                 !.phase   = "sent",
                                 !.request = request]
           w == agent[d].worker
<1>1. /\ agent' = [agent EXCEPT ![d] = a]
      /\ UNCHANGED <<store, image, stale, ran, queued, budget>>
  BY DEF Poll
<1>2. /\ w \in Id \cup {0} /\ journal[d] \in Seq(Entry)
      /\ agent[d].over \in Outcome \cup {"none"}
  BY AgentType DEF Inv
<1>3. /\ w # 0 => Known(journal[d], w) /\ \A u \in Outcome : ~HasResult(journal[d], w, u)
      /\ ended => w # 0 /\ ran[w].end = agent[d].over
  BY DEF Faithful, WorkersTrue
<1>4. PICK j : /\ SameRows(journal[d], j) /\ journal' = [journal EXCEPT ![d] = j]
               /\ \A c \in Id : \A u \in Outcome :
                     HasResult(journal[d], c, u) => HasResult(j, c, u)
               /\ \A c \in Id : \A u \in Outcome :
                     HasResult(j, c, u) => HasResult(journal[d], c, u) \/ Happened(c, u)
               /\ ~ended => j = journal[d]
  <2>1. CASE ended
    <3>1. PICK outcome \in Reportable(agent[d].over) :
             journal' = [journal EXCEPT ![d] = Finish(@, w, outcome)]
      BY <2>1 DEF Poll
    <3>2. outcome \in Outcome /\ Happened(w, outcome)
      BY <1>2, <1>3, <2>1 DEF Reportable, Outcome, Happened
    <3>3. SameRows(journal[d], Finish(journal[d], w, outcome))
      BY <1>2, <3>2, FinishRows
    <3>4. \A c \in Id : \A u \in Outcome :
             HasResult(Finish(journal[d], w, outcome), c, u) <=>
                IF c = w THEN Known(journal[d], w) /\ u = outcome ELSE HasResult(journal[d], c, u)
      BY <1>2, <3>2, FinishResults
    <3>5. journal' = [journal EXCEPT ![d] = Finish(journal[d], w, outcome)]
      BY <3>1
    <3>6. QED
      BY <1>3, <2>1, <3>2, <3>3, <3>4, <3>5
  <2>2. CASE ~ended
    <3>1. journal' = [journal EXCEPT ![d] = journal[d]]
      BY <2>2 DEF Poll, Inv, TypeOK
    <3>2. QED
      BY <1>2, <2>2, <3>1, RowsKept
  <2>3. QED
    BY <2>1, <2>2
<1>5. journal'[d] = j /\ j \in Seq(Entry)
  BY <1>4 DEF Inv, TypeOK, SameRows
<1>6. due # {} => due1.outcome \in Outcome /\ HasResult(j, due1.id, due1.outcome)
                  /\ due1.id \in Id
  BY <1>5, DueResult, ResultOK
<1> HIDE DEF due1, due
<1>7. Reported(j, poll) /\ poll \in Request
  BY <1>6 DEF Reported, Request
<1> HIDE DEF poll
<1>8. Reported(j, request) /\ request \in Request
  <2>1. [NoRequest EXCEPT !.kind = "enroll"].result = 0
    BY DEF NoRequest
  <2>2. [NoRequest EXCEPT !.kind = "enroll"] \in Request
    BY Constructors DEF NoRequest, Request
  <2>3. QED
    BY <1>7, <2>1, <2>2 DEF Reported
<1> HIDE DEF request
<1>9. /\ a \in Agent /\ a.reply = agent[d].reply /\ a.over = "none" /\ a.request = request
      /\ a.worker = IF ended THEN 0 ELSE w
  BY <1>8, AgentType DEF Agent, Inv
<1>10. a.worker # 0 =>
          a.worker = agent[d].worker /\ \A u \in Outcome : ~HasResult(j, a.worker, u)
  BY <1>3, <1>4, <1>9
<1> HIDE DEF a, ended
<1>11. Reported(j, a.request)
  BY <1>8, <1>9
<1>12. QED
  BY <1>1, <1>4, <1>9, <1>10, <1>11, JournalStep

LEMMA GiveUpFaithful ==
    ASSUME Inv, Faithful, NEW d \in Device, NEW a \in Agent, Abandoned(d),
           a = [agent[d] EXCEPT !.phase = "idle", !.request = NoRequest, !.reply = Rejected]
              \/ a = Down,
           agent' = [agent EXCEPT ![d] = a],
           UNCHANGED <<store, image, journal, ran>>
    PROVE  Faithful'
<1>1. journal' = [journal EXCEPT ![d] = journal[d]] /\ SameRows(journal[d], journal[d])
  BY AgentType, RowsKept DEF Inv, TypeOK
<1>2. /\ a.worker = 0 \/ a.worker = agent[d].worker
      /\ a.over = "none" \/ (a.over = agent[d].over /\ a.worker = agent[d].worker)
      /\ a.reply.command = 0 /\ a.request = NoRequest
  <2>1. CASE a = [agent[d] EXCEPT !.phase = "idle", !.request = NoRequest, !.reply = Rejected]
    <3>1. agent[d] \in Agent
      BY AgentType DEF Inv
    <3>2. /\ a.worker = agent[d].worker /\ a.over = agent[d].over
          /\ a.reply = Rejected /\ a.request = NoRequest
      BY <2>1, <3>1 DEF Agent
    <3>3. QED
      BY <3>2, Constructors
  <2>2. CASE a = Down
    <3>1. a.worker = 0 /\ a.over = "none" /\ a.request = NoRequest
      BY <2>2 DEF Down
    <3>2. QED
      BY <2>2, <3>1, Constructors
  <2>3. QED
    BY <2>1, <2>2
<1>3. Reported(journal[d], a.request)
  BY <1>2 DEF Reported, NoRequest
<1>4. \A e \in Device : stale'[e] \subseteq stale[e] \cup {agent[e].request}
  BY DEF Abandoned, Inv, TypeOK
<1>5. agent[d].worker # 0 => \A u \in Outcome : ~HasResult(journal[d], agent[d].worker, u)
  BY DEF Faithful, WorkersTrue
<1>6. QED
  BY <1>1, <1>2, <1>3, <1>4, <1>5, JournalStep

LEMMA GivesUpFaithful ==
    ASSUME Inv, Faithful, NEW d \in Device, GiveUp(d) \/ Crash(d)
    PROVE  Faithful'
<1> DEFINE a == [agent[d] EXCEPT !.phase = "idle", !.request = NoRequest, !.reply = Rejected]
<1>1. a \in Agent
  BY AgentType, Constructors DEF Agent, Inv
<1>2. CASE GiveUp(d)
  <2>1. agent' = [agent EXCEPT ![d] = a]
    BY <1>2 DEF GiveUp
  <2>2. QED
    BY <1>1, <1>2, <2>1, GiveUpFaithful DEF GiveUp
<1>3. CASE Crash(d)
  BY <1>3, Constructors, GiveUpFaithful DEF Crash
<1>4. QED
  BY <1>2, <1>3

(* A worker ends once, before its command has a result. *)
LEMMA WorkFaithful ==
    ASSUME Inv, Faithful, NEW d \in Device, NEW outcome \in Outcome, Work(d, outcome)
    PROVE  Faithful'
<1> DEFINE w == agent[d].worker
<1>1. /\ w \in Id /\ agent[d].over = "none"
      /\ agent' = [agent EXCEPT ![d].over = outcome]
      /\ ran' = [ran EXCEPT ![w].end = outcome]
      /\ UNCHANGED <<store, image, journal, stale, queued, budget>>
  BY AgentType DEF Work, Inv
<1>2. Known(journal[d], w) /\ \A u \in Outcome : ~HasResult(journal[d], w, u)
  BY <1>1, Constants DEF Faithful, WorkersTrue
<1>3. ran \in [Id -> [starts : Nat, end : Outcome \cup {"none"}, rolled : BOOLEAN]]
  BY DEF Inv, TypeOK
<1> HIDE DEF w
<1>4. \A c \in Id : /\ ran'[c].starts = ran[c].starts /\ ran'[c].rolled = ran[c].rolled
                    /\ ran'[c].end = IF c = w THEN outcome ELSE ran[c].end
  BY <1>1, <1>3
<1>5. ASSUME NEW e \in Device, e # d
      PROVE  ~Known(journal[e], w)
  BY <1>1, <1>2, <1>5, GivenOwned DEF Given
<1>6. /\ \A e \in Device : /\ agent'[e].worker = agent[e].worker
                           /\ agent'[e].request = agent[e].request
                           /\ agent'[e].reply = agent[e].reply
      /\ \A e \in Device : agent'[e].over = IF e = d THEN outcome ELSE agent[e].over
  <2>1. ASSUME NEW e \in Device
        PROVE  agent[e] \in Agent
    BY AgentType DEF Inv
  <2>2. QED
    BY <1>1, <2>1 DEF Inv, TypeOK, Agent
<1>7. RowsTrue'
  <2>1. ASSUME NEW e \in Device, NEW c \in Id, NEW u \in Outcome, HasResult(journal[e], c, u)
        PROVE  c # w /\ Happened(c, u)
    <3>1. c # w
      BY <1>2, <1>5, <2>1, ResultKnown
    <3>2. QED
      BY <2>1, <3>1 DEF Faithful, RowsTrue
  <2>2. \A e \in Device : \A c \in Id : Known(journal[e], c) => ran[c].starts = 1
    BY DEF Faithful, RowsTrue
  <2>3. QED
    BY <1>1, <1>4, <2>1, <2>2 DEF RowsTrue, Happened
<1>8. WorkersTrue'
  <2>1. ASSUME NEW e \in Device
        PROVE  /\ agent[e].worker # 0 =>
                     /\ Known(journal[e], agent[e].worker)
                     /\ \A u \in Outcome : ~HasResult(journal[e], agent[e].worker, u)
               /\ agent'[e].over # "none" =>
                     agent[e].worker # 0 /\ ran'[agent[e].worker].end = agent'[e].over
    <3>1. /\ agent[e].worker \in Id \cup {0}
          /\ agent[e].worker # 0 =>
                /\ Known(journal[e], agent[e].worker)
                /\ \A u \in Outcome : ~HasResult(journal[e], agent[e].worker, u)
          /\ agent[e].over # "none" =>
                agent[e].worker # 0 /\ ran[agent[e].worker].end = agent[e].over
      BY AgentType DEF Faithful, WorkersTrue, Inv
    <3>2. CASE e = d
      BY <1>1, <1>2, <1>4, <1>6, <3>2, Constants DEF w
    <3>3. CASE e # d
      <4>1. agent[e].worker # w
        BY <1>1, <1>5, <3>1, <3>3, Constants
      <4>2. QED
        BY <1>4, <1>6, <3>1, <3>3, <4>1
    <3>4. QED
      BY <3>2, <3>3
  <2>2. QED
    BY <1>1, <1>6, <2>1 DEF WorkersTrue
<1>9. ResultsKept
  BY <1>1 DEF ResultsKept
<1>10. ReportsTrue'
  BY <1>1, <1>6, <1>9, ReportsKept DEF Faithful, Inv
<1>11. RegistriesTrue'
  BY <1>1, <1>9, RegistriesKept DEF Faithful
<1>12. GivenInOrder'
  BY <1>1, <1>4, <1>6, GivenKept DEF Faithful, Given
<1>13. QED
  BY <1>7, <1>8, <1>10, <1>11, <1>12 DEF Faithful

LEMMA AnswerFaithful ==
    ASSUME Inv, Faithful, NEW d \in Device, Answer(d)
    PROVE  Faithful'
<1> DEFINE request == agent[d].request
<1>1. PICK fresh \in BOOLEAN :
         LET x == Exchanged(store, d, request, fresh) IN
         /\ store' = x.store
         /\ agent' = [agent EXCEPT ![d].phase = "replied", ![d].reply = x.reply]
  BY DEF Answer
<1> DEFINE x == Exchanged(store, d, request, fresh)
<1>2. /\ request \in Request /\ Reported(journal[d], request)
      /\ UNCHANGED <<image, journal, stale, ran>>
  BY AgentType DEF Inv, Faithful, ReportsTrue, Answer
<1>3. store \in Store
  BY DEF Inv, TypeOK
<1> HIDE DEF request
<1>4. Served(store, d, x) /\ Answers(store, d, request, x)
  BY <1>2, <1>3, ExchangedOK, ExchangedMoves
<1>5. store' = x.store /\ agent' = [agent EXCEPT ![d].phase = "replied", ![d].reply = x.reply]
  BY <1>1
<1> HIDE DEF x
<1>6. \A e \in Device : /\ agent'[e].worker = agent[e].worker
                        /\ agent'[e].over = agent[e].over
                        /\ agent'[e].request = agent[e].request
                        /\ agent'[e].reply = IF e = d THEN x.reply ELSE agent[e].reply
  <2>1. agent \in [Device -> Agent] /\ agent[d] \in Agent
    BY DEF Inv, TypeOK
  <2> DEFINE a == [agent[d] EXCEPT !.phase = "replied", !.reply = x.reply]
  <2>2. agent' = [agent EXCEPT ![d] = a]
    BY <1>5
  <2>3. /\ a.worker = agent[d].worker /\ a.over = agent[d].over
        /\ a.request = agent[d].request /\ a.reply = x.reply
    BY <2>1 DEF Agent
  <2> HIDE DEF a
  <2>4. agent'[d] = a /\ \A e \in Device \ {d} : agent'[e] = agent[e]
    BY <2>1, <2>2
  <2>5. ASSUME NEW e \in Device
        PROVE  /\ agent'[e].worker = agent[e].worker
               /\ agent'[e].over = agent[e].over
               /\ agent'[e].request = agent[e].request
               /\ agent'[e].reply = IF e = d THEN x.reply ELSE agent[e].reply
    <3>1. CASE e = d
      BY <2>3, <2>4, <3>1
    <3>2. CASE e # d
      BY <2>4, <3>2
    <3>3. QED
      BY <3>1, <3>2
  <2>6. QED
    BY <2>5
<1>7. RegistriesTrue' /\ GivenInOrder'
  <2>1. \A e \in Device : \A c \in Id : agent'[e].reply.command = c =>
           agent[e].reply.command = c \/ (e = d /\ c = x.reply.command)
    BY <1>6
  <2>2. store' = x.store /\ UNCHANGED <<image, journal, ran>>
    BY <1>2, <1>5
  <2>3. QED
    BY <1>2, <1>4, <2>1, <2>2, ServerStep
<1>8. RowsTrue'
  BY <1>2 DEF Faithful, RowsTrue, Happened
<1>9. WorkersTrue'
  <2>1. WorkersTrue
    BY DEF Faithful
  <2>2. ran' = ran /\ journal' = journal
    BY <1>2
  <2>3. QED
    BY <1>6, <2>1, <2>2 DEF WorkersTrue
<1>10. ReportsTrue'
  BY <1>2, <1>6 DEF Faithful, ReportsTrue, Reported
<1>11. QED
  BY <1>7, <1>8, <1>9, <1>10 DEF Faithful

LEMMA AnswerStaleFaithful ==
    ASSUME Inv, Faithful, NEW d \in Device, NEW request, AnswerStale(d, request)
    PROVE  Faithful'
<1>1. PICK fresh \in BOOLEAN : store' = Exchanged(store, d, request, fresh).store
  BY DEF AnswerStale
<1>2. /\ request \in Request /\ Reported(journal[d], request)
      /\ UNCHANGED <<image, journal, agent, ran>>
      /\ \A e \in Device : stale'[e] \subseteq stale[e]
  BY DEF AnswerStale, Inv, TypeOK, Faithful, ReportsTrue
<1>3. store \in Store
  BY DEF Inv, TypeOK
<1>4. /\ Served(store, d, Exchanged(store, d, request, fresh))
      /\ Answers(store, d, request, Exchanged(store, d, request, fresh))
  BY <1>2, <1>3, ExchangedOK, ExchangedMoves
<1>5. RegistriesTrue' /\ GivenInOrder'
  BY <1>1, <1>2, <1>4, ServerStep
<1>6. RowsTrue'
  BY <1>2 DEF Faithful, RowsTrue, Happened
<1>7. WorkersTrue'
  BY <1>2 DEF Faithful, WorkersTrue
<1>8. ReportsTrue'
  BY <1>2 DEF Faithful, ReportsTrue, Reported
<1>9. QED
  BY <1>5, <1>6, <1>7, <1>8 DEF Faithful

(* A command that is started was never started before: it is journalled
   without a result. *)
LEMMA ReceiveFaithful ==
    ASSUME Inv, Faithful, NEW d \in Device, Receive(d)
    PROVE  Faithful'
<1> DEFINE reply == agent[d].reply
           c     == reply.command
           w     == agent[d].worker
           j     == Acknowledged(journal[d], reply.acknowledged)
           idle  == [agent[d] EXCEPT
                       !.phase = "idle", !.request = NoRequest, !.reply = Rejected,
                       !.registered = agent[d].registered \/ reply.state = "registered"]
           started == [idle EXCEPT !.worker = c]
           row   == [id |-> c, done |-> FALSE, outcome |-> "none", ack |-> FALSE]
           busy  == c # 0 /\ w # 0
           runs  == c # 0 /\ w = 0 /\ IsNew(j, c)
<1>1. /\ agent' = [agent EXCEPT ![d] = IF busy THEN Down ELSE IF runs THEN started ELSE idle]
      /\ journal' = [journal EXCEPT ![d] =
                        IF c = 0 \/ w # 0 THEN j
                        ELSE IF runs THEN Append(j, row) ELSE Reopened(j, c)]
      /\ ran' = IF runs THEN [ran EXCEPT ![c].starts = @ + 1] ELSE ran
      /\ UNCHANGED <<store, image, stale, queued, budget>>
  BY DEF Receive
<1>2. /\ reply \in Reply /\ c \in Id \cup {0} /\ reply.acknowledged \in SUBSET Id
      /\ w \in Id \cup {0} /\ agent[d] \in Agent /\ journal[d] \in Seq(Entry)
  BY AgentType DEF Inv, Reply
<1>3. SameRows(journal[d], j)
  BY <1>2, AcknowledgedRows
<1>4. \A b \in Id : \A u \in Outcome : HasResult(j, b, u) <=> HasResult(journal[d], b, u)
  BY <1>2, AcknowledgedResults
<1>5. /\ idle \in Agent /\ idle.worker = w /\ idle.over = agent[d].over
      /\ idle.reply = Rejected /\ idle.request = NoRequest
  <2>1. idle.registered \in BOOLEAN
    BY <1>2 DEF Agent
  <2>2. QED
    BY <1>2, <2>1, Constructors DEF Agent
<1>6. /\ w # 0 => Known(journal[d], w) /\ \A u \in Outcome : ~HasResult(journal[d], w, u)
      /\ agent[d].over # "none" => w # 0
  BY DEF Faithful, WorkersTrue
<1>7. \A k : Reported(k, NoRequest)
  BY DEF Reported, NoRequest
<1> HIDE DEF j, idle
<1>8. CASE busy
  <2>1. agent' = [agent EXCEPT ![d] = Down] /\ journal' = [journal EXCEPT ![d] = j] /\ ran' = ran
    BY <1>1, <1>8
  <2>2. Down.worker = 0 /\ Down.over = "none" /\ Down.request = NoRequest
    BY DEF Down
  <2>3. QED
    BY <1>1, <1>3, <1>4, <1>7, <2>1, <2>2, Constructors, JournalStep
<1>9. CASE ~busy /\ ~runs
  <2>1. agent' = [agent EXCEPT ![d] = idle] /\ ran' = ran
    BY <1>1, <1>9
  <2>2. PICK k : /\ SameRows(journal[d], k) /\ journal' = [journal EXCEPT ![d] = k]
                 /\ \A b \in Id : \A u \in Outcome :
                       HasResult(k, b, u) <=> HasResult(journal[d], b, u)
    <3>1. CASE c = 0
      BY <1>1, <1>3, <1>4, <3>1
    <3>2. CASE c # 0
      <4>1. journal' = [journal EXCEPT ![d] = Reopened(j, c)]
        BY <1>1, <1>9, <3>2
      <4>2. SameRows(j, Reopened(j, c))
        BY <1>2, <1>3, <3>2, ReopenedRows DEF SameRows
      <4>3. SameRows(journal[d], Reopened(j, c))
        BY <1>3, <4>2 DEF SameRows
      <4>4. \A b \in Id : \A u \in Outcome :
               HasResult(Reopened(j, c), b, u) <=> HasResult(j, b, u)
        BY <1>3, ReopenedResults DEF SameRows
      <4>5. QED
        BY <1>4, <4>1, <4>3, <4>4
    <3>3. QED
      BY <3>1, <3>2
  <2>3. idle.worker # 0 => /\ idle.worker = agent[d].worker
                           /\ \A u \in Outcome : ~HasResult(k, idle.worker, u)
    BY <1>2, <1>5, <1>6, <2>2
  <2>4. idle.reply.command = 0 /\ Reported(k, idle.request)
    BY <1>5, <1>7, Constructors
  <2>5. QED
    BY <1>1, <1>5, <2>1, <2>2, <2>3, <2>4, JournalStep
<1>10. CASE runs
  <2> DEFINE k == Append(j, row)
  <2>1. c \in Id /\ w = 0 /\ ~Known(j, c)
    BY <1>2, <1>10 DEF IsNew
  <2>2. /\ agent' = [agent EXCEPT ![d] = started]
        /\ journal' = [journal EXCEPT ![d] = k]
        /\ ran' = [ran EXCEPT ![c].starts = @ + 1]
    BY <1>1, <1>10
  <2>3. /\ started \in Agent /\ started.worker = c /\ started.over = agent[d].over
        /\ started.reply = Rejected /\ started.request = NoRequest
    BY <1>5, <2>1 DEF Agent
  <2>4. row \in Entry /\ row.id = c /\ ~row.done
    BY <2>1, FieldsEntry DEF Fields
  <2>5. j \in Seq(Entry)
    BY <1>3 DEF SameRows
  <2>6. /\ \A b \in Id : Known(k, b) <=> Known(journal[d], b) \/ b = c
        /\ \A b \in Id : \A u \in Outcome : HasResult(k, b, u) <=> HasResult(journal[d], b, u)
    BY <1>3, <1>4, <2>4, <2>5, StartedRow, StartedResults DEF SameRows
  <2> HIDE DEF k, row, started
  <2>7. /\ \A e \in Device : agent'[e] = IF e = d THEN started ELSE agent[e]
        /\ \A e \in Device : journal'[e] = IF e = d THEN k ELSE journal[e]
    BY <2>2 DEF Inv, TypeOK
  <2>8. \A b \in Id : /\ ran'[b].end = ran[b].end /\ ran'[b].rolled = ran[b].rolled
                      /\ b # c => ran'[b].starts = ran[b].starts
                      /\ ran'[c].starts = ran[c].starts + 1
    <3>1. ran \in [Id -> [starts : Nat, end : Outcome \cup {"none"}, rolled : BOOLEAN]]
      BY DEF Inv, TypeOK
    <3>2. QED
      BY <2>1, <2>2, <3>1
  <2>9. \A e \in Device : ~Known(journal[e], c)
    <3>1. Given(d, c) /\ ~Known(journal[d], c)
      BY <1>3, <2>1 DEF Given, SameRows
    <3>2. \A e \in Device : Given(e, c) => e = d
      BY <2>1, <3>1, GivenOwned
    <3>3. QED
      BY <3>1, <3>2 DEF Given
  <2>10. ran[c].starts = 0
    BY <2>1, <2>9 DEF Inv, Journalled
  <2>11. ResultsKept
    BY <2>6, <2>7 DEF ResultsKept
  <2>12. RowsTrue'
    <3>1. ASSUME NEW e \in Device, NEW b \in Id, Known(journal'[e], b)
          PROVE  ran'[b].starts = 1
      <4>1. Known(journal[e], b) \/ b = c
        BY <2>6, <2>7, <3>1
      <4>2. CASE b = c
        BY <2>1, <2>8, <2>10, <4>2
      <4>3. CASE b # c
        BY <2>8, <4>1, <4>3 DEF Faithful, RowsTrue
      <4>4. QED
        BY <4>2, <4>3
    <3>2. ASSUME NEW e \in Device, NEW b \in Id, NEW u \in Outcome, HasResult(journal'[e], b, u)
          PROVE  Happened(b, u)'
      <4>1. HasResult(journal[e], b, u)
        BY <2>6, <2>7, <3>2
      <4>2. Happened(b, u)
        BY <4>1 DEF Faithful, RowsTrue
      <4>3. QED
        BY <2>8, <4>2 DEF Happened
    <3>3. QED
      BY <3>1, <3>2 DEF RowsTrue
  <2>13. WorkersTrue'
    <3>1. ASSUME NEW e \in Device
          PROVE  /\ agent'[e].worker # 0 =>
                       /\ Known(journal'[e], agent'[e].worker)
                       /\ \A u \in Outcome : ~HasResult(journal'[e], agent'[e].worker, u)
                 /\ agent'[e].over # "none" =>
                       agent'[e].worker # 0 /\ ran'[agent'[e].worker].end = agent'[e].over
      <4>1. CASE e = d
        <5>1. agent'[e] = started /\ journal'[e] = k
          BY <2>7, <4>1
        <5>2. Known(k, c) /\ \A u \in Outcome : ~HasResult(k, c, u)
          BY <2>1, <2>6, <2>9, ResultKnown
        <5>3. agent[d].over = "none"
          BY <1>6, <2>1
        <5>4. QED
          BY <2>3, <5>1, <5>2, <5>3
      <4>2. CASE e # d
        <5>1. agent'[e] = agent[e] /\ journal'[e] = journal[e] /\ agent[e].worker \in Id \cup {0}
          BY <2>7, <4>2, AgentType DEF Inv
        <5>2. QED
          BY <2>8, <5>1 DEF Faithful, WorkersTrue
      <4>3. QED
        BY <4>1, <4>2
    <3>2. QED
      BY <3>1 DEF WorkersTrue
  <2>14. ReportsTrue'
    <3>1. \A e \in Device : agent'[e].request = agent[e].request
                               \/ Reported(journal'[e], agent'[e].request)
      BY <1>7, <2>3, <2>7
    <3>2. QED
      BY <1>1, <2>11, <3>1, ReportsKept DEF Faithful, Inv
  <2>15. RegistriesTrue'
    BY <1>1, <2>11, RegistriesKept DEF Faithful
  <2>16. GivenInOrder'
    <3>1. ASSUME NEW e \in Device, NEW b \in Id, Given(e, b)'
          PROVE  Given(e, b)
      <4>1. CASE e = d
        BY <2>3, <2>6, <2>7, <3>1, <4>1, Constants, Constructors DEF Given
      <4>2. CASE e # d
        BY <2>7, <3>1, <4>2 DEF Given
      <4>3. QED
        BY <4>1, <4>2
    <3>2. QED
      BY <1>1, <2>8, <3>1, GivenKept DEF Faithful
  <2>17. QED
    BY <2>12, <2>13, <2>14, <2>15, <2>16 DEF Faithful
<1>11. QED
  BY <1>8, <1>9, <1>10

LEMMA InitFaithful ==
    Init => Faithful
<1> SUFFICES ASSUME Init PROVE Faithful
  OBVIOUS
<1>1. \A d \in Device : \A c \in Id :
         ~Known(journal[d], c) /\ \A u : ~HasResult(journal[d], c, u)
  BY DEF Init, Known, HasResult
<1>2. \A d \in Device : /\ agent[d].worker = 0 /\ agent[d].over = "none"
                        /\ agent[d].request.result = 0 /\ agent[d].reply.command = 0
                        /\ stale[d] = {}
  BY Constructors DEF Init, Down, NoRequest
<1>3. RowsTrue /\ WorkersTrue /\ ReportsTrue
  BY <1>1, <1>2 DEF RowsTrue, WorkersTrue, ReportsTrue, Reported
<1>4. \A c \in Id : store.status[c] = "none" /\ "none" \notin Outcome
  BY DEF Init, Outcome
<1>5. RegistriesTrue
  BY <1>4 DEF Init, RegistriesTrue, Recorded
<1>6. GivenInOrder
  BY <1>1, <1>2, Constants DEF GivenInOrder, Given
<1>7. QED
  BY <1>3, <1>5, <1>6 DEF Faithful

LEMMA NextFaithful ==
    Inv /\ Faithful /\ [Next]_vars => Faithful'
<1> SUFFICES ASSUME Inv, Faithful, [Next]_vars PROVE Faithful'
  OBVIOUS
<1>1. CASE Operator
  BY <1>1, InviteFaithful, ApproveFaithful, RevokeFaithful, QueueFaithful, CancelFaithful,
     BackupFaithful, RestoreFaithful DEF Operator
<1>2. CASE \E d \in Device : Start(d) \/ Poll(d) \/ Answer(d) \/ Receive(d)
  BY <1>2, StartFaithful, PollFaithful, AnswerFaithful, ReceiveFaithful
<1>3. CASE \E d \in Device, outcome \in Outcome : Work(d, outcome)
  BY <1>3, WorkFaithful
<1>4. CASE \E d \in Device : \E request \in stale[d] : AnswerStale(d, request)
  BY <1>4, AnswerStaleFaithful
<1>5. CASE \E d \in Device : GiveUp(d) \/ Crash(d)
  BY <1>5, GivesUpFaithful
<1>6. CASE UNCHANGED vars
  BY <1>6 DEF vars, Faithful, RowsTrue, WorkersTrue, ReportsTrue, RegistriesTrue, GivenInOrder,
     Happened, Reported, Recorded, Given
<1>7. QED
  BY <1>1, <1>2, <1>3, <1>4, <1>5, <1>6 DEF Next

-----------------------------------------------------------------------------
(* The theorems *)

LEMMA InitInv ==
    Init => Inv
<1> SUFFICES ASSUME Init PROVE Inv
  OBVIOUS
<1>1. store \in Store
  BY DEF Init, Store, Status
<1>2. \A d \in Device : journal[d] = <<>> /\ journal[d] \in Seq(Entry)
  BY EmptySeq DEF Init
<1>3. TypeOK
  BY <1>1, <1>2, Constructors, Constants, QueueAssumption DEF Init, TypeOK
<1>4. Owned([c \in Id |-> Nobody])
  <2>1. \A d \in Device : \A c \in Id : ~Known(journal[d], c)
    BY <1>2 DEF Known
  <2>2. \A d \in Device : \A c \in Id : agent[d].reply.command # c
    BY Constructors, Constants DEF Init
  <2>3. QED
    BY <2>1, <2>2 DEF Init, Owned, Respects
<1>5. Owners
  BY <1>4 DEF Owners, Owner
<1>6. Journalled
  BY DEF Init, Journalled
<1>7. QED
  BY <1>3, <1>5, <1>6 DEF Inv

LEMMA NextInv ==
    Inv /\ [Next]_vars => Inv'
<1> SUFFICES ASSUME Inv, [Next]_vars PROVE Inv'
  OBVIOUS
<1>1. CASE Operator
  BY <1>1, InviteKept, ApproveKept, RevokeKept, QueueKept, CancelKept, BackupKept, RestoreKept
     DEF Operator
<1>2. CASE \E d \in Device : Start(d) \/ Poll(d) \/ Answer(d) \/ Receive(d)
  BY <1>2, StartKept, PollKept, AnswerKept, ReceiveKept
<1>3. CASE \E d \in Device, outcome \in Outcome : Work(d, outcome)
  BY <1>3, WorkKept
<1>4. CASE \E d \in Device : \E request \in stale[d] : AnswerStale(d, request)
  BY <1>4, AnswerStaleKept
<1>5. CASE \E d \in Device : GiveUp(d) \/ Crash(d)
  BY <1>5, GiveUpKept, CrashKept
<1>6. CASE UNCHANGED vars
  BY <1>6 DEF vars, Inv, TypeOK, Owners, Owned, Journalled
<1>7. QED
  BY <1>1, <1>2, <1>3, <1>4, <1>5, <1>6 DEF Next

(* The invariant that the order of a command's journey rests on: registry,
   backup, replies and journals agree on whose a command is, and what was
   started is journalled. *)
THEOREM Invariance == Spec => []Inv
  BY InitInv, NextInv, PTL DEF Spec

(* Every variable of the central queue has its type: no exchange, restore or
   crash leaves a row, a request or a reply that the code has no case for. *)
THEOREM TypesKept == Spec => []TypeOK
<1>1. Inv => TypeOK
  BY DEF Inv
<1>2. QED
  BY <1>1, Invariance, PTL

(* A command is started at most once (Journal::start), for any number of
   devices, commands, lost or late exchanges, crashes and restores. *)
THEOREM StartsOnce == Spec => []RunsOnce
<1>1. Inv => RunsOnce
  BY DEF Inv, Journalled, RunsOnce
<1>2. QED
  BY <1>1, Invariance, PTL

(* Journals, workers, reports on their way, registries and their backups tell
   the truth about every command, and commands are given in order. *)
THEOREM Faithfulness == Spec => []Faithful
  BY Invariance, InitFaithful, NextFaithful, PTL DEF Spec

(* What the registry says of a command that no restore has touched is what
   became of it (Store::poll, Journal::finish): a command is called completed
   only when its change completed, and called queued or cancelled only when it
   was never started - whatever replies, results and acknowledgements were
   lost, repeated or handled late. *)
THEOREM OutcomesTrue == Spec => []OutcomeTrue
<1>1. Inv /\ Faithful => OutcomeTrue
  <2> SUFFICES ASSUME Inv, Faithful, NEW c \in Id, ~ran[c].rolled
               PROVE  /\ store.status[c] = "completed" => ran[c].end = "completed"
                      /\ store.status[c] = "failed" => ran[c].end \in {"completed", "failed"}
                      /\ store.status[c] = "uncertain" => ran[c].starts = 1
                      /\ store.status[c] \in {"queued", "cancelled"} => ran[c].starts = 0
    BY DEF OutcomeTrue
  <2>1. ASSUME store.status[c] \in Outcome
        PROVE  Happened(c, store.status[c]) /\ ran[c].starts = 1
    <3>1. /\ store.target[c] \in Device
          /\ HasResult(journal[store.target[c]], c, store.status[c])
      BY <2>1 DEF Faithful, RegistriesTrue, Recorded, Outcome
    <3>2. QED
      BY <2>1, <3>1, ResultKnown DEF Faithful, RowsTrue
  <2>2. ASSUME store.status[c] \in {"queued", "cancelled"}
        PROVE  ran[c].starts = 0
    <3>1. store.status[c] \notin Gone
      BY <2>2 DEF Gone, Outcome
    <3>2. \A d \in Device : ~Known(journal[d], c)
      BY <3>1 DEF Faithful, GivenInOrder, Given
    <3>3. QED
      BY <3>2 DEF Inv, Journalled
  <2>3. QED
    BY <2>1, <2>2 DEF Happened, Outcome
<1>2. QED
  BY <1>1, Invariance, Faithfulness, PTL

(* A device is given its commands in the order they were queued (`ORDER BY
   rowid LIMIT 1'): whatever is in its journal, every earlier command of the
   device has ended or was cancelled, as far as no restore came between. *)
THEOREM OrderKept == Spec => []InOrder
<1>1. Inv /\ Faithful => InOrder
  <2> SUFFICES ASSUME Inv, Faithful, NEW d \in Device, NEW i \in DOMAIN journal[d], NEW b \in Id,
                      b < journal[d][i].id, b \in Commands(store, d), ~ran[b].rolled
               PROVE  store.status[b] \in Outcome \cup {"cancelled"}
    BY DEF InOrder
  <2>1. journal[d][i].id \in Id
    BY AgentType, RowType, EntryFields DEF Inv, Fields
  <2>2. Given(d, journal[d][i].id)
    BY DEF Given, Known
  <2>3. QED
    BY <2>1, <2>2 DEF Faithful, GivenInOrder, Settled
<1>2. QED
  BY <1>1, Invariance, Faithfulness, PTL
=============================================================================
