----------------------------- MODULE CommandQueue -----------------------------
(***************************************************************************)
(* Central management: the registry of a central server                    *)
(* (src/central/store.rs, driven by src/central/web.rs) and the agent of   *)
(* each managed device (src/central/agent.rs) with its journal.            *)
(*                                                                         *)
(* An operator invites, approves and revokes devices and queues commands;  *)
(* an agent polls, one exchange at a time.  A poll carries at most one     *)
(* result and says whether a worker is active; the reply acknowledges the  *)
(* result and may carry the next command.  The agent may give up on an     *)
(* exchange that the server still handles later, agents crash, and the     *)
(* server's state may be replaced by an earlier backup.                    *)
(*                                                                         *)
(* Abstractions.  A command is its number, which stands for its random id  *)
(* and for the place of its row: a restored registry gives row numbers     *)
(* again, ids never, and either order is the order of queueing.  Its       *)
(* operation is the worker's outcome.  Certificates and credentials are    *)
(* checked before all this: a request that is not its device's own never   *)
(* reaches the registry.                                                   *)
(* Reports, and the audit table, are left out.                             *)
(***************************************************************************)
EXTENDS Integers, Sequences, FiniteSets

CONSTANTS
    Device,
    Nobody,        \* the device of an unused invitation or of no command
    Invitation,
    InvitedBy,     \* [Device -> Invitation]: the invitation a device was given
    MaxDevices,    \* the registry's device limit, 128 in the code
    MaxPending,    \* unfinished commands per device, 256 in the code
    MaxCommands,   \* bound: commands ever queued
    MaxWithdrawals,\* bound: revocations and cancellations
    MaxFailures,   \* bound: exchanges an agent gives up, and its crashes
    MaxRestores    \* bound: replacements of the central state by its backup

ASSUME QueueAssumption ==
    /\ Nobody \notin Device
    /\ InvitedBy \in [Device -> Invitation]
    /\ MaxDevices \in Nat /\ MaxPending \in Nat /\ MaxCommands \in Nat
    /\ MaxWithdrawals \in Nat
    /\ MaxFailures \in Nat /\ MaxRestores \in Nat

VARIABLES
    store,    \* central.sqlite
    image,    \* the backups of it
    journal,  \* central-agent.sqlite of each device
    agent,    \* the agent process of each device
    stale,    \* requests given up by the agent that the server may yet handle
    ran,      \* history variable: what really became of each command
    queued,   \* how many commands were queued so far
    budget    \* what is left of the bounds

vars == <<store, image, journal, agent, stale, ran, queued, budget>>

-----------------------------------------------------------------------------
(* The registry *)

Id == 1 .. MaxCommands

Outcome == {"completed", "failed", "uncertain"}
Status  == Outcome \cup {"none", "queued", "delivered", "cancelled"}

Store ==
    [invited : SUBSET Invitation,
     used    : [Invitation -> Device \cup {Nobody}],
     state   : [Device -> {"unknown", "pending", "approved", "revoked"}],
     status  : [Id -> Status],                    \* "none": no such row
     target  : [Id -> Device \cup {Nobody}]]

Commands(s, d) == {c \in Id : s.target[c] = d /\ s.status[c] # "none"}

(* Mutant: a command once handed out is not offered again. *)
OpenQueuedOnly(s, d) == {c \in Commands(s, d) : s.status[c] = "queued"}

(* What is not finished, in the order it was queued. *)
Open(s, d) == {c \in Commands(s, d) : s.status[c] \in {"queued", "delivered"}}

Enrolled(s) == {d \in Device : s.state[d] # "unknown"}

(* A retried enrolment finds its own invitation used; a used or expired one is
   worth nothing to anybody else. *)
CanEnroll(s, d, fresh) ==
    LET i == InvitedBy[d] IN
    /\ i \in s.invited
    /\ \/ s.used[i] = d
       \/ /\ s.used[i] = Nobody /\ fresh
          /\ Cardinality(Enrolled(s)) < MaxDevices
          /\ d \notin Enrolled(s)

Enroll(s, d) ==
    IF s.used[InvitedBy[d]] = d THEN s
    ELSE [s EXCEPT !.state[d] = "pending", !.used[InvitedBy[d]] = d]

Request ==
    [kind    : {"enroll", "poll"},
     result  : Id \cup {0},               \* 0: no result to report
     outcome : Outcome \cup {"none"},
     active  : BOOLEAN]

Reply ==
    [state        : {"registered", "rejected", "pending", "approved", "revoked"},
     command      : Id \cup {0},
     acknowledged : SUBSET Id]

Rejected == [state |-> "rejected", command |-> 0, acknowledged |-> {}]

(* A result counts only for a command the device was given. *)
Settle(s, d, request) ==
    LET c == request.result IN
    IF c \in Commands(s, d) /\ s.status[c] = "delivered"
    THEN [s EXCEPT !.status[c] = request.outcome] ELSE s

(* The first open command goes to an approved device with no active worker. *)
Dispatch(s, d, request) ==
    IF s.state[d] # "approved" \/ request.active THEN {}
    ELSE {c \in Open(s, d) : \A b \in Open(s, d) : c <= b}

(* The Poll transaction: the registry it leaves, and the reply. *)
Polled(s, d, request) ==
    LET settled == Settle(s, d, request)
        given   == Dispatch(settled, d, request)
    IN  [store |-> [settled EXCEPT !.status =
                      [c \in Id |-> IF c \in given THEN "delivered" ELSE @[c]]],
         reply |-> [state        |-> s.state[d],
                    command      |-> IF given = {} THEN 0 ELSE CHOOSE c \in given : TRUE,
                    acknowledged |-> {c \in Commands(settled, d) :
                                        c = request.result /\ settled.status[c] \in Outcome}]]

(* What the server makes of a request. *)
Exchanged(s, d, request, fresh) ==
    CASE request.kind = "enroll" /\ CanEnroll(s, d, fresh) ->
            [store |-> Enroll(s, d),
             reply |-> [Rejected EXCEPT !.state = "registered"]]
      [] request.kind = "poll" /\ d \in Enrolled(s) ->
            Polled(s, d, request)
      [] request.kind = "enroll" /\ ~CanEnroll(s, d, fresh) ->
            [store |-> s, reply |-> Rejected]
      [] request.kind = "poll" /\ d \notin Enrolled(s) ->
            [store |-> s, reply |-> Rejected]

-----------------------------------------------------------------------------
(* The agent *)

Entry ==
    {e \in [id : Id, done : BOOLEAN, outcome : Outcome \cup {"none"}, ack : BOOLEAN] :
        /\ e.done <=> e.outcome # "none"
        /\ e.ack => e.done}

NoRequest == [kind |-> "poll", result |-> 0, outcome |-> "none", active |-> FALSE]

Agent ==
    [up         : BOOLEAN,
     registered : BOOLEAN,
     worker     : Id \cup {0},            \* 0: no worker
     over       : Outcome \cup {"none"},  \* how the worker ended
     phase      : {"idle", "sent", "replied"},
     request    : Request,
     reply      : Reply]

Down ==
    [up |-> FALSE, registered |-> FALSE, worker |-> 0, over |-> "none",
     phase |-> "idle", request |-> NoRequest, reply |-> Rejected]

Known(j, c) == \E i \in DOMAIN j : j[i].id = c

(* A result too large for a reply is reported as a failure. *)
Reportable(outcome) == {outcome} \cup {f \in {"failed"} : outcome = "completed"}

(* Journal::finish: the result, to be reported. *)
Finish(j, c, outcome) ==
    [i \in DOMAIN j |->
        IF j[i].id = c
        THEN [j[i] EXCEPT !.done = TRUE, !.outcome = outcome, !.ack = FALSE]
        ELSE j[i]]

(* Journal::open: what was executing when the agent stopped is uncertain. *)
Interrupted(j) ==
    [i \in DOMAIN j |->
        IF j[i].done THEN j[i]
        ELSE [j[i] EXCEPT !.done = TRUE, !.outcome = "uncertain", !.ack = FALSE]]

(* Journal::results: the first finished and unacknowledged row, if any. *)
Unreported(j) == {i \in DOMAIN j : j[i].done /\ ~j[i].ack}
Result(j) == {j[i] : i \in {k \in Unreported(j) : \A n \in Unreported(j) : k <= n}}

(* Mutant: a command that comes again keeps its acknowledgement. *)
ReopenedSilently(j, c) == j

(* Journal::start of a known command: it is not run, its result is due again. *)
Reopened(j, c) ==
    [i \in DOMAIN j |-> IF j[i].id = c THEN [j[i] EXCEPT !.ack = FALSE] ELSE j[i]]

Acknowledged(j, ids) ==
    [i \in DOMAIN j |->
        IF j[i].done /\ j[i].id \in ids THEN [j[i] EXCEPT !.ack = TRUE] ELSE j[i]]

Spend(what) ==
    /\ budget[what] > 0
    /\ budget' = [budget EXCEPT ![what] = @ - 1]

Init ==
    /\ store = [invited |-> {}, used |-> [i \in Invitation |-> Nobody],
                state |-> [d \in Device |-> "unknown"],
                status |-> [c \in Id |-> "none"], target |-> [c \in Id |-> Nobody]]
    /\ image = {}
    /\ journal = [d \in Device |-> <<>>]
    /\ agent = [d \in Device |-> Down]
    /\ stale = [d \in Device |-> {}]
    /\ ran = [c \in Id |-> [starts |-> 0, end |-> "none", rolled |-> FALSE]]
    /\ queued = 0
    /\ budget = [withdrawals |-> MaxWithdrawals, failures |-> MaxFailures, restores |-> MaxRestores]

-----------------------------------------------------------------------------
(* What operators do *)

Invite(i) ==
    /\ i \notin store.invited
    /\ store' = [store EXCEPT !.invited = @ \cup {i}]
    /\ UNCHANGED <<image, journal, agent, stale, ran, queued, budget>>

Approve(d) ==
    /\ d \in Enrolled(store)
    /\ store' = [store EXCEPT !.state[d] = "approved"]
    /\ UNCHANGED <<image, journal, agent, stale, ran, queued, budget>>

(* Commands not yet handed out are cancelled with the revocation. *)
Revoke(d) ==
    /\ Spend("withdrawals")
    /\ d \in Enrolled(store)
    /\ store' = [store EXCEPT
                    !.state[d] = "revoked",
                    !.status = [c \in Id |->
                        IF c \in Commands(store, d) /\ @[c] = "queued"
                        THEN "cancelled" ELSE @[c]]]
    /\ UNCHANGED <<image, journal, agent, stale, ran, queued>>

(* One command for a device, or one for each device of a pair. *)
Batch == {<<d>> : d \in Device} \cup {<<d, e>> : d \in Device, e \in Device}

(* The commands of a batch are inserted in one transaction: all or none. *)
Queue(batch) ==
    /\ Len(batch) = 2 => batch[1] # batch[2]
    /\ queued + Len(batch) <= MaxCommands
    /\ \A n \in DOMAIN batch :
          /\ store.state[batch[n]] = "approved"
          /\ Cardinality(Open(store, batch[n])) < MaxPending
    /\ store' = [store EXCEPT
                    !.status = [c \in Id |->
                        IF c - queued \in DOMAIN batch THEN "queued" ELSE @[c]],
                    !.target = [c \in Id |->
                        IF c - queued \in DOMAIN batch THEN batch[c - queued] ELSE @[c]]]
    /\ queued' = queued + Len(batch)
    /\ UNCHANGED <<image, journal, agent, stale, ran, budget>>

(* Mutant: a command can be cancelled as long as it is not finished. *)
CanCancelOpen(c) == store.status[c] \in {"queued", "delivered"}

CanCancel(c) == store.status[c] = "queued"

Cancel(c) ==
    /\ Spend("withdrawals")
    /\ CanCancel(c)
    /\ store' = [store EXCEPT !.status[c] = "cancelled"]
    /\ UNCHANGED <<image, journal, agent, stale, ran, queued>>

(* A backup of the central state directory, and its return. *)
Backup ==
    /\ MaxRestores > 0 /\ image = {}
    /\ image' = {store}
    /\ UNCHANGED <<store, journal, agent, stale, ran, queued, budget>>

Restore ==
    /\ Spend("restores")
    /\ \E s \in image :
          /\ store' = s
          /\ ran' = [c \in Id |->
                       [ran[c] EXCEPT !.rolled = @ \/ s.status[c] # store.status[c]]]
    /\ UNCHANGED <<image, journal, agent, stale, queued>>

-----------------------------------------------------------------------------
(* The agent's loop, and the server's answers *)

Start(d) ==
    /\ ~agent[d].up
    /\ journal' = [journal EXCEPT ![d] = Interrupted(@)]
    /\ agent' = [agent EXCEPT ![d] = [Down EXCEPT !.up = TRUE]]
    /\ UNCHANGED <<store, image, stale, ran, queued, budget>>

(* The top of the loop: an ended worker is written down, then the device
   registers - once per process - or polls. *)
Poll(d) ==
    LET ended == agent[d].over # "none"
        busy  == agent[d].worker # 0 /\ ~ended
        due   == Result(journal'[d])
        poll  == [kind    |-> "poll",
                  result  |-> IF due = {} THEN 0 ELSE (CHOOSE e \in due : TRUE).id,
                  outcome |-> IF due = {} THEN "none" ELSE (CHOOSE e \in due : TRUE).outcome,
                  active  |-> busy]
    IN
    /\ agent[d].up /\ agent[d].phase = "idle"
    /\ IF ended
       THEN \E outcome \in Reportable(agent[d].over) :
               journal' = [journal EXCEPT ![d] = Finish(@, agent[d].worker, outcome)]
       ELSE journal' = journal
    /\ agent' = [agent EXCEPT
                   ![d].worker  = IF ended THEN 0 ELSE @,
                   ![d].over    = "none",
                   ![d].phase   = "sent",
                   ![d].request = IF agent[d].registered THEN poll
                                  ELSE [NoRequest EXCEPT !.kind = "enroll"]]
    /\ UNCHANGED <<store, image, stale, ran, queued, budget>>

Answer(d) ==
    /\ agent[d].phase = "sent"
    /\ \E fresh \in BOOLEAN :
          LET x == Exchanged(store, d, agent[d].request, fresh) IN
          /\ store' = x.store
          /\ agent' = [agent EXCEPT ![d].phase = "replied", ![d].reply = x.reply]
    /\ UNCHANGED <<image, journal, stale, ran, queued, budget>>

(* A request its agent has given up is handled; nobody reads the reply. *)
AnswerStale(d, request) ==
    /\ request \in stale[d]
    /\ \E fresh \in BOOLEAN : store' = Exchanged(store, d, request, fresh).store
    /\ stale' = [stale EXCEPT ![d] = @ \ {request}]
    /\ UNCHANGED <<image, journal, agent, ran, queued, budget>>

(* Mutant: the journal does not remember what it has run. *)
IsNewAlways(j, c) == TRUE

IsNew(j, c) == ~Known(j, c)

(* The reply is read: acknowledgements first, then the command. *)
Receive(d) ==
    LET reply == agent[d].reply
        c     == reply.command
        j     == Acknowledged(journal[d], reply.acknowledged)
        idle  == [agent[d] EXCEPT
                    !.phase = "idle", !.request = NoRequest, !.reply = Rejected,
                    !.registered = @ \/ reply.state = "registered"]
        runs  == c # 0 /\ agent[d].worker = 0 /\ IsNew(j, c)
    IN
    /\ agent[d].phase = "replied"
    /\ agent' = [agent EXCEPT ![d] =
                   IF c # 0 /\ agent[d].worker # 0 THEN Down   \* "unexpected central command"
                   ELSE IF runs THEN [idle EXCEPT !.worker = c]
                   ELSE idle]
    /\ journal' = [journal EXCEPT ![d] =
                     IF c = 0 \/ agent[d].worker # 0 THEN j
                     ELSE IF runs
                     THEN Append(j, [id |-> c, done |-> FALSE, outcome |-> "none", ack |-> FALSE])
                     ELSE Reopened(j, c)]
    /\ ran' = IF runs THEN [ran EXCEPT ![c].starts = @ + 1] ELSE ran
    /\ UNCHANGED <<store, image, stale, queued, budget>>

(* The worker ends: it completed, failed or panicked. *)
Work(d, outcome) ==
    /\ agent[d].worker # 0 /\ agent[d].over = "none"
    /\ agent' = [agent EXCEPT ![d].over = outcome]
    /\ ran' = [ran EXCEPT ![agent[d].worker].end = outcome]
    /\ UNCHANGED <<store, image, journal, stale, queued, budget>>

(* What becomes of a request nobody waits for any more: it is lost, it was
   handled, or the server still has it. *)
Abandoned(d) ==
    \E late \in {{}} \cup (IF agent[d].phase = "sent" THEN {{agent[d].request}} ELSE {}) :
        stale' = [stale EXCEPT ![d] = @ \cup late]

(* The exchange fails: a timeout, a lost connection, a restarted server. *)
GiveUp(d) ==
    /\ agent[d].phase # "idle"
    /\ Spend("failures")
    /\ Abandoned(d)
    /\ agent' = [agent EXCEPT ![d].phase = "idle", ![d].request = NoRequest,
                              ![d].reply = Rejected]
    /\ UNCHANGED <<store, image, journal, ran, queued>>

Crash(d) ==
    /\ agent[d].up
    /\ Spend("failures")
    /\ Abandoned(d)
    /\ agent' = [agent EXCEPT ![d] = Down]
    /\ UNCHANGED <<store, image, journal, ran, queued>>

-----------------------------------------------------------------------------
(* The specification *)

Operator ==
    \/ \E i \in Invitation : Invite(i)
    \/ \E d \in Device : Approve(d) \/ Revoke(d)
    \/ \E batch \in Batch : Queue(batch)
    \/ \E c \in Id : Cancel(c)
    \/ Backup
    \/ Restore

Next ==
    \/ Operator
    \/ \E d \in Device : Start(d) \/ Poll(d) \/ Answer(d) \/ Receive(d)
    \/ \E d \in Device, outcome \in Outcome : Work(d, outcome)
    \/ \E d \in Device : \E request \in stale[d] : AnswerStale(d, request)
    \/ \E d \in Device : GiveUp(d) \/ Crash(d)

Spec == Init /\ [][Next]_vars

(* An agent is started again, polls every three seconds and its worker ends;
   the server answers.  Operators owe nothing. *)
Fairness ==
    \A d \in Device :
        /\ WF_vars(Start(d)) /\ WF_vars(Poll(d))
        /\ WF_vars(Answer(d)) /\ WF_vars(Receive(d))
        /\ WF_vars(\E outcome \in Outcome : Work(d, outcome))

FairSpec == Spec /\ Fairness

-----------------------------------------------------------------------------
(* Properties *)

(* Every variable has its type; a finished journal row has an outcome. *)
TypeOK ==
    /\ store \in Store
    /\ image \in SUBSET Store
    /\ journal \in [Device -> Seq(Entry)]
    /\ agent \in [Device -> Agent]
    /\ stale \in [Device -> SUBSET Request]
    /\ ran \in [Id -> [starts : Nat, end : Outcome \cup {"none"}, rolled : BOOLEAN]]
    /\ queued \in 0 .. MaxCommands
    /\ budget \in [{"withdrawals", "failures", "restores"} -> Nat]

(* A command is executed at most once, whatever is lost, repeated, interrupted
   or restored (central-management.md, section 6: a finished change is not run
   again when the same command id arrives again). *)
RunsOnce == \A c \in Id : ran[c].starts <= 1

(* The registry tells the truth about commands that no restore has touched:
   what it calls completed ended so, what it calls failed ended, and what it
   calls queued or cancelled was never started. *)
OutcomeTrue ==
    \A c \in Id : ~ran[c].rolled =>
        /\ store.status[c] = "completed" => ran[c].end = "completed"
        /\ store.status[c] = "failed" => ran[c].end \in {"completed", "failed"}
        /\ store.status[c] = "uncertain" => ran[c].starts = 1
        /\ store.status[c] \in {"queued", "cancelled"} => ran[c].starts = 0

(* A device runs its commands in the order in which they were queued: when one
   was started, every earlier one had ended or been cancelled. *)
InOrder ==
    \A d \in Device : \A i \in DOMAIN journal[d] : \A b \in Id :
        (b < journal[d][i].id /\ b \in Commands(store, d) /\ ~ran[b].rolled)
            => store.status[b] \in Outcome \cup {"cancelled"}

(* An agent holds the result of a command that a restored registry does not
   remember handing out: it is never acknowledged, and `LIMIT 1' keeps every
   later result behind it. *)
Stuck(d) ==
    \E i \in Unreported(journal[d]) :
        \/ journal[d][i].id \notin Commands(store, d)
        \/ store.status[journal[d][i].id] \in {"queued", "cancelled"}

(* Every command of a device that stays approved ends, one way or another,
   although replies are lost, agents crash and the registry is restored -
   unless a restore leaves the agent with a result the registry refuses. *)
EveryCommandEnds ==
    \A d \in Device : \A c \in Id :
        c \in Open(store, d) ~>
            \/ c \notin Open(store, d)
            \/ store.state[d] # "approved"
            \/ Stuck(d)
=============================================================================
