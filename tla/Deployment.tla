----------------------------- MODULE Deployment -----------------------------
(***************************************************************************)
(* The manager of one device: deployments (management.rs) that register a  *)
(* folder, trust and admit a peer and save a job, and the supervisor that  *)
(* keeps a child running for each enabled job (jobs.rs).                   *)
(*                                                                         *)
(* Operations are executed by workers, for the local interface and for the *)
(* central agent, and meet each other between any two steps; only what     *)
(* jobs.rs does under its mutex is one step.  The manager may stop at any  *)
(* step; what is in files stays.                                           *)
(***************************************************************************)
EXTENDS Naturals

CONSTANTS
    Worker, Job, Folder, Root, Peer, Port,
    Requests,           \* what is asked for: the operations' parameters
    Overlaps,           \* pairs of different roots, one of which contains the other
    None,
    MaxStops,           \* stops of the manager
    MaxChanges          \* jobs saved, enabled or disabled, grants revoked, by hand

NoPort == 0             \* a job that connects; others listen on their port
Binding == [folder : Folder, peer : Peer, port : Port \cup {NoPort}]
JobConfig == [binding : Binding, enabled : BOOLEAN]
Request == [job : Job, binding : Binding, root : Root]

ASSUME RequestsAssumption == Requests \subseteq Request /\ Requests # {}
ASSUME NoneAssumption ==
    None \notin JobConfig /\ None \notin Binding /\ None \notin Folder /\ None \notin Root
ASSUME PortAssumption == Port \subseteq Nat \ {NoPort}

VARIABLES
    share,      \* shares/<id>: how far Share::create came, and the root
    marker,     \* .everywhere-folder in each root: the share it names
    granted,    \* the peers in each config.json
    trust,      \* peers/<id>.der
    jobs,       \* jobs.json, and the same in the supervisor's memory
    running,    \* the children: the binding each was started with
    waiting,    \* the jobs whose retry time has not come
    worker,     \* what each worker executes, and where it is
    up,         \* the manager runs
    spent,      \* what was done by hand, and how often the manager stopped
    decided,    \* history: what a person last said about a job
    byHand,     \* history: the jobs that a person saved
    together,   \* history: the shares whose registrations met
    deployed    \* history: the requests reported as deployed

files == <<share, marker, granted, trust>>
supervisor == <<jobs, running, waiting>>
history == <<decided, byHand, together, deployed>>
vars == <<files, supervisor, worker, up, spent, history>>

Stage == {"none", "directory", "marked", "configured", "ready"}
Creating == {"directory", "marker", "config", "database"}
Op == {"deploy", "save", "create"}
At == {"idle", "validate", "register", "roots", "trust", "import", "certificate",
       "grant", "access", "commit"} \cup Creating
Registered(f) == share[f].stage \in {"configured", "ready"}
Overlap(a, b) == a = b \/ {a, b} \in Overlaps

Idle == [at |-> "idle", op |-> "deploy", request |-> CHOOSE r \in Requests : TRUE]

Init ==
    /\ share = [f \in Folder |-> [stage |-> "none", root |-> None]]
    /\ marker = [a \in Root |-> None]
    /\ granted = [f \in Folder |-> {}]
    /\ trust = [p \in Peer |-> "none"]
    /\ jobs = [j \in Job |-> None]
    /\ running = [j \in Job |-> None]
    /\ waiting = {}
    /\ worker = [w \in Worker |-> Idle]
    /\ up = TRUE
    /\ spent = [stops |-> 0, changes |-> 0]
    /\ decided = [j \in Job |-> None]
    /\ byHand = {} /\ together = {} /\ deployed = {}

(* share::check_access and Identity::new: what a job needs to be saved or run. *)
Access(b) ==
    /\ trust[b.peer] = "whole"
    /\ Registered(b.folder) /\ b.peer \in granted[b.folder]

Go(w, at) == worker' = [worker EXCEPT ![w].at = at]
(* The operation ends, with success or with an error. *)
End(w) == Go(w, "idle")

FolderOf(w) == worker[w].request.binding.folder
RootOf(w) == worker[w].request.root
PeerOf(w) == worker[w].request.binding.peer

-----------------------------------------------------------------------------
(* Operations begin: deploy, save a job, create a folder. *)

Begin(w, op, r) ==
    /\ up /\ worker[w].at = "idle"
    /\ op = "deploy" => r \notin deployed
    /\ op # "deploy" => spent.changes < MaxChanges
    /\ worker' = [worker EXCEPT ![w] =
          [op |-> op, request |-> r,
           at |-> CASE op = "deploy" -> "validate"
                    [] op = "save"   -> "access"
                    [] op = "create" -> "roots"]]
    /\ spent' = [spent EXCEPT !.changes = IF op = "deploy" THEN @ ELSE @ + 1]
    /\ UNCHANGED <<files, supervisor, up, history>>

(* check_deployment, under the mutex: the job is new or the same, whether it is
   enabled or not, and nobody else listens on its port. *)
Fits(r) ==
    /\ jobs[r.job] # None => jobs[r.job].binding = r.binding
    /\ r.binding.port # NoPort =>
         \A j \in Job \ {r.job} : jobs[j] # None => jobs[j].binding.port # r.binding.port

Validate(w) ==
    /\ worker[w].at = "validate"
    /\ IF Fits(worker[w].request) THEN Go(w, "register") ELSE End(w)
    /\ UNCHANGED <<files, supervisor, up, spent, history>>

(* Mutant: a share that exists is never reused. *)
ReusableNever(f, root) == FALSE

(* ensure_registration: an identical registration is reused, one whose
   config.json cannot be read is an error. *)
Reusable(f, root) == Registered(f) /\ share[f].root = root

Register(w) ==
    /\ worker[w].at = "register"
    /\ IF share[FolderOf(w)].stage = "none" THEN Go(w, "roots")
       ELSE IF Reusable(FolderOf(w), RootOf(w)) THEN Go(w, "trust")
       ELSE End(w)
    /\ UNCHANGED <<files, supervisor, up, spent, history>>

-----------------------------------------------------------------------------
(* Share::create *)

(* Mutant: nested roots are not compared. *)
RootFreeShallow(root) ==
    \A f \in Folder : share[f].stage # "none" => Registered(f) /\ root # share[f].root

(* Every registered share can be read, and none overlaps with the root. *)
RootFree(root) ==
    \A f \in Folder : share[f].stage # "none" =>
        Registered(f) /\ ~Overlap(root, share[f].root)

CheckRoots(w) ==
    /\ worker[w].at = "roots"
    /\ LET met == {v \in Worker \ {w} : worker[v].at \in Creating}
       IN IF /\ share[FolderOf(w)].stage = "none" /\ marker[RootOf(w)] = None
             /\ RootFree(RootOf(w))
          THEN /\ Go(w, "directory")
               /\ together' = together \cup {{FolderOf(w), FolderOf(v)} : v \in met}
          ELSE End(w) /\ UNCHANGED together
    /\ UNCHANGED <<files, supervisor, up, spent, decided, byHand, deployed>>

(* Neither the directory nor the marker is ever taken over from another. *)
CreateDirectory(w) ==
    /\ worker[w].at = "directory"
    /\ IF share[FolderOf(w)].stage = "none"
       THEN /\ share' = [share EXCEPT ![FolderOf(w)].stage = "directory"]
            /\ Go(w, "marker")
       ELSE End(w) /\ UNCHANGED share
    /\ UNCHANGED <<marker, granted, trust, supervisor, up, spent, history>>

CreateMarker(w) ==
    /\ worker[w].at = "marker"
    /\ IF marker[RootOf(w)] = None
       THEN /\ marker' = [marker EXCEPT ![RootOf(w)] = FolderOf(w)]
            /\ share' = [share EXCEPT ![FolderOf(w)].stage = "marked"]
            /\ Go(w, "config")
       ELSE End(w) /\ UNCHANGED <<marker, share>>
    /\ UNCHANGED <<granted, trust, supervisor, up, spent, history>>

WriteConfig(w) ==
    /\ worker[w].at = "config"
    /\ share' = [share EXCEPT ![FolderOf(w)] = [stage |-> "configured", root |-> RootOf(w)]]
    /\ granted' = [granted EXCEPT ![FolderOf(w)] = {}]
    /\ Go(w, "database")
    /\ UNCHANGED <<marker, trust, supervisor, up, spent, history>>

CreateDatabase(w) ==
    /\ worker[w].at = "database"
    /\ share' = [share EXCEPT ![FolderOf(w)].stage = "ready"]
    /\ IF worker[w].op = "deploy" THEN Go(w, "trust") ELSE End(w)
    /\ UNCHANGED <<marker, granted, trust, supervisor, up, spent, history>>

-----------------------------------------------------------------------------
(* Trust and grant *)

(* The same certificate is trusted already, or there is none under its name. *)
TrustPeer(w) ==
    /\ worker[w].at = "trust"
    /\ CASE trust[PeerOf(w)] = "whole" -> Go(w, "grant")
         [] trust[PeerOf(w)] = "torn"  -> End(w)
         [] trust[PeerOf(w)] = "none"  -> Go(w, "import")
    /\ UNCHANGED <<files, supervisor, up, spent, history>>

(* private_write: the file is created, then written. *)
CreateTrust(w) ==
    /\ worker[w].at = "import"
    /\ IF trust[PeerOf(w)] = "none"
       THEN trust' = [trust EXCEPT ![PeerOf(w)] = "torn"] /\ Go(w, "certificate")
       ELSE End(w) /\ UNCHANGED trust
    /\ UNCHANGED <<share, marker, granted, supervisor, up, spent, history>>

WriteTrust(w) ==
    /\ worker[w].at = "certificate"
    /\ trust' = [trust EXCEPT ![PeerOf(w)] = "whole"]
    /\ Go(w, "grant")
    /\ UNCHANGED <<share, marker, granted, supervisor, up, spent, history>>

GrantPeer(w) ==
    /\ worker[w].at = "grant"
    /\ granted' = [granted EXCEPT ![FolderOf(w)] = @ \cup {PeerOf(w)}]
    /\ Go(w, "access")
    /\ UNCHANGED <<share, marker, trust, supervisor, up, spent, history>>

-----------------------------------------------------------------------------
(* Jobs *)

(* save_inner looks at the permissions before it takes the mutex. *)
CheckAccess(w) ==
    /\ worker[w].at = "access"
    /\ IF Access(worker[w].request.binding) THEN Go(w, "commit") ELSE End(w)
    /\ UNCHANGED <<files, supervisor, up, spent, history>>

(* Mutant: the child is left to end by itself. *)
PutBeside(j, config) ==
    /\ jobs' = [jobs EXCEPT ![j] = config]
    /\ running' = running
    /\ waiting' = waiting \ {j}

(* jobs.json is replaced, the child of an earlier binding is killed. *)
Put(j, config) ==
    /\ jobs' = [jobs EXCEPT ![j] = config]
    /\ running' = [running EXCEPT ![j] = None]
    /\ waiting' = waiting \ {j}

(* Mutant: what was checked before the folder was made is not checked again. *)
StillFitsUnchecked(r) == TRUE

(* The same check, in the same hold of the mutex as what follows. *)
StillFits(r) == Fits(r)

SaveDeployment(w) ==
    LET r == worker[w].request IN
    /\ worker[w].at = "commit" /\ worker[w].op = "deploy"
    /\ IF ~StillFits(r) THEN UNCHANGED <<supervisor, deployed>>
       ELSE /\ deployed' = deployed \cup {r}
            /\ IF jobs[r.job] # None THEN UNCHANGED supervisor
               ELSE Put(r.job, [binding |-> r.binding, enabled |-> TRUE])
    /\ End(w)
    /\ UNCHANGED <<files, up, spent, decided, byHand, together>>

SaveJob(w) ==
    LET r == worker[w].request
        config == [binding |-> r.binding, enabled |-> TRUE]
    IN
    /\ worker[w].at = "commit" /\ worker[w].op = "save"
    /\ Put(r.job, config)
    /\ decided' = [decided EXCEPT ![r.job] = config]
    /\ byHand' = byHand \cup {r.job}
    /\ End(w)
    /\ UNCHANGED <<files, up, spent, together, deployed>>

SetEnabled(j, enabled) ==
    /\ up /\ spent.changes < MaxChanges
    /\ jobs[j] # None /\ (enabled => Access(jobs[j].binding))
    /\ jobs' = [jobs EXCEPT ![j].enabled = enabled]
    /\ running' = IF enabled THEN running ELSE [running EXCEPT ![j] = None]
    /\ waiting' = waiting \ {j}
    /\ decided' = [decided EXCEPT ![j] = jobs'[j]]
    /\ spent' = [spent EXCEPT !.changes = @ + 1]
    /\ UNCHANGED <<files, worker, up, byHand, together, deployed>>

Revoke(f, p) ==
    /\ p \in granted[f] /\ spent.changes < MaxChanges
    /\ granted' = [granted EXCEPT ![f] = @ \ {p}]
    /\ spent' = [spent EXCEPT !.changes = @ + 1]
    /\ UNCHANGED <<share, marker, trust, supervisor, worker, up, history>>

-----------------------------------------------------------------------------
(* The supervisor *)

(* tick: every job that should have a child, has none and need not wait gets
   one, unless its permissions are gone. *)
Tick ==
    LET due == {j \in Job : jobs[j] # None /\ jobs[j].enabled /\ running[j] = None
                             /\ j \notin waiting}
        may == {j \in due : Access(jobs[j].binding)}
    IN
    /\ up /\ due # {}
    /\ running' = [j \in Job |-> IF j \in may THEN jobs[j].binding ELSE running[j]]
    /\ waiting' = waiting \cup (due \ may)
    /\ UNCHANGED <<files, jobs, worker, up, spent, history>>

(* A child has ended and a tick has seen it. *)
ChildEnds(j) ==
    /\ up /\ running[j] # None
    /\ running' = [running EXCEPT ![j] = None]
    /\ waiting' = waiting \cup {j}
    /\ UNCHANGED <<files, jobs, worker, up, spent, history>>

(* Five seconds later *)
Retry(j) ==
    /\ j \in waiting
    /\ waiting' = waiting \ {j}
    /\ UNCHANGED <<files, jobs, running, worker, up, spent, history>>

(* The manager stops: its operations end where they are, its children at the
   end of their standard input (watch_parent). *)
Stop ==
    /\ up /\ spent.stops < MaxStops
    /\ up' = FALSE
    /\ spent' = [spent EXCEPT !.stops = @ + 1]
    /\ worker' = [w \in Worker |-> Idle]
    /\ running' = [j \in Job |-> None]
    /\ waiting' = {}
    /\ UNCHANGED <<files, jobs, history>>

Start ==
    /\ ~up
    /\ up' = TRUE
    /\ UNCHANGED <<files, supervisor, worker, spent, history>>

Step(w) ==
    \/ Validate(w) \/ Register(w)
    \/ CheckRoots(w) \/ CreateDirectory(w) \/ CreateMarker(w) \/ WriteConfig(w) \/ CreateDatabase(w)
    \/ TrustPeer(w) \/ CreateTrust(w) \/ WriteTrust(w) \/ GrantPeer(w)
    \/ CheckAccess(w) \/ SaveDeployment(w) \/ SaveJob(w)

Next ==
    \/ \E w \in Worker, op \in Op, r \in Requests : Begin(w, op, r)
    \/ \E w \in Worker : Step(w)
    \/ \E j \in Job, enabled \in BOOLEAN : SetEnabled(j, enabled)
    \/ \E f \in Folder, p \in Peer : Revoke(f, p)
    \/ Tick
    \/ \E j \in Job : ChildEnds(j) \/ Retry(j)
    \/ Stop
    \/ Start

Spec == Init /\ [][Next]_vars

(* An operation goes on until it ends, the manager is started again, and
   whoever wants a deployment repeats it until it succeeds. *)
Fairness ==
    /\ \A w \in Worker : WF_vars(Step(w))
    /\ \A r \in Requests : SF_vars(\E w \in Worker : Begin(w, "deploy", r))
    /\ WF_vars(Start)

FairSpec == Spec /\ Fairness

-----------------------------------------------------------------------------
(* Properties *)

TypeOK ==
    /\ share \in [Folder -> [stage : Stage, root : Root \cup {None}]]
    /\ marker \in [Root -> Folder \cup {None}]
    /\ granted \in [Folder -> SUBSET Peer]
    /\ trust \in [Peer -> {"none", "torn", "whole"}]
    /\ jobs \in [Job -> JobConfig \cup {None}]
    /\ running \in [Job -> Binding \cup {None}]
    /\ waiting \subseteq Job
    /\ worker \in [Worker -> [at : At, op : Op, request : Requests]]
    /\ up \in BOOLEAN
    /\ spent \in [stops : Nat, changes : Nat]
    /\ decided \in [Job -> JobConfig \cup {None}]
    /\ byHand \subseteq Job /\ together \subseteq SUBSET Folder /\ deployed \subseteq Requests

(* Shares do not share files (folder-sync-design.md:10): the roots of two shares
   overlap only if their registrations ran at once, each checking what is
   registered before the other was (share.rs:172).  And even then a root is not
   given to two shares. *)
RootsDisjoint ==
    \A f, g \in Folder :
        f # g /\ Registered(f) /\ Registered(g) =>
            /\ share[f].root # share[g].root
            /\ Overlap(share[f].root, share[g].root) => {f, g} \in together

(* However many deployments are under way, none takes a job from a person who
   saved, enabled or disabled it meanwhile, nor another deployment's port
   (jobs.rs:205). *)
DeploymentsYield ==
    /\ \A j \in Job : decided[j] # None => jobs[j] = decided[j]
    /\ \A j, k \in Job :
         j # k /\ jobs[j] # None /\ jobs[k] # None
         /\ jobs[j].binding.port = jobs[k].binding.port
           => jobs[j].binding.port = NoPort \/ {j, k} \cap byHand # {}

(* A child runs what its job says now: a job that was saved again, or disabled,
   while its child ran, ended or waited has no child of before. *)
ChildrenFollowJobs ==
    \A j \in Job : running[j] # None =>
        jobs[j] # None /\ jobs[j].enabled /\ running[j] = jobs[j].binding

(* What a deployment leaves when it stops between its steps can stand in the
   way of another. *)
Unfinished(f) ==
    /\ share[f].stage \in {"directory", "marked"}
    /\ \A w \in Worker : worker[w].at \in Creating => FolderOf(w) # f
Obstructed(r) ==
    LET f == r.binding.folder IN
    \/ Registered(f) /\ share[f].root # r.root
    \/ /\ ~Registered(f)
       /\ \E g \in Folder :
            \/ Unfinished(g)
            \/ Registered(g) /\ Overlap(share[g].root, r.root)
    \/ trust[r.binding.peer] = "torn" /\ \A w \in Worker : worker[w].at # "certificate"
    \/ ~Fits(r)

(* A deployment that is repeated succeeds, whatever stopped the earlier attempts
   and whatever else was deployed, unless it is obstructed. *)
EveryDeploymentEnds ==
    \A r \in Requests : <>(r \in deployed \/ Obstructed(r))
===============================================================================
