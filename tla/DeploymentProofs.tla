--------------------------- MODULE DeploymentProofs ---------------------------
(***************************************************************************)
(* For any number of workers, folders, jobs, requests and stops: folders   *)
(* overlap only if their registrations met, deployments yield to people    *)
(* and to each other, and no child outlives what its job says.             *)
(*                                                                         *)
(* The properties of jobs are inductive beside the types.  RootsInv is     *)
(* what makes RootsDisjoint so: a root carries the marker of the share     *)
(* that is registered for it, and a registration that has passed its check *)
(* has met every overlapping one that was registered since.                *)
(***************************************************************************)
EXTENDS Deployment, TLAPS

Unregistered == {"directory", "marker", "config"}
Owning == {"marker", "config", "database"}

MarkerInv ==
    /\ \A f \in Folder : Registered(f) => share[f].root \in Root /\ marker[share[f].root] = f
    /\ \A w \in Worker : worker[w].at = "config" => marker[RootOf(w)] = FolderOf(w)

(* The directory of a share belongs to the one registration that made it. *)
OwnerInv ==
    /\ \A w \in Worker : worker[w].at \in Owning => share[FolderOf(w)].stage # "none"
    /\ \A w \in Worker : worker[w].at = "database" => Registered(FolderOf(w))
    /\ \A v, w \in Worker :
         v # w /\ worker[v].at \in Owning /\ worker[w].at \in Owning => FolderOf(v) # FolderOf(w)

MeetInv ==
    /\ \A v, w \in Worker :
         v # w /\ worker[v].at \in Creating /\ worker[w].at \in Creating
           => {FolderOf(v), FolderOf(w)} \in together
    /\ \A w \in Worker, f \in Folder :
         /\ worker[w].at \in Unregistered
         /\ Registered(f) /\ f # FolderOf(w) /\ Overlap(RootOf(w), share[f].root)
         => {FolderOf(w), f} \in together

RootsInv == MarkerInv /\ OwnerInv /\ MeetInv /\ RootsDisjoint

Inv == TypeOK /\ RootsInv /\ DeploymentsYield /\ ChildrenFollowJobs
-----------------------------------------------------------------------------
(* Types *)

LEMMA RequestParts ==
    ASSUME TypeOK, NEW w \in Worker
    PROVE  /\ worker[w] \in [at : At, op : Op, request : Requests]
           /\ worker[w].request \in Requests
           /\ FolderOf(w) \in Folder /\ RootOf(w) \in Root /\ PeerOf(w) \in Peer
           /\ worker[w].request.job \in Job /\ worker[w].request.binding \in Binding
BY RequestsAssumption DEF TypeOK, FolderOf, RootOf, PeerOf, Request, Binding

LEMMA GoTyped ==
    ASSUME TypeOK, NEW w \in Worker, NEW at \in At, Go(w, at)
    PROVE  worker' \in [Worker -> [at : At, op : Op, request : Requests]]
BY DEF TypeOK, Go

LEMMA PutTyped ==
    ASSUME TypeOK, NEW j \in Job, NEW c \in JobConfig, Put(j, c)
    PROVE  /\ jobs' \in [Job -> JobConfig \cup {None}]
           /\ running' \in [Job -> Binding \cup {None}]
           /\ waiting' \subseteq Job
BY DEF TypeOK, Put

LEMMA InitTyped == Init => TypeOK
<1> SUFFICES ASSUME Init PROVE TypeOK
  OBVIOUS
<1>1. (CHOOSE r \in Requests : TRUE) \in Requests
  BY RequestsAssumption
<1>2. Idle \in [at : At, op : Op, request : Requests]
  BY <1>1 DEF Idle, At, Op
<1> QED
  BY <1>2 DEF Init, TypeOK, Stage

LEMMA StepTyped ==
    ASSUME TypeOK, NEW w \in Worker, Step(w)
    PROVE  TypeOK'
<1>0. /\ FolderOf(w) \in Folder /\ RootOf(w) \in Root /\ PeerOf(w) \in Peer
      /\ worker[w].request \in Requests
      /\ worker[w].request.job \in Job /\ worker[w].request.binding \in Binding
  BY RequestParts
<1> USE <1>0
<1>1. CASE Validate(w)
  BY <1>1, GoTyped DEF Validate, End, At, TypeOK, files, supervisor, history
<1>2. CASE Register(w)
  BY <1>2, GoTyped DEF Register, End, At, TypeOK, files, supervisor, history
<1>3. CASE CheckRoots(w)
  <2> DEFINE met == {v \in Worker \ {w} : worker[v].at \in Creating}
  <2>1. {{FolderOf(w), FolderOf(v)} : v \in met} \subseteq SUBSET Folder
    BY RequestParts
  <2>2. together' \subseteq SUBSET Folder
    BY <1>3, <2>1 DEF CheckRoots, TypeOK
  <2>3. worker' \in [Worker -> [at : At, op : Op, request : Requests]]
    BY <1>3, GoTyped DEF CheckRoots, End, At, Creating
  <2> QED
    BY <1>3, <2>2, <2>3 DEF CheckRoots, TypeOK, files, supervisor
<1>4. CASE CreateDirectory(w)
  <2>1. worker' \in [Worker -> [at : At, op : Op, request : Requests]]
    BY <1>4, GoTyped DEF CreateDirectory, End, At, Creating
  <2>2. share' \in [Folder -> [stage : Stage, root : Root \cup {None}]]
    <3>1. share \in [Folder -> [stage : Stage, root : Root \cup {None}]]
      BY DEF TypeOK
    <3>2. "directory" \in Stage
      BY DEF Stage
    <3>3. share' = share \/ share' = [share EXCEPT ![FolderOf(w)].stage = "directory"]
      BY <1>4 DEF CreateDirectory
    <3> QED
      BY <3>1, <3>2, <3>3
  <2> QED
    BY <1>4, <2>1, <2>2 DEF CreateDirectory, TypeOK, supervisor, history
<1>5. CASE CreateMarker(w)
  <2>1. worker' \in [Worker -> [at : At, op : Op, request : Requests]]
    BY <1>5, GoTyped DEF CreateMarker, End, At, Creating
  <2>2. share' \in [Folder -> [stage : Stage, root : Root \cup {None}]]
    BY <1>5 DEF CreateMarker, TypeOK, Stage
  <2> QED
    BY <1>5, <2>1, <2>2 DEF CreateMarker, TypeOK, supervisor, history
<1>6. CASE WriteConfig(w)
  BY <1>6, GoTyped DEF WriteConfig, At, Creating, Stage, TypeOK, supervisor, history
<1>7. CASE CreateDatabase(w)
  <2>1. worker' \in [Worker -> [at : At, op : Op, request : Requests]]
    BY <1>7, GoTyped DEF CreateDatabase, End, At
  <2>2. share' \in [Folder -> [stage : Stage, root : Root \cup {None}]]
    BY <1>7 DEF CreateDatabase, TypeOK, Stage
  <2> QED
    BY <1>7, <2>1, <2>2 DEF CreateDatabase, TypeOK, supervisor, history
<1>8. CASE TrustPeer(w)
  <2>1. trust[PeerOf(w)] \in {"none", "torn", "whole"}
    BY DEF TypeOK
  <2> QED
    BY <1>8, <2>1, GoTyped DEF TrustPeer, End, At, TypeOK, files, supervisor, history
<1>9. CASE CreateTrust(w)
  BY <1>9, GoTyped DEF CreateTrust, End, At, TypeOK, supervisor, history
<1>10. CASE WriteTrust(w)
  BY <1>10, GoTyped DEF WriteTrust, At, TypeOK, supervisor, history
<1>11. CASE GrantPeer(w)
  BY <1>11, GoTyped DEF GrantPeer, At, TypeOK, supervisor, history
<1>12. CASE CheckAccess(w)
  BY <1>12, GoTyped DEF CheckAccess, End, At, TypeOK, files, supervisor, history
<1>13. CASE SaveDeployment(w)
  <2> DEFINE r == worker[w].request
  <2>1. [binding |-> r.binding, enabled |-> TRUE] \in JobConfig
    BY DEF JobConfig
  <2>2. worker' \in [Worker -> [at : At, op : Op, request : Requests]]
    BY <1>13, GoTyped DEF SaveDeployment, End, At
  <2>3. supervisor' = supervisor \/ Put(r.job, [binding |-> r.binding, enabled |-> TRUE])
    BY <1>13 DEF SaveDeployment
  <2>4. /\ jobs' \in [Job -> JobConfig \cup {None}]
        /\ running' \in [Job -> Binding \cup {None}]
        /\ waiting' \subseteq Job
    BY <2>1, <2>3, PutTyped DEF TypeOK, supervisor
  <2> QED
    BY <1>13, <2>2, <2>4 DEF SaveDeployment, TypeOK, files
<1>14. CASE SaveJob(w)
  <2> DEFINE r == worker[w].request
             c == [binding |-> r.binding, enabled |-> TRUE]
  <2>1. c \in JobConfig
    BY DEF JobConfig
  <2>2. worker' \in [Worker -> [at : At, op : Op, request : Requests]]
    BY <1>14, GoTyped DEF SaveJob, End, At
  <2>3. Put(r.job, c) /\ decided' = [decided EXCEPT ![r.job] = c] /\ byHand' = byHand \cup {r.job}
    BY <1>14 DEF SaveJob
  <2> QED
    BY <1>14, <2>1, <2>2, <2>3, PutTyped DEF SaveJob, TypeOK, files
<1> QED
  BY <1>1, <1>2, <1>3, <1>4, <1>5, <1>6, <1>7, <1>8, <1>9, <1>10, <1>11, <1>12, <1>13, <1>14
     DEF Step

LEMMA NextTyped ==
    ASSUME TypeOK, [Next]_vars
    PROVE  TypeOK'
<1>1. CASE UNCHANGED vars
  BY <1>1 DEF vars, files, supervisor, history, TypeOK
<1>2. ASSUME NEW w \in Worker, NEW op \in Op, NEW r \in Requests, Begin(w, op, r) PROVE TypeOK'
  BY <1>2 DEF Begin, At, Op, TypeOK, files, supervisor, history
<1>3. ASSUME NEW w \in Worker, Step(w) PROVE TypeOK'
  BY <1>3, StepTyped
<1>4. ASSUME NEW j \in Job, NEW enabled \in BOOLEAN, SetEnabled(j, enabled) PROVE TypeOK'
  <2>1. jobs[j] \in JobConfig
    BY <1>4 DEF SetEnabled, TypeOK
  <2>2. [jobs[j] EXCEPT !.enabled = enabled] \in JobConfig
    BY <2>1 DEF JobConfig
  <2>3. jobs' = [jobs EXCEPT ![j] = [jobs[j] EXCEPT !.enabled = enabled]]
    BY <1>4 DEF SetEnabled
  <2> QED
    BY <1>4, <2>2, <2>3 DEF SetEnabled, TypeOK, files
<1>5. ASSUME NEW f \in Folder, NEW p \in Peer, Revoke(f, p) PROVE TypeOK'
  BY <1>5 DEF Revoke, TypeOK, supervisor, history
<1>6. CASE Tick
  <2>1. \A j \in Job : jobs[j] # None => jobs[j].binding \in Binding
    BY DEF TypeOK, JobConfig
  <2> QED
    BY <1>6, <2>1 DEF Tick, TypeOK, files, history
<1>7. ASSUME NEW j \in Job, ChildEnds(j) PROVE TypeOK'
  BY <1>7 DEF ChildEnds, TypeOK, files, history
<1>8. ASSUME NEW j \in Job, Retry(j) PROVE TypeOK'
  BY <1>8 DEF Retry, TypeOK, files, history
<1>9. CASE Stop
  <2>1. Idle \in [at : At, op : Op, request : Requests]
    BY RequestsAssumption DEF Idle, At, Op
  <2>2. /\ worker' \in [Worker -> [at : At, op : Op, request : Requests]]
        /\ spent' \in [stops : Nat, changes : Nat]
        /\ running' \in [Job -> Binding \cup {None}]
    BY <1>9, <2>1 DEF Stop, TypeOK
  <2> QED
    BY <1>9, <2>2 DEF Stop, TypeOK, files, history
<1>10. CASE Start
  BY <1>10 DEF Start, TypeOK, files, supervisor, history
<1> QED
  BY <1>1, <1>2, <1>3, <1>4, <1>5, <1>6, <1>7, <1>8, <1>9, <1>10 DEF Next
-----------------------------------------------------------------------------
(* Jobs *)

(* Every other step leaves the jobs to the steps that are about them. *)
LEMMA OthersLeaveJobs ==
    ASSUME NEW w \in Worker, Step(w), ~SaveDeployment(w), ~SaveJob(w)
    PROVE  UNCHANGED <<jobs, running, waiting, decided, byHand>>
<1>1. Validate(w) \/ Register(w) \/ TrustPeer(w) \/ CheckAccess(w)
        => UNCHANGED <<jobs, running, waiting, decided, byHand>>
  BY DEF Validate, Register, TrustPeer, CheckAccess, supervisor, history
<1>2. CheckRoots(w) \/ CreateDirectory(w) \/ CreateMarker(w) \/ WriteConfig(w) \/ CreateDatabase(w)
        => UNCHANGED <<jobs, running, waiting, decided, byHand>>
  BY DEF CheckRoots, CreateDirectory, CreateMarker, WriteConfig, CreateDatabase, supervisor, history
<1>3. CreateTrust(w) \/ WriteTrust(w) \/ GrantPeer(w)
        => UNCHANGED <<jobs, running, waiting, decided, byHand>>
  BY DEF CreateTrust, WriteTrust, GrantPeer, supervisor, history
<1> QED
  BY <1>1, <1>2, <1>3 DEF Step

(* Whose port, whose decision: a deployment puts a job where there was none and
   on a port that nobody has. *)
LEMMA YieldNext ==
    ASSUME TypeOK, DeploymentsYield, [Next]_vars
    PROVE  DeploymentsYield'
<1>1. ASSUME UNCHANGED <<jobs, decided, byHand>> PROVE DeploymentsYield'
  BY <1>1 DEF DeploymentsYield
<1>2. ASSUME NEW w \in Worker, SaveDeployment(w) PROVE DeploymentsYield'
  <2> DEFINE r == worker[w].request
             c == [binding |-> r.binding, enabled |-> TRUE]
  <2>1. r.job \in Job /\ r.binding \in Binding
    BY RequestParts
  <2>2. CASE UNCHANGED supervisor
    BY <1>1, <1>2, <2>2 DEF SaveDeployment, supervisor
  <2>3. CASE ~UNCHANGED supervisor
    <3>1. Fits(r) /\ jobs[r.job] = None /\ Put(r.job, c)
      BY <1>2, <2>3 DEF SaveDeployment, StillFits
    <3>2. decided' = decided /\ byHand' = byHand
      BY <1>2 DEF SaveDeployment
    <3>3. jobs' = [jobs EXCEPT ![r.job] = c]
      BY <3>1 DEF Put
    <3>4. jobs'[r.job] = c /\ \A j \in Job \ {r.job} : jobs'[j] = jobs[j]
      BY <2>1, <3>3 DEF TypeOK
    <3>5. ASSUME NEW j \in Job, decided'[j] # None PROVE jobs'[j] = decided'[j]
      <4>1. decided[j] # None
        BY <3>2, <3>5
      <4>2. decided[j] \in JobConfig
        BY <4>1 DEF TypeOK
      <4>3. jobs[j] = decided[j]
        BY <4>1 DEF DeploymentsYield
      <4>4. j # r.job
        BY <3>1, <4>1, <4>3
      <4> QED
        BY <3>2, <3>4, <4>3, <4>4
    <3>6. ASSUME NEW j \in Job, j # r.job, jobs[j] # None, r.binding.port # NoPort
          PROVE  jobs[j].binding.port # r.binding.port
      BY <3>1, <3>6 DEF Fits
    <3>7. ASSUME NEW j \in Job, NEW k \in Job, j # k, jobs'[j] # None, jobs'[k] # None,
                 jobs'[j].binding.port = jobs'[k].binding.port
          PROVE  jobs'[j].binding.port = NoPort \/ {j, k} \cap byHand' # {}
      <4>1. CASE j = r.job
        <5>1. jobs'[j].binding.port = r.binding.port /\ jobs'[k] = jobs[k]
          BY <3>4, <3>7, <4>1
        <5> QED
          BY <3>6, <3>7, <4>1, <5>1
      <4>2. CASE k = r.job
        <5>1. jobs'[k].binding.port = r.binding.port /\ jobs'[j] = jobs[j]
          BY <3>4, <3>7, <4>2
        <5> QED
          BY <3>6, <3>7, <4>2, <5>1
      <4>3. CASE j # r.job /\ k # r.job
        <5>1. jobs'[j] = jobs[j] /\ jobs'[k] = jobs[k]
          BY <3>4, <4>3
        <5> QED
          BY <3>2, <3>7, <5>1 DEF DeploymentsYield
      <4> QED
        BY <4>1, <4>2, <4>3
    <3> QED
      BY <3>5, <3>7 DEF DeploymentsYield
  <2> QED
    BY <2>2, <2>3
<1>3. ASSUME NEW w \in Worker, SaveJob(w) PROVE DeploymentsYield'
  <2> DEFINE r == worker[w].request
             c == [binding |-> r.binding, enabled |-> TRUE]
  <2>1. r.job \in Job
    BY RequestParts
  <2>2. /\ jobs' = [jobs EXCEPT ![r.job] = c]
        /\ decided' = [decided EXCEPT ![r.job] = c]
        /\ byHand' = byHand \cup {r.job}
    BY <1>3 DEF SaveJob, Put
  <2>3. /\ jobs'[r.job] = c /\ decided'[r.job] = c
        /\ \A j \in Job \ {r.job} : jobs'[j] = jobs[j] /\ decided'[j] = decided[j]
    BY <2>1, <2>2 DEF TypeOK
  <2>4. ASSUME NEW j \in Job, decided'[j] # None PROVE jobs'[j] = decided'[j]
    BY <2>3, <2>4 DEF DeploymentsYield
  <2>5. ASSUME NEW j \in Job, NEW k \in Job, j # k, jobs'[j] # None, jobs'[k] # None,
               jobs'[j].binding.port = jobs'[k].binding.port
        PROVE  jobs'[j].binding.port = NoPort \/ {j, k} \cap byHand' # {}
    <3>1. CASE j = r.job \/ k = r.job
      BY <2>2, <3>1
    <3>2. CASE j # r.job /\ k # r.job
      <4>1. jobs'[j] = jobs[j] /\ jobs'[k] = jobs[k]
        BY <2>3, <3>2
      <4>2. jobs[j].binding.port = NoPort \/ {j, k} \cap byHand # {}
        BY <2>5, <4>1 DEF DeploymentsYield
      <4> QED
        BY <2>2, <4>1, <4>2
    <3> QED
      BY <3>1, <3>2
  <2> QED
    BY <2>4, <2>5 DEF DeploymentsYield
<1>4. ASSUME NEW i \in Job, NEW enabled \in BOOLEAN, SetEnabled(i, enabled) PROVE DeploymentsYield'
  <2>1. /\ jobs' = [jobs EXCEPT ![i] = [jobs[i] EXCEPT !.enabled = enabled]]
        /\ decided' = [decided EXCEPT ![i] = jobs'[i]]
        /\ byHand' = byHand /\ jobs[i] # None
    BY <1>4 DEF SetEnabled
  <2>2. jobs[i] \in JobConfig
    BY <2>1 DEF TypeOK
  <2>3. /\ jobs'[i].binding = jobs[i].binding /\ decided'[i] = jobs'[i]
        /\ \A j \in Job \ {i} : jobs'[j] = jobs[j] /\ decided'[j] = decided[j]
    BY <2>1, <2>2 DEF TypeOK, JobConfig
  <2>4. \A j \in Job : jobs'[j] # None => jobs[j] # None /\ jobs'[j].binding = jobs[j].binding
    BY <2>1, <2>3
  <2>5. \A j \in Job : decided'[j] # None => jobs'[j] = decided'[j]
    BY <2>3 DEF DeploymentsYield
  <2>6. ASSUME NEW j \in Job, NEW k \in Job, j # k, jobs'[j] # None, jobs'[k] # None,
               jobs'[j].binding.port = jobs'[k].binding.port
        PROVE  jobs'[j].binding.port = NoPort \/ {j, k} \cap byHand' # {}
    BY <2>1, <2>4, <2>6 DEF DeploymentsYield
  <2> QED
    BY <2>5, <2>6 DEF DeploymentsYield
<1>5. ASSUME NEW w \in Worker, Step(w) PROVE DeploymentsYield'
  BY <1>1, <1>2, <1>3, <1>5, OthersLeaveJobs
<1>6. ASSUME NEW w \in Worker, NEW op \in Op, NEW r \in Requests, Begin(w, op, r)
      PROVE  DeploymentsYield'
  BY <1>1, <1>6 DEF Begin, supervisor, history
<1>7. ASSUME NEW f \in Folder, NEW p \in Peer, Revoke(f, p) PROVE DeploymentsYield'
  BY <1>1, <1>7 DEF Revoke, supervisor, history
<1>8. CASE Tick \/ Stop \/ Start
  BY <1>1, <1>8 DEF Tick, Stop, Start, supervisor, history
<1>9. ASSUME NEW j \in Job, ChildEnds(j) \/ Retry(j) PROVE DeploymentsYield'
  BY <1>1, <1>9 DEF ChildEnds, Retry, history
<1>10. CASE UNCHANGED vars
  BY <1>1, <1>10 DEF vars, supervisor, history
<1> QED
  BY <1>4, <1>5, <1>6, <1>7, <1>8, <1>9, <1>10 DEF Next

(* A child is killed in the step that changes what its job says. *)
LEMMA ChildrenNext ==
    ASSUME TypeOK, ChildrenFollowJobs, [Next]_vars
    PROVE  ChildrenFollowJobs'
<1>1. ASSUME UNCHANGED jobs, \A j \in Job : running'[j] # None => running'[j] = running[j]
      PROVE  ChildrenFollowJobs'
  BY <1>1 DEF ChildrenFollowJobs
<1>2. ASSUME NEW i \in Job, NEW c, Put(i, c) PROVE ChildrenFollowJobs'
  <2>1. /\ running'[i] = None
        /\ \A j \in Job \ {i} : jobs'[j] = jobs[j] /\ running'[j] = running[j]
    BY <1>2 DEF Put, TypeOK
  <2> QED
    BY <2>1 DEF ChildrenFollowJobs
<1>3. ASSUME NEW i \in Job, NEW enabled \in BOOLEAN, SetEnabled(i, enabled)
      PROVE  ChildrenFollowJobs'
  <2>1. /\ jobs' = [jobs EXCEPT ![i] = [jobs[i] EXCEPT !.enabled = enabled]]
        /\ running' = IF enabled THEN running ELSE [running EXCEPT ![i] = None]
        /\ jobs[i] # None
    BY <1>3 DEF SetEnabled
  <2>2. jobs[i] \in JobConfig
    BY <2>1 DEF TypeOK
  <2>3. /\ jobs'[i] \in JobConfig /\ jobs'[i].enabled = enabled
        /\ jobs'[i].binding = jobs[i].binding
        /\ \A j \in Job \ {i} : jobs'[j] = jobs[j]
    BY <2>1, <2>2 DEF TypeOK, JobConfig
  <2>4. /\ running'[i] # None => enabled /\ running'[i] = running[i]
        /\ \A j \in Job \ {i} : running'[j] = running[j]
    BY <2>1 DEF TypeOK
  <2> QED
    BY <2>3, <2>4, NoneAssumption DEF ChildrenFollowJobs
<1>4. CASE Tick
  <2>1. /\ jobs' = jobs
        /\ \A j \in Job : \/ running'[j] = running[j]
                          \/ /\ jobs[j] # None /\ jobs[j].enabled
                             /\ running'[j] = jobs[j].binding
    BY <1>4 DEF Tick
  <2> QED
    BY <2>1 DEF ChildrenFollowJobs
<1>5. ASSUME NEW w \in Worker, Step(w) PROVE ChildrenFollowJobs'
  <2>1. CASE SaveDeployment(w)
    <3>1. UNCHANGED supervisor
          \/ Put(worker[w].request.job, [binding |-> worker[w].request.binding, enabled |-> TRUE])
      BY <2>1 DEF SaveDeployment
    <3> QED
      BY <1>1, <1>2, <3>1, RequestParts DEF supervisor
  <2>2. CASE SaveJob(w)
    <3>1. Put(worker[w].request.job, [binding |-> worker[w].request.binding, enabled |-> TRUE])
      BY <2>2 DEF SaveJob
    <3> QED
      BY <1>2, <3>1, RequestParts
  <2> QED
    BY <1>1, <1>5, <2>1, <2>2, OthersLeaveJobs
<1>6. ASSUME NEW w \in Worker, NEW op \in Op, NEW r \in Requests, Begin(w, op, r)
      PROVE  ChildrenFollowJobs'
  BY <1>1, <1>6 DEF Begin, supervisor
<1>7. ASSUME NEW f \in Folder, NEW p \in Peer, Revoke(f, p) PROVE ChildrenFollowJobs'
  BY <1>1, <1>7 DEF Revoke, supervisor
<1>8. ASSUME NEW j \in Job, ChildEnds(j) PROVE ChildrenFollowJobs'
  <2>1. jobs' = jobs /\ running' = [running EXCEPT ![j] = None]
    BY <1>8 DEF ChildEnds
  <2>2. \A i \in Job : running'[i] # None => running'[i] = running[i]
    BY <2>1 DEF TypeOK
  <2> QED
    BY <1>1, <2>1, <2>2
<1>9. ASSUME NEW j \in Job, Retry(j) PROVE ChildrenFollowJobs'
  BY <1>1, <1>9 DEF Retry
<1>10. CASE Stop
  BY <1>1, <1>10 DEF Stop
<1>11. CASE Start \/ UNCHANGED vars
  BY <1>1, <1>11 DEF Start, vars, supervisor
<1> QED
  BY <1>3, <1>4, <1>5, <1>6, <1>7, <1>8, <1>9, <1>10, <1>11 DEF Next
-----------------------------------------------------------------------------
(* Roots.  A step of one worker moves that worker alone. *)

LEMMA OneMoves ==
    ASSUME TypeOK, NEW w \in Worker, NEW at \in At, Go(w, at)
    PROVE  /\ worker'[w].at = at
           /\ \A v \in Worker : v # w => worker'[v] = worker[v]
           /\ \A v \in Worker : worker'[v].request = worker[v].request
BY DEF TypeOK, Go

LEMMA SameRequest ==
    ASSUME NEW v \in Worker, worker'[v].request = worker[v].request
    PROVE  FolderOf(v)' = FolderOf(v) /\ RootOf(v)' = RootOf(v)
BY DEF FolderOf, RootOf

(* Nothing changes in what is registered, and no registration goes on. *)
LEMMA RootsKept ==
    ASSUME TypeOK, RootsInv, UNCHANGED <<marker, together>>,
           \A f \in Folder : Registered(f)' <=> Registered(f),
           \A f \in Folder : share'[f].root = share[f].root,
           \A f \in Folder : share[f].stage # "none" => share'[f].stage # "none",
           \A v \in Worker : worker'[v].at \in Creating =>
               worker'[v].at = worker[v].at /\ worker'[v].request = worker[v].request
    PROVE  RootsInv'
<1>1. \A v \in Worker : worker'[v].at \in Creating => FolderOf(v)' = FolderOf(v) /\ RootOf(v)' = RootOf(v)
  BY DEF FolderOf, RootOf
<1>2. \A v \in Worker : FolderOf(v) \in Folder
  BY RequestParts
<1>3. MarkerInv'
  BY <1>1, <1>2 DEF RootsInv, MarkerInv, Creating
<1>4. OwnerInv'
  <2>1. \A w \in Worker : worker'[w].at \in Owning => share'[FolderOf(w)'].stage # "none"
    BY <1>1, <1>2 DEF RootsInv, OwnerInv, Creating, Owning
  <2>2. \A w \in Worker : worker'[w].at = "database" => Registered(FolderOf(w))'
    BY <1>1, <1>2 DEF RootsInv, OwnerInv, Creating, Registered
  <2>3. \A v, w \in Worker :
           v # w /\ worker'[v].at \in Owning /\ worker'[w].at \in Owning => FolderOf(v)' # FolderOf(w)'
    BY <1>1 DEF RootsInv, OwnerInv, Creating, Owning
  <2> QED
    BY <2>1, <2>2, <2>3 DEF OwnerInv
<1>5. MeetInv'
  <2>1. ASSUME NEW v \in Worker, NEW w \in Worker,
               v # w, worker'[v].at \in Creating, worker'[w].at \in Creating
        PROVE  {FolderOf(v)', FolderOf(w)'} \in together'
    BY <1>1, <2>1 DEF RootsInv, MeetInv
  <2>2. ASSUME NEW w \in Worker, NEW f \in Folder, worker'[w].at \in Unregistered,
               Registered(f)', f # FolderOf(w)', Overlap(RootOf(w)', share'[f].root)
        PROVE  {FolderOf(w)', f} \in together'
    BY <1>1, <2>2 DEF RootsInv, MeetInv, Creating, Unregistered
  <2> QED
    BY <2>1, <2>2 DEF MeetInv, Overlap
<1>6. RootsDisjoint'
  BY DEF RootsInv, RootsDisjoint, Overlap
<1> QED
  BY <1>3, <1>4, <1>5, <1>6 DEF RootsInv

(* The check passes: nothing registered overlaps, and every registration under
   way is met. *)
LEMMA CheckRootsKeeps ==
    ASSUME TypeOK, RootsInv, NEW w \in Worker, CheckRoots(w)
    PROVE  RootsInv'
<1> DEFINE met == {v \in Worker \ {w} : worker[v].at \in Creating}
<1>1. CASE End(w) /\ UNCHANGED together
  BY <1>1, OneMoves, RootsKept DEF CheckRoots, End, At, Creating, files, Registered
<1>2. CASE ~(End(w) /\ UNCHANGED together)
  <2>1. /\ Go(w, "directory")
        /\ together' = together \cup {{FolderOf(w), FolderOf(v)} : v \in met}
        /\ \A f \in Folder : Registered(f) => ~Overlap(RootOf(w), share[f].root)
        /\ share' = share /\ marker' = marker
    BY <1>2 DEF CheckRoots, RootFree, Registered, files
  <2>2. /\ worker'[w].at = "directory"
        /\ \A v \in Worker : v # w => worker'[v] = worker[v]
        /\ \A v \in Worker : FolderOf(v)' = FolderOf(v) /\ RootOf(v)' = RootOf(v)
    BY <2>1, OneMoves, SameRequest DEF At, Creating
  <2>3. \A f \in Folder : Registered(f)' <=> Registered(f)
    BY <2>1 DEF Registered
  <2>4. MarkerInv'
    BY <2>1, <2>2, <2>3 DEF RootsInv, MarkerInv
  <2>5. OwnerInv'
    <3>1. \A v \in Worker : worker'[v].at \in Owning => v # w /\ worker[v].at \in Owning
      BY <2>2 DEF Owning
    <3>2. \A v \in Worker : worker'[v].at = "database" => worker[v].at = "database"
      BY <2>2
    <3>3. \A v \in Worker : worker'[v].at \in Owning => share'[FolderOf(v)'].stage # "none"
      BY <2>1, <2>2, <3>1 DEF RootsInv, OwnerInv
    <3>4. \A v \in Worker : worker'[v].at = "database" => Registered(FolderOf(v))'
      BY <2>1, <2>2, <3>2 DEF RootsInv, OwnerInv, Registered
    <3>5. \A u, v \in Worker :
             u # v /\ worker'[u].at \in Owning /\ worker'[v].at \in Owning
               => FolderOf(u)' # FolderOf(v)'
      BY <2>2, <3>1 DEF RootsInv, OwnerInv
    <3> QED
      BY <3>3, <3>4, <3>5 DEF OwnerInv
  <2>6. ASSUME NEW u \in Worker, NEW v \in Worker,
               u # v, worker'[u].at \in Creating, worker'[v].at \in Creating
        PROVE  {FolderOf(u)', FolderOf(v)'} \in together'
    <3>1. CASE u # w /\ v # w
      BY <2>1, <2>2, <2>6, <3>1 DEF RootsInv, MeetInv
    <3>2. CASE u = w
      <4>1. v \in met
        BY <2>2, <2>6, <3>2
      <4> QED
        BY <2>1, <2>2, <3>2, <4>1
    <3>3. CASE v = w
      <4>1. u \in met
        BY <2>2, <2>6, <3>3
      <4>2. {FolderOf(u), FolderOf(v)} = {FolderOf(w), FolderOf(u)}
        BY <3>3
      <4> QED
        BY <2>1, <2>2, <4>1, <4>2
    <3> QED
      BY <3>1, <3>2, <3>3
  <2>7. ASSUME NEW v \in Worker, NEW f \in Folder, worker'[v].at \in Unregistered,
               Registered(f)', f # FolderOf(v)', Overlap(RootOf(v)', share'[f].root)
        PROVE  {FolderOf(v)', f} \in together'
    <3>1. v # w
      BY <2>1, <2>2, <2>3, <2>7
    <3>2. {FolderOf(v), f} \in together
      BY <2>1, <2>2, <2>3, <2>7, <3>1 DEF RootsInv, MeetInv
    <3> QED
      BY <2>1, <2>2, <3>2
  <2>8. RootsDisjoint'
    BY <2>1, <2>3 DEF RootsInv, RootsDisjoint, Overlap
  <2> QED
    BY <2>4, <2>5, <2>6, <2>7, <2>8 DEF RootsInv, MeetInv, Overlap
<1> QED
  BY <1>1, <1>2

(* The directory is made, then the marker: of a share and of a root that had none. *)
LEMMA ProgressKeeps ==
    ASSUME TypeOK, RootsInv, NEW w \in Worker, NEW at \in {"marker", "config"},
           Go(w, at), together' = together,
           worker[w].at = IF at = "marker" THEN "directory" ELSE "marker",
           at = "marker" => share[FolderOf(w)].stage = "none",
           share'[FolderOf(w)].stage \in {"directory", "marked"},
           \A f \in Folder : share'[f].root = share[f].root,
           \A f \in Folder \ {FolderOf(w)} : share'[f] = share[f],
           \A a \in Root : marker[a] # None => marker'[a] = marker[a],
           at = "config" => marker'[RootOf(w)] = FolderOf(w)
    PROVE  RootsInv'
<1>1. /\ worker'[w].at = at
      /\ \A v \in Worker : v # w => worker'[v] = worker[v]
      /\ \A v \in Worker : FolderOf(v)' = FolderOf(v) /\ RootOf(v)' = RootOf(v)
  BY OneMoves, SameRequest DEF At, Creating
<1>2. \A v \in Worker : FolderOf(v) \in Folder /\ RootOf(v) \in Root
  BY RequestParts
<1>3. None \notin Folder
  BY NoneAssumption
<1>4. \A f \in Folder : Registered(f)' <=> Registered(f) /\ f # FolderOf(w)
  BY DEF Registered
<1>5. \A v \in Worker : worker'[v].at \in Creating => worker[v].at \in Creating
  BY <1>1 DEF Creating
<1>6. MarkerInv'
  <2>1. ASSUME NEW f \in Folder, Registered(f)'
        PROVE  share'[f].root \in Root /\ marker'[share'[f].root] = f
    <3>1. share[f].root \in Root /\ marker[share[f].root] = f
      BY <1>4, <2>1 DEF RootsInv, MarkerInv
    <3> QED
      BY <1>3, <3>1
  <2>2. ASSUME NEW v \in Worker, worker'[v].at = "config"
        PROVE  marker'[RootOf(v)'] = FolderOf(v)'
    <3>1. CASE v = w
      BY <1>1, <2>2, <3>1
    <3>2. CASE v # w
      <4>1. marker[RootOf(v)] = FolderOf(v)
        BY <1>1, <2>2, <3>2 DEF RootsInv, MarkerInv
      <4> QED
        BY <1>1, <1>2, <1>3, <4>1
    <3> QED
      BY <3>1, <3>2
  <2> QED
    BY <2>1, <2>2 DEF MarkerInv
<1>7. OwnerInv'
  <2>1. \A v \in Worker : v # w /\ worker[v].at \in Owning => FolderOf(v) # FolderOf(w)
    <3>1. CASE at = "marker"
      BY <3>1 DEF RootsInv, OwnerInv
    <3>2. CASE at = "config"
      BY <3>2 DEF RootsInv, OwnerInv, Owning
    <3> QED
      BY <3>1, <3>2
  <2>2. ASSUME NEW v \in Worker, worker'[v].at \in Owning
        PROVE  share'[FolderOf(v)'].stage # "none"
    <3>1. CASE v = w
      BY <1>1, <3>1
    <3>2. CASE v # w
      <4>1. FolderOf(v) # FolderOf(w) /\ share[FolderOf(v)].stage # "none"
        BY <1>1, <2>1, <2>2, <3>2 DEF RootsInv, OwnerInv
      <4> QED
        BY <1>1, <1>2, <4>1
    <3> QED
      BY <3>1, <3>2
  <2>3. ASSUME NEW v \in Worker, worker'[v].at = "database"
        PROVE  Registered(FolderOf(v))'
    <3>1. v # w /\ worker[v].at = "database"
      BY <1>1, <2>3
    <3>2. Registered(FolderOf(v)) /\ FolderOf(v) # FolderOf(w)
      BY <2>1, <3>1 DEF RootsInv, OwnerInv, Owning
    <3>3. Registered(FolderOf(v)') <=> Registered(FolderOf(v))
      BY <1>1
    <3> QED
      BY <1>1, <1>2, <3>2 DEF Registered
  <2>4. ASSUME NEW u \in Worker, NEW v \in Worker, u # v,
               worker'[u].at \in Owning, worker'[v].at \in Owning
        PROVE  FolderOf(u)' # FolderOf(v)'
    <3>1. CASE u = w \/ v = w
      BY <1>1, <2>1, <2>4, <3>1
    <3>2. CASE u # w /\ v # w
      BY <1>1, <2>4, <3>2 DEF RootsInv, OwnerInv
    <3> QED
      BY <3>1, <3>2
  <2> QED
    BY <2>2, <2>3, <2>4 DEF OwnerInv
<1>8. ASSUME NEW u \in Worker, NEW v \in Worker,
             u # v, worker'[u].at \in Creating, worker'[v].at \in Creating
      PROVE  {FolderOf(u)', FolderOf(v)'} \in together'
  BY <1>1, <1>5, <1>8 DEF RootsInv, MeetInv
<1>9. ASSUME NEW v \in Worker, NEW f \in Folder, worker'[v].at \in Unregistered,
             Registered(f)', f # FolderOf(v)', Overlap(RootOf(v)', share'[f].root)
      PROVE  {FolderOf(v)', f} \in together'
  <2>1. worker[v].at \in Unregistered
    BY <1>1, <1>9 DEF Unregistered
  <2> QED
    BY <1>1, <1>4, <1>9, <2>1 DEF RootsInv, MeetInv
<1>10. RootsDisjoint'
  BY <1>4 DEF RootsInv, RootsDisjoint, Overlap
<1> QED
  BY <1>6, <1>7, <1>8, <1>9, <1>10 DEF RootsInv, MeetInv, Overlap

(* A share becomes registered: whatever overlaps with it has met it. *)
LEMMA WriteConfigKeeps ==
    ASSUME TypeOK, RootsInv, NEW w \in Worker, WriteConfig(w)
    PROVE  RootsInv'
<1> DEFINE g == FolderOf(w)
<1>1. /\ worker'[w].at = "database"
      /\ \A v \in Worker : v # w => worker'[v] = worker[v]
      /\ \A v \in Worker : FolderOf(v)' = FolderOf(v) /\ RootOf(v)' = RootOf(v)
  BY OneMoves, SameRequest DEF WriteConfig, At, Creating
<1>2. \A v \in Worker : FolderOf(v) \in Folder /\ RootOf(v) \in Root
  BY RequestParts
<1>3. /\ worker[w].at = "config"
      /\ share'[g] = [stage |-> "configured", root |-> RootOf(w)]
      /\ \A f \in Folder \ {g} : share'[f] = share[f]
      /\ marker' = marker /\ together' = together
  BY <1>2 DEF WriteConfig, TypeOK, history
<1>4. /\ Registered(g)' /\ share'[g].root = RootOf(w)
      /\ \A f \in Folder \ {g} : Registered(f)' <=> Registered(f)
  BY <1>1, <1>2, <1>3 DEF Registered
<1>5. marker[RootOf(w)] = g
  BY <1>3 DEF RootsInv, MarkerInv
<1>6. MarkerInv'
  <2>1. \A f \in Folder : Registered(f)' => share'[f].root \in Root /\ marker'[share'[f].root] = f
    BY <1>2, <1>3, <1>4, <1>5 DEF RootsInv, MarkerInv
  <2>2. \A v \in Worker : worker'[v].at = "config" => marker'[RootOf(v)'] = FolderOf(v)'
    BY <1>1, <1>3 DEF RootsInv, MarkerInv
  <2> QED
    BY <2>1, <2>2 DEF MarkerInv
<1>7. OwnerInv'
  <2>1. \A v \in Worker : worker'[v].at \in Owning => worker[v].at \in Owning
    BY <1>1, <1>3 DEF Owning
  <2>2. \A v \in Worker : worker'[v].at \in Owning => share'[FolderOf(v)'].stage # "none"
    BY <1>1, <1>2, <1>3, <2>1 DEF RootsInv, OwnerInv
  <2>3. ASSUME NEW v \in Worker, worker'[v].at = "database" PROVE Registered(FolderOf(v))'
    <3>1. CASE v = w
      BY <1>1, <1>3, <3>1 DEF Registered
    <3>2. CASE v # w
      <4>1. Registered(FolderOf(v)) /\ FolderOf(v) # g
        BY <1>1, <1>3, <2>3, <3>2 DEF RootsInv, OwnerInv, Owning
      <4> QED
        BY <1>1, <1>2, <1>3, <4>1 DEF Registered
    <3> QED
      BY <3>1, <3>2
  <2>4. \A u, v \in Worker :
           u # v /\ worker'[u].at \in Owning /\ worker'[v].at \in Owning
             => FolderOf(u)' # FolderOf(v)'
    BY <1>1, <2>1 DEF RootsInv, OwnerInv
  <2> QED
    BY <2>2, <2>3, <2>4 DEF OwnerInv
<1>8. \A v \in Worker : worker'[v].at \in Creating => worker[v].at \in Creating
  BY <1>1, <1>3 DEF Creating
<1>9. ASSUME NEW u \in Worker, NEW v \in Worker,
             u # v, worker'[u].at \in Creating, worker'[v].at \in Creating
      PROVE  {FolderOf(u)', FolderOf(v)'} \in together'
  BY <1>1, <1>3, <1>8, <1>9 DEF RootsInv, MeetInv
<1>10. ASSUME NEW v \in Worker, NEW f \in Folder, worker'[v].at \in Unregistered,
              Registered(f)', f # FolderOf(v)', Overlap(RootOf(v)', share'[f].root)
       PROVE  {FolderOf(v)', f} \in together'
  <2>1. v # w /\ worker[v].at \in Unregistered
    BY <1>1, <1>10 DEF Unregistered
  <2>2. CASE f = g
    <3>1. {FolderOf(v), FolderOf(w)} \in together
      BY <1>3, <2>1 DEF RootsInv, MeetInv, Creating, Unregistered
    <3> QED
      BY <1>1, <1>3, <2>2, <3>1
  <2>3. CASE f # g
    BY <1>1, <1>3, <1>4, <1>10, <2>1, <2>3 DEF RootsInv, MeetInv
  <2> QED
    BY <2>2, <2>3
<1>11. RootsDisjoint'
  <2>1. ASSUME NEW f \in Folder, f # g, Registered(f)
        PROVE  /\ share[f].root # RootOf(w)
               /\ Overlap(RootOf(w), share[f].root) => {g, f} \in together
    <3>1. marker[share[f].root] = f
      BY <2>1 DEF RootsInv, MarkerInv
    <3>2. Overlap(RootOf(w), share[f].root) => {g, f} \in together
      BY <1>3, <2>1 DEF RootsInv, MeetInv, Unregistered
    <3> QED
      BY <1>5, <2>1, <3>1, <3>2
  <2>2. \A a, b : Overlap(a, b) <=> Overlap(b, a)
    <3>1. \A a, b : {a, b} = {b, a}
      OBVIOUS
    <3> QED
      BY <3>1 DEF Overlap
  <2>3. ASSUME NEW f \in Folder, NEW h \in Folder, f # h, Registered(f)', Registered(h)'
        PROVE  /\ share'[f].root # share'[h].root
               /\ Overlap(share'[f].root, share'[h].root) => {f, h} \in together'
    <3>1. CASE f = g
      BY <1>3, <1>4, <2>1, <2>3, <3>1
    <3>2. CASE h = g
      <4>1. {g, f} = {f, g}
        OBVIOUS
      <4> QED
        BY <1>3, <1>4, <2>1, <2>2, <2>3, <3>2, <4>1
    <3>3. CASE f # g /\ h # g
      BY <1>3, <1>4, <2>3, <3>3 DEF RootsInv, RootsDisjoint
    <3> QED
      BY <3>1, <3>2, <3>3
  <2> QED
    BY <2>3 DEF RootsDisjoint, Overlap
<1> QED
  BY <1>6, <1>7, <1>9, <1>10, <1>11 DEF RootsInv, MeetInv, Overlap

LEMMA StepKeepsRoots ==
    ASSUME TypeOK, RootsInv, NEW w \in Worker, Step(w)
    PROVE  RootsInv'
<1>0. FolderOf(w) \in Folder /\ RootOf(w) \in Root
  BY RequestParts
<1>1. ASSUME NEW at \in At \ Creating, Go(w, at), UNCHANGED <<share, marker, together>>
      PROVE  RootsInv'
  BY <1>1, OneMoves, RootsKept DEF Registered
<1>2. CASE Validate(w) \/ Register(w) \/ CheckAccess(w)
  BY <1>1, <1>2 DEF Validate, Register, CheckAccess, End, At, Creating, files, history
<1>3. CASE CheckRoots(w)
  BY <1>3, CheckRootsKeeps
<1>4. CASE CreateDirectory(w)
  <2>1. CASE share[FolderOf(w)].stage = "none"
    <3>1. /\ share' = [share EXCEPT ![FolderOf(w)].stage = "directory"]
          /\ Go(w, "marker") /\ UNCHANGED <<marker, together>> /\ worker[w].at = "directory"
      BY <1>4, <2>1 DEF CreateDirectory, history
    <3>2. /\ share'[FolderOf(w)].stage = "directory"
          /\ \A f \in Folder : share'[f].root = share[f].root
          /\ \A f \in Folder \ {FolderOf(w)} : share'[f] = share[f]
      BY <1>0, <3>1 DEF TypeOK
    <3> QED
      BY <2>1, <3>1, <3>2, ProgressKeeps
  <2>2. CASE share[FolderOf(w)].stage # "none"
    BY <1>1, <1>4, <2>2 DEF CreateDirectory, End, At, Creating, history
  <2> QED
    BY <2>1, <2>2
<1>5. CASE CreateMarker(w)
  <2>1. CASE marker[RootOf(w)] = None
    <3>1. /\ share' = [share EXCEPT ![FolderOf(w)].stage = "marked"]
          /\ marker' = [marker EXCEPT ![RootOf(w)] = FolderOf(w)]
          /\ Go(w, "config") /\ together' = together /\ worker[w].at = "marker"
      BY <1>5, <2>1 DEF CreateMarker, history
    <3>2. /\ share'[FolderOf(w)].stage = "marked"
          /\ \A f \in Folder : share'[f].root = share[f].root
          /\ \A f \in Folder \ {FolderOf(w)} : share'[f] = share[f]
      BY <1>0, <3>1 DEF TypeOK
    <3>3. /\ marker'[RootOf(w)] = FolderOf(w)
          /\ \A a \in Root : marker[a] # None => marker'[a] = marker[a]
      BY <1>0, <2>1, <3>1 DEF TypeOK
    <3> QED
      BY <3>1, <3>2, <3>3, ProgressKeeps
  <2>2. CASE marker[RootOf(w)] # None
    BY <1>1, <1>5, <2>2 DEF CreateMarker, End, At, Creating, history
  <2> QED
    BY <2>1, <2>2
<1>6. CASE WriteConfig(w)
  BY <1>6, WriteConfigKeeps
<1>7. CASE CreateDatabase(w)
  <2>1. /\ share' = [share EXCEPT ![FolderOf(w)].stage = "ready"]
        /\ UNCHANGED <<marker, together>> /\ worker[w].at = "database"
        /\ Go(w, "trust") \/ Go(w, "idle")
    BY <1>7 DEF CreateDatabase, End, history
  <2>2. Registered(FolderOf(w))
    BY <2>1 DEF RootsInv, OwnerInv
  <2>3. /\ \A f \in Folder : Registered(f)' <=> Registered(f)
        /\ \A f \in Folder : share'[f].root = share[f].root
        /\ \A f \in Folder : share[f].stage # "none" => share'[f].stage # "none"
    BY <1>0, <2>1, <2>2 DEF Registered, TypeOK
  <2>4. \A v \in Worker : worker'[v].at \in Creating =>
           worker'[v].at = worker[v].at /\ worker'[v].request = worker[v].request
    BY <2>1, OneMoves DEF At, Creating
  <2>5. UNCHANGED <<marker, together>>
    BY <2>1
  <2> QED
    BY <2>3, <2>4, <2>5, RootsKept
<1>8. CASE TrustPeer(w)
  <2>1. trust[PeerOf(w)] \in {"none", "torn", "whole"}
    BY RequestParts DEF TypeOK
  <2> QED
    BY <1>1, <1>8, <2>1 DEF TrustPeer, End, At, Creating, files, history
<1>9. CASE CreateTrust(w) \/ WriteTrust(w) \/ GrantPeer(w)
  BY <1>1, <1>9 DEF CreateTrust, WriteTrust, GrantPeer, End, At, Creating, history
<1>10. CASE SaveDeployment(w) \/ SaveJob(w)
  BY <1>1, <1>10 DEF SaveDeployment, SaveJob, End, At, Creating, files
<1> QED
  BY <1>2, <1>3, <1>4, <1>5, <1>6, <1>7, <1>8, <1>9, <1>10 DEF Step

LEMMA NextKeepsRoots ==
    ASSUME TypeOK, RootsInv, [Next]_vars
    PROVE  RootsInv'
<1>1. ASSUME UNCHANGED <<share, marker, together, worker>> PROVE RootsInv'
  BY <1>1, RootsKept DEF Registered
<1>2. ASSUME NEW w \in Worker, NEW op \in Op, NEW r \in Requests, Begin(w, op, r)
      PROVE  RootsInv'
  <2> DEFINE at == CASE op = "deploy" -> "validate"
                      [] op = "save"   -> "access"
                      [] op = "create" -> "roots"
  <2>1. at \notin Creating
    BY DEF Op, Creating
  <2>2. worker' = [worker EXCEPT ![w] = [op |-> op, request |-> r, at |-> at]]
    BY <1>2 DEF Begin
  <2>3. /\ UNCHANGED <<share, marker, together>>
        /\ \A v \in Worker : v # w => worker'[v] = worker[v]
        /\ worker'[w].at \notin Creating
    <3> HIDE DEF at
    <3>1. UNCHANGED <<share, marker, together>>
      BY <1>2 DEF Begin, files, history
    <3>2. worker'[w] = [op |-> op, request |-> r, at |-> at]
      BY <2>2 DEF TypeOK
    <3>3. \A v \in Worker : v # w => worker'[v] = worker[v]
      BY <2>2 DEF TypeOK
    <3> QED
      BY <2>1, <3>1, <3>2, <3>3
  <2> QED
    BY <2>3, RootsKept DEF Registered
<1>3. ASSUME NEW w \in Worker, Step(w) PROVE RootsInv'
  BY <1>3, StepKeepsRoots
<1>4. ASSUME NEW j \in Job, NEW enabled \in BOOLEAN, SetEnabled(j, enabled) PROVE RootsInv'
  BY <1>1, <1>4 DEF SetEnabled, files
<1>5. ASSUME NEW f \in Folder, NEW p \in Peer, Revoke(f, p) PROVE RootsInv'
  BY <1>1, <1>5 DEF Revoke, history
<1>6. CASE Tick
  BY <1>1, <1>6 DEF Tick, files, history
<1>7. ASSUME NEW j \in Job, ChildEnds(j) \/ Retry(j) PROVE RootsInv'
  BY <1>1, <1>7 DEF ChildEnds, Retry, files, history
<1>8. CASE Stop
  <2>1. \A v \in Worker : worker'[v].at \notin Creating
    BY <1>8 DEF Stop, Idle, Creating
  <2> QED
    BY <1>8, <2>1, RootsKept DEF Stop, files, history, Registered
<1>9. CASE Start \/ UNCHANGED vars
  BY <1>1, <1>9 DEF Start, vars, files, history
<1> QED
  BY <1>2, <1>3, <1>4, <1>5, <1>6, <1>7, <1>8, <1>9 DEF Next
-----------------------------------------------------------------------------
(* Theorems *)

LEMMA InitHolds == Init => Inv
<1> SUFFICES ASSUME Init PROVE Inv
  OBVIOUS
<1>1. \A f \in Folder : ~Registered(f)
  BY DEF Init, Registered
<1>2. \A w \in Worker : worker[w].at = "idle"
  BY DEF Init, Idle
<1>3. RootsInv
  BY <1>1, <1>2 DEF RootsInv, MarkerInv, OwnerInv, MeetInv, RootsDisjoint,
                    Creating, Owning, Unregistered
<1>4. DeploymentsYield /\ ChildrenFollowJobs
  BY DEF Init, DeploymentsYield, ChildrenFollowJobs
<1> QED
  BY <1>3, <1>4, InitTyped DEF Inv

LEMMA InvHolds == Spec => []Inv
<1>1. Inv /\ [Next]_vars => Inv'
  BY NextTyped, NextKeepsRoots, YieldNext, ChildrenNext DEF Inv
<1> QED
  BY <1>1, InitHolds, PTL DEF Spec

(* Every variable of the manager keeps its type. *)
THEOREM TypeCorrect == Spec => []TypeOK
<1>1. Inv => TypeOK
  BY DEF Inv
<1> QED
  BY <1>1, InvHolds, PTL

(* Share::create: no root is given to two shares, and overlapping roots only to
   shares whose registrations met. *)
THEOREM OverlapsMet == Spec => []RootsDisjoint
<1>1. Inv => RootsDisjoint
  BY DEF Inv, RootsInv
<1> QED
  BY <1>1, InvHolds, PTL

(* save_deployment: no deployment overrides what a person said of a job, or takes
   a port. *)
THEOREM DeploymentsAlwaysYield == Spec => []DeploymentsYield
<1>1. Inv => DeploymentsYield
  BY DEF Inv
<1> QED
  BY <1>1, InvHolds, PTL

(* jobs.rs: no child runs what its job no longer says. *)
THEOREM ChildrenAlwaysFollow == Spec => []ChildrenFollowJobs
<1>1. Inv => ChildrenFollowJobs
  BY DEF Inv
<1> QED
  BY <1>1, InvHolds, PTL
===============================================================================
