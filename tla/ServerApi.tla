----------------------------- MODULE ServerApi -----------------------------
(***************************************************************************)
(* src/handler/server: the create, delete, scale and patch routes of       *)
(* /api/v1/server, run by concurrent requests over the shared              *)
(* KubernetesService and the server table of the database.                 *)
(*                                                                         *)
(* A request is a goroutine: pc[r] is its next step, named for the call it *)
(* makes, and one step makes one call to the database, to Kubernetes or to *)
(* the shared action list.  It starts after AuthMiddleware, whose          *)
(* AuthUser reads the user and the user's servers: the handler decides on  *)
(* that copy.  A request at rest holds the status code it answered.        *)
(***************************************************************************)
EXTENDS KubernetesService

CONSTANTS
    RowIds,       \* primary keys of the server table
    RetrySteps,   \* attempts of retry.DefaultRetry (5 in client-go)
    MaxFaults,    \* bound: failing external calls and process restarts
    OneAtATime,   \* TRUE: clients take turns. Nothing in the code enforces it.
    Ops,          \* bound: the routes that clients call
    Repeated      \* bound: the routes that they call again and again

ASSUME ConstantsAssumption ==
    /\ RetrySteps \in Nat \ {0}
    /\ MaxFaults \in Nat
    /\ OneAtATime \in BOOLEAN
    /\ Repeated \subseteq Ops
    /\ Ops \subseteq {"create", "delete", "scale", "patch"}

VARIABLE rows     \* the server table

vars == <<pvc, dep, actions, pc, frame, upToDate, faults, rows>>

-----------------------------------------------------------------------------
(* A row names the PVC and the Deployment that ApplyResources reported     *)
Row == [id : RowIds, user : Users, pvcName : Name, deploymentName : Name,
        state : {"RUNNING", "TERMINATED"}, world : Worlds]

Answers == {"idle", "200", "400", "500", "aborted"}
CreateLabels == {"doesPvcExist", "getPvc", "clearFinalizers", "deletePvc",
                 "apply", "applying", "insertRow", "saveUser"}
QueueLabels  == {"loadFirst", "storeFirst", "loadSecond", "storeSecond",
                 "rollback", "rolling"}
UpdateLabels == {"getDeployment", "updateDeployment", "findServer",
                 "getScale", "updateScale", "saveRow"}
Labels == Answers \cup CreateLabels \cup QueueLabels \cup UpdateLabels \cup {"deleteRows"}

Frame == [op       : {"none", "create", "delete", "scale", "patch"},
          user     : Users \cup {None},
          world    : Worlds \cup {None},    \* of the request body
          replicas : {0, 1},                \* of the request body
          todo     : Seq(Action),           \* slice loaded from actions
          names    : Seq(Name),             \* result of ApplyResources
          server   : SUBSET Row,            \* local copy of the row, if any
          tries    : 0 .. RetrySteps]       \* attempts left

EmptyFrame == [op |-> "none", user |-> None, world |-> None, replicas |-> 0,
               todo |-> <<>>, names |-> <<>>, server |-> {}, tries |-> 0]

AtRest(r) == pc[r] \in Answers

ServersOf(u) == {s \in rows : s.user = u}

(* A primary key that neither the table nor a request's copy uses          *)
UsedIds == {s.id : s \in rows \cup UNION {frame[r].server : r \in Requests}}
FreshIds == RowIds \ UsedIds
FreshId  == CHOOSE id \in FreshIds : TRUE

(* The row create inserts when ApplyResources works on the user's own      *)
(* objects only                                                            *)
OwnRow(id, u, state, w) ==
    [id |-> id, user |-> u, pvcName |-> PvcName(u), deploymentName |-> DeploymentName(u),
     state |-> state, world |-> w]

Replicas(s) == IF s.state = "RUNNING" THEN 1 ELSE 0

(* The process starts over what earlier requests left: some users have a   *)
(* server, running or scaled down.                                         *)
Init ==
    /\ \E owners \in SUBSET Users :
       \E id \in [owners -> RowIds], state \in [owners -> {"RUNNING", "TERMINATED"}],
          world \in [owners -> Worlds] :
          /\ \A u, v \in owners : u # v => id[u] # id[v]
          /\ rows = {OwnRow(id[u], u, state[u], world[u]) : u \in owners}
    /\ pvc = [u \in Users |-> IF ServersOf(u) = {} THEN "none" ELSE "bound"]
    /\ dep = [u \in Users |-> {[replicas |-> Replicas(s), args |-> s.world] : s \in ServersOf(u)}]
    /\ actions = <<>>
    /\ pc = [r \in Requests |-> "idle"]
    /\ frame = [r \in Requests |-> EmptyFrame]
    /\ upToDate = {}
    /\ faults = MaxFaults

-----------------------------------------------------------------------------
(* Beginning and end of a request                                          *)

(* An element of Requests serves one request, and then those that come     *)
(* again and again.                                                        *)
Accepting(r, op) ==
    /\ pc[r] = "idle" \/ (op \in Repeated /\ AtRest(r))
    /\ OneAtATime => \A q \in Requests : AtRest(q)

Begin(r, label, f) ==
    /\ Goto(r, label)
    /\ frame' = [frame EXCEPT ![r] = f]
    /\ UNCHANGED <<pvc, dep, actions, upToDate, faults, rows>>

Answer(r, code) ==
    /\ Goto(r, code)
    /\ frame' = [frame EXCEPT ![r] = EmptyFrame]
    /\ upToDate' = upToDate \ {r}

Refuse(r) ==
    /\ Answer(r, "400")
    /\ UNCHANGED <<pvc, dep, actions, faults, rows>>

(* GetSubscriptionLimits fails, or backup_count is missing and reading     *)
(* *reqBody.BackupCount panics: nothing has been touched yet.              *)
LimitsFail(r) ==
    /\ \/ Fault /\ Answer(r, "500")
       \/ NoFault /\ Answer(r, "aborted")
    /\ UNCHANGED <<pvc, dep, actions, rows>>

(* Mutation: create does not look for an existing server.                  *)
CreateServerUnguarded(r, u, w) ==
    /\ Accepting(r, "create")
    /\ Begin(r, "doesPvcExist",
             [EmptyFrame EXCEPT !.op = "create", !.user = u, !.world = w])

CreateServer(r, u, w) ==
    /\ Accepting(r, "create")
    /\ IF ServersOf(u) # {}
       THEN Refuse(r)
       ELSE \/ LimitsFail(r)
            \/ Begin(r, "doesPvcExist",
                     [EmptyFrame EXCEPT !.op = "create", !.user = u, !.world = w])

DeleteServer(r, u) ==
    /\ Accepting(r, "delete")
    /\ Begin(r, "loadFirst", [EmptyFrame EXCEPT !.op = "delete", !.user = u])

(* Servers[0] of the copy: the order of the rows is the database's choice. *)
ScaleServer(r, u, n) ==
    /\ Accepting(r, "scale")
    /\ \/ ServersOf(u) = {} /\ Refuse(r)
       \/ \E s \in ServersOf(u) :
             IF s.state = (IF n = 1 THEN "RUNNING" ELSE "TERMINATED")
             THEN Refuse(r)
             ELSE Begin(r, "getDeployment",
                        [EmptyFrame EXCEPT !.op = "scale", !.user = u, !.replicas = n,
                                           !.server = {s}, !.tries = RetrySteps])

(* The guard refuses the users who have a server.                          *)
PatchServer(r, u, w) ==
    /\ Accepting(r, "patch")
    /\ IF ServersOf(u) # {}
       THEN Refuse(r)
       ELSE \/ LimitsFail(r)
            \/ Begin(r, "getDeployment",
                     [EmptyFrame EXCEPT !.op = "patch", !.user = u, !.world = w])

(* The calls whose error the handler answers with a 500                    *)
CheckedCalls == {"getPvc", "clearFinalizers", "deletePvc", "insertRow", "saveUser",
                 "deleteRows", "getDeployment", "updateDeployment", "getScale",
                 "updateScale", "saveRow"}

CallFails(r) ==
    /\ pc[r] \in CheckedCalls
    /\ Fault
    /\ Answer(r, "500")
    /\ UNCHANGED <<pvc, dep, actions, rows>>

-----------------------------------------------------------------------------
(* Create: CreateDedicatedServerDeployment, then the database              *)

RemoveOldPvc(r) ==
    /\ \/ pc[r] = "doesPvcExist" /\ DoesPvcExist(r, "getPvc", "loadFirst")
       \/ pc[r] = "getPvc" /\ GetPvc(r, "clearFinalizers", "deletePvc", "loadFirst")
       \/ pc[r] = "clearFinalizers" /\ ClearFinalizers(r, "deletePvc")
       \/ pc[r] = "deletePvc" /\ DeletePvc(r, "loadFirst")
    /\ UNCHANGED rows

(* The PVC changed between Get and Update.                                 *)
ClearFinalizersConflict(r) ==
    /\ pc[r] = "clearFinalizers"
    /\ r \notin upToDate
    /\ Answer(r, "500")
    /\ UNCHANGED <<pvc, dep, actions, faults, rows>>

(* Mutation: create queues the Deployment before the PVC.                  *)
QueuedDeploymentFirst(f) ==
    IF f.op = "create"
    THEN <<DeploymentAction(f.user, f.world), PVCAction(f.user, f.world)>>
    ELSE <<DeploymentAction(f.user, None), PVCAction(f.user, None)>>

(* What create and delete queue, in this order                             *)
Queued(f) ==
    IF f.op = "create"
    THEN <<PVCAction(f.user, f.world), DeploymentAction(f.user, f.world)>>
    ELSE <<DeploymentAction(f.user, None), PVCAction(f.user, None)>>

AddActions(r) ==
    /\ \/ pc[r] = "loadFirst"   /\ LoadActions(r, "storeFirst")
       \/ pc[r] = "storeFirst"  /\ StoreAction(r, Queued(frame[r])[1], "loadSecond")
       \/ pc[r] = "loadSecond"  /\ LoadActions(r, "storeSecond")
       \/ pc[r] = "storeSecond" /\ StoreAction(r, Queued(frame[r])[2],
                                     IF frame[r].op = "create" THEN "apply" ELSE "rollback")
    /\ UNCHANGED rows

ApplyResources(r) ==
    /\ \/ pc[r] = "apply" /\ ApplyStart(r, "applying")
       \/ pc[r] = "applying" /\ \/ ApplyOne(r)
                                \/ ApplyFails(r, "rollback")
                                \/ ApplyReturns(r, "insertRow")
    /\ UNCHANGED rows

Rollback(r) ==
    /\ \/ pc[r] = "rollback" /\ RollbackStart(r, "rolling")
       \/ pc[r] = "rolling" /\ \/ RollbackOne(r)
                               \/ frame[r].op = "create" /\ RollbackReturns(r, "applying")
                               \/ frame[r].op = "delete" /\ RollbackReturns(r, "deleteRows")
    /\ UNCHANGED rows

(* db.Create, unless ApplyResources returned fewer or more than two names. *)
InsertRow(r) ==
    LET f == frame[r]
        s == [id |-> FreshId, user |-> f.user, pvcName |-> f.names[1],
              deploymentName |-> f.names[2], state |-> "RUNNING", world |-> f.world]
    IN
    /\ pc[r] = "insertRow"
    /\ \/ /\ Len(f.names) # 2
          /\ Answer(r, "500")
          /\ UNCHANGED rows
       \/ /\ Len(f.names) = 2
          /\ FreshIds # {}
          /\ rows' = rows \cup {s}
          /\ frame' = [frame EXCEPT ![r].server = {s}]
          /\ Goto(r, "saveUser")
          /\ UNCHANGED upToDate
    /\ UNCHANGED <<pvc, dep, actions, faults>>

(* db.Save of the user saves the associated server too.  If a delete has   *)
(* removed the row meanwhile, a soft-deleted row stays deleted and a       *)
(* removed one is inserted again: the table's schema is not in this        *)
(* repository, so both are possible.                                       *)
SaveUser(r) ==
    /\ pc[r] = "saveUser"
    /\ \/ UNCHANGED rows
       \/ rows' = rows \cup {s \in frame[r].server : \A t \in rows : t.id # s.id}
    /\ Answer(r, "200")
    /\ UNCHANGED <<pvc, dep, actions, faults>>

-----------------------------------------------------------------------------
(* Delete: after Rollback, whose error is always nil                       *)

(* Mutation: the condition of the DELETE matches no row.                   *)
DeleteNoRows(r) ==
    /\ pc[r] = "deleteRows"
    /\ Answer(r, "200")
    /\ UNCHANGED <<pvc, dep, actions, faults, rows>>

DeleteRows(r) ==
    /\ pc[r] = "deleteRows"
    /\ rows' = rows \ ServersOf(frame[r].user)
    /\ Answer(r, "200")
    /\ UNCHANGED <<pvc, dep, actions, faults>>

-----------------------------------------------------------------------------
(* Scale and patch: UpdateServerArgs and PatchServerDeployment read the    *)
(* Deployment, replace the container arguments and update it               *)

GetDeployment(r) ==
    /\ pc[r] = "getDeployment"
    /\ IF dep[frame[r].user] = {}
       THEN Answer(r, "500")
       ELSE /\ Goto(r, "updateDeployment")
            /\ upToDate' = upToDate \cup {r}
            /\ UNCHANGED frame
    /\ UNCHANGED <<pvc, dep, actions, faults, rows>>

(* Scale writes the arguments of its copy of the row, patch those of the   *)
(* request.                                                                *)
NewArgs(f) == IF f.op = "scale" THEN (CHOOSE s \in f.server : TRUE).world ELSE f.world

(* The update replaces the version that was read, or fails with a conflict *)
UpdateDeployment(r) ==
    LET f == frame[r] IN
    /\ pc[r] = "updateDeployment"
    /\ IF r \in upToDate
       THEN /\ dep' = [dep EXCEPT ![f.user] = {[d EXCEPT !.args = NewArgs(f)] : d \in @}]
            /\ Written("deployment", f.user)
            /\ Goto(r, IF f.op = "scale" THEN "getScale" ELSE "findServer")
            /\ UNCHANGED frame
       ELSE Answer(r, "500") /\ UNCHANGED dep
    /\ UNCHANGED <<pvc, actions, faults, rows>>

(* Patch searches its copy of the user's servers, which the guard of       *)
(* PatchServer has left empty: the save below the search is unreachable.   *)
FindServer(r) == pc[r] = "findServer" /\ Refuse(r)

-----------------------------------------------------------------------------
(* Scale: RetryOnConflict around GetScale and UpdateScale, then the row    *)

GetScale(r) ==
    /\ pc[r] = "getScale"
    /\ IF dep[frame[r].user] = {}
       THEN Answer(r, "500")
       ELSE /\ Goto(r, "updateScale")
            /\ upToDate' = upToDate \cup {r}
            /\ UNCHANGED frame
    /\ UNCHANGED <<pvc, dep, actions, faults, rows>>

(* Mutation: the scale that was read is written back as it is.             *)
UpdateScaleUnchanged(r) ==
    /\ pc[r] = "updateScale"
    /\ r \in upToDate
    /\ Written("deployment", frame[r].user)
    /\ Goto(r, "saveRow")
    /\ UNCHANGED <<pvc, dep, actions, frame, faults, rows>>

UpdateScale(r) ==
    LET f == frame[r] IN
    /\ pc[r] = "updateScale"
    /\ r \in upToDate
    /\ dep' = [dep EXCEPT ![f.user] = {[d EXCEPT !.replicas = f.replicas] : d \in @}]
    /\ Written("deployment", f.user)
    /\ Goto(r, "saveRow")
    /\ UNCHANGED <<pvc, actions, frame, faults, rows>>

(* Mutation: a conflict does not use up an attempt.                        *)
ScaleConflictForever(r) ==
    /\ pc[r] = "updateScale"
    /\ IF r \in upToDate THEN Fault ELSE NoFault
    /\ Goto(r, "getScale")
    /\ UNCHANGED <<pvc, dep, actions, frame, upToDate, rows>>

(* Someone else updated the Deployment, or (a fault) its controller did.   *)
(* If it has been deleted there is nothing to retry.                       *)
ScaleConflict(r) ==
    /\ pc[r] = "updateScale"
    /\ IF r \in upToDate THEN Fault ELSE NoFault
    /\ IF frame[r].tries = 1 \/ dep[frame[r].user] = {}
       THEN Answer(r, "500")
       ELSE /\ frame' = [frame EXCEPT ![r].tries = @ - 1]
            /\ Goto(r, "getScale")
            /\ UNCHANGED upToDate
    /\ UNCHANGED <<pvc, dep, actions, rows>>

StateOf(n) == IF n = 1 THEN "RUNNING" ELSE "TERMINATED"

(* db.Save of the local copy writes every column, and inserts the row when *)
(* it is gone.                                                             *)
SaveRow(r) ==
    LET f == frame[r]
        saved == {[s EXCEPT !.state = StateOf(f.replicas)] : s \in f.server}
    IN
    /\ pc[r] = "saveRow"
    /\ rows' = {t \in rows : \A s \in f.server : t.id # s.id} \cup saved
    /\ Answer(r, "200")
    /\ UNCHANGED <<pvc, dep, actions, faults>>

-----------------------------------------------------------------------------
(* The process restarts: requests in flight and the action list are lost.  *)
Restart ==
    /\ Fault
    /\ \E r \in Requests : ~AtRest(r)
    /\ pc' = [r \in Requests |-> IF AtRest(r) THEN pc[r] ELSE "aborted"]
    /\ frame' = [r \in Requests |-> EmptyFrame]
    /\ upToDate' = {}
    /\ actions' = <<>>
    /\ UNCHANGED <<pvc, dep, rows>>

Arrive(r) ==
    \E u \in Users :
        \/ "create" \in Ops /\ \E w \in Worlds : CreateServer(r, u, w)
        \/ "delete" \in Ops /\ DeleteServer(r, u)
        \/ "scale" \in Ops /\ \E n \in {0, 1} : ScaleServer(r, u, n)
        \/ "patch" \in Ops /\ \E w \in Worlds : PatchServer(r, u, w)

Work(r) ==
    \/ RemoveOldPvc(r)
    \/ ClearFinalizersConflict(r)
    \/ AddActions(r)
    \/ ApplyResources(r)
    \/ Rollback(r)
    \/ InsertRow(r)
    \/ SaveUser(r)
    \/ DeleteRows(r)
    \/ GetDeployment(r)
    \/ UpdateDeployment(r)
    \/ FindServer(r)
    \/ GetScale(r)
    \/ UpdateScale(r)
    \/ ScaleConflict(r)
    \/ SaveRow(r)
    \/ CallFails(r)

Background ==
    \E u \in Users : (FinishPvcDeletion(u) \/ RestoreFinalizer(u)) /\ UNCHANGED rows

Next ==
    \/ \E r \in Requests : Arrive(r) \/ Work(r)
    \/ Background
    \/ Restart

Spec == Init /\ [][Next]_vars

-----------------------------------------------------------------------------
TypeOK ==
    /\ pvc \in [Users -> PvcStates]
    /\ dep \in [Users -> SUBSET Deployment]
    /\ actions \in Seq(Action)
    /\ pc \in [Requests -> Labels]
    /\ frame \in [Requests -> Frame]
    /\ upToDate \subseteq Requests
    /\ faults \in 0 .. MaxFaults
    /\ rows \subseteq Row

-----------------------------------------------------------------------------
(* Properties that hold however requests overlap                           *)

(* When no request is in flight the shared list is empty, so that no       *)
(* request ever applies or deletes what a finished one queued: every path  *)
(* that queues an action ends by dropping the list, whatever the lost      *)
(* updates of the unsynchronised appends and the failures on the way.      *)
QueueDrained == (\A r \in Requests : AtRest(r)) => actions = <<>>

(* Every request is answered.  The retry loop of scale ends although other *)
(* requests keep updating the Deployment, and no handler waits for another.*)
EveryRequestAnswered == \A r \in Requests : ~AtRest(r) ~> AtRest(r)

(* Steps between queueing an action and dropping the list                  *)
Queueing(r) == pc[r] \in {"loadSecond", "storeSecond", "apply", "applying",
                          "rollback", "rolling"}

(* Why QueueDrained holds: while the list is not empty, some request is on *)
(* its way to dropping it.                                                 *)
QueueInv == actions # <<>> => \E r \in Requests : Queueing(r)

(* What a request's label says of its local variables                      *)
Fits(label, f) ==
    /\ label \notin Answers => f.user \in Users
    /\ label \in CreateLabels => f.op = "create"
    /\ label \in QueueLabels => f.op \in {"create", "delete"}
    /\ label \in UpdateLabels => f.op \in {"scale", "patch"}
    /\ label \in {"getScale", "updateScale", "saveRow"} => f.op = "scale"
    /\ f.op \in {"create", "patch"} => f.world \in Worlds
    /\ f.op = "scale" => f.server # {} /\ f.tries > 0

ControlInv == \A r \in Requests : Fits(pc[r], frame[r])

-----------------------------------------------------------------------------
(* Properties of clients that take turns                                   *)

(* "Deployments & PVC are always tied to the discord ID": a row names the  *)
(* objects of its own user.                                                *)
OwnResources ==
    \A s \in rows : s.pvcName = PvcName(s.user) /\ s.deploymentName = DeploymentName(s.user)

(* A user's Deployment, rows and PVC change only while a request of that   *)
(* user is in flight: nothing a request left behind in the shared list     *)
(* strikes another user later.  Kubernetes may end the deletion of a PVC   *)
(* and put its finalizer back at any time.                                 *)
OthersUntouched ==
    [][\A u \in Users :
          \/ dep'[u] # dep[u]
          \/ {s \in rows' : s.user = u} # ServersOf(u)
          \/ /\ pvc'[u] # pvc[u]
             /\ <<pvc[u], pvc'[u]>> \notin {<<"terminating", "none">>, <<"bare", "bound">>}
          => \E r \in Requests : frame[r].user = u]_vars

(* The answer 200 to create or scale is the truth: the user then has one   *)
(* row, its Deployment runs with the replicas and arguments of the row,    *)
(* and its PVC is there after a create.                                    *)
Agrees(s) == dep[s.user] = {[replicas |-> Replicas(s), args |-> s.world]}

SuccessIsReal ==
    [][\A r \in Requests :
          LET u == frame[r].user IN
          frame[r].op \in {"create", "scale"} /\ pc'[r] = "200" =>
              /\ \E s \in rows' : {t \in rows' : t.user = u} = {s} /\ Agrees(s)'
              /\ frame[r].op = "create" => pvc'[u] = "bound"]_vars

(* As long as nothing fails, the table and the cluster agree whenever no   *)
(* request is in flight: a user with a row has exactly the Deployment it   *)
(* describes and a PVC, a user without one has neither.                    *)
FaultlessConsistency ==
    faults = MaxFaults /\ (\A r \in Requests : AtRest(r)) =>
        \A u \in Users :
            IF ServersOf(u) = {}
            THEN dep[u] = {} /\ pvc[u] \in {"none", "terminating"}
            ELSE pvc[u] = "bound" /\ \A s \in ServersOf(u) : Agrees(s)

(* A user's Deployment, if there is one, has the arguments that the user's *)
(* row says, at every moment and whatever fails: not those of a create     *)
(* that came to nothing, of a patch, or of a scale that failed half-way    *)
(* (UpdateServerArgs comes before the scale and outside of its retry).     *)
ArgumentsAgree ==
    \A u \in Users : \A s \in ServersOf(u), d \in dep[u] : d.args = s.world

(* The routes implement the lifecycle, failures and restarts included: the *)
(* cluster changes first and the row records it.                           *)
Lifecycle == INSTANCE ServerLifecycle WITH
    state <- [u \in Users |-> IF ServersOf(u) = {} THEN "none"
                              ELSE (CHOOSE s \in ServersOf(u) : TRUE).state],
    live  <- [u \in Users |-> CASE dep[u] = {} -> "gone"
                                [] \E d \in dep[u] : d.replicas = 1 -> "up"
                                [] OTHER -> "down"]

RowFollowsCluster == Lifecycle!Spec

(* A user whose creates keep arriving gets a server, whatever a crash or a *)
(* failed call left in the cluster: a create that meets a leftover object  *)
(* fails, but its rollback removes the leftover for the next one.          *)
CreateEventuallyWorks == \A u \in Users : []<>(ServersOf(u) # {})

-----------------------------------------------------------------------------
(* Fairness: a goroutine runs until it answers, and the calls it makes     *)
(* return; Kubernetes finishes the deletions it has accepted.              *)
FairSpec ==
    /\ Spec
    /\ \A r \in Requests : WF_vars(Work(r))
    /\ \A u \in Users : WF_vars(FinishPvcDeletion(u) /\ UNCHANGED rows)

(* A user without a server asks for one again and again, with a valid body.*)
ValidCreate(u) ==
    \E r \in Requests, w \in Worlds : CreateServer(r, u, w) /\ pc'[r] = "doesPvcExist"

RetrySpec == FairSpec /\ \A u \in Users : SF_vars(ValidCreate(u))

-----------------------------------------------------------------------------
(* What comments in the code say, and the code does not do                 *)

(* delete_server_handler.go: "Delete deployment and pvc before updating    *)
(* cognito to avoid a scenario where the user could spin up more than 1    *)
(* src if their cognito gets updated but src deletion fails": the row is   *)
(* deleted only when the Deployment is gone.                               *)
RowOutlivesDeployment ==
    [][\A r \in Requests : pc[r] = "deleteRows" /\ pc'[r] = "200" => dep[frame[r].user] = {}]_vars

(* kubernetes.go: "When 1 resource fails to apply rollback all resources   *)
(* to preserve cluster state": the rollback of a create deletes only what  *)
(* that create applied.                                                    *)
RollbackPreservesCluster ==
    [][\A r \in Requests :
          frame[r].op = "create" /\ pc[r] = "rolling" /\ pc'[r] = "rolling" =>
              \A u \in Users : dep[u] # {} /\ dep'[u] = {} =>
                  \E i \in 1 .. Len(frame[r].names) : frame[r].names[i] = DeploymentName(u)]_vars

(* patch_server_handler.go refuses with "server does not exists for user": *)
(* the users so refused have no server.                                    *)
PatchRefusalIsTrue ==
    [][\A r \in Requests, u \in Users, w \in Worlds :
          PatchServer(r, u, w) /\ pc'[r] = "400" => ServersOf(u) = {}]_vars
=============================================================================
