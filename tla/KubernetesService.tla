------------------------- MODULE KubernetesService -------------------------
(***************************************************************************)
(* src/service/kubernetes.go: the one KubernetesServiceImpl of the         *)
(* process, shared by every request handler, and the objects it keeps in   *)
(* the cluster.                                                            *)
(*                                                                         *)
(* Each user owns at most one PersistentVolumeClaim (valheim-pvc-<id>) and *)
(* one Deployment (valheim-<id>).  Handlers queue ResourceActions on the   *)
(* service's slice with AddAction and then call ApplyResources or          *)
(* Rollback, which range over that slice.  Nothing in the code locks it:   *)
(* each load and each store of the slice is a step of its own here, and so *)
(* is each call to the Kubernetes API.                                     *)
(*                                                                         *)
(* A method's steps take the label of the caller's next step, so that the  *)
(* handlers of ServerApi can be put together from them.                    *)
(***************************************************************************)
EXTENDS Naturals, Sequences

CONSTANTS
    Users,      \* discord ids
    Worlds,     \* distinct container arguments (WorldDetails.ToStringArgs)
    Requests,   \* goroutines that serve HTTP requests
    None        \* a value that is neither a user nor a world

ASSUME NoneAssumption == None \notin Users /\ None \notin Worlds

VARIABLES
    pvc,        \* pvc[u]: state of the user's PersistentVolumeClaim
    dep,        \* dep[u]: the user's Deployment, a set of at most one record
    actions,    \* KubernetesServiceImpl.ResourceActions
    pc,         \* pc[r]: the next step of request r, or its answer
    frame,      \* frame[r]: the local variables of request r
    upToDate,   \* requests holding the current version of the object they read
    faults      \* external calls that may still fail, process restarts included

kubeVars == <<pvc, dep, actions, pc, frame, upToDate, faults>>

-----------------------------------------------------------------------------
(* A PVC that "terminating" marks has a deletionTimestamp and waits for    *)
(* its finalizer; a "bare" one has lost its finalizers and is not deleted. *)
PvcStates == {"none", "bound", "bare", "terminating"}

Deployment == [replicas : {0, 1}, args : Worlds]

(* A ResourceAction, and the name of the object it creates or deletes.     *)
(* Delete queues objects with a name only: their spec is None, and the API *)
(* server refuses to create them.                                          *)
Action == [kind : {"pvc", "deployment"}, user : Users, spec : Worlds \cup {None}]
Name   == [kind : {"pvc", "deployment"}, user : Users]

PVCAction(u, w)        == [kind |-> "pvc", user |-> u, spec |-> w]
DeploymentAction(u, w) == [kind |-> "deployment", user |-> u, spec |-> w]

NameOf(a)         == [kind |-> a.kind, user |-> a.user]
PvcName(u)        == [kind |-> "pvc", user |-> u]
DeploymentName(u) == [kind |-> "deployment", user |-> u]

-----------------------------------------------------------------------------
(* Control of a request                                                    *)

Goto(r, label) == pc' = [pc EXCEPT ![r] = label]

(* A call to an external system fails and has no effect.                   *)
Fault   == faults > 0 /\ faults' = faults - 1
NoFault == UNCHANGED faults

(* A write to an object outdates the copies requests have read of it: the  *)
(* resourceVersion of the API server, without the numbers.  Create reads   *)
(* the PVC, scale and patch read the Deployment.                           *)
Copied(r) == IF frame[r].op = "create" THEN "pvc" ELSE "deployment"
Written(kind, u) ==
    upToDate' = {q \in upToDate : ~(frame[q].user = u /\ Copied(q) = kind)}

-----------------------------------------------------------------------------
(* DoesPvcExist and RemoveFinalizersAndDelete, called by create            *)

(* An error of the lookup counts as "does not exist".                      *)
DoesPvcExist(r, found, absent) ==
    /\ \/ pvc[frame[r].user] # "none" /\ NoFault /\ Goto(r, found)
       \/ pvc[frame[r].user] = "none" /\ NoFault /\ Goto(r, absent)
       \/ Fault /\ Goto(r, absent)
    /\ UNCHANGED <<pvc, dep, actions, frame, upToDate>>

GetPvc(r, clear, delete, absent) ==
    /\ NoFault
    /\ LET state == pvc[frame[r].user] IN
          Goto(r, CASE state = "none" -> absent
                    [] state = "bare" -> delete
                    [] OTHER          -> clear)
    /\ upToDate' = IF pvc[frame[r].user] = "none" THEN upToDate ELSE upToDate \cup {r}
    /\ UNCHANGED <<pvc, dep, actions, frame>>

(* Update of the PVC read before: it fails when the PVC has changed since. *)
(* Without finalizers a PVC marked for deletion goes away.                 *)
ClearFinalizers(r, next) ==
    LET u == frame[r].user IN
    /\ r \in upToDate
    /\ NoFault
    /\ pvc' = [pvc EXCEPT ![u] = IF @ = "terminating" THEN "none" ELSE "bare"]
    /\ Written("pvc", u)
    /\ Goto(r, next)
    /\ UNCHANGED <<dep, actions, frame>>

(* The API server's Delete of a PVC: a finalizer delays it.                *)
AfterDelete(state) == IF state \in {"bound", "terminating"} THEN "terminating" ELSE "none"

DeletePvc(r, next) ==
    LET u == frame[r].user IN
    /\ NoFault
    /\ pvc' = [pvc EXCEPT ![u] = AfterDelete(@)]
    /\ Written("pvc", u)
    /\ Goto(r, next)
    /\ UNCHANGED <<dep, actions, frame>>

-----------------------------------------------------------------------------
(* AddAction: append loads the slice and stores the longer one             *)

LoadActions(r, next) ==
    /\ frame' = [frame EXCEPT ![r].todo = actions]
    /\ Goto(r, next)
    /\ UNCHANGED <<pvc, dep, actions, upToDate, faults>>

StoreAction(r, a, next) ==
    /\ actions' = Append(frame[r].todo, a)
    /\ frame' = [frame EXCEPT ![r].todo = <<>>]
    /\ Goto(r, next)
    /\ UNCHANGED <<pvc, dep, upToDate, faults>>

-----------------------------------------------------------------------------
(* ApplyResources                                                          *)

(* The range clause copies the slice once, before the first iteration.     *)
ApplyStart(r, next) ==
    /\ frame' = [frame EXCEPT ![r].todo = actions, ![r].names = <<>>]
    /\ Goto(r, next)
    /\ UNCHANGED <<pvc, dep, actions, upToDate, faults>>

Exists(a) == IF a.kind = "pvc" THEN pvc[a.user] # "none" ELSE dep[a.user] # {}

(* Mutation: the API server takes objects without a spec.                  *)
CreatableUnspecified(a) == ~Exists(a)

Creatable(a) == a.spec # None /\ ~Exists(a)

CreateObject(a) ==
    IF a.kind = "pvc"
    THEN pvc' = [pvc EXCEPT ![a.user] = "bound"] /\ UNCHANGED dep
    ELSE /\ dep' = [dep EXCEPT ![a.user] = {[replicas |-> 1, args |-> a.spec]}]
         /\ UNCHANGED pvc

(* Mutation: an object that exists already counts as created.              *)
ApplyOneFound(r) ==
    LET a == Head(frame[r].todo) IN
    /\ frame[r].todo # <<>>
    /\ a.spec # None
    /\ NoFault
    /\ IF Exists(a)
       THEN UNCHANGED <<pvc, dep, upToDate>>
       ELSE CreateObject(a) /\ Written(a.kind, a.user)
    /\ frame' = [frame EXCEPT ![r].todo = Tail(@), ![r].names = Append(@, NameOf(a))]
    /\ UNCHANGED <<actions, pc>>

ApplyOne(r) ==
    LET a == Head(frame[r].todo) IN
    /\ frame[r].todo # <<>>
    /\ Creatable(a)
    /\ NoFault
    /\ CreateObject(a)
    /\ Written(a.kind, a.user)
    /\ frame' = [frame EXCEPT ![r].todo = Tail(@), ![r].names = Append(@, NameOf(a))]
    /\ UNCHANGED <<actions, pc>>

(* Mutation: the failed resource is counted among the applied ones.        *)
ApplyFailsCounted(r, rollback) ==
    /\ frame[r].todo # <<>>
    /\ \/ ~Creatable(Head(frame[r].todo)) /\ NoFault
       \/ Fault
    /\ frame' = [frame EXCEPT ![r].todo = <<>>,
                             ![r].names = Append(@, NameOf(Head(frame[r].todo)))]
    /\ Goto(r, rollback)
    /\ UNCHANGED <<pvc, dep, actions, upToDate>>

(* Create fails, because the object exists or has no spec, or for any      *)
(* other reason: the loop calls Rollback and breaks.                       *)
ApplyFails(r, rollback) ==
    /\ frame[r].todo # <<>>
    /\ \/ ~Creatable(Head(frame[r].todo)) /\ NoFault
       \/ Fault
    /\ frame' = [frame EXCEPT ![r].todo = <<>>]
    /\ Goto(r, rollback)
    /\ UNCHANGED <<pvc, dep, actions, upToDate>>

(* Mutation: ApplyResources leaves the slice as it is.                     *)
ApplyReturnsKeeping(r, next) ==
    /\ frame[r].todo = <<>>
    /\ Goto(r, next)
    /\ UNCHANGED <<pvc, dep, actions, frame, upToDate, faults>>

(* The slice is dropped; the names applied so far are returned with a nil  *)
(* error, after a failure too.                                             *)
ApplyReturns(r, next) ==
    /\ frame[r].todo = <<>>
    /\ actions' = <<>>
    /\ Goto(r, next)
    /\ UNCHANGED <<pvc, dep, frame, upToDate, faults>>

-----------------------------------------------------------------------------
(* Rollback: deletes the object of every action now in the slice, whoever  *)
(* queued it and whether or not it was applied                             *)

(* Mutation: only what this call applied is rolled back.                   *)
RollbackStartApplied(r, next) ==
    /\ LET Applied(a) == frame[r].op = "delete"
                         \/ \E i \in 1 .. Len(frame[r].names) : frame[r].names[i] = NameOf(a)
       IN frame' = [frame EXCEPT ![r].todo = SelectSeq(actions, Applied)]
    /\ Goto(r, next)
    /\ UNCHANGED <<pvc, dep, actions, upToDate, faults>>

RollbackStart(r, next) ==
    /\ frame' = [frame EXCEPT ![r].todo = actions]
    /\ Goto(r, next)
    /\ UNCHANGED <<pvc, dep, actions, upToDate, faults>>

(* A missing object is fine; any other error is logged and forgotten.      *)
RollbackOne(r) ==
    LET a == Head(frame[r].todo) IN
    /\ frame[r].todo # <<>>
    /\ \/ /\ NoFault
          /\ IF a.kind = "pvc"
             THEN pvc' = [pvc EXCEPT ![a.user] = AfterDelete(@)] /\ UNCHANGED dep
             ELSE dep' = [dep EXCEPT ![a.user] = {}] /\ UNCHANGED pvc
          /\ Written(a.kind, a.user)
       \/ Fault /\ UNCHANGED <<pvc, dep, upToDate>>
    /\ frame' = [frame EXCEPT ![r].todo = Tail(@)]
    /\ UNCHANGED <<actions, pc>>

(* Mutation: Rollback leaves the slice as it is.                           *)
RollbackReturnsKeeping(r, next) ==
    /\ frame[r].todo = <<>>
    /\ Goto(r, next)
    /\ UNCHANGED <<pvc, dep, actions, frame, upToDate, faults>>

RollbackReturns(r, next) ==
    /\ frame[r].todo = <<>>
    /\ actions' = <<>>
    /\ Goto(r, next)
    /\ UNCHANGED <<pvc, dep, frame, upToDate, faults>>

-----------------------------------------------------------------------------
(* What Kubernetes does on its own                                         *)

(* The PVC goes away once no pod of the Deployment uses it.                *)
FinishPvcDeletion(u) ==
    /\ pvc[u] = "terminating"
    /\ \A d \in dep[u] : d.replicas = 0
    /\ pvc' = [pvc EXCEPT ![u] = "none"]
    /\ Written("pvc", u)
    /\ UNCHANGED <<dep, actions, pc, frame, faults>>

(* The protection controller puts the finalizer back on a live PVC.        *)
RestoreFinalizer(u) ==
    /\ pvc[u] = "bare"
    /\ pvc' = [pvc EXCEPT ![u] = "bound"]
    /\ Written("pvc", u)
    /\ UNCHANGED <<dep, actions, pc, frame, faults>>
=============================================================================
