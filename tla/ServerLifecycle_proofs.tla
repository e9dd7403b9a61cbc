------------------------ MODULE ServerLifecycle_proofs ------------------------
(***************************************************************************)
(* What a step of ServerApi does to the Deployment and the row of a user,  *)
(* when clients take turns, and what follows: a step touches nobody but    *)
(* the user of the request in flight, a 200 is the truth, row and          *)
(* Deployment have the same arguments, and the routes implement            *)
(* ServerLifecycle.                                                        *)
(***************************************************************************)
EXTENDS ServerApi_serial_proofs

-----------------------------------------------------------------------------
(* The moves of one user's server                                          *)

SameRows(u) == ServersOf(u)' = ServersOf(u)
SameDep(u)  == dep'[u] = dep[u]

Deployed(u) ==
    /\ ServersOf(u) = {} /\ dep[u] = {}
    /\ \E w \in Worlds : dep'[u] = {[replicas |-> 1, args |-> w]}
    /\ SameRows(u)

Undeployed(u) == dep'[u] = {} /\ SameRows(u)

Registered(u) ==
    /\ ServersOf(u) = {}
    /\ \E w \in Worlds :
          /\ dep[u] = {[replicas |-> 1, args |-> w]}
          /\ \E s \in Row : ServersOf(u)' = {s} /\ s.state = "RUNNING" /\ s.world = w
    /\ SameDep(u)

(* UpdateServerArgs and PatchServerDeployment keep the replicas, and a row *)
(* they meet has the arguments that they write.                            *)
Rearranged(u) ==
    /\ \E d, e \in Deployment :
          /\ dep[u] = {d} /\ dep'[u] = {e} /\ d.replicas = e.replicas
          /\ \A s \in ServersOf(u) : e.args = s.world
    /\ SameRows(u)

Rescaled(u) ==
    /\ ServersOf(u) # {}
    /\ \E d, e \in Deployment : dep[u] = {d} /\ dep'[u] = {e} /\ d.args = e.args
    /\ SameRows(u)

Recorded(u) ==
    /\ \E s, t \in Row, d \in Deployment :
          /\ ServersOf(u) = {s} /\ ServersOf(u)' = {t}
          /\ dep[u] = {d} /\ t.state = StateOf(d.replicas) /\ t.world = d.args
    /\ SameDep(u)

Forgotten(u) == ServersOf(u)' = {} /\ SameDep(u)

Moves(u) ==
    \/ SameRows(u) /\ SameDep(u)
    \/ Deployed(u) \/ Undeployed(u) \/ Registered(u)
    \/ Rearranged(u) \/ Rescaled(u) \/ Recorded(u) \/ Forgotten(u)

-----------------------------------------------------------------------------
LEMMA NothingMoves ==
    ASSUME NEW u \in Users, UNCHANGED <<pvc, dep, rows>> PROVE OnlyTouches(u) /\ Moves(u)
  BY ServersSame DEF OnlyTouches, Moves, SameRows, SameDep

LEMMA PvcMoves ==
    ASSUME NEW u \in Users, UNCHANGED <<dep, rows>>, \A v \in Users : v # u => pvc'[v] = pvc[v]
    PROVE  OnlyTouches(u) /\ Moves(u)
  BY ServersSame DEF OnlyTouches, Moves, SameRows, SameDep

LEMMA DepMoves ==
    ASSUME IInv, NEW u \in Users, NEW D, UNCHANGED <<pvc, rows>>, dep' = [dep EXCEPT ![u] = D]
    PROVE  OnlyTouches(u) /\ SameRows(u) /\ dep'[u] = D
  BY ServersSame DEF OnlyTouches, SameRows, IInv, TypeOK

(* What ApplyResources creates is its own user's: the PVC, then the        *)
(* Deployment, which must not be there.                                    *)
LEMMA ApplyOneEffect ==
    ASSUME IInv, SerialInv, NEW r \in Requests, pc[r] = "applying", ApplyOne(r),
           NEW u \in Users, frame[r].user = u
    PROVE  \/ UNCHANGED dep /\ pvc' = [pvc EXCEPT ![u] = "bound"]
           \/ /\ UNCHANGED pvc /\ dep[u] = {} /\ frame[r].world \in Worlds /\ ServersOf(u) = {}
              /\ dep' = [dep EXCEPT ![u] = {[replicas |-> 1, args |-> frame[r].world]}]
<1>1. pc[r] \in ListLabels /\ ~AtRest(r)
  BY DEF ListLabels, AtRest, Answers
<1>2. frame[r].op = "create" /\ frame[r].world \in Worlds /\ ServersOf(u) = {}
  BY <1>1, InList, Here DEF RowFlight
<1> DEFINE q == Queued(frame[r])
           a == Head(frame[r].todo)
<1>3. q[1] = PVCAction(u, frame[r].world) /\ q[2] = DeploymentAction(u, frame[r].world)
  BY <1>2, QueuedCreate
<1>4. Head(q) = q[1] /\ Head(<<q[2]>>) = q[2]
  BY QueuedSlices
<1>5. frame[r].todo # <<>> /\ Creatable(a) /\ CreateObject(a)
  BY DEF ApplyOne
<1>6. frame[r].todo = q \/ frame[r].todo = <<q[2]>>
  BY <1>1, <1>5, Here DEF ApplyFlight
<1>7. a = PVCAction(u, frame[r].world) \/ a = DeploymentAction(u, frame[r].world)
  BY <1>3, <1>4, <1>6
<1> HIDE DEF a, q
<1> QED
  BY <1>2, <1>5, <1>7 DEF Creatable, Exists, CreateObject, PVCAction, DeploymentAction

LEMMA ApplyMoves ==
    ASSUME IInv, SerialInv, NEW r \in Requests, ApplyResources(r),
           NEW u \in Users, frame[r].user = u
    PROVE  OnlyTouches(u) /\ Moves(u)
<1>1. CASE UNCHANGED <<pvc, dep>>
  BY <1>1, NothingMoves DEF ApplyResources
<1>2. CASE pc[r] = "applying" /\ ApplyOne(r)
  <2>1. UNCHANGED rows
    BY DEF ApplyResources
  <2>2. CASE UNCHANGED dep /\ pvc' = [pvc EXCEPT ![u] = "bound"]
    BY <2>1, <2>2, PvcMoves DEF IInv, TypeOK
  <2>3. CASE /\ UNCHANGED pvc /\ dep[u] = {} /\ frame[r].world \in Worlds /\ ServersOf(u) = {}
             /\ dep' = [dep EXCEPT ![u] = {[replicas |-> 1, args |-> frame[r].world]}]
    <3> DEFINE D == {[replicas |-> 1, args |-> frame[r].world]}
    <3>1. UNCHANGED <<pvc, rows>> /\ dep' = [dep EXCEPT ![u] = D]
      BY <2>1, <2>3
    <3> HIDE DEF D
    <3>2. OnlyTouches(u) /\ SameRows(u) /\ dep'[u] = D
      BY <3>1, DepMoves
    <3>3. Deployed(u)
      BY <2>3, <3>2 DEF Deployed, D
    <3> QED
      BY <3>2, <3>3 DEF Moves
  <2> QED
    BY <1>2, <2>2, <2>3, ApplyOneEffect
<1> QED
  BY <1>1, <1>2 DEF ApplyResources, ApplyStart, ApplyFails, ApplyReturns

LEMMA RollbackMoves ==
    ASSUME IInv, SerialInv, NEW r \in Requests, Rollback(r), NEW u \in Users, frame[r].user = u
    PROVE  OnlyTouches(u) /\ Moves(u)
<1>1. CASE UNCHANGED <<pvc, dep>>
  BY <1>1, NothingMoves DEF Rollback
<1>2. CASE pc[r] = "rolling" /\ RollbackOne(r)
  <2>1. UNCHANGED rows
    BY DEF Rollback
  <2>2. \/ UNCHANGED <<pvc, dep>>
        \/ UNCHANGED dep /\ pvc' = [pvc EXCEPT ![u] = AfterDelete(@)]
        \/ UNCHANGED pvc /\ dep' = [dep EXCEPT ![u] = {}]
    BY <1>2, RollbackOneEffect
  <2>3. CASE UNCHANGED dep /\ pvc' = [pvc EXCEPT ![u] = AfterDelete(@)]
    BY <2>1, <2>3, PvcMoves DEF IInv, TypeOK
  <2>4. CASE UNCHANGED pvc /\ dep' = [dep EXCEPT ![u] = {}]
    BY <2>1, <2>4, DepMoves DEF Moves, Undeployed
  <2> QED
    BY <1>1, <2>2, <2>3, <2>4
<1> QED
  BY <1>1, <1>2 DEF Rollback, RollbackStart, RollbackReturns

LEMMA PvcStepMoves ==
    ASSUME IInv, SerialInv, NEW r \in Requests, RemoveOldPvc(r), NEW u \in Users, frame[r].user = u
    PROVE  OnlyTouches(u) /\ Moves(u)
<1>1. UNCHANGED <<dep, rows>>
  BY DEF RemoveOldPvc, DoesPvcExist, GetPvc, ClearFinalizers, DeletePvc
<1>2. \A v \in Users : v # u => pvc'[v] = pvc[v]
  BY DEF RemoveOldPvc, DoesPvcExist, GetPvc, ClearFinalizers, DeletePvc, IInv, TypeOK
<1> QED
  BY <1>1, <1>2, PvcMoves

LEMMA InsertMoves ==
    ASSUME IInv, IInv', SerialInv, NEW r \in Requests, InsertRow(r), NEW u \in Users, frame[r].user = u
    PROVE  OnlyTouches(u) /\ Moves(u)
<1>1. UNCHANGED <<pvc, dep>> /\ ~AtRest(r) /\ pc[r] = "insertRow"
  BY DEF InsertRow, AtRest, Answers
<1>2. CASE Len(frame[r].names) # 2
  BY <1>1, <1>2, NothingMoves DEF InsertRow
<1>3. CASE Len(frame[r].names) = 2
  <2>1. Running(frame[r]) /\ ServersOf(u) = {}
    BY <1>3, InsertedRow
  <2>2. PICK id \in RowIds :
            LET s == OwnRow(id, u, "RUNNING", frame[r].world)
            IN  /\ \A t \in rows : t.id # id
                /\ rows' = rows \cup {s}
                /\ frame' = [frame EXCEPT ![r] = [frame[r] EXCEPT !.server = {s}]]
    BY <1>3, InsertedRow
  <2> DEFINE s == OwnRow(id, u, "RUNNING", frame[r].world)
  <2>3. /\ rows' = rows \cup {s}
        /\ s.user = u /\ s.state = "RUNNING" /\ s.world = frame[r].world
    BY <2>2 DEF OwnRow
  <2> HIDE DEF s
  <2>4. s \in Row
    BY <2>3 DEF IInv, TypeOK
  <2>5. ServersOf(u)' = {s} /\ \A v \in Users : v # u => ServersOf(v)' = ServersOf(v)
    BY <2>1, <2>3 DEF ServersOf
  <2>6. frame[r].world \in Worlds
    BY <1>1, Here DEF Fits, CreateLabels
  <2>7. Registered(u)
    BY <1>1, <2>1, <2>3, <2>4, <2>5, <2>6 DEF Registered, Running, SameDep
  <2> QED
    BY <1>1, <2>5, <2>7 DEF OnlyTouches, Moves
<1> QED
  BY <1>1, <1>2, <1>3, Here DEF Frame

LEMMA DeleteMoves ==
    ASSUME IInv, SerialInv, NEW r \in Requests, DeleteRows(r), NEW u \in Users, frame[r].user = u
    PROVE  OnlyTouches(u) /\ Moves(u)
<1>1. UNCHANGED <<pvc, dep>> /\ rows' = rows \ ServersOf(u)
  BY DEF DeleteRows
<1>2. ServersOf(u)' = {} /\ \A v \in Users : v # u => ServersOf(v)' = ServersOf(v)
  BY <1>1 DEF ServersOf
<1> QED
  BY <1>1, <1>2 DEF OnlyTouches, Moves, Forgotten, SameDep

LEMMA UpdateDeploymentMoves ==
    ASSUME IInv, IInv', SerialInv, NEW r \in Requests, UpdateDeployment(r),
           NEW u \in Users, frame[r].user = u
    PROVE  OnlyTouches(u) /\ Moves(u)
<1>1. pc[r] = "updateDeployment" /\ ~AtRest(r) /\ UNCHANGED <<pvc, rows>>
  BY DEF UpdateDeployment, AtRest, Answers
<1>2. CASE UNCHANGED dep
  BY <1>1, <1>2, NothingMoves
<1>3. CASE dep' # dep
  <2>1. PICK d \in Deployment : dep[u] = {d}
    BY <1>1, Here, OneDeployment DEF ScaleFlight
  <2>2. dep' = [dep EXCEPT ![u] = {[d EXCEPT !.args = NewArgs(frame[r])]}]
    BY <1>3, <2>1 DEF UpdateDeployment
  <2>3. OnlyTouches(u) /\ SameRows(u) /\ dep'[u] = {[d EXCEPT !.args = NewArgs(frame[r])]}
    BY <1>1, <2>2, DepMoves
  <2>4. [d EXCEPT !.args = NewArgs(frame[r])] \in Deployment
    BY <2>3 DEF IInv, TypeOK
  <2>5. /\ [d EXCEPT !.args = NewArgs(frame[r])].replicas = d.replicas
        /\ [d EXCEPT !.args = NewArgs(frame[r])].args = NewArgs(frame[r])
    BY DEF Deployment
  <2>6. \A s \in ServersOf(u) : NewArgs(frame[r]) = s.world
    <3>1. frame[r].op \in {"scale", "patch"}
      BY <1>1, Here DEF Fits, UpdateLabels
    <3>2. CASE frame[r].op = "patch"
      BY <1>1, <3>2, Here DEF RowFlight
    <3>3. CASE frame[r].op = "scale"
      <4>1. PICK t \in rows : ServersOf(u) = {t} /\ frame[r].server = {t}
        BY <1>1, <3>3, ScaleRow
      <4>2. (CHOOSE x \in {t} : TRUE) = t
        OBVIOUS
      <4> QED
        BY <3>3, <4>1, <4>2 DEF NewArgs
    <3> QED
      BY <3>1, <3>2, <3>3
  <2> DEFINE e == [d EXCEPT !.args = NewArgs(frame[r])]
  <2>7. /\ dep[u] = {d} /\ dep'[u] = {e} /\ e \in Deployment /\ d.replicas = e.replicas
        /\ \A s \in ServersOf(u) : e.args = s.world
    BY <2>1, <2>3, <2>4, <2>5, <2>6
  <2> HIDE DEF e
  <2>8. Rearranged(u)
    BY <2>3, <2>7 DEF Rearranged
  <2> QED
    BY <2>3, <2>8 DEF Moves
<1> QED
  BY <1>2, <1>3

LEMMA UpdateScaleMoves ==
    ASSUME IInv, IInv', SerialInv, NEW r \in Requests, UpdateScale(r),
           NEW u \in Users, frame[r].user = u
    PROVE  OnlyTouches(u) /\ Moves(u)
<1>1. pc[r] = "updateScale" /\ ~AtRest(r) /\ UNCHANGED <<pvc, rows>>
  BY DEF UpdateScale, AtRest, Answers
<1>2. frame[r].op = "scale"
  BY <1>1, Here DEF Fits
<1>3. ServersOf(u) # {}
  BY <1>1, <1>2, ScaleRow
<1>4. PICK d \in Deployment : dep[u] = {d}
  BY <1>1, Here, OneDeployment DEF ScaleFlight
<1>5. dep' = [dep EXCEPT ![u] = {[d EXCEPT !.replicas = frame[r].replicas]}]
  BY <1>4 DEF UpdateScale
<1>6. OnlyTouches(u) /\ SameRows(u) /\ dep'[u] = {[d EXCEPT !.replicas = frame[r].replicas]}
  BY <1>1, <1>5, DepMoves
<1>7. /\ [d EXCEPT !.replicas = frame[r].replicas] \in Deployment
      /\ [d EXCEPT !.replicas = frame[r].replicas].args = d.args
  BY <1>6 DEF IInv, TypeOK, Deployment
<1> DEFINE e == [d EXCEPT !.replicas = frame[r].replicas]
<1>8. dep[u] = {d} /\ dep'[u] = {e} /\ e \in Deployment /\ d.args = e.args
  BY <1>4, <1>6, <1>7
<1> HIDE DEF e
<1>9. Rescaled(u)
  BY <1>3, <1>6, <1>8 DEF Rescaled
<1> QED
  BY <1>6, <1>9 DEF Moves

LEMMA SaveRowMoves ==
    ASSUME IInv, SerialInv, NEW r \in Requests, SaveRow(r), NEW u \in Users, frame[r].user = u
    PROVE  OnlyTouches(u) /\ Moves(u)
<1>1. UNCHANGED <<pvc, dep>>
  BY DEF SaveRow
<1>2. PICK s \in rows, t \in Row :
          /\ s.user = u /\ ServersOf(u) = {s}
          /\ t.user = s.user /\ t.state = StateOf(frame[r].replicas)
          /\ Replicas(t) = frame[r].replicas
          /\ rows' = (rows \ {s}) \cup {t}
          /\ dep[u] = {[replicas |-> Replicas(t), args |-> t.world]}
  BY SavedRow
<1>3. s \in Row
  BY DEF IInv, TypeOK
<1>4. ServersOf(u)' = {t} /\ \A v \in Users : v # u => ServersOf(v)' = ServersOf(v)
  BY <1>2 DEF ServersOf
<1>5. [replicas |-> Replicas(t), args |-> t.world] \in Deployment
  BY <1>2 DEF IInv, TypeOK
<1>6. PICK d \in Deployment :
          dep[u] = {d} /\ d.replicas = frame[r].replicas /\ d.args = t.world
  BY <1>2, <1>5
<1>7. Recorded(u)
  BY <1>1, <1>2, <1>3, <1>4, <1>6 DEF Recorded, SameDep
<1> QED
  BY <1>1, <1>4, <1>7 DEF OnlyTouches, Moves

LEMMA WorkMoves ==
    ASSUME IInv, IInv', SerialInv, NEW r \in Requests, Work(r), NEW u \in Users, frame[r].user = u
    PROVE  OnlyTouches(u) /\ Moves(u)
<1>1. CASE \/ ClearFinalizersConflict(r) \/ AddActions(r) \/ GetDeployment(r) \/ FindServer(r)
           \/ GetScale(r) \/ ScaleConflict(r) \/ CallFails(r)
  <2>1. UNCHANGED <<pvc, dep, rows>>
    BY <1>1 DEF ClearFinalizersConflict, AddActions, LoadActions, StoreAction, GetDeployment,
                FindServer, Refuse, GetScale, ScaleConflict, CallFails
  <2> QED
    BY <2>1, NothingMoves
<1>2. CASE SaveUser(r)
  BY <1>2, SaveUserSame, NothingMoves
<1> QED
  BY <1>1, <1>2, ApplyMoves, RollbackMoves, PvcStepMoves, InsertMoves, DeleteMoves,
     UpdateDeploymentMoves, UpdateScaleMoves, SaveRowMoves DEF Work

(* A step of a handler is a step of a request in flight, and answers 200   *)
(* only where the handler has finished its work.                           *)
LEMMA WorkInFlight ==
    ASSUME NEW r \in Requests, Work(r) PROVE ~AtRest(r)
<1>1. pc[r] \in (CreateLabels \cup QueueLabels \cup UpdateLabels \cup {"deleteRows"})
  BY DEF Work, RemoveOldPvc, ClearFinalizersConflict, AddActions, ApplyResources, Rollback,
         InsertRow, SaveUser, DeleteRows, GetDeployment, UpdateDeployment, FindServer, GetScale,
         UpdateScale, ScaleConflict, SaveRow, CallFails, CheckedCalls, CreateLabels, QueueLabels,
         UpdateLabels
<1> QED
  BY <1>1 DEF AtRest, Answers, CreateLabels, QueueLabels, UpdateLabels

LEMMA WorkSucceeds ==
    ASSUME IInv, NEW r \in Requests, Work(r), pc'[r] = "200"
    PROVE  SaveUser(r) \/ DeleteRows(r) \/ SaveRow(r)
<1>1. ASSUME NEW label, Goto(r, label) PROVE pc'[r] = label
  BY <1>1 DEF Goto, IInv, TypeOK
<1>2. ~(CallFails(r) \/ ClearFinalizersConflict(r) \/ FindServer(r) \/ ScaleConflict(r)
        \/ GetDeployment(r) \/ GetScale(r) \/ UpdateDeployment(r) \/ UpdateScale(r))
  BY <1>1 DEF CallFails, ClearFinalizersConflict, FindServer, Refuse, ScaleConflict, GetDeployment,
              GetScale, UpdateDeployment, UpdateScale, Answer
<1>3. ~(RemoveOldPvc(r) \/ AddActions(r) \/ InsertRow(r))
  BY <1>1 DEF RemoveOldPvc, DoesPvcExist, GetPvc, ClearFinalizers, DeletePvc, AddActions,
              LoadActions, StoreAction, InsertRow, Answer
<1>4. ~(ApplyResources(r) \/ Rollback(r))
  BY <1>1 DEF ApplyResources, ApplyStart, ApplyOne, ApplyFails, ApplyReturns, Rollback,
              RollbackStart, RollbackOne, RollbackReturns
<1> QED
  BY <1>2, <1>3, <1>4 DEF Work

-----------------------------------------------------------------------------
(* Nobody else's server                                                    *)

(* What Kubernetes does to a PVC on its own                                *)
PvcSettles(u) ==
    <<pvc[u], pvc'[u]>> \in {<<"terminating", "none">>, <<"bare", "bound">>}

LEMMA OthersStay ==
    ASSUME IInv, IInv', SerialInv, [Next]_vars, NEW u \in Users,
           \A r \in Requests : frame[r].user # u
    PROVE  /\ dep'[u] = dep[u] /\ ServersOf(u)' = ServersOf(u)
           /\ pvc'[u] = pvc[u] \/ PvcSettles(u)
<1>1. ASSUME NEW r \in Requests, Work(r)
      PROVE  dep'[u] = dep[u] /\ ServersOf(u)' = ServersOf(u) /\ pvc'[u] = pvc[u]
  <2>1. ~AtRest(r)
    BY <1>1, WorkInFlight
  <2>2. PICK v \in Users : frame[r].user = v
    BY <2>1, Here
  <2>3. OnlyTouches(v)
    BY <1>1, <2>2, WorkMoves
  <2> QED
    BY <2>2, <2>3 DEF OnlyTouches
<1>2. CASE UNCHANGED <<pvc, dep, rows>>
  BY <1>2, ServersSame
<1>3. ASSUME NEW r \in Requests, Arrive(r) PROVE UNCHANGED <<pvc, dep, rows>>
  BY <1>3 DEF Arrive, CreateServer, DeleteServer, ScaleServer, PatchServer, Begin, Refuse,
              LimitsFail
<1>4. CASE Background
  <2>1. UNCHANGED <<dep, rows>>
    BY <1>4, BackgroundStep
  <2>2. PICK v \in Users : FinishPvcDeletion(v) \/ RestoreFinalizer(v)
    BY <1>4 DEF Background
  <2>3. pvc'[u] = pvc[u] \/ PvcSettles(u)
    BY <2>2 DEF FinishPvcDeletion, RestoreFinalizer, IInv, TypeOK, PvcSettles
  <2> QED
    BY <2>1, <2>3, ServersSame
<1>5. CASE Restart \/ UNCHANGED vars
  BY <1>2, <1>5 DEF Restart, vars
<1> QED
  BY <1>1, <1>2, <1>3, <1>4, <1>5 DEF Next

(* What OthersUntouched says of a step                                     *)
TouchesItsUser ==
    \A u \in Users :
          \/ dep'[u] # dep[u]
          \/ {s \in rows' : s.user = u} # ServersOf(u)
          \/ /\ pvc'[u] # pvc[u]
             /\ <<pvc[u], pvc'[u]>> \notin {<<"terminating", "none">>, <<"bare", "bound">>}
          => \E r \in Requests : frame[r].user = u

(* A user's Deployment, rows and PVC change only while a request of that    *)
(* user is in flight, but for what Kubernetes does to a PVC on its own: the *)
(* list that all requests share never carries an action from one user's     *)
(* request into the next user's.                                            *)
THEOREM OthersAreSafe == ASSUME OneAtATime PROVE Spec => OthersUntouched
<1>1. ASSUME IInv, SerialInv, [Next]_vars PROVE TouchesItsUser
  <2> SUFFICES ASSUME NEW u \in Users, \A r \in Requests : frame[r].user # u
               PROVE  /\ dep'[u] = dep[u] /\ {s \in rows' : s.user = u} = ServersOf(u)
                      /\ pvc'[u] = pvc[u] \/ PvcSettles(u)
    BY DEF TouchesItsUser, PvcSettles
  <2>1. IInv'
    BY <1>1, NextIInv
  <2> QED
    BY <1>1, <2>1, OthersStay DEF ServersOf
<1>2. Spec => [][TouchesItsUser]_vars
  BY <1>1, Invariance, SerialInvariance, PTL DEF Spec
<1> QED
  BY <1>2, PTL DEF OthersUntouched, TouchesItsUser

-----------------------------------------------------------------------------
(* A 200 is the truth                                                      *)

LEMMA CreateIsReal ==
    ASSUME IInv, SerialInv, NEW r \in Requests, SaveUser(r), NEW u \in Users, frame[r].user = u
    PROVE  /\ \E s \in rows' : {t \in rows' : t.user = u} = {s} /\ Agrees(s)'
           /\ pvc'[u] = "bound"
<1>1. ~AtRest(r) /\ pc[r] = "saveUser" /\ UNCHANGED <<pvc, dep, rows>>
  BY SaveUserSame DEF SaveUser
<1>2. Running(frame[r]) /\ \E id \in RowIds :
          ServersOf(u) = {OwnRow(id, u, "RUNNING", frame[r].world)}
  BY <1>1, Here DEF RowFlight
<1>3. PICK s \in rows : ServersOf(u) = {s} /\ s.user = u
  BY <1>2 DEF ServersOf
<1>4. Replicas(s) = 1 /\ s.world = frame[r].world
  BY <1>2, <1>3 DEF OwnRow, Replicas
<1>5. {t \in rows : t.user = u} = {s}
  BY <1>3 DEF ServersOf
<1>6. dep'[u] = {[replicas |-> 1, args |-> s.world]} /\ pvc'[u] = "bound"
  BY <1>1, <1>2, <1>4 DEF Running
<1>7. Agrees(s)'
  BY <1>3, <1>4, <1>6 DEF Agrees, Replicas
<1> QED
  BY <1>1, <1>5, <1>6, <1>7

LEMMA ScaleIsReal ==
    ASSUME IInv, SerialInv, NEW r \in Requests, SaveRow(r), NEW u \in Users, frame[r].user = u
    PROVE  \E s \in rows' : {t \in rows' : t.user = u} = {s} /\ Agrees(s)'
<1>1. PICK s \in rows, t \in Row :
          /\ s.user = u /\ ServersOf(u) = {s}
          /\ t.user = s.user
          /\ rows' = (rows \ {s}) \cup {t}
          /\ dep[t.user] = {[replicas |-> Replicas(t), args |-> t.world]}
  BY SavedRow
<1>2. {x \in rows' : x.user = u} = {t} /\ t \in rows'
  BY <1>1 DEF ServersOf
<1>3. Agrees(t)'
  BY <1>1 DEF SaveRow, Agrees, Replicas
<1> QED
  BY <1>2, <1>3

(* What SuccessIsReal says of a step                                       *)
SuccessOfStep ==
    \A r \in Requests :
          LET u == frame[r].user IN
          frame[r].op \in {"create", "scale"} /\ pc'[r] = "200" =>
              /\ \E s \in rows' : {t \in rows' : t.user = u} = {s} /\ Agrees(s)'
              /\ frame[r].op = "create" => pvc'[u] = "bound"

LEMMA StepIsReal ==
    ASSUME OneAtATime, IInv, IInv', SerialInv, [Next]_vars,
           NEW r \in Requests, frame[r].op \in {"create", "scale"}, pc'[r] = "200"
    PROVE  /\ Work(r) /\ ~AtRest(r)
           /\ \/ SaveUser(r) /\ frame[r].op = "create"
              \/ SaveRow(r) /\ frame[r].op = "scale"
<1>1. ~AtRest(r)
  BY DEF SerialInv, TurnsInv, EmptyFrame
<1>2. pc[r] # "200"
  BY <1>1 DEF AtRest, Answers
<1>3. ~(Background \/ Restart \/ UNCHANGED vars)
  BY <1>1, <1>2, BackgroundStep DEF Restart, vars
<1>4. \A q \in Requests : ~Arrive(q)
  BY <1>1 DEF Arrive, CreateServer, DeleteServer, ScaleServer, PatchServer, Accepting
<1>5. PICK q \in Requests : Work(q)
  BY <1>3, <1>4 DEF Next
<1>6. q = r
  BY <1>1, <1>5, WorkInFlight DEF SerialInv, TurnsInv
<1>7. SaveUser(r) \/ DeleteRows(r) \/ SaveRow(r)
  BY <1>5, <1>6, WorkSucceeds
<1>8. SaveUser(r) => frame[r].op = "create"
  BY <1>1, Here DEF SaveUser, Fits, CreateLabels
<1>9. SaveRow(r) => frame[r].op = "scale"
  BY SavedRow
<1>10. ~DeleteRows(r)
  <2>1. pc[r] = "deleteRows" => frame[r].op \notin {"create", "scale"}
    BY <1>1, Here DEF RowFlight
  <2> QED
    BY <2>1 DEF DeleteRows
<1> QED
  BY <1>1, <1>5, <1>6, <1>7, <1>8, <1>9, <1>10

(* When create or scale answers 200 the user has exactly one row, and the   *)
(* Deployment runs with what the row says, whatever failed before, in this  *)
(* request or in earlier ones.                                              *)
THEOREM SuccessIsTrue == ASSUME OneAtATime PROVE Spec => SuccessIsReal
<1>1. ASSUME IInv, SerialInv, [Next]_vars PROVE SuccessOfStep
  <2> SUFFICES ASSUME NEW r \in Requests, frame[r].op \in {"create", "scale"}, pc'[r] = "200",
                      NEW u \in Users, frame[r].user = u
               PROVE  /\ \E s \in rows' : {t \in rows' : t.user = u} = {s} /\ Agrees(s)'
                      /\ frame[r].op = "create" => pvc'[u] = "bound"
    <3>1. ASSUME NEW r \in Requests, frame[r].op \in {"create", "scale"}
          PROVE  frame[r].user \in Users
      <4>1. ~AtRest(r)
        BY <1>1, <3>1 DEF SerialInv, TurnsInv, EmptyFrame
      <4> QED
        BY <1>1, <4>1, Here
    <3> QED
      BY <3>1 DEF SuccessOfStep
  <2>1. IInv'
    BY <1>1, NextIInv
  <2>2. \/ SaveUser(r) /\ frame[r].op = "create"
        \/ SaveRow(r) /\ frame[r].op = "scale"
    BY <1>1, <2>1, StepIsReal
  <2> QED
    BY <1>1, <2>2, CreateIsReal, ScaleIsReal
<1>2. Spec => [][SuccessOfStep]_vars
  BY <1>1, Invariance, SerialInvariance, PTL DEF Spec
<1> QED
  BY <1>2, PTL DEF SuccessIsReal, SuccessOfStep

-----------------------------------------------------------------------------
(* The arguments of row and Deployment                                     *)

SameArguments(u) == \A s \in ServersOf(u), d \in dep[u] : d.args = s.world

LEMMA MovesAgree ==
    ASSUME NEW u \in Users, SameArguments(u), Moves(u) PROVE SameArguments(u)'
<1>1. CASE SameRows(u) /\ SameDep(u)
  BY <1>1 DEF SameArguments, SameRows, SameDep
<1>2. CASE Deployed(u) \/ Undeployed(u) \/ Forgotten(u)
  BY <1>2 DEF SameArguments, Deployed, Undeployed, Forgotten, SameRows
<1>3. CASE Registered(u)
  BY <1>3 DEF SameArguments, Registered, SameDep
<1>4. CASE Rearranged(u)
  BY <1>4 DEF SameArguments, Rearranged, SameRows
<1>5. CASE Rescaled(u)
  BY <1>5 DEF SameArguments, Rescaled, SameRows
<1>6. CASE Recorded(u)
  BY <1>6 DEF SameArguments, Recorded, SameDep
<1> QED
  BY <1>1, <1>2, <1>3, <1>4, <1>5, <1>6 DEF Moves

LEMMA NextAgrees ==
    ASSUME IInv, IInv', SerialInv, [Next]_vars, ArgumentsAgree PROVE ArgumentsAgree'
<1> SUFFICES ASSUME NEW u \in Users PROVE SameArguments(u)'
  BY DEF ArgumentsAgree, SameArguments
<1>1. SameArguments(u)
  BY DEF ArgumentsAgree, SameArguments
<1>2. ASSUME NEW r \in Requests, frame[r].user = u, Work(r) PROVE Moves(u)
  BY <1>2, WorkMoves
<1>3. ASSUME NEW r \in Requests, frame[r].user # u, Work(r)
      PROVE  dep'[u] = dep[u] /\ ServersOf(u)' = ServersOf(u)
  <2>1. ~AtRest(r)
    BY <1>3, WorkInFlight
  <2>2. PICK v \in Users : frame[r].user = v
    BY <2>1, Here
  <2>3. OnlyTouches(v)
    BY <1>3, <2>2, WorkMoves
  <2> QED
    BY <1>3, <2>2, <2>3 DEF OnlyTouches
<1>4. ASSUME NEW r \in Requests, Arrive(r) PROVE UNCHANGED <<dep, rows>>
  BY <1>4 DEF Arrive, CreateServer, DeleteServer, ScaleServer, PatchServer, Begin, Refuse,
              LimitsFail
<1>5. Background \/ Restart \/ UNCHANGED vars => UNCHANGED <<dep, rows>>
  BY BackgroundStep DEF Restart, vars
<1>6. CASE UNCHANGED <<dep, rows>>
  BY <1>1, <1>6 DEF SameArguments, ServersOf
<1>7. CASE \E r \in Requests : Work(r)
  <2>1. PICK r \in Requests : Work(r)
    BY <1>7
  <2>2. CASE frame[r].user = u
    BY <1>1, <1>2, <2>1, <2>2, MovesAgree
  <2>3. CASE frame[r].user # u
    BY <1>1, <1>3, <2>1, <2>3 DEF SameArguments
  <2> QED
    BY <2>2, <2>3
<1> QED
  BY <1>4, <1>5, <1>6, <1>7 DEF Next

LEMMA InitAgrees == ASSUME Init PROVE ArgumentsAgree
<1> SUFFICES ASSUME NEW u \in Users, NEW s \in ServersOf(u), NEW d \in dep[u]
             PROVE  d.args = s.world
  BY DEF ArgumentsAgree
<1>1. dep[u] = {[replicas |-> Replicas(t), args |-> t.world] : t \in ServersOf(u)}
  BY DEF Init
<1>2. PICK t \in ServersOf(u) : d = [replicas |-> Replicas(t), args |-> t.world]
  BY <1>1
<1>3. s = t
  BY InitSerial DEF SerialInv, TableInv, OneServerPerUser, ServersOf
<1> QED
  BY <1>2, <1>3

(* A user's Deployment has the arguments of the user's row at every moment, *)
(* also where a create meets what an earlier one left, a patch is refused   *)
(* too late, or a scale fails after UpdateServerArgs.                       *)
THEOREM ArgumentsAreTheRows == ASSUME OneAtATime PROVE Spec => []ArgumentsAgree
<1>1. ASSUME IInv, SerialInv, [Next]_vars, ArgumentsAgree PROVE ArgumentsAgree'
  <2>1. IInv'
    BY <1>1, NextIInv
  <2> QED
    BY <1>1, <2>1, NextAgrees
<1> QED
  BY <1>1, InitAgrees, Invariance, SerialInvariance, PTL DEF Spec

-----------------------------------------------------------------------------
(* The routes implement ServerLifecycle                                    *)

(* The refinement mapping of ServerApi, user by user                       *)
RowState(u) ==
    IF ServersOf(u) = {} THEN "none" ELSE (CHOOSE s \in ServersOf(u) : TRUE).state

LiveState(u) == CASE dep[u] = {} -> "gone"
                  [] \E d \in dep[u] : d.replicas = 1 -> "up"
                  [] OTHER -> "down"

States == [u \in Users |-> RowState(u)]
Lives  == [u \in Users |-> LiveState(u)]

LEMMA RowStateIs == ASSUME NEW u, NEW s, ServersOf(u) = {s} PROVE RowState(u) = s.state
<1>1. (CHOOSE t \in {s} : TRUE) = s
  OBVIOUS
<1> QED
  BY <1>1 DEF RowState

LEMMA RowStateNone ==
    ASSUME NEW u, IInv PROVE RowState(u) = "none" <=> ServersOf(u) = {}
<1>1. ASSUME ServersOf(u) # {} PROVE RowState(u) # "none"
  <2>1. (CHOOSE t \in ServersOf(u) : TRUE) \in ServersOf(u)
    BY <1>1
  <2>2. ServersOf(u) \subseteq Row
    BY DEF ServersOf, IInv, TypeOK
  <2> QED
    BY <1>1, <2>1, <2>2 DEF RowState, Row
<1> QED
  BY <1>1 DEF RowState

LEMMA LiveStateIs ==
    ASSUME NEW u, NEW d \in Deployment, dep[u] = {d}
    PROVE  LiveState(u) = IF d.replicas = 1 THEN "up" ELSE "down"
  BY DEF LiveState

LEMMA LiveStateGone == ASSUME NEW u PROVE LiveState(u) = "gone" <=> dep[u] = {}
<1>1. CASE dep[u] = {}
  BY <1>1 DEF LiveState
<1>2. CASE dep[u] # {} /\ \E d \in dep[u] : d.replicas = 1
  BY <1>2 DEF LiveState
<1>3. CASE dep[u] # {} /\ ~\E d \in dep[u] : d.replicas = 1
  BY <1>3 DEF LiveState
<1> QED
  BY <1>1, <1>2, <1>3

(* The abstract actions, in terms of the mapping                           *)
LEMMA AbstractSteps ==
    ASSUME NEW u \in Users
    PROVE  /\ Lifecycle!Deploy(u) <=>
                  /\ RowState(u) = "none" /\ LiveState(u) = "gone"
                  /\ Lives' = [Lives EXCEPT ![u] = "up"] /\ States' = States
           /\ Lifecycle!Register(u) <=>
                  /\ RowState(u) = "none" /\ LiveState(u) = "up"
                  /\ States' = [States EXCEPT ![u] = "RUNNING"] /\ Lives' = Lives
           /\ Lifecycle!Rescale(u) <=>
                  /\ RowState(u) # "none" /\ LiveState(u) # "gone"
                  /\ \E l \in {"up", "down"} : Lives' = [Lives EXCEPT ![u] = l]
                  /\ States' = States
           /\ Lifecycle!Record(u) <=>
                  /\ RowState(u) # "none" /\ LiveState(u) # "gone"
                  /\ States' = [States EXCEPT ![u] =
                                   IF LiveState(u) = "up" THEN "RUNNING" ELSE "TERMINATED"]
                  /\ Lives' = Lives
           /\ Lifecycle!Undeploy(u) <=> Lives' = [Lives EXCEPT ![u] = "gone"] /\ States' = States
           /\ Lifecycle!Forget(u) <=> States' = [States EXCEPT ![u] = "none"] /\ Lives' = Lives
  BY DEF Lifecycle!Deploy, Lifecycle!Register, Lifecycle!Rescale, Lifecycle!Record,
         Lifecycle!Undeploy, Lifecycle!Forget, States, Lives, RowState, LiveState

(* The mapping after a step                                                *)
LEMMA RowStateNext ==
    ASSUME NEW u
    PROVE  /\ SameRows(u) => RowState(u)' = RowState(u)
           /\ ServersOf(u)' = {} => RowState(u)' = "none"
           /\ \A s : ServersOf(u)' = {s} => RowState(u)' = s.state
<1>1. SameRows(u) => RowState(u)' = RowState(u)
  BY DEF RowState, SameRows
<1>2. ServersOf(u)' = {} => RowState(u)' = "none"
  BY DEF RowState
<1>3. ASSUME NEW s, ServersOf(u)' = {s} PROVE RowState(u)' = s.state
  <2>1. (CHOOSE t \in {s} : TRUE) = s
    OBVIOUS
  <2> QED
    BY <1>3, <2>1 DEF RowState
<1> QED
  BY <1>1, <1>2, <1>3

LEMMA LiveStateNext ==
    ASSUME NEW u
    PROVE  /\ SameDep(u) => LiveState(u)' = LiveState(u)
           /\ dep'[u] = {} => LiveState(u)' = "gone"
           /\ \A d \in Deployment : dep'[u] = {d} =>
                 LiveState(u)' = IF d.replicas = 1 THEN "up" ELSE "down"
<1>1. SameDep(u) => LiveState(u)' = LiveState(u)
  BY DEF LiveState, SameDep
<1>2. dep'[u] = {} => LiveState(u)' = "gone"
  BY DEF LiveState
<1>3. ASSUME NEW d \in Deployment, dep'[u] = {d}
      PROVE  LiveState(u)' = IF d.replicas = 1 THEN "up" ELSE "down"
  BY <1>3 DEF LiveState
<1> QED
  BY <1>1, <1>2, <1>3

LEMMA RunningDeployment ==
    ASSUME NEW w \in Worlds
    PROVE  /\ [replicas |-> 1, args |-> w] \in Deployment
           /\ [replicas |-> 1, args |-> w].replicas = 1
  BY DEF Deployment

LEMMA OneUserChanges ==
    ASSUME NEW u \in Users, \A v \in Users : v # u => SameRows(v) /\ SameDep(v)
    PROVE  /\ States' = [States EXCEPT ![u] = RowState(u)']
           /\ Lives' = [Lives EXCEPT ![u] = LiveState(u)']
           /\ RowState(u)' = RowState(u) => States' = States
           /\ LiveState(u)' = LiveState(u) => Lives' = Lives
<1>1. \A v \in Users : v # u => RowState(v)' = RowState(v) /\ LiveState(v)' = LiveState(v)
  BY RowStateNext, LiveStateNext
<1>2. States = [v \in Users |-> RowState(v)] /\ States' = [v \in Users |-> RowState(v)']
  BY DEF States
<1>3. Lives = [v \in Users |-> LiveState(v)] /\ Lives' = [v \in Users |-> LiveState(v)']
  BY DEF Lives
<1>4. States' = [States EXCEPT ![u] = RowState(u)']
  BY <1>1, <1>2
<1>5. Lives' = [Lives EXCEPT ![u] = LiveState(u)']
  BY <1>1, <1>3
<1>6. RowState(u)' = RowState(u) => States' = States
  BY <1>1, <1>2
<1>7. LiveState(u)' = LiveState(u) => Lives' = Lives
  BY <1>1, <1>3
<1> QED
  BY <1>4, <1>5, <1>6, <1>7

LEMMA AbstractStutter ==
    ASSUME States' = States, Lives' = Lives
    PROVE  UNCHANGED Lifecycle!lifecycleVars
  BY DEF Lifecycle!lifecycleVars, States, Lives, RowState, LiveState

(* Every move of a user's server is a step of the lifecycle.               *)
LEMMA MoveMaps ==
    ASSUME IInv, NEW u \in Users, Moves(u),
           \A v \in Users : v # u => SameRows(v) /\ SameDep(v)
    PROVE  [Lifecycle!Next]_(Lifecycle!lifecycleVars)
<1> DEFINE AbstractStep ==
        \/ Lifecycle!Deploy(u) \/ Lifecycle!Register(u) \/ Lifecycle!Rescale(u)
        \/ Lifecycle!Record(u) \/ Lifecycle!Undeploy(u) \/ Lifecycle!Forget(u)
<1>1. AbstractStep => Lifecycle!Next
  BY DEF Lifecycle!Next
<1>2. /\ States' = [States EXCEPT ![u] = RowState(u)']
      /\ Lives' = [Lives EXCEPT ![u] = LiveState(u)']
      /\ RowState(u)' = RowState(u) => States' = States
      /\ LiveState(u)' = LiveState(u) => Lives' = Lives
  BY OneUserChanges
<1>3. CASE SameRows(u) /\ SameDep(u)
  <2>1. States' = States /\ Lives' = Lives
    BY <1>2, <1>3, RowStateNext, LiveStateNext
  <2> QED
    BY <2>1, AbstractStutter
<1>4. CASE Deployed(u)
  <2>1. PICK w \in Worlds : dep'[u] = {[replicas |-> 1, args |-> w]}
    BY <1>4 DEF Deployed
  <2>2. PICK d \in Deployment : dep'[u] = {d} /\ d.replicas = 1
    BY <2>1, RunningDeployment
  <2>3. LiveState(u)' = "up"
    BY <2>2, LiveStateNext
  <2>4. RowState(u) = "none" /\ LiveState(u) = "gone" /\ RowState(u)' = RowState(u)
    BY <1>4, RowStateNone, LiveStateGone, RowStateNext DEF Deployed
  <2>5. Lifecycle!Deploy(u)
    BY <1>2, <2>3, <2>4, AbstractSteps
  <2> QED
    BY <1>1, <2>5
<1>5. CASE Undeployed(u)
  <2>1. LiveState(u)' = "gone" /\ RowState(u)' = RowState(u)
    BY <1>5, LiveStateNext, RowStateNext DEF Undeployed
  <2>2. Lifecycle!Undeploy(u)
    BY <1>2, <2>1, AbstractSteps
  <2> QED
    BY <1>1, <2>2
<1>6. CASE Registered(u)
  <2>1. PICK w \in Worlds : dep[u] = {[replicas |-> 1, args |-> w]}
    BY <1>6 DEF Registered
  <2>2. PICK d \in Deployment : dep[u] = {d} /\ d.replicas = 1
    BY <2>1, RunningDeployment
  <2>3. RowState(u) = "none" /\ LiveState(u) = "up" /\ LiveState(u)' = LiveState(u)
    BY <1>6, <2>2, RowStateNone, LiveStateIs, LiveStateNext DEF Registered
  <2>4. RowState(u)' = "RUNNING"
    BY <1>6, RowStateNext DEF Registered
  <2>5. Lifecycle!Register(u)
    BY <1>2, <2>3, <2>4, AbstractSteps
  <2> QED
    BY <1>1, <2>5
<1>7. CASE Rearranged(u)
  <2>1. PICK d, e \in Deployment : dep[u] = {d} /\ dep'[u] = {e} /\ d.replicas = e.replicas
    BY <1>7 DEF Rearranged
  <2>2. LiveState(u)' = LiveState(u)
    BY <2>1, LiveStateIs, LiveStateNext
  <2>3. RowState(u)' = RowState(u)
    BY <1>7, RowStateNext DEF Rearranged
  <2> QED
    BY <1>2, <2>2, <2>3, AbstractStutter
<1>8. CASE Rescaled(u)
  <2>1. PICK d, e \in Deployment : dep[u] = {d} /\ dep'[u] = {e}
    BY <1>8 DEF Rescaled
  <2>2. LiveState(u)' \in {"up", "down"}
    BY <2>1, LiveStateNext
  <2>3. RowState(u) # "none" /\ LiveState(u) # "gone" /\ RowState(u)' = RowState(u)
    BY <1>8, <2>1, RowStateNone, LiveStateGone, RowStateNext DEF Rescaled
  <2>4. Lifecycle!Rescale(u)
    BY <1>2, <2>2, <2>3, AbstractSteps
  <2> QED
    BY <1>1, <2>4
<1>9. CASE Recorded(u)
  <2>1. PICK s, t \in Row, d \in Deployment :
            /\ ServersOf(u) = {s} /\ ServersOf(u)' = {t}
            /\ dep[u] = {d} /\ t.state = StateOf(d.replicas)
    BY <1>9 DEF Recorded
  <2>2. RowState(u) # "none" /\ RowState(u)' = StateOf(d.replicas)
    BY <2>1, RowStateNone, RowStateNext
  <2>3. /\ LiveState(u) = IF d.replicas = 1 THEN "up" ELSE "down"
        /\ LiveState(u)' = LiveState(u)
    BY <1>9, <2>1, LiveStateIs, LiveStateNext DEF Recorded
  <2>4. LiveState(u) # "gone"
        /\ StateOf(d.replicas) = IF LiveState(u) = "up" THEN "RUNNING" ELSE "TERMINATED"
    BY <2>3 DEF StateOf
  <2>5. Lifecycle!Record(u)
    BY <1>2, <2>2, <2>3, <2>4, AbstractSteps
  <2> QED
    BY <1>1, <2>5
<1>10. CASE Forgotten(u)
  <2>1. RowState(u)' = "none" /\ LiveState(u)' = LiveState(u)
    BY <1>10, RowStateNext, LiveStateNext DEF Forgotten
  <2>2. Lifecycle!Forget(u)
    BY <1>2, <2>1, AbstractSteps
  <2> QED
    BY <1>1, <2>2
<1> QED
  BY <1>3, <1>4, <1>5, <1>6, <1>7, <1>8, <1>9, <1>10 DEF Moves

(* Every step of the routes is a step of the lifecycle, or none.           *)
LEMMA StepMaps ==
    ASSUME IInv, IInv', SerialInv, [Next]_vars
    PROVE  [Lifecycle!Next]_(Lifecycle!lifecycleVars)
<1>1. ASSUME NEW r \in Requests, Work(r) PROVE [Lifecycle!Next]_(Lifecycle!lifecycleVars)
  <2>1. PICK u \in Users : frame[r].user = u
    BY <1>1, WorkInFlight, Here
  <2>2. OnlyTouches(u) /\ Moves(u)
    BY <1>1, <2>1, WorkMoves
  <2>3. \A v \in Users : v # u => SameRows(v) /\ SameDep(v)
    BY <2>2 DEF OnlyTouches, SameRows, SameDep
  <2> QED
    BY <2>2, <2>3, MoveMaps
<1>2. CASE UNCHANGED <<dep, rows>>
  <2>1. States' = States /\ Lives' = Lives
    BY <1>2 DEF States, Lives, RowState, LiveState, ServersOf
  <2> QED
    BY <2>1, AbstractStutter
<1>3. ASSUME NEW r \in Requests, Arrive(r) PROVE UNCHANGED <<dep, rows>>
  BY <1>3 DEF Arrive, CreateServer, DeleteServer, ScaleServer, PatchServer, Begin, Refuse,
              LimitsFail
<1>4. CASE Background \/ Restart \/ UNCHANGED vars
  BY <1>2, <1>4, BackgroundStep DEF Restart, vars
<1> QED
  BY <1>1, <1>2, <1>3, <1>4 DEF Next

(* The users start without a row and a Deployment, or with one of each.    *)
LEMMA InitMaps == Init => Lifecycle!Init
<1> SUFFICES ASSUME Init PROVE Lifecycle!Init
  OBVIOUS
<1>1. IInv /\ SerialInv /\ faults = MaxFaults /\ \A r \in Requests : AtRest(r)
  BY InitIInv, InitSerial DEF Init, AtRest, Answers
<1>2. ASSUME NEW u \in Users
      PROVE  /\ RowState(u) \in {"none", "RUNNING", "TERMINATED"}
             /\ LiveState(u) = CASE RowState(u) = "none"       -> "gone"
                                 [] RowState(u) = "RUNNING"    -> "up"
                                 [] RowState(u) = "TERMINATED" -> "down"
  <2>1. Consistent(u)
    BY <1>1, AllAtRest
  <2>2. CASE ServersOf(u) = {}
    BY <1>1, <2>1, <2>2, RowStateNone, LiveStateGone DEF Consistent, Absent
  <2>3. CASE ServersOf(u) # {}
    <3>1. PICK s \in Row : ServersOf(u) = {s} /\ s.user = u
      BY <1>1, <2>3 DEF ServersOf, SerialInv, TableInv, OneServerPerUser, IInv, TypeOK
    <3>2. dep[u] = {[replicas |-> Replicas(s), args |-> s.world]}
      BY <2>1, <2>3, <3>1 DEF Consistent, Agrees
    <3>3. [replicas |-> Replicas(s), args |-> s.world] \in Deployment
      BY DEF Deployment, Replicas, Row
    <3>4. PICK d \in Deployment : dep[u] = {d} /\ d.replicas = Replicas(s)
      BY <3>2, <3>3
    <3>5. RowState(u) = s.state /\ s.state \in {"RUNNING", "TERMINATED"}
      BY <3>1, RowStateIs DEF Row
    <3>6. LiveState(u) = IF s.state = "RUNNING" THEN "up" ELSE "down"
      BY <3>4, LiveStateIs DEF Replicas
    <3> QED
      BY <3>5, <3>6
  <2> QED
    BY <2>2, <2>3
<1>3. States \in [Users -> {"none", "RUNNING", "TERMINATED"}]
  BY <1>2 DEF States
<1>4. Lives = [u \in Users |-> CASE States[u] = "none"       -> "gone"
                                [] States[u] = "RUNNING"    -> "up"
                                [] States[u] = "TERMINATED" -> "down"]
  BY <1>2 DEF States, Lives
<1> QED
  BY <1>3, <1>4 DEF Lifecycle!Init, States, Lives, RowState, LiveState

(* The routes implement the lifecycle through every failure, rollback and   *)
(* restart: a Deployment is made only for a user without one, a row is      *)
(* written only for a running Deployment, and it records what is there.     *)
THEOREM RoutesImplementLifecycle == ASSUME OneAtATime PROVE Spec => RowFollowsCluster
<1>1. IInv /\ IInv' /\ SerialInv /\ [Next]_vars => [Lifecycle!Next]_(Lifecycle!lifecycleVars)
  BY StepMaps
<1>2. Init => Lifecycle!Init
  BY InitMaps
<1> QED
  BY <1>1, <1>2, Invariance, SerialInvariance, PTL
     DEF Spec, RowFollowsCluster, Lifecycle!Spec
=============================================================================
