-------------------------- MODULE ServerApi_proofs --------------------------
(***************************************************************************)
(* Theorems about ServerApi, for every set of users, worlds and requests   *)
(* and every bound: the type invariant, and that the shared action list is *)
(* empty whenever no request is in flight.                                 *)
(***************************************************************************)
EXTENDS ServerApi, TLAPS

(* The inductive invariant.  The types of a request's frame depend on its  *)
(* label (a request that inserts a row has a user and a world), and so the *)
(* type invariant needs ControlInv; QueueInv needs neither.                *)
IInv == TypeOK /\ ControlInv /\ QueueInv

LEMMA EmptyFrameType == EmptyFrame \in Frame
  BY ConstantsAssumption DEF EmptyFrame, Frame

-----------------------------------------------------------------------------
(* Types and control, one lemma per kind of step                           *)

(* A step of request r to a label that fits its new frame                  *)
LEMMA StepType ==
    ASSUME TypeOK, ControlInv, NEW r \in Requests, NEW label \in Labels, NEW f \in Frame,
           pc' = [pc EXCEPT ![r] = label], frame' = [frame EXCEPT ![r] = f],
           Fits(label, f)
    PROVE  /\ pc' \in [Requests -> Labels]
           /\ frame' \in [Requests -> Frame]
           /\ ControlInv'
  BY DEF TypeOK, ControlInv

LEMMA EmptyFrameFits == ASSUME NEW code \in Answers PROVE Fits(code, EmptyFrame)
  BY DEF Fits, EmptyFrame, Answers, CreateLabels, QueueLabels, UpdateLabels

LEMMA InitIInv == Init => IInv
<1> SUFFICES ASSUME Init PROVE IInv
  OBVIOUS
<1>1. rows \subseteq Row
  BY DEF Init, OwnRow, Row, Name, PvcName, DeploymentName
<1>2. dep \in [Users -> SUBSET Deployment]
  <2>1. \A s \in rows : [replicas |-> Replicas(s), args |-> s.world] \in Deployment
    BY <1>1 DEF Row, Deployment, Replicas
  <2> QED
    BY <2>1 DEF Init, ServersOf
<1>3. TypeOK
  BY <1>1, <1>2, EmptyFrameType, ConstantsAssumption
     DEF Init, TypeOK, PvcStates, Labels, Answers
<1>4. ControlInv
  BY EmptyFrameFits DEF Init, ControlInv, Answers
<1>5. QueueInv
  BY DEF Init, QueueInv
<1> QED
  BY <1>3, <1>4, <1>5 DEF IInv

LEMMA AnswerType ==
    ASSUME TypeOK, ControlInv, NEW r \in Requests, NEW code \in Answers, Answer(r, code)
    PROVE  /\ pc' \in [Requests -> Labels]
           /\ frame' \in [Requests -> Frame]
           /\ upToDate' \subseteq Requests
           /\ ControlInv'
  BY EmptyFrameType, EmptyFrameFits, StepType DEF Answer, Goto, TypeOK, Labels

LEMMA FaultType ==
    ASSUME TypeOK, Fault \/ NoFault PROVE faults' \in 0 .. MaxFaults
  BY ConstantsAssumption DEF TypeOK, Fault, NoFault

LEMMA WrittenType ==
    ASSUME TypeOK, NEW kind, NEW u, Written(kind, u) PROVE upToDate' \subseteq Requests
  BY DEF TypeOK, Written

LEMMA RefuseType ==
    ASSUME TypeOK, ControlInv, NEW r \in Requests, Refuse(r)
    PROVE  TypeOK' /\ ControlInv'
  BY AnswerType DEF Refuse, TypeOK, Answers

LEMMA BeginType ==
    ASSUME TypeOK, ControlInv, NEW r \in Requests, NEW label \in Labels,
           NEW f \in Frame, Begin(r, label, f), Fits(label, f)
    PROVE  TypeOK' /\ ControlInv'
  BY StepType DEF Begin, Goto, TypeOK

LEMMA LimitsFailType ==
    ASSUME TypeOK, ControlInv, NEW r \in Requests, LimitsFail(r)
    PROVE  TypeOK' /\ ControlInv'
<1>1. PICK code \in Answers : Answer(r, code)
  BY DEF LimitsFail, Answers
<1>2. faults' \in 0 .. MaxFaults
  BY FaultType DEF LimitsFail
<1> QED
  BY <1>1, <1>2, AnswerType DEF LimitsFail, TypeOK

LEMMA ScaleFrameType ==
    ASSUME NEW e \in Frame, NEW u \in Users, NEW n \in {0, 1}, NEW copy \in SUBSET Row,
           NEW k \in 0 .. RetrySteps
    PROVE  [e EXCEPT !.op = "scale", !.user = u, !.replicas = n,
                     !.server = copy, !.tries = k] \in Frame
  BY DEF Frame

LEMMA ArriveType ==
    ASSUME TypeOK, ControlInv, NEW r \in Requests, Arrive(r)
    PROVE  TypeOK' /\ ControlInv'
<1>1. PICK u \in Users :
        \/ \E w \in Worlds : CreateServer(r, u, w)
        \/ DeleteServer(r, u)
        \/ \E n \in {0, 1} : ScaleServer(r, u, n)
        \/ \E w \in Worlds : PatchServer(r, u, w)
  BY DEF Arrive
<1>2. ASSUME NEW w \in Worlds, CreateServer(r, u, w) PROVE TypeOK' /\ ControlInv'
  <2> DEFINE f == [EmptyFrame EXCEPT !.op = "create", !.user = u, !.world = w]
  <2>1. f \in Frame /\ f.user = u /\ f.op = "create" /\ f.world = w
    BY EmptyFrameType DEF Frame, EmptyFrame
  <2>2. CASE Begin(r, "doesPvcExist", f)
    <3> HIDE DEF f
    <3> QED
      BY <2>1, <2>2, BeginType DEF Fits, Labels, Answers, CreateLabels, QueueLabels, UpdateLabels
  <2>3. CASE Refuse(r) \/ LimitsFail(r)
    BY <2>3, RefuseType, LimitsFailType
  <2> QED
    BY <1>2, <2>2, <2>3 DEF CreateServer
<1>3. ASSUME DeleteServer(r, u) PROVE TypeOK' /\ ControlInv'
  <2> DEFINE f == [EmptyFrame EXCEPT !.op = "delete", !.user = u]
  <2>1. f \in Frame /\ f.user = u /\ f.op = "delete"
    BY EmptyFrameType DEF Frame, EmptyFrame
  <2>2. Begin(r, "loadFirst", f)
    BY <1>3 DEF DeleteServer
  <2> HIDE DEF f
  <2> QED
    BY <2>1, <2>2, BeginType DEF Fits, Labels, Answers, CreateLabels, QueueLabels, UpdateLabels
<1>4. ASSUME NEW n \in {0, 1}, ScaleServer(r, u, n) PROVE TypeOK' /\ ControlInv'
  <2>1. CASE Refuse(r)
    BY <2>1, RefuseType
  <2>2. ASSUME NEW s \in ServersOf(u),
               Begin(r, "getDeployment",
                     [EmptyFrame EXCEPT !.op = "scale", !.user = u, !.replicas = n,
                                        !.server = {s}, !.tries = RetrySteps])
        PROVE  TypeOK' /\ ControlInv'
    <3> DEFINE f == [EmptyFrame EXCEPT !.op = "scale", !.user = u, !.replicas = n,
                                       !.server = {s}, !.tries = RetrySteps]
    <3>1. {s} \in SUBSET Row /\ {s} # {}
      BY DEF ServersOf, TypeOK
    <3>2. RetrySteps \in 0 .. RetrySteps /\ RetrySteps > 0
      BY ConstantsAssumption
    <3>3. f \in Frame
      BY <3>1, <3>2, EmptyFrameType, ScaleFrameType
    <3>4. f.user = u /\ f.op = "scale" /\ f.server = {s} /\ f.tries = RetrySteps
      BY DEF EmptyFrame
    <3>5. Begin(r, "getDeployment", f)
      BY <2>2
    <3> HIDE DEF f
    <3> QED
      BY <3>1, <3>2, <3>3, <3>4, <3>5, BeginType
         DEF Fits, Labels, Answers, CreateLabels, QueueLabels, UpdateLabels
  <2> QED
    BY <1>4, <2>1, <2>2 DEF ScaleServer
<1>5. ASSUME NEW w \in Worlds, PatchServer(r, u, w) PROVE TypeOK' /\ ControlInv'
  <2> DEFINE f == [EmptyFrame EXCEPT !.op = "patch", !.user = u, !.world = w]
  <2>1. f \in Frame /\ f.user = u /\ f.op = "patch" /\ f.world = w
    BY EmptyFrameType DEF Frame, EmptyFrame
  <2>2. CASE Begin(r, "getDeployment", f)
    <3> HIDE DEF f
    <3> QED
      BY <2>1, <2>2, BeginType DEF Fits, Labels, Answers, CreateLabels, QueueLabels, UpdateLabels
  <2>3. CASE Refuse(r) \/ LimitsFail(r)
    BY <2>3, RefuseType, LimitsFailType
  <2> QED
    BY <1>5, <2>2, <2>3 DEF PatchServer
<1> QED
  BY <1>1, <1>2, <1>3, <1>4, <1>5

LEMMA TodoType ==
    ASSUME NEW f \in Frame, NEW s \in Seq(Action) PROVE [f EXCEPT !.todo = s] \in Frame
  BY DEF Frame

LEMMA TodoNamesType ==
    ASSUME NEW f \in Frame, NEW s \in Seq(Action), NEW t \in Seq(Name)
    PROVE  [f EXCEPT !.todo = s, !.names = t] \in Frame
  BY DEF Frame

LEMMA CurrentFits ==
    ASSUME TypeOK, ControlInv, NEW r \in Requests
    PROVE  frame[r] \in Frame /\ Fits(pc[r], frame[r])
  BY DEF TypeOK, ControlInv

(* A step that changes the label of r and no frame                         *)
LEMMA GotoType ==
    ASSUME TypeOK, ControlInv, NEW r \in Requests, NEW label \in Labels,
           Goto(r, label), UNCHANGED frame, Fits(label, frame[r])
    PROVE  /\ pc' \in [Requests -> Labels]
           /\ frame' \in [Requests -> Frame]
           /\ ControlInv'
<1>1. frame[r] \in Frame /\ frame' = [frame EXCEPT ![r] = frame[r]]
  BY DEF TypeOK
<1> QED
  BY <1>1, StepType DEF Goto

LEMMA AfterDeleteType == ASSUME NEW x PROVE AfterDelete(x) \in PvcStates
  BY DEF AfterDelete, PvcStates

LEMMA RemoveOldPvcType ==
    ASSUME TypeOK, ControlInv, NEW r \in Requests, RemoveOldPvc(r)
    PROVE  TypeOK' /\ ControlInv'
<1> USE CurrentFits DEF Fits, Labels, Answers, CreateLabels, QueueLabels, UpdateLabels
<1>1. CASE pc[r] = "doesPvcExist" /\ DoesPvcExist(r, "getPvc", "loadFirst")
  <2>1. PICK label \in {"getPvc", "loadFirst"} : Goto(r, label)
    BY <1>1 DEF DoesPvcExist
  <2>2. faults' \in 0 .. MaxFaults
    BY <1>1, FaultType DEF DoesPvcExist
  <2> QED
    BY <1>1, <2>1, <2>2, GotoType DEF DoesPvcExist, RemoveOldPvc, TypeOK
<1>2. CASE pc[r] = "getPvc" /\ GetPvc(r, "clearFinalizers", "deletePvc", "loadFirst")
  <2>1. PICK label \in {"clearFinalizers", "deletePvc", "loadFirst"} : Goto(r, label)
    BY <1>2 DEF GetPvc
  <2> QED
    BY <1>2, <2>1, GotoType DEF GetPvc, NoFault, RemoveOldPvc, TypeOK
<1>3. CASE pc[r] = "clearFinalizers" /\ ClearFinalizers(r, "deletePvc")
  <2>1. pvc' \in [Users -> PvcStates]
    BY <1>3 DEF ClearFinalizers, TypeOK, PvcStates
  <2> QED
    BY <1>3, <2>1, GotoType, WrittenType DEF ClearFinalizers, NoFault, RemoveOldPvc, TypeOK
<1>4. CASE pc[r] = "deletePvc" /\ DeletePvc(r, "loadFirst")
  <2>1. pvc' \in [Users -> PvcStates]
    BY <1>4, AfterDeleteType DEF DeletePvc, TypeOK
  <2> QED
    BY <1>4, <2>1, GotoType, WrittenType DEF DeletePvc, NoFault, RemoveOldPvc, TypeOK
<1> QED
  BY <1>1, <1>2, <1>3, <1>4 DEF RemoveOldPvc

LEMMA QueuedType ==
    ASSUME NEW f \in Frame, f.user \in Users, f.op \in {"create", "delete"},
           f.op = "create" => f.world \in Worlds
    PROVE  Queued(f)[1] \in Action /\ Queued(f)[2] \in Action
  BY DEF Queued, Action, PVCAction, DeploymentAction

LEMMA AddActionsType ==
    ASSUME TypeOK, ControlInv, NEW r \in Requests, AddActions(r)
    PROVE  TypeOK' /\ ControlInv'
<1> DEFINE loaded == [frame[r] EXCEPT !.todo = actions]
           stored == [frame[r] EXCEPT !.todo = <<>>]
<1>1. loaded \in Frame /\ stored \in Frame
  <2>1. frame[r] \in Frame /\ actions \in Seq(Action) /\ <<>> \in Seq(Action)
    BY CurrentFits DEF TypeOK
  <2> QED
    BY <2>1, TodoType
<1>2. ASSUME NEW f \in {loaded, stored}, NEW label \in QueueLabels \cup {"apply"},
             pc[r] \in QueueLabels, label = "apply" => frame[r].op = "create"
      PROVE  Fits(label, f)
  BY <1>2, CurrentFits DEF Fits, Labels, Answers, CreateLabels, QueueLabels, UpdateLabels, Frame
<1>3. ASSUME NEW label \in {"storeFirst", "storeSecond"},
             pc[r] \in QueueLabels, LoadActions(r, label), UNCHANGED rows
      PROVE  TypeOK' /\ ControlInv'
  <2>1. frame' = [frame EXCEPT ![r] = loaded]
    BY <1>3 DEF LoadActions
  <2>2. Fits(label, loaded) /\ label \in Labels
    BY <1>2, <1>3 DEF QueueLabels, Labels
  <2> HIDE DEF loaded
  <2> QED
    BY <1>1, <1>3, <2>1, <2>2, StepType DEF LoadActions, Goto, TypeOK
<1>4. ASSUME NEW a \in Action, NEW label \in QueueLabels \cup {"apply"},
             pc[r] \in QueueLabels, label = "apply" => frame[r].op = "create",
             StoreAction(r, a, label), UNCHANGED rows
      PROVE  TypeOK' /\ ControlInv'
  <2>1. frame' = [frame EXCEPT ![r] = stored]
    BY <1>4 DEF StoreAction
  <2>2. Fits(label, stored) /\ label \in Labels
    BY <1>2, <1>4 DEF Labels, CreateLabels
  <2>3. frame[r].todo \in Seq(Action)
    BY CurrentFits DEF Frame
  <2>4. actions' \in Seq(Action)
    BY <1>4, <2>3 DEF StoreAction
  <2> HIDE DEF stored
  <2> QED
    BY <1>1, <1>4, <2>1, <2>2, <2>4, StepType DEF StoreAction, Goto, TypeOK
<1>5. pc[r] \in QueueLabels
  BY DEF AddActions, QueueLabels
<1>6. Queued(frame[r])[1] \in Action /\ Queued(frame[r])[2] \in Action
  BY <1>5, CurrentFits, QueuedType DEF Fits, Labels, Answers, CreateLabels, QueueLabels, UpdateLabels
<1> HIDE DEF loaded, stored
<1> QED
  BY <1>3, <1>4, <1>5, <1>6 DEF AddActions, QueueLabels

LEMMA ObjectType ==
    ASSUME TypeOK, NEW a \in Action, Creatable(a), CreateObject(a)
    PROVE  pvc' \in [Users -> PvcStates] /\ dep' \in [Users -> SUBSET Deployment]
<1>1. a.spec \in Worlds /\ a.user \in Users
  BY DEF Creatable, Action
<1>2. {[replicas |-> 1, args |-> a.spec]} \in SUBSET Deployment
  BY <1>1 DEF Deployment
<1> QED
  BY <1>1, <1>2 DEF CreateObject, TypeOK, PvcStates

LEMMA ApplyResourcesType ==
    ASSUME TypeOK, ControlInv, NEW r \in Requests, ApplyResources(r)
    PROVE  TypeOK' /\ ControlInv'
<1>1. frame[r] \in Frame /\ frame[r].op = "create" /\ Fits(pc[r], frame[r]) /\ UNCHANGED rows
  BY CurrentFits DEF ApplyResources, Fits, Labels, Answers, CreateLabels, QueueLabels, UpdateLabels
<1>2. frame[r].todo \in Seq(Action) /\ frame[r].names \in Seq(Name) /\ actions \in Seq(Action)
  BY <1>1 DEF Frame, TypeOK
<1>3. pc[r] \in {"apply", "applying"} /\ frame[r].user \in Users
  BY <1>1 DEF ApplyResources, Fits, Labels, Answers, CreateLabels, QueueLabels, UpdateLabels
<1>4. ASSUME NEW label \in {"applying", "rollback"}, NEW f \in Frame,
             f = [frame[r] EXCEPT !.todo = f.todo, !.names = f.names]
      PROVE  Fits(label, f)
  BY <1>1, <1>3, <1>4 DEF Frame, Fits, Labels, Answers, CreateLabels, QueueLabels, UpdateLabels
<1>5. CASE ApplyStart(r, "applying")
  <2> DEFINE f == [frame[r] EXCEPT !.todo = actions, !.names = <<>>]
  <2>1. f \in Frame
    <3>1. <<>> \in Seq(Name)
      OBVIOUS
    <3> QED
      BY <1>1, <1>2, <3>1, TodoNamesType
  <2>2. f.todo = actions /\ f.names = <<>>
    BY <1>1 DEF Frame
  <2>3. frame' = [frame EXCEPT ![r] = f]
    BY <1>5 DEF ApplyStart
  <2>4. Fits("applying", f)
    BY <1>4, <2>1, <2>2
  <2> HIDE DEF f
  <2> QED
    BY <1>1, <1>5, <2>1, <2>3, <2>4, StepType DEF ApplyStart, Goto, TypeOK, Labels, CreateLabels
<1>6. CASE pc[r] = "applying" /\ ApplyOne(r)
  <2> DEFINE a == Head(frame[r].todo)
             f == [frame[r] EXCEPT !.todo = Tail(@), !.names = Append(@, NameOf(a))]
  <2>1. a \in Action /\ Tail(frame[r].todo) \in Seq(Action) /\ Append(frame[r].names, NameOf(a)) \in Seq(Name)
    <3>1. a \in Action /\ Tail(frame[r].todo) \in Seq(Action)
      BY <1>2, <1>6 DEF ApplyOne
    <3>2. NameOf(a) \in Name
      BY <3>1 DEF NameOf, Action, Name
    <3> QED
      BY <1>2, <3>1, <3>2
  <2>2. f \in Frame
    BY <1>1, <2>1, TodoNamesType
  <2>3. f.todo = Tail(frame[r].todo) /\ f.names = Append(frame[r].names, NameOf(a))
    BY <1>1 DEF Frame
  <2>4. frame' = [frame EXCEPT ![r] = f]
    BY <1>6 DEF ApplyOne
  <2>5. Fits("applying", f)
    BY <1>4, <2>2, <2>3
  <2>6. pvc' \in [Users -> PvcStates] /\ dep' \in [Users -> SUBSET Deployment]
    BY <1>6, <2>1, ObjectType DEF ApplyOne
  <2>7. upToDate' \subseteq Requests
    BY <1>6, WrittenType DEF ApplyOne
  <2>8. pc' = [pc EXCEPT ![r] = "applying"]
    BY <1>6 DEF ApplyOne, TypeOK
  <2> HIDE DEF f, a
  <2> QED
    BY <1>1, <1>6, <2>2, <2>4, <2>5, <2>6, <2>7, <2>8, StepType
       DEF ApplyOne, NoFault, TypeOK, Labels, CreateLabels
<1>7. CASE pc[r] = "applying" /\ ApplyFails(r, "rollback")
  <2> DEFINE f == [frame[r] EXCEPT !.todo = <<>>]
  <2>1. f \in Frame /\ f.todo = <<>> /\ f.names = frame[r].names
    <3>1. <<>> \in Seq(Action)
      OBVIOUS
    <3>2. f \in Frame
      BY <1>1, <3>1, TodoType
    <3> QED
      BY <1>1, <3>2 DEF Frame
  <2>2. frame' = [frame EXCEPT ![r] = f]
    BY <1>7 DEF ApplyFails
  <2>3. Fits("rollback", f)
    BY <1>4, <2>1, <1>1 DEF Frame
  <2>4. faults' \in 0 .. MaxFaults
    BY <1>7, FaultType DEF ApplyFails
  <2> HIDE DEF f
  <2> QED
    BY <1>1, <1>7, <2>1, <2>2, <2>3, <2>4, StepType
       DEF ApplyFails, Goto, TypeOK, Labels, QueueLabels
<1>8. CASE pc[r] = "applying" /\ ApplyReturns(r, "insertRow")
  <2>1. Fits("insertRow", frame[r]) /\ "insertRow" \in Labels
    BY <1>1, <1>3 DEF Fits, Labels, Answers, CreateLabels, QueueLabels, UpdateLabels
  <2> QED
    BY <1>1, <1>8, <2>1, GotoType DEF ApplyReturns, TypeOK
<1> QED
  BY <1>5, <1>6, <1>7, <1>8 DEF ApplyResources

LEMMA RollbackType ==
    ASSUME TypeOK, ControlInv, NEW r \in Requests, Rollback(r)
    PROVE  TypeOK' /\ ControlInv'
<1>1. frame[r] \in Frame /\ Fits(pc[r], frame[r]) /\ UNCHANGED rows
  BY CurrentFits DEF Rollback
<1>2. /\ pc[r] \in {"rollback", "rolling"} /\ frame[r].user \in Users
      /\ frame[r].op \in {"create", "delete"}
  BY <1>1 DEF Rollback, Fits, Labels, Answers, CreateLabels, QueueLabels, UpdateLabels
<1>3. frame[r].todo \in Seq(Action) /\ actions \in Seq(Action)
  BY <1>1 DEF Frame, TypeOK
<1>4. ASSUME NEW todo \in Seq(Action)
      PROVE  LET f == [frame[r] EXCEPT !.todo = todo] IN f \in Frame /\ Fits("rolling", f)
  <2> DEFINE f == [frame[r] EXCEPT !.todo = todo]
  <2>1. f \in Frame
    BY <1>1, TodoType
  <2>2. f.op = frame[r].op /\ f.user = frame[r].user /\ f.world = frame[r].world
    BY <1>1 DEF Frame
  <2>3. Fits("rolling", f)
    <3> HIDE DEF f
    <3> QED
      BY <1>1, <1>2, <2>2 DEF Fits, Labels, Answers, CreateLabels, QueueLabels, UpdateLabels
  <2> QED
    BY <2>1, <2>3
<1>5. CASE RollbackStart(r, "rolling")
  <2> DEFINE f == [frame[r] EXCEPT !.todo = actions]
  <2>1. f \in Frame /\ Fits("rolling", f)
    BY <1>3, <1>4
  <2>2. frame' = [frame EXCEPT ![r] = f]
    BY <1>5 DEF RollbackStart
  <2> HIDE DEF f
  <2> QED
    BY <1>1, <1>5, <2>1, <2>2, StepType DEF RollbackStart, Goto, TypeOK, Labels, QueueLabels
<1>6. CASE pc[r] = "rolling" /\ RollbackOne(r)
  <2> DEFINE a == Head(frame[r].todo)
             f == [frame[r] EXCEPT !.todo = Tail(@)]
  <2>1. a \in Action /\ Tail(frame[r].todo) \in Seq(Action)
    BY <1>3, <1>6 DEF RollbackOne
  <2>2. f \in Frame /\ Fits("rolling", f)
    BY <1>4, <2>1
  <2>3. frame' = [frame EXCEPT ![r] = f] /\ pc' = [pc EXCEPT ![r] = "rolling"]
    BY <1>6 DEF RollbackOne, TypeOK
  <2>4. pvc' \in [Users -> PvcStates] /\ dep' \in [Users -> SUBSET Deployment]
    <3>1. pvc \in [Users -> PvcStates] /\ dep \in [Users -> SUBSET Deployment]
      BY DEF TypeOK
    <3>2. CASE UNCHANGED <<pvc, dep>>
      BY <3>1, <3>2
    <3>3. CASE pvc' = [pvc EXCEPT ![a.user] = AfterDelete(@)] /\ UNCHANGED dep
      BY <3>1, <3>3, AfterDeleteType
    <3>4. CASE dep' = [dep EXCEPT ![a.user] = {}] /\ UNCHANGED pvc
      BY <3>1, <3>4
    <3> QED
      BY <1>6, <3>2, <3>3, <3>4 DEF RollbackOne
  <2>5. upToDate' \subseteq Requests /\ faults' \in 0 .. MaxFaults
    BY <1>6, WrittenType, FaultType DEF RollbackOne, TypeOK
  <2> HIDE DEF f, a
  <2> QED
    BY <1>1, <1>6, <2>2, <2>3, <2>4, <2>5, StepType DEF RollbackOne, TypeOK, Labels, QueueLabels
<1>7. CASE pc[r] = "rolling" /\ frame[r].op = "create" /\ RollbackReturns(r, "applying")
  <2>1. Fits("applying", frame[r]) /\ "applying" \in Labels
    BY <1>1, <1>2, <1>7 DEF Fits, Labels, Answers, CreateLabels, QueueLabels, UpdateLabels
  <2> QED
    BY <1>1, <1>7, <2>1, GotoType DEF RollbackReturns, TypeOK
<1>8. CASE pc[r] = "rolling" /\ frame[r].op = "delete" /\ RollbackReturns(r, "deleteRows")
  <2>1. Fits("deleteRows", frame[r]) /\ "deleteRows" \in Labels
    BY <1>1, <1>2, <1>8 DEF Fits, Labels, Answers, CreateLabels, QueueLabels, UpdateLabels
  <2> QED
    BY <1>1, <1>8, <2>1, GotoType DEF RollbackReturns, TypeOK
<1> QED
  BY <1>5, <1>6, <1>7, <1>8 DEF Rollback

LEMMA InsertRowType ==
    ASSUME TypeOK, ControlInv, NEW r \in Requests, InsertRow(r)
    PROVE  TypeOK' /\ ControlInv'
<1>1. /\ frame[r] \in Frame /\ frame[r].user \in Users /\ frame[r].op = "create"
      /\ frame[r].world \in Worlds
  BY CurrentFits DEF InsertRow, Fits, Labels, Answers, CreateLabels, QueueLabels, UpdateLabels
<1>2. CASE Len(frame[r].names) # 2 /\ Answer(r, "500") /\ UNCHANGED rows
  BY <1>2, AnswerType DEF InsertRow, TypeOK, Answers
<1>3. CASE Len(frame[r].names) = 2 /\ FreshIds # {}
  <2> DEFINE s == [id |-> FreshId, user |-> frame[r].user, pvcName |-> frame[r].names[1],
                   deploymentName |-> frame[r].names[2], state |-> "RUNNING",
                   world |-> frame[r].world]
             f == [frame[r] EXCEPT !.server = {s}]
  <2>1. FreshId \in RowIds
    BY <1>3 DEF FreshId, FreshIds
  <2>2. frame[r].names[1] \in Name /\ frame[r].names[2] \in Name
    <3>1. frame[r].names \in Seq(Name)
      BY <1>1 DEF Frame
    <3> QED
      BY <1>3, <3>1
  <2>3. s \in Row
    BY <1>1, <2>1, <2>2 DEF Row
  <2>4. f \in Frame /\ f.op = "create" /\ f.user \in Users /\ f.world \in Worlds
    BY <1>1, <2>3 DEF Frame
  <2>5. Fits("saveUser", f)
    <3> HIDE DEF f
    <3> QED
      BY <2>4 DEF Fits, Labels, Answers, CreateLabels, QueueLabels, UpdateLabels
  <2>6. rows' = rows \cup {s} /\ frame' = [frame EXCEPT ![r] = f] /\ Goto(r, "saveUser")
    BY <1>3 DEF InsertRow
  <2>7. UNCHANGED <<pvc, dep, actions, faults, upToDate>>
    BY <1>3 DEF InsertRow
  <2> HIDE DEF f, s
  <2> QED
    BY <2>3, <2>4, <2>5, <2>6, <2>7, StepType DEF Goto, TypeOK, Labels, CreateLabels
<1> QED
  BY <1>2, <1>3 DEF InsertRow

LEMMA SaveUserType ==
    ASSUME TypeOK, ControlInv, NEW r \in Requests, SaveUser(r)
    PROVE  TypeOK' /\ ControlInv'
<1>1. frame[r].server \subseteq Row
  BY CurrentFits DEF Frame
<1>2. rows' \subseteq Row
  BY <1>1 DEF SaveUser, TypeOK
<1> QED
  BY <1>2, AnswerType DEF SaveUser, TypeOK, Answers

LEMMA DeleteRowsType ==
    ASSUME TypeOK, ControlInv, NEW r \in Requests, DeleteRows(r)
    PROVE  TypeOK' /\ ControlInv'
  BY AnswerType DEF DeleteRows, TypeOK, Answers

LEMMA GetDeploymentType ==
    ASSUME TypeOK, ControlInv, NEW r \in Requests, GetDeployment(r) \/ GetScale(r)
    PROVE  TypeOK' /\ ControlInv'
<1>1. UNCHANGED <<pvc, dep, actions, faults, rows>>
  BY DEF GetDeployment, GetScale
<1>2. CASE Answer(r, "500")
  BY <1>1, <1>2, AnswerType DEF TypeOK, Answers
<1>3. ASSUME NEW label \in {"updateDeployment", "updateScale"},
             label = "updateScale" => pc[r] = "getScale",
             pc[r] \in {"getDeployment", "getScale"},
             Goto(r, label), upToDate' = upToDate \cup {r}, UNCHANGED frame
      PROVE  TypeOK' /\ ControlInv'
  <2>1. Fits(label, frame[r]) /\ label \in Labels
    BY <1>3, CurrentFits DEF Fits, Labels, Answers, CreateLabels, QueueLabels, UpdateLabels
  <2> QED
    BY <1>1, <1>3, <2>1, GotoType DEF TypeOK
<1> QED
  BY <1>2, <1>3 DEF GetDeployment, GetScale

LEMMA UpdateDeploymentType ==
    ASSUME TypeOK, ControlInv, NEW r \in Requests, UpdateDeployment(r)
    PROVE  TypeOK' /\ ControlInv'
<1>1. /\ frame[r] \in Frame /\ frame[r].user \in Users /\ frame[r].op \in {"scale", "patch"}
      /\ Fits("updateDeployment", frame[r])
  BY CurrentFits DEF UpdateDeployment, Fits, Labels, Answers, CreateLabels, QueueLabels, UpdateLabels
<1>2. UNCHANGED <<pvc, actions, faults, rows>>
  BY DEF UpdateDeployment
<1>3. CASE r \notin upToDate
  BY <1>2, <1>3, AnswerType DEF UpdateDeployment, TypeOK, Answers
<1>4. CASE r \in upToDate
  <2>1. NewArgs(frame[r]) \in Worlds
    <3>1. CASE frame[r].op = "patch"
      BY <1>1, <3>1 DEF NewArgs, Fits
    <3>2. CASE frame[r].op = "scale"
      <4>1. frame[r].server \subseteq Row /\ frame[r].server # {}
        BY <1>1, <3>2 DEF Frame, Fits
      <4>2. (CHOOSE s \in frame[r].server : TRUE) \in Row
        BY <4>1
      <4> QED
        BY <3>2, <4>2 DEF NewArgs, Row
    <3> QED
      BY <1>1, <3>1, <3>2
  <2>2. dep' \in [Users -> SUBSET Deployment]
    <3>1. \A d \in Deployment : [d EXCEPT !.args = NewArgs(frame[r])] \in Deployment
      BY <2>1 DEF Deployment
    <3>2. dep[frame[r].user] \subseteq Deployment
      BY <1>1 DEF TypeOK
    <3>3. {[d EXCEPT !.args = NewArgs(frame[r])] : d \in dep[frame[r].user]} \in SUBSET Deployment
      BY <3>1, <3>2
    <3> QED
      BY <1>4, <3>3 DEF UpdateDeployment, TypeOK
  <2>3. upToDate' \subseteq Requests
    BY <1>4, WrittenType DEF UpdateDeployment
  <2>4. PICK label \in {"getScale", "findServer"} :
            Goto(r, label) /\ (label = "getScale" => frame[r].op = "scale")
    BY <1>4 DEF UpdateDeployment
  <2>5. Fits(label, frame[r]) /\ label \in Labels
    BY <1>1, <2>4 DEF Fits, Labels, Answers, CreateLabels, QueueLabels, UpdateLabels
  <2> QED
    BY <1>2, <1>4, <2>2, <2>3, <2>4, <2>5, GotoType DEF UpdateDeployment, TypeOK
<1> QED
  BY <1>3, <1>4

LEMMA UpdateScaleType ==
    ASSUME TypeOK, ControlInv, NEW r \in Requests, UpdateScale(r)
    PROVE  TypeOK' /\ ControlInv'
<1>1. frame[r] \in Frame /\ frame[r].user \in Users /\ Fits("updateScale", frame[r])
  BY CurrentFits DEF UpdateScale, Fits, Labels, Answers, CreateLabels, QueueLabels, UpdateLabels
<1>2. dep' \in [Users -> SUBSET Deployment]
  <2>1. frame[r].replicas \in {0, 1}
    BY <1>1 DEF Frame
  <2>2. \A d \in Deployment : [d EXCEPT !.replicas = frame[r].replicas] \in Deployment
    BY <2>1 DEF Deployment
  <2>3. {[d EXCEPT !.replicas = frame[r].replicas] : d \in dep[frame[r].user]} \in SUBSET Deployment
    BY <1>1, <2>2 DEF TypeOK
  <2> QED
    BY <2>3 DEF UpdateScale, TypeOK
<1>3. Fits("saveRow", frame[r]) /\ "saveRow" \in Labels
  BY <1>1 DEF Fits, Labels, Answers, CreateLabels, QueueLabels, UpdateLabels
<1> QED
  BY <1>2, <1>3, GotoType, WrittenType DEF UpdateScale, TypeOK

LEMMA ScaleConflictType ==
    ASSUME TypeOK, ControlInv, NEW r \in Requests, ScaleConflict(r)
    PROVE  TypeOK' /\ ControlInv'
<1>1. /\ frame[r] \in Frame /\ Fits("updateScale", frame[r]) /\ frame[r].op = "scale"
      /\ frame[r].user \in Users
  BY CurrentFits DEF ScaleConflict, Fits, Labels, Answers, CreateLabels, QueueLabels, UpdateLabels
<1>2. faults' \in 0 .. MaxFaults /\ UNCHANGED <<pvc, dep, actions, rows>>
  BY FaultType DEF ScaleConflict
<1>3. CASE Answer(r, "500")
  BY <1>2, <1>3, AnswerType DEF TypeOK, Answers
<1>4. CASE frame[r].tries # 1 /\ ~Answer(r, "500")
  <2> DEFINE k == frame[r].tries - 1
             f == [frame[r] EXCEPT !.tries = k]
  <2>1. frame[r].tries \in 0 .. RetrySteps /\ frame[r].tries > 0
    BY <1>1 DEF Frame, Fits
  <2>2. k \in 0 .. RetrySteps /\ k > 0
    BY <1>4, <2>1, ConstantsAssumption
  <2> HIDE DEF k
  <2>3. f \in Frame
    BY <1>1, <2>2 DEF Frame
  <2>4. /\ f.tries = k /\ f.op = "scale" /\ f.user = frame[r].user
        /\ f.server = frame[r].server
    BY <1>1 DEF Frame
  <2>5. Fits("getScale", f) /\ "getScale" \in Labels
    <3> HIDE DEF f
    <3> QED
      BY <1>1, <2>2, <2>4 DEF Fits, Labels, Answers, CreateLabels, QueueLabels, UpdateLabels
  <2>6. frame' = [frame EXCEPT ![r] = f] /\ Goto(r, "getScale") /\ UNCHANGED upToDate
    BY <1>4 DEF ScaleConflict, k
  <2> HIDE DEF f
  <2> QED
    BY <1>2, <2>3, <2>5, <2>6, StepType DEF Goto, TypeOK
<1> QED
  BY <1>3, <1>4 DEF ScaleConflict

LEMMA SaveRowType ==
    ASSUME TypeOK, ControlInv, NEW r \in Requests, SaveRow(r)
    PROVE  TypeOK' /\ ControlInv'
<1>1. frame[r].server \subseteq Row
  BY CurrentFits DEF Frame
<1>2. \A s \in frame[r].server : [s EXCEPT !.state = StateOf(frame[r].replicas)] \in Row
  BY <1>1 DEF Row, StateOf
<1>3. rows' \subseteq Row
  BY <1>2 DEF SaveRow, TypeOK
<1> QED
  BY <1>3, AnswerType DEF SaveRow, TypeOK, Answers

LEMMA EarlyAnswerType ==
    ASSUME TypeOK, ControlInv, NEW r \in Requests,
           FindServer(r) \/ ClearFinalizersConflict(r) \/ CallFails(r)
    PROVE  TypeOK' /\ ControlInv'
<1>1. CASE FindServer(r)
  BY <1>1, RefuseType DEF FindServer
<1>2. CASE ClearFinalizersConflict(r)
  BY <1>2, AnswerType DEF ClearFinalizersConflict, TypeOK, Answers
<1>3. CASE CallFails(r)
  BY <1>3, AnswerType, FaultType DEF CallFails, TypeOK, Answers
<1> QED
  BY <1>1, <1>2, <1>3

LEMMA WorkType ==
    ASSUME TypeOK, ControlInv, NEW r \in Requests, Work(r)
    PROVE  TypeOK' /\ ControlInv'
  BY RemoveOldPvcType, AddActionsType, ApplyResourcesType, RollbackType, InsertRowType,
     SaveUserType, DeleteRowsType, GetDeploymentType, UpdateDeploymentType, UpdateScaleType,
     ScaleConflictType, SaveRowType, EarlyAnswerType
     DEF Work

LEMMA EnvironmentType ==
    ASSUME TypeOK, ControlInv, Background \/ Restart
    PROVE  TypeOK' /\ ControlInv'
<1>1. CASE Background
  <2>1. PICK u \in Users : (FinishPvcDeletion(u) \/ RestoreFinalizer(u)) /\ UNCHANGED rows
    BY <1>1 DEF Background
  <2>2. pvc' \in [Users -> PvcStates]
    BY <2>1 DEF FinishPvcDeletion, RestoreFinalizer, TypeOK, PvcStates
  <2>3. upToDate' \subseteq Requests
    BY <2>1, WrittenType DEF FinishPvcDeletion, RestoreFinalizer
  <2>4. UNCHANGED <<dep, actions, pc, frame, faults, rows>>
    BY <2>1 DEF FinishPvcDeletion, RestoreFinalizer
  <2> QED
    BY <2>2, <2>3, <2>4 DEF TypeOK, ControlInv
<1>2. CASE Restart
  <2>1. pc' \in [Requests -> Labels] /\ \A r \in Requests : pc'[r] \in Answers
    BY <1>2 DEF Restart, AtRest, TypeOK, Labels, Answers
  <2>2. frame' \in [Requests -> Frame] /\ \A r \in Requests : frame'[r] = EmptyFrame
    BY <1>2, EmptyFrameType DEF Restart
  <2>3. ControlInv'
    BY <2>1, <2>2, EmptyFrameFits DEF ControlInv
  <2>4. faults' \in 0 .. MaxFaults /\ actions' \in Seq(Action)
    BY <1>2, FaultType DEF Restart
  <2> QED
    BY <1>2, <2>1, <2>2, <2>3, <2>4 DEF Restart, TypeOK
<1> QED
  BY <1>1, <1>2

-----------------------------------------------------------------------------
(* The list of actions                                                     *)

(* A step that leaves the list alone and stops no request that will drop   *)
(* the list preserves QueueInv.                                            *)
LEMMA QueueKept ==
    ASSUME QueueInv, UNCHANGED actions, \A q \in Requests : Queueing(q) => Queueing(q)'
    PROVE  QueueInv'
  BY DEF QueueInv

(* So does a step of a request that is not queueing.                       *)
LEMMA OtherRequestStep ==
    ASSUME TypeOK, QueueInv, NEW r \in Requests, NEW label, Goto(r, label),
           ~Queueing(r), UNCHANGED actions
    PROVE  QueueInv'
<1>1. \A q \in Requests : Queueing(q) => Queueing(q)'
  BY DEF Queueing, Goto, TypeOK
<1> QED
  BY <1>1, QueueKept

(* And a step of a queueing request that keeps queueing.                   *)
LEMMA QueueingStep ==
    ASSUME TypeOK, NEW r \in Requests, Queueing(r)' PROVE QueueInv'
  BY DEF QueueInv

LEMMA QueueArrive ==
    ASSUME TypeOK, QueueInv, NEW r \in Requests, Arrive(r) PROVE QueueInv'
<1>1. ~Queueing(r) /\ UNCHANGED actions
  BY DEF Arrive, CreateServer, DeleteServer, ScaleServer, PatchServer, Accepting, Begin,
         Refuse, LimitsFail, AtRest, Answers, Queueing
<1>2. \E label : Goto(r, label)
  BY DEF Arrive, CreateServer, DeleteServer, ScaleServer, PatchServer, Begin, Refuse,
         LimitsFail, Answer
<1> QED
  BY <1>1, <1>2, OtherRequestStep

LEMMA QueueWork ==
    ASSUME TypeOK, QueueInv, NEW r \in Requests, Work(r) PROVE QueueInv'
<1>1. CASE RemoveOldPvc(r)
  <2>1. ~Queueing(r) /\ UNCHANGED actions /\ \E label : Goto(r, label)
    BY <1>1 DEF RemoveOldPvc, DoesPvcExist, GetPvc, ClearFinalizers, DeletePvc, Queueing
  <2> QED
    BY <2>1, OtherRequestStep
<1>2. CASE AddActions(r)
  <2>1. CASE pc[r] = "loadFirst" /\ LoadActions(r, "storeFirst")
    <3>1. ~Queueing(r) /\ UNCHANGED actions /\ Goto(r, "storeFirst")
      BY <2>1 DEF LoadActions, Queueing
    <3> QED
      BY <3>1, OtherRequestStep
  <2>2. CASE ~(pc[r] = "loadFirst" /\ LoadActions(r, "storeFirst"))
    <3>1. Queueing(r)'
      BY <1>2, <2>2 DEF AddActions, LoadActions, StoreAction, Goto, Queueing, TypeOK
    <3> QED
      BY <3>1, QueueingStep
  <2> QED
    BY <2>1, <2>2
<1>3. CASE ApplyResources(r)
  <2>1. CASE ApplyReturns(r, "insertRow")
    BY <2>1 DEF ApplyReturns, QueueInv
  <2>2. CASE ~ApplyReturns(r, "insertRow")
    <3>1. Queueing(r)'
      BY <1>3, <2>2 DEF ApplyResources, ApplyStart, ApplyOne, ApplyFails, Goto, Queueing, TypeOK
    <3> QED
      BY <3>1, QueueingStep
  <2> QED
    BY <2>1, <2>2
<1>4. CASE Rollback(r)
  <2>1. CASE actions' = <<>>
    BY <2>1 DEF QueueInv
  <2>2. CASE actions' # <<>>
    <3>1. Queueing(r)'
      BY <1>4, <2>2 DEF Rollback, RollbackStart, RollbackOne, RollbackReturns, Goto,
                        Queueing, TypeOK
    <3> QED
      BY <3>1, QueueingStep
  <2> QED
    BY <2>1, <2>2
<1>5. CASE InsertRow(r) \/ SaveUser(r) \/ DeleteRows(r)
  <2>1. ~Queueing(r) /\ UNCHANGED actions /\ \E label : Goto(r, label)
    BY <1>5 DEF InsertRow, SaveUser, DeleteRows, Answer, Queueing
  <2> QED
    BY <2>1, OtherRequestStep
<1>6. CASE GetDeployment(r) \/ UpdateDeployment(r) \/ FindServer(r)
  <2>1. ~Queueing(r) /\ UNCHANGED actions /\ \E label : Goto(r, label)
    BY <1>6 DEF GetDeployment, UpdateDeployment, FindServer, Refuse, Answer, Queueing
  <2> QED
    BY <2>1, OtherRequestStep
<1>7. CASE GetScale(r) \/ UpdateScale(r) \/ ScaleConflict(r) \/ SaveRow(r)
  <2>1. ~Queueing(r) /\ UNCHANGED actions /\ \E label : Goto(r, label)
    BY <1>7 DEF GetScale, UpdateScale, ScaleConflict, SaveRow, Answer, Queueing
  <2> QED
    BY <2>1, OtherRequestStep
<1>8. CASE ClearFinalizersConflict(r) \/ CallFails(r)
  <2>1. ~Queueing(r) /\ UNCHANGED actions /\ Goto(r, "500")
    BY <1>8 DEF ClearFinalizersConflict, CallFails, CheckedCalls, Answer, Queueing
  <2> QED
    BY <2>1, OtherRequestStep
<1> QED
  BY <1>1, <1>2, <1>3, <1>4, <1>5, <1>6, <1>7, <1>8 DEF Work

LEMMA QueueEnvironment ==
    ASSUME QueueInv, Background \/ Restart PROVE QueueInv'
<1>1. CASE Background
  <2>1. UNCHANGED <<actions, pc>>
    BY <1>1 DEF Background, FinishPvcDeletion, RestoreFinalizer
  <2> QED
    BY <2>1, QueueKept DEF Queueing
<1>2. CASE Restart
  BY <1>2 DEF Restart, QueueInv
<1> QED
  BY <1>1, <1>2

-----------------------------------------------------------------------------
LEMMA NextIInv == IInv /\ [Next]_vars => IInv'
<1> SUFFICES ASSUME IInv, [Next]_vars PROVE IInv'
  OBVIOUS
<1>1. TypeOK /\ ControlInv /\ QueueInv
  BY DEF IInv
<1>2. ASSUME NEW r \in Requests, Arrive(r) \/ Work(r) PROVE IInv'
  BY <1>1, <1>2, ArriveType, WorkType, QueueArrive, QueueWork DEF IInv
<1>3. CASE Background \/ Restart
  BY <1>1, <1>3, EnvironmentType, QueueEnvironment DEF IInv
<1>4. CASE UNCHANGED vars
  BY <1>1, <1>4 DEF vars, IInv, TypeOK, ControlInv, QueueInv, Queueing
<1> QED
  BY <1>2, <1>3, <1>4 DEF Next

(* The inductive invariant holds in every reachable state: the handlers    *)
(* keep their local variables and the shared list in order, whatever they  *)
(* do to each other's Kubernetes objects.                                  *)
THEOREM Invariance == Spec => []IInv
  BY InitIInv, NextIInv, PTL DEF Spec

(* Every reachable state is well typed: in particular the arguments of a   *)
(* Deployment always come from a request body or a row, although a create  *)
(* applies whatever the shared list holds.                                 *)
THEOREM TypeCorrect == Spec => []TypeOK
<1>1. IInv => TypeOK
  BY DEF IInv
<1> QED
  BY <1>1, Invariance, PTL

(* Whenever no request is in flight the shared action list is empty, for   *)
(* any number of concurrent requests: however their unsynchronised appends,*)
(* applies and rollbacks interleave, fail or are cut short by a restart,   *)
(* nothing queued by a finished request waits for a later one.             *)
THEOREM NothingLeftQueued == Spec => []QueueDrained
<1>1. QueueInv => QueueDrained
  BY DEF QueueInv, QueueDrained, AtRest, Answers, Queueing
<1>2. IInv => QueueDrained
  BY <1>1 DEF IInv
<1> QED
  BY <1>2, Invariance, PTL
=============================================================================
