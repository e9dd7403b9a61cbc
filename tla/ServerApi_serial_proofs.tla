------------------------ MODULE ServerApi_serial_proofs ------------------------
(***************************************************************************)
(* Theorems about ServerApi for clients that take turns (OneAtATime), for  *)
(* every set of users, worlds and requests, and any number of failures and *)
(* restarts: rows name their own user's objects, and table and cluster     *)
(* agree while nothing fails.  ServerLifecycle_proofs goes on from here.   *)
(***************************************************************************)
EXTENDS ServerApi_proofs, SequenceTheorems

-----------------------------------------------------------------------------
(* The inductive invariant                                                 *)

Absent(u) == dep[u] = {} /\ pvc[u] \in {"none", "terminating"}

(* What FaultlessConsistency says of one user                              *)
Consistent(u) ==
    IF ServersOf(u) = {}
    THEN Absent(u)
    ELSE pvc[u] = "bound" /\ \A s \in ServersOf(u) : Agrees(s)

(* What a create has made when it has applied both objects                 *)
Running(f) ==
    /\ pvc[f.user] = "bound"
    /\ dep[f.user] = {[replicas |-> 1, args |-> f.world]}

BothNames(u) == <<PvcName(u), DeploymentName(u)>>

(* At most one request is in flight; the others have no local variables.   *)
TurnsInv ==
    /\ \A q, r \in Requests : ~AtRest(q) /\ ~AtRest(r) => q = r
    /\ \A r \in Requests : AtRest(r) => frame[r] = EmptyFrame

(* With creates that take turns the guard of create is enough for this.    *)
OneServerPerUser == \A s, t \in rows : s.user = t.user => s = t

TableInv ==
    /\ OwnResources
    /\ OneServerPerUser
    /\ \A s, t \in rows : s.id = t.id => s = t
    /\ \A u \in Users : \A d, e \in dep[u] : d = e

(* The shared list and the slices taken from it hold what the request in   *)
(* flight has queued, and nothing else.                                    *)
ListFlight(r) ==
    LET f == frame[r]
        q == Queued(f)
    IN
    /\ ~Queueing(r) => actions = <<>>
    /\ pc[r] = "storeFirst" => f.todo = <<>>
    /\ pc[r] \in {"loadSecond", "storeSecond"} => actions = <<q[1]>>
    /\ pc[r] = "storeSecond" => f.todo = <<q[1]>>
    /\ pc[r] \in {"apply", "rollback", "rolling"} => actions = q
    /\ pc[r] = "rolling" => f.todo \in {q, <<q[2]>>, <<>>}

(* How far ApplyResources has come: nothing, the PVC or both are there, or *)
(* it has failed and rolled back.                                          *)
ApplyFlight(r) ==
    LET f == frame[r]
        u == f.user
        q == Queued(f)
        Failed == f.names \in {<<>>, <<PvcName(u)>>}
    IN
    /\ pc[r] = "applying" =>
          \/ actions = q /\ f.todo = q /\ f.names = <<>>
          \/ actions = q /\ f.todo = <<q[2]>> /\ f.names = <<PvcName(u)>> /\ pvc[u] = "bound"
          \/ actions = q /\ f.todo = <<>> /\ f.names = BothNames(u) /\ Running(f)
          \/ actions = <<>> /\ f.todo = <<>> /\ Failed
    /\ pc[r] \in {"rollback", "rolling"} /\ f.op = "create" => Failed
    /\ pc[r] = "insertRow" => Failed \/ (f.names = BothNames(u) /\ Running(f))

(* The copy of the user's servers is what the table holds.                 *)
RowFlight(r) ==
    LET f == frame[r] IN
    /\ f.op = "patch" => ServersOf(f.user) = {}
    /\ f.op = "create" /\ pc[r] # "saveUser" => ServersOf(f.user) = {}
    /\ f.op = "scale" => f.server = ServersOf(f.user)
    /\ pc[r] = "deleteRows" => f.op = "delete"
    /\ pc[r] = "saveUser" =>
          /\ Running(f)
          /\ f.server = ServersOf(f.user)
          /\ \E id \in RowIds : f.server = {OwnRow(id, f.user, "RUNNING", f.world)}

(* What scale knows of the Deployment                                      *)
ScaleFlight(r) ==
    LET f == frame[r] IN
    /\ pc[r] = "updateDeployment" => dep[f.user] # {}
    /\ pc[r] \in {"getScale", "updateScale"} =>
          /\ dep[f.user] # {}
          /\ \A d \in dep[f.user], s \in f.server : d.args = s.world
    /\ pc[r] = "saveRow" =>
          \A s \in f.server : dep[f.user] = {[replicas |-> f.replicas, args |-> s.world]}

(* As long as nothing fails: where table and cluster of the user differ    *)
CleanFlight(r) ==
    LET f == frame[r]
        u == f.user
        q == Queued(f)
    IN
    /\ f.op = "create" =>
          /\ pc[r] \notin {"applying", "insertRow", "saveUser"} => Absent(u)
          /\ pc[r] = "clearFinalizers" /\ r \in upToDate => pvc[u] # "none"
          /\ pc[r] = "applying" =>
                /\ f.todo = q \/ actions = <<>> => Absent(u)
                /\ f.todo = <<q[2]>> => dep[u] = {}
          /\ pc[r] = "insertRow" => Absent(u) \/ f.names = BothNames(u)
    /\ f.op = "delete" =>
          /\ pc[r] \notin {"rolling", "deleteRows"} => Consistent(u)
          /\ pc[r] = "rolling" => /\ f.todo = q => Consistent(u)
                                  /\ f.todo = <<q[2]>> => dep[u] = {}
                                  /\ f.todo = <<>> => Absent(u)
    /\ pc[r] = "deleteRows" => Absent(u)
    /\ f.op = "scale" => IF pc[r] = "saveRow" THEN pvc[u] = "bound" ELSE Consistent(u)
    /\ f.op = "patch" => Consistent(u)

FlightInv ==
    \A r \in Requests : ~AtRest(r) =>
        ListFlight(r) /\ ApplyFlight(r) /\ RowFlight(r) /\ ScaleFlight(r)

CleanInv ==
    faults = MaxFaults =>
        /\ \A r \in Requests : ~AtRest(r) => CleanFlight(r)
        /\ \A u \in Users : (\A r \in Requests : frame[r].user # u) => Consistent(u)

SerialInv == TurnsInv /\ TableInv /\ FlightInv /\ CleanInv

-----------------------------------------------------------------------------
(* Facts about the model's operators                                       *)

LEMMA ConsistentSame ==
    ASSUME NEW u, pvc'[u] = pvc[u], dep'[u] = dep[u], ServersOf(u)' = ServersOf(u), Consistent(u)
    PROVE  Consistent(u)'
<1>1. \A s \in ServersOf(u) : s.user = u
  BY DEF ServersOf
<1>2. \A s \in ServersOf(u) : Agrees(s) => Agrees(s)'
  BY <1>1 DEF Agrees
<1> QED
  BY <1>2 DEF Consistent, Absent

LEMMA FaultIsCounted ==
    ASSUME TypeOK, Fault \/ NoFault, faults' = MaxFaults
    PROVE  faults = MaxFaults /\ NoFault
  BY ConstantsAssumption DEF TypeOK, Fault, NoFault

(* What create and delete have queued, and what a slice of it is           *)
LEMMA QueuedPair ==
    ASSUME NEW f PROVE Queued(f) = <<Queued(f)[1], Queued(f)[2]>>
  BY DEF Queued

LEMMA QueuedCreate ==
    ASSUME NEW f, f.op = "create"
    PROVE  /\ Queued(f)[1] = PVCAction(f.user, f.world)
           /\ Queued(f)[2] = DeploymentAction(f.user, f.world)
  BY DEF Queued

LEMMA QueuedDelete ==
    ASSUME NEW f, f.op = "delete"
    PROVE  /\ Queued(f)[1] = DeploymentAction(f.user, None)
           /\ Queued(f)[2] = PVCAction(f.user, None)
  BY DEF Queued

LEMMA SameQueued ==
    ASSUME NEW f, NEW g, f.op = g.op, f.user = g.user, f.world = g.world
    PROVE  Queued(f) = Queued(g)
  BY DEF Queued

LEMMA ShortSlices ==
    ASSUME NEW a, NEW b
    PROVE  /\ Head(<<a, b>>) = a /\ Tail(<<a, b>>) = <<b>> /\ <<a, b>> # <<>>
           /\ Head(<<b>>) = b /\ Tail(<<b>>) = <<>> /\ <<b>> # <<>>
           /\ <<a, b>> # <<b>>
           /\ Append(<<>>, a) = <<a>> /\ Append(<<a>>, b) = <<a, b>>
<1> DEFINE S == {a, b}
<1>1. a \in S /\ b \in S
  OBVIOUS
<1> HIDE DEF S
<1>2. <<>> \in Seq(S) /\ <<a>> \in Seq(S) /\ <<b>> \in Seq(S) /\ <<a, b>> \in Seq(S)
  BY <1>1
<1>3. Head(<<a, b>>) = a /\ Head(<<b>>) = b
  BY <1>1, <1>2
<1>4. Tail(<<a, b>>) = <<b>>
  BY <1>1, <1>2
<1>5. Tail(<<b>>) = <<>>
  BY <1>1, <1>2
<1>6. <<a, b>> # <<>> /\ <<b>> # <<>> /\ <<a, b>> # <<b>>
  BY <1>1, <1>2
<1>7. Append(<<>>, a) = <<a>>
  BY <1>1, <1>2
<1>8. Append(<<a>>, b) = <<a, b>>
  <2>1. Append(<<a>>, b) \in Seq(S) /\ Len(Append(<<a>>, b)) = 2 /\ Len(<<a, b>>) = 2
    BY <1>1, <1>2
  <2>2. Append(<<a>>, b)[1] = a /\ Append(<<a>>, b)[2] = b
    BY <1>1, <1>2
  <2>3. \A i \in 1 .. 2 : Append(<<a>>, b)[i] = <<a, b>>[i]
    BY <2>2
  <2> QED
    BY <1>2, <2>1, <2>3, SeqEqual
<1> QED
  BY <1>3, <1>4, <1>5, <1>6, <1>7, <1>8

LEMMA QueuedSlices ==
    ASSUME NEW f
    PROVE  LET q == Queued(f)
           IN  /\ q # <<>> /\ q # <<q[2]>> /\ <<q[2]>> # <<>>
               /\ Head(q) = q[1] /\ Tail(q) = <<q[2]>>
               /\ Head(<<q[2]>>) = q[2] /\ Tail(<<q[2]>>) = <<>>
<1>1. PICK a, b : Queued(f) = <<a, b>>
  BY QueuedPair
<1>2. Queued(f)[1] = a /\ Queued(f)[2] = b
  BY <1>1
<1> QED
  BY <1>1, <1>2, ShortSlices

-----------------------------------------------------------------------------
(* A step of a request that keeps to its own user's objects                *)

OnlyTouches(u) ==
    \A v \in Users : v # u =>
        pvc'[v] = pvc[v] /\ dep'[v] = dep[v] /\ ServersOf(v)' = ServersOf(v)

(* The request in flight and what is known of it                           *)
LEMMA Here ==
    ASSUME IInv, SerialInv, NEW r \in Requests, ~AtRest(r)
    PROVE  /\ frame[r] \in Frame /\ frame[r].user \in Users /\ Fits(pc[r], frame[r])
           /\ ListFlight(r) /\ ApplyFlight(r) /\ RowFlight(r) /\ ScaleFlight(r)
           /\ faults = MaxFaults => CleanFlight(r)
           /\ \A q \in Requests : q # r => AtRest(q) /\ frame[q] = EmptyFrame
<1>1. frame[r] \in Frame /\ Fits(pc[r], frame[r]) /\ frame[r].user \in Users
  BY CurrentFits DEF IInv, Fits, AtRest
<1>2. \A q \in Requests : q # r => AtRest(q) /\ frame[q] = EmptyFrame
  BY DEF SerialInv, TurnsInv
<1> QED
  BY <1>1, <1>2 DEF SerialInv, FlightInv, CleanInv

(* The request goes on: what is left to show is what its new label says.   *)
LEMMA GoesOn ==
    ASSUME IInv, IInv', SerialInv, NEW r \in Requests,
           ~AtRest(r) \/ (\A q \in Requests : AtRest(q)),
           NEW u \in Users, ~AtRest(r) => frame[r].user = u,
           NEW label \in Labels \ Answers, NEW f \in Frame, f.user = u,
           pc' = [pc EXCEPT ![r] = label], frame' = [frame EXCEPT ![r] = f],
           OnlyTouches(u), TableInv',
           ListFlight(r)', ApplyFlight(r)', RowFlight(r)', ScaleFlight(r)',
           faults' = MaxFaults => faults = MaxFaults /\ CleanFlight(r)'
    PROVE  SerialInv'
<1>1. \A q \in Requests : q # r => AtRest(q) /\ pc'[q] = pc[q] /\ frame'[q] = frame[q]
  BY DEF SerialInv, TurnsInv, IInv, TypeOK
<1>2. pc'[r] = label /\ frame'[r] = f /\ ~AtRest(r)'
  BY DEF IInv, TypeOK, AtRest
<1>3. \A q \in Requests : q # r => AtRest(q)'
  BY <1>1 DEF AtRest
<1>4. TurnsInv'
  BY <1>1, <1>2, <1>3 DEF SerialInv, TurnsInv, AtRest
<1>5. FlightInv'
  BY <1>2, <1>3 DEF FlightInv
<1>6. CleanInv'
  <2> SUFFICES ASSUME faults' = MaxFaults,
                      NEW v \in Users, \A q \in Requests : frame'[q].user # v
               PROVE  Consistent(v)'
    BY <1>2, <1>3 DEF CleanInv
  <2>1. v # u
    BY <1>2
  <2>2. \A q \in Requests : frame[q].user # v
    <3>1. CASE ~AtRest(r)
      BY <1>1, <2>1, <3>1
    <3>2. CASE AtRest(r)
      <4>1. frame[r] = EmptyFrame
        BY <3>2 DEF SerialInv, TurnsInv
      <4>2. frame[r].user # v
        BY <4>1, NoneAssumption DEF EmptyFrame
      <4> QED
        BY <1>1, <4>2
    <3> QED
      BY <3>1, <3>2
  <2>3. Consistent(v)
    BY <2>2 DEF SerialInv, CleanInv
  <2> QED
    BY <2>1, <2>3, ConsistentSame DEF OnlyTouches
<1> QED
  BY <1>4, <1>5, <1>6 DEF SerialInv

(* The request is answered.                                                *)
LEMMA IsAnswered ==
    ASSUME IInv, IInv', SerialInv, NEW r \in Requests, ~AtRest(r),
           NEW u \in Users, frame[r].user = u, NEW code \in Answers, Answer(r, code),
           OnlyTouches(u), TableInv',
           faults' = MaxFaults => faults = MaxFaults /\ Consistent(u)'
    PROVE  SerialInv'
<1>1. \A q \in Requests : q # r => AtRest(q) /\ pc'[q] = pc[q] /\ frame'[q] = frame[q]
  BY DEF SerialInv, TurnsInv, IInv, TypeOK, Answer, Goto
<1>2. pc'[r] = code /\ frame'[r] = EmptyFrame
  BY DEF IInv, TypeOK, Answer, Goto
<1>3. \A q \in Requests : AtRest(q)'
  BY <1>1, <1>2 DEF AtRest
<1>4. TurnsInv'
  BY <1>1, <1>2, <1>3 DEF SerialInv, TurnsInv
<1>5. FlightInv'
  BY <1>3 DEF FlightInv
<1>6. CleanInv'
  <2> SUFFICES ASSUME faults' = MaxFaults, NEW v \in Users PROVE Consistent(v)'
    BY <1>3 DEF CleanInv
  <2>1. CASE v = u
    BY <2>1
  <2>2. CASE v # u
    <3>1. \A q \in Requests : q # r => frame[q].user # v
      BY <1>1, NoneAssumption DEF SerialInv, TurnsInv, EmptyFrame
    <3>2. \A q \in Requests : frame[q].user # v
      BY <2>2, <3>1
    <3>3. Consistent(v)
      BY <3>2 DEF SerialInv, CleanInv
    <3> QED
      BY <2>2, <3>3, ConsistentSame DEF OnlyTouches
  <2> QED
    BY <2>1, <2>2
<1> QED
  BY <1>4, <1>5, <1>6 DEF SerialInv

LEMMA TableSame == ASSUME TableInv, UNCHANGED <<rows, dep>> PROVE TableInv'
  BY DEF TableInv, OwnResources, OneServerPerUser

LEMMA ServersSame ==
    ASSUME UNCHANGED rows PROVE \A v : ServersOf(v)' = ServersOf(v)
  BY DEF ServersOf

(* An answer that changes nothing                                          *)
LEMMA JustAnswers ==
    ASSUME IInv, IInv', SerialInv, NEW r \in Requests, ~AtRest(r),
           NEW code \in Answers, Answer(r, code), UNCHANGED <<pvc, dep, rows>>,
           faults' = MaxFaults => faults = MaxFaults /\ Consistent(frame[r].user)
    PROVE  SerialInv'
<1>1. PICK u \in Users : frame[r].user = u
  BY Here
<1>2. OnlyTouches(u)
  BY ServersSame DEF OnlyTouches
<1>3. faults' = MaxFaults => faults = MaxFaults /\ Consistent(u)'
  BY <1>1, ServersSame, ConsistentSame
<1>4. TableInv'
  BY TableSame DEF SerialInv
<1> QED
  BY <1>1, <1>2, <1>3, <1>4, IsAnswered

LEMMA CallFailsSerial ==
    ASSUME IInv, IInv', SerialInv, NEW r \in Requests, CallFails(r)
    PROVE  SerialInv'
<1>1. ~AtRest(r)
  BY DEF CallFails, CheckedCalls, AtRest, Answers
<1>2. faults' # MaxFaults
  BY ConstantsAssumption DEF CallFails, Fault, IInv, TypeOK
<1> QED
  BY <1>1, <1>2, JustAnswers DEF CallFails, Answers

-----------------------------------------------------------------------------
(* Create: the old PVC                                                     *)

LEMMA PvcStep ==
    ASSUME IInv, IInv', SerialInv, NEW r \in Requests,
           pc[r] \in {"doesPvcExist", "getPvc", "clearFinalizers", "deletePvc"},
           NEW label \in {"getPvc", "clearFinalizers", "deletePvc", "loadFirst"},
           Goto(r, label), UNCHANGED <<dep, actions, frame, rows>>,
           \A v \in Users : v # frame[r].user => pvc'[v] = pvc[v],
           faults' = MaxFaults =>
               /\ faults = MaxFaults
               /\ pvc'[frame[r].user] \in {"none", "terminating"}
               /\ label = "clearFinalizers" /\ r \in upToDate' => pvc'[frame[r].user] # "none"
    PROVE  SerialInv'
<1>1. ~AtRest(r)
  BY DEF AtRest, Answers
<1>2. PICK u \in Users : frame[r].user = u
  BY <1>1, Here
<1>3. frame[r] \in Frame /\ frame[r].op = "create"
  BY <1>1, Here DEF Fits, CreateLabels
<1>4. pc' = [pc EXCEPT ![r] = label] /\ pc'[r] = label /\ frame' = [frame EXCEPT ![r] = frame[r]]
  BY DEF Goto, IInv, TypeOK
<1>5. OnlyTouches(u) /\ TableInv'
  BY <1>2, ServersSame, TableSame DEF OnlyTouches, SerialInv
<1>6. ListFlight(r)'
  <2>1. actions = <<>>
    BY <1>1, Here DEF ListFlight, Queueing
  <2> QED
    BY <1>4, <2>1 DEF ListFlight, Queueing
<1>7. ApplyFlight(r)' /\ ScaleFlight(r)'
  BY <1>4 DEF ApplyFlight, ScaleFlight
<1>8. RowFlight(r)'
  BY <1>1, <1>3, <1>4, Here, ServersSame DEF RowFlight
<1>9. faults' = MaxFaults => faults = MaxFaults /\ CleanFlight(r)'
  <2> SUFFICES ASSUME faults' = MaxFaults PROVE faults = MaxFaults /\ CleanFlight(r)'
    OBVIOUS
  <2>1. CleanFlight(r)
    BY <1>1, Here
  <2>2. Absent(u)
    BY <1>2, <1>3, <2>1 DEF CleanFlight
  <2>3. Absent(u)'
    BY <1>2, <2>2 DEF Absent
  <2>4. frame'[r] = frame[r]
    OBVIOUS
  <2> QED
    BY <1>2, <1>3, <1>4, <2>3, <2>4 DEF CleanFlight
<1>10. label \in Labels \ Answers
  BY DEF Labels, Answers, CreateLabels, QueueLabels, UpdateLabels
<1> QED
  BY <1>1, <1>2, <1>3, <1>4, <1>5, <1>6, <1>7, <1>8, <1>9, <1>10, GoesOn

LEMMA RemoveOldPvcSerial ==
    ASSUME IInv, IInv', SerialInv, NEW r \in Requests, RemoveOldPvc(r)
    PROVE  SerialInv'
<1>1. ~AtRest(r) /\ pc[r] \in {"doesPvcExist", "getPvc", "clearFinalizers", "deletePvc"}
  BY DEF RemoveOldPvc, AtRest, Answers
<1>2. frame[r].user \in Users /\ frame[r].op = "create" /\ pvc \in [Users -> PvcStates]
  BY <1>1, Here DEF Fits, CreateLabels, IInv, TypeOK
<1>3. faults' = MaxFaults => faults = MaxFaults /\ NoFault
  <2>1. Fault \/ NoFault
    BY DEF RemoveOldPvc, DoesPvcExist, GetPvc, ClearFinalizers, DeletePvc
  <2> QED
    BY <2>1, FaultIsCounted DEF IInv
<1>4. faults = MaxFaults =>
          /\ pvc[frame[r].user] \in {"none", "terminating"}
          /\ pc[r] = "clearFinalizers" /\ r \in upToDate => pvc[frame[r].user] # "none"
  BY <1>1, <1>2, Here DEF CleanFlight, Absent
<1>5. CASE pc[r] = "doesPvcExist" /\ DoesPvcExist(r, "getPvc", "loadFirst")
  <2>1. PICK label \in {"getPvc", "loadFirst"} : Goto(r, label)
    BY <1>5 DEF DoesPvcExist
  <2>2. UNCHANGED <<pvc, dep, actions, frame, rows>>
    BY <1>5 DEF DoesPvcExist, RemoveOldPvc
  <2> QED
    BY <1>1, <1>3, <1>4, <2>1, <2>2, PvcStep
<1>6. CASE pc[r] = "getPvc" /\ GetPvc(r, "clearFinalizers", "deletePvc", "loadFirst")
  <2>1. PICK label \in {"clearFinalizers", "deletePvc", "loadFirst"} :
            Goto(r, label) /\ (label = "clearFinalizers" => pvc[frame[r].user] # "none")
    BY <1>6 DEF GetPvc
  <2>2. UNCHANGED <<pvc, dep, actions, frame, rows>>
    BY <1>6 DEF GetPvc, RemoveOldPvc
  <2> QED
    BY <1>1, <1>3, <1>4, <2>1, <2>2, PvcStep
<1>7. CASE pc[r] = "clearFinalizers" /\ ClearFinalizers(r, "deletePvc")
  <2>1. UNCHANGED <<dep, actions, frame, rows>> /\ Goto(r, "deletePvc") /\ r \in upToDate
    BY <1>7 DEF ClearFinalizers, RemoveOldPvc
  <2>2. pvc' = [pvc EXCEPT ![frame[r].user] = IF @ = "terminating" THEN "none" ELSE "bare"]
    BY <1>7 DEF ClearFinalizers
  <2>3. faults' = MaxFaults => pvc'[frame[r].user] \in {"none", "terminating"}
    BY <1>2, <1>3, <1>4, <1>7, <2>1, <2>2
  <2> QED
    BY <1>1, <1>2, <1>3, <2>1, <2>2, <2>3, PvcStep
<1>8. CASE pc[r] = "deletePvc" /\ DeletePvc(r, "loadFirst")
  <2>1. UNCHANGED <<dep, actions, frame, rows>> /\ Goto(r, "loadFirst")
    BY <1>8 DEF DeletePvc, RemoveOldPvc
  <2>2. pvc' = [pvc EXCEPT ![frame[r].user] = AfterDelete(@)]
    BY <1>8 DEF DeletePvc
  <2>3. pvc'[frame[r].user] \in {"none", "terminating"}
    BY <1>2, <2>2 DEF AfterDelete
  <2> QED
    BY <1>1, <1>2, <1>3, <2>1, <2>2, <2>3, PvcStep
<1> QED
  BY <1>5, <1>6, <1>7, <1>8 DEF RemoveOldPvc

LEMMA EarlyAnswerSerial ==
    ASSUME IInv, IInv', SerialInv, NEW r \in Requests,
           ClearFinalizersConflict(r) \/ FindServer(r)
    PROVE  SerialInv'
<1>1. ~AtRest(r) /\ UNCHANGED <<pvc, dep, faults, rows>>
  BY DEF ClearFinalizersConflict, FindServer, Refuse, AtRest, Answers
<1>2. faults = MaxFaults => Consistent(frame[r].user)
  <2> SUFFICES ASSUME faults = MaxFaults PROVE Consistent(frame[r].user)
    OBVIOUS
  <2>1. CleanFlight(r) /\ RowFlight(r) /\ Fits(pc[r], frame[r])
    BY <1>1, Here
  <2>2. CASE pc[r] = "clearFinalizers"
    BY <2>1, <2>2 DEF CleanFlight, RowFlight, Fits, CreateLabels, Consistent
  <2>3. CASE pc[r] = "findServer"
    BY <2>1, <2>3 DEF CleanFlight, Fits, UpdateLabels
  <2> QED
    BY <2>2, <2>3 DEF ClearFinalizersConflict, FindServer
<1>3. PICK code \in Answers : Answer(r, code)
  BY DEF ClearFinalizersConflict, FindServer, Refuse, Answers
<1> QED
  BY <1>1, <1>2, <1>3, JustAnswers

-----------------------------------------------------------------------------
(* Queueing, applying and rolling back                                     *)

(* f is the frame of a request that has moved on in its slice only.        *)
SameRequest(f, g) ==
    /\ f.op = g.op /\ f.user = g.user /\ f.world = g.world
    /\ f.replicas = g.replicas /\ f.server = g.server

LEMMA TodoSame ==
    ASSUME NEW g \in Frame, NEW s \in Seq(Action)
    PROVE  LET f == [g EXCEPT !.todo = s]
           IN f \in Frame /\ SameRequest(f, g) /\ f.todo = s /\ f.names = g.names
  BY TodoType DEF SameRequest, Frame

LEMMA TodoNamesSame ==
    ASSUME NEW g \in Frame, NEW s \in Seq(Action), NEW t \in Seq(Name)
    PROVE  LET f == [g EXCEPT !.todo = s, !.names = t]
           IN f \in Frame /\ SameRequest(f, g) /\ f.todo = s /\ f.names = t
  BY TodoNamesType DEF SameRequest, Frame

(* Labels at which the table is not touched                                *)
ListLabels == QueueLabels \cup {"apply", "applying"}

LEMMA InList ==
    ASSUME IInv, SerialInv, NEW r \in Requests, pc[r] \in ListLabels
    PROVE  /\ ~AtRest(r) /\ pc[r] # "saveUser"
           /\ frame[r].op \in {"create", "delete"}
           /\ pc[r] \in {"apply", "applying"} => frame[r].op = "create"
           /\ frame[r].op = "create" => frame[r].world \in Worlds
<1>1. ~AtRest(r) /\ pc[r] # "saveUser"
  BY DEF AtRest, Answers, ListLabels, QueueLabels
<1> QED
  BY <1>1, Here DEF Fits, ListLabels, QueueLabels, CreateLabels

LEMMA ListStep ==
    ASSUME IInv, IInv', SerialInv, NEW r \in Requests, pc[r] \in ListLabels,
           NEW label \in ListLabels \cup {"insertRow", "deleteRows"}, NEW f \in Frame, SameRequest(f, frame[r]),
           pc' = [pc EXCEPT ![r] = label], frame' = [frame EXCEPT ![r] = f],
           label = "deleteRows" => f.op = "delete",
           UNCHANGED rows, OnlyTouches(f.user), TableInv',
           ListFlight(r)', ApplyFlight(r)',
           faults' = MaxFaults => faults = MaxFaults /\ CleanFlight(r)'
    PROVE  SerialInv'
<1>1. ~AtRest(r) /\ frame[r].op \in {"create", "delete"} /\ pc[r] # "saveUser"
  BY InList
<1>2. f.user \in Users /\ f.user = frame[r].user /\ f.op = frame[r].op
  BY <1>1, Here DEF SameRequest
<1>3. pc'[r] = label /\ frame'[r] = f
  BY DEF IInv, TypeOK
<1>4. RowFlight(r)' /\ ScaleFlight(r)'
  <2>1. ServersOf(f.user)' = ServersOf(f.user)
    BY ServersSame
  <2>2. f.op = "create" => ServersOf(f.user) = {}
    BY <1>1, <1>2, Here DEF RowFlight
  <2>3. label \notin {"saveUser", "updateDeployment", "getScale", "updateScale", "saveRow"}
    BY DEF ListLabels, QueueLabels
  <2> QED
    BY <1>1, <1>2, <1>3, <2>1, <2>2, <2>3 DEF RowFlight, ScaleFlight
<1>5. label \in Labels \ Answers
  BY DEF Labels, ListLabels, Answers, CreateLabels, QueueLabels
<1> QED
  BY <1>1, <1>2, <1>4, <1>5, GoesOn

(* The parts that a step within AddActions, or the beginning of Apply and  *)
(* Rollback, leaves as they are                                            *)
LEMMA QuietStep ==
    ASSUME IInv, IInv', SerialInv, NEW r \in Requests, pc[r] \in ListLabels \ {"applying", "rolling"},
           NEW label \in ListLabels, NEW f \in Frame, SameRequest(f, frame[r]),
           pc' = [pc EXCEPT ![r] = label], frame' = [frame EXCEPT ![r] = f],
           UNCHANGED <<pvc, dep, faults, rows>>, ListFlight(r)', ApplyFlight(r)',
           label \in {"applying", "rolling"} => f.todo = Queued(f)
    PROVE  SerialInv'
<1>1. ~AtRest(r) /\ frame[r].op \in {"create", "delete"}
  BY InList
<1>2. f.user \in Users /\ f.user = frame[r].user /\ f.op = frame[r].op
  BY <1>1, Here DEF SameRequest
<1>3. pc'[r] = label /\ frame'[r] = f
  BY DEF IInv, TypeOK
<1>4. OnlyTouches(f.user) /\ TableInv'
  BY ServersSame, TableSame DEF OnlyTouches, SerialInv
<1>5. faults' = MaxFaults => faults = MaxFaults /\ CleanFlight(r)'
  <2> SUFFICES ASSUME faults = MaxFaults PROVE CleanFlight(r)'
    OBVIOUS
  <2>1. CleanFlight(r)
    BY <1>1, Here
  <2>2. pc[r] \notin {"applying", "rolling", "insertRow", "saveUser", "deleteRows"}
    BY DEF ListLabels, QueueLabels
  <2>3. f.op = "create" => Absent(f.user) /\ Absent(f.user)'
    BY <1>2, <2>1, <2>2 DEF CleanFlight, Absent
  <2>4. f.op = "delete" => Consistent(f.user) /\ Consistent(f.user)'
    <3>1. PICK u \in Users : f.user = u
      BY <1>2
    <3>2. f.op = "delete" => Consistent(u)
      BY <1>2, <2>1, <2>2, <3>1 DEF CleanFlight
    <3>3. Consistent(u) => Consistent(u)'
      BY ServersSame, ConsistentSame
    <3> QED
      BY <3>1, <3>2, <3>3
  <2>5. label \notin {"clearFinalizers", "insertRow", "saveUser", "deleteRows"}
    BY DEF ListLabels, QueueLabels
  <2>6. Queued(f) = <<Queued(f)[1], Queued(f)[2]>>
    BY QueuedPair
  <2>7. Queued(f) # <<Queued(f)[2]>> /\ Queued(f) # <<>>
    BY <2>6, ShortSlices
  <2> QED
    BY <1>1, <1>2, <1>3, <2>3, <2>4, <2>5, <2>7 DEF CleanFlight
<1>6. label # "deleteRows"
  BY DEF ListLabels, QueueLabels
<1> QED
  BY <1>4, <1>5, <1>6, ListStep

LEMMA AddActionsSerial ==
    ASSUME IInv, IInv', SerialInv, NEW r \in Requests, AddActions(r)
    PROVE  SerialInv'
<1>1. /\ pc[r] \in {"loadFirst", "storeFirst", "loadSecond", "storeSecond"}
      /\ UNCHANGED <<pvc, dep, faults, rows>>
  BY DEF AddActions, LoadActions, StoreAction
<1>2. pc[r] \in ListLabels \ {"applying", "rolling"} /\ ~AtRest(r)
  BY <1>1 DEF ListLabels, QueueLabels, AtRest, Answers
<1>3. frame[r] \in Frame /\ ListFlight(r) /\ actions \in Seq(Action) /\ <<>> \in Seq(Action)
  BY <1>2, Here DEF IInv, TypeOK
<1> DEFINE q == Queued(frame[r])
<1>4. /\ Append(<<>>, q[1]) = <<q[1]>> /\ Append(<<q[1]>>, q[2]) = q
  BY QueuedPair, ShortSlices
<1> HIDE DEF q
<1>5. ASSUME NEW todo \in Seq(Action), NEW label \in QueueLabels \cup {"apply"},
             frame' = [frame EXCEPT ![r] = [frame[r] EXCEPT !.todo = todo]], Goto(r, label),
             label \in {"storeFirst"} => actions' = <<>> /\ todo = <<>>,
             label \in {"loadSecond", "storeSecond"} => actions' = <<q[1]>>,
             label = "storeSecond" => todo = <<q[1]>>,
             label \in {"apply", "rollback"} => actions' = q,
             label = "rollback" => frame[r].op # "create",
             label \notin {"rolling", "loadFirst"}
      PROVE  SerialInv'
  <2> DEFINE f == [frame[r] EXCEPT !.todo = todo]
  <2>1. f \in Frame /\ SameRequest(f, frame[r]) /\ f.todo = todo
    BY <1>3, TodoSame
  <2>2. frame' = [frame EXCEPT ![r] = f] /\ pc' = [pc EXCEPT ![r] = label]
    BY <1>5 DEF Goto
  <2> HIDE DEF f
  <2>3. pc'[r] = label /\ frame'[r] = f
    BY <2>2 DEF IInv, TypeOK
  <2>4. Queued(f) = q
    BY <2>1, SameQueued DEF SameRequest, q
  <2>5. ListFlight(r)'
    BY <1>5, <2>1, <2>3, <2>4 DEF ListFlight, Queueing, QueueLabels
  <2>6. ApplyFlight(r)'
    BY <1>5, <2>1, <2>3 DEF ApplyFlight, SameRequest, QueueLabels
  <2>7. label \in ListLabels /\ label \notin {"applying", "rolling"}
    BY <1>5 DEF ListLabels, QueueLabels
  <2> QED
    BY <1>1, <1>2, <2>1, <2>2, <2>5, <2>6, <2>7, QuietStep
<1>6. CASE pc[r] = "loadFirst" /\ LoadActions(r, "storeFirst")
  <2>1. actions = <<>>
    BY <1>3, <1>6 DEF ListFlight, Queueing
  <2> QED
    BY <1>3, <1>5, <1>6, <2>1 DEF LoadActions, QueueLabels
<1>7. CASE pc[r] = "storeFirst" /\ StoreAction(r, Queued(frame[r])[1], "loadSecond")
  <2>1. actions' = <<q[1]>>
    BY <1>3, <1>4, <1>7 DEF ListFlight, StoreAction, q
  <2> QED
    BY <1>3, <1>5, <1>7, <2>1 DEF StoreAction, QueueLabels
<1>8. CASE pc[r] = "loadSecond" /\ LoadActions(r, "storeSecond")
  <2>1. actions = <<q[1]>>
    BY <1>3, <1>8 DEF ListFlight, q
  <2> QED
    BY <1>3, <1>5, <1>8, <2>1 DEF LoadActions, QueueLabels
<1>9. CASE pc[r] = "storeSecond" /\ StoreAction(r, Queued(frame[r])[2],
                                      IF frame[r].op = "create" THEN "apply" ELSE "rollback")
  <2>1. actions' = q
    BY <1>3, <1>4, <1>9 DEF ListFlight, StoreAction, q
  <2> QED
    BY <1>3, <1>5, <1>9, <2>1 DEF StoreAction, QueueLabels
<1> QED
  BY <1>6, <1>7, <1>8, <1>9 DEF AddActions

LEMMA ApplyStartSerial ==
    ASSUME IInv, IInv', SerialInv, NEW r \in Requests, pc[r] = "apply",
           ApplyStart(r, "applying"), UNCHANGED rows
    PROVE  SerialInv'
<1>1. pc[r] \in ListLabels \ {"applying", "rolling"} /\ ~AtRest(r)
  BY DEF ListLabels, AtRest, Answers
<1>2. frame[r] \in Frame /\ actions \in Seq(Action) /\ <<>> \in Seq(Name)
  BY <1>1, Here DEF IInv, TypeOK
<1>3. actions = Queued(frame[r])
  BY <1>1, Here DEF ListFlight
<1> DEFINE f == [frame[r] EXCEPT !.todo = actions, !.names = <<>>]
<1>4. f \in Frame /\ SameRequest(f, frame[r]) /\ f.todo = actions /\ f.names = <<>>
  BY <1>2, TodoNamesSame
<1>5. /\ frame' = [frame EXCEPT ![r] = f] /\ pc' = [pc EXCEPT ![r] = "applying"]
      /\ UNCHANGED <<pvc, dep, actions, faults, rows>>
  BY DEF ApplyStart, Goto
<1> HIDE DEF f
<1>6. frame'[r] = f /\ pc'[r] = "applying"
  BY <1>5 DEF IInv, TypeOK
<1>7. Queued(f) = Queued(frame[r])
  BY <1>4, SameQueued DEF SameRequest
<1>8. ListFlight(r)' /\ ApplyFlight(r)'
  BY <1>3, <1>4, <1>5, <1>6, <1>7 DEF ListFlight, ApplyFlight, Queueing
<1>9. "applying" \in ListLabels
  BY DEF ListLabels
<1> QED
  BY <1>1, <1>3, <1>4, <1>5, <1>7, <1>8, <1>9, QuietStep

LEMMA ApplyOneSerial ==
    ASSUME IInv, IInv', SerialInv, NEW r \in Requests, pc[r] = "applying",
           ApplyOne(r), UNCHANGED rows
    PROVE  SerialInv'
<1>1. pc[r] \in ListLabels /\ ~AtRest(r)
  BY DEF ListLabels, AtRest, Answers
<1>2. frame[r] \in Frame /\ frame[r].op = "create" /\ frame[r].world \in Worlds
  BY <1>1, Here, InList
<1>3. PICK u \in Users : frame[r].user = u
  BY <1>1, Here
<1> DEFINE q == Queued(frame[r])
           a == Head(frame[r].todo)
           f == [frame[r] EXCEPT !.todo = Tail(@), !.names = Append(@, NameOf(a))]
<1>4. q[1] = PVCAction(u, frame[r].world) /\ q[2] = DeploymentAction(u, frame[r].world)
  BY <1>2, <1>3, QueuedCreate
<1>5. q # <<>> /\ q # <<q[2]>> /\ Head(q) = q[1] /\ Tail(q) = <<q[2]>> /\ Head(<<q[2]>>) = q[2]
      /\ Tail(<<q[2]>>) = <<>> /\ <<q[2]>> # <<>>
  BY QueuedSlices
<1>6. /\ NameOf(q[1]) = PvcName(u) /\ NameOf(q[2]) = DeploymentName(u)
      /\ q[1].kind = "pvc" /\ q[2].kind = "deployment" /\ q[1].user = u /\ q[2].user = u
      /\ q[2].spec = frame[r].world
  BY <1>4 DEF NameOf, PvcName, DeploymentName, PVCAction, DeploymentAction
<1>7. /\ Append(<<>>, PvcName(u)) = <<PvcName(u)>>
      /\ Append(<<PvcName(u)>>, DeploymentName(u)) = BothNames(u)
  BY ShortSlices DEF BothNames
<1>8. f \in Frame /\ SameRequest(f, frame[r])
      /\ f.todo = Tail(frame[r].todo) /\ f.names = Append(frame[r].names, NameOf(a))
  <2>1. frame[r].todo \in Seq(Action) /\ frame[r].names \in Seq(Name)
    BY <1>2 DEF Frame
  <2>2. a \in Action /\ Tail(frame[r].todo) \in Seq(Action)
    BY <2>1 DEF ApplyOne
  <2>3. Append(frame[r].names, NameOf(a)) \in Seq(Name)
    <3>1. NameOf(a) \in Name
      BY <2>2 DEF NameOf, Action, Name
    <3> QED
      BY <2>1, <3>1
  <2>4. f \in Frame
    BY <1>2, <2>2, <2>3, TodoNamesType
  <2>5. f.todo = Tail(frame[r].todo) /\ f.names = Append(frame[r].names, NameOf(a))
    BY <1>2 DEF Frame
  <2>6. SameRequest(f, frame[r])
    BY <1>2 DEF Frame, SameRequest
  <2> QED
    BY <2>4, <2>5, <2>6
<1>9. /\ frame' = [frame EXCEPT ![r] = f] /\ pc' = [pc EXCEPT ![r] = "applying"]
      /\ UNCHANGED <<actions, faults, rows>> /\ frame[r].todo # <<>>
      /\ Creatable(a) /\ CreateObject(a)
  BY DEF ApplyOne, NoFault, IInv, TypeOK
<1> HIDE DEF f, q
<1>10. frame'[r] = f /\ pc'[r] = "applying"
  BY <1>9 DEF IInv, TypeOK
<1>11. Queued(f) = q /\ f.user = u /\ f.world = frame[r].world /\ f.op = "create"
  BY <1>2, <1>3, <1>8, SameQueued DEF SameRequest, q
<1>12. \/ /\ actions = q /\ frame[r].todo = q /\ frame[r].names = <<>>
       \/ /\ actions = q /\ frame[r].todo = <<q[2]>> /\ frame[r].names = <<PvcName(u)>>
          /\ pvc[u] = "bound"
  BY <1>1, <1>3, <1>9, Here DEF ApplyFlight, q
<1>13. ListFlight(r)'
  BY <1>10, <1>11 DEF ListFlight, Queueing
<1>14. pvc \in [Users -> PvcStates] /\ dep \in [Users -> SUBSET Deployment]
  BY DEF IInv, TypeOK
<1>15. CASE frame[r].todo = q
  <2>1. a = q[1] /\ f.todo = <<q[2]>> /\ f.names = <<PvcName(u)>> /\ actions = q
    BY <1>5, <1>6, <1>7, <1>8, <1>12, <1>15
  <2>2. pvc' = [pvc EXCEPT ![u] = "bound"] /\ UNCHANGED dep
    BY <1>6, <1>9, <2>1 DEF CreateObject
  <2>3. ApplyFlight(r)'
    BY <1>9, <1>10, <1>11, <1>14, <2>1, <2>2 DEF ApplyFlight
  <2>4. OnlyTouches(f.user) /\ TableInv'
    BY <1>9, <1>11, <1>14, <2>2, ServersSame, TableSame DEF OnlyTouches, SerialInv
  <2>5. faults' = MaxFaults => faults = MaxFaults /\ CleanFlight(r)'
    <3> SUFFICES ASSUME faults = MaxFaults PROVE CleanFlight(r)'
      BY <1>9
    <3>1. dep[u] = {}
      BY <1>1, <1>2, <1>3, <1>15, Here DEF CleanFlight, Absent, q
    <3> QED
      BY <1>5, <1>9, <1>10, <1>11, <2>1, <2>2, <3>1 DEF CleanFlight
  <2> QED
    BY <1>1, <1>8, <1>9, <1>13, <2>3, <2>4, <2>5, ListStep DEF ListLabels
<1>16. CASE frame[r].todo # q
  <2>1. /\ a = q[2] /\ f.todo = <<>> /\ f.names = BothNames(u) /\ actions = q
        /\ pvc[u] = "bound"
    BY <1>5, <1>6, <1>7, <1>8, <1>12, <1>16
  <2>2. dep' = [dep EXCEPT ![u] = {[replicas |-> 1, args |-> frame[r].world]}] /\ UNCHANGED pvc
    BY <1>6, <1>9, <2>1 DEF CreateObject
  <2>3. ApplyFlight(r)'
    BY <1>9, <1>10, <1>11, <1>14, <2>1, <2>2 DEF ApplyFlight, Running
  <2>4. OnlyTouches(f.user)
    BY <1>9, <1>11, <1>14, <2>2, ServersSame DEF OnlyTouches
  <2>5. TableInv'
    BY <1>9, <1>14, <2>2 DEF SerialInv, TableInv, OwnResources, OneServerPerUser
  <2>6. faults' = MaxFaults => faults = MaxFaults /\ CleanFlight(r)'
    BY <1>5, <1>9, <1>10, <1>11, <2>1 DEF CleanFlight
  <2> QED
    BY <1>1, <1>8, <1>9, <1>13, <2>3, <2>4, <2>5, <2>6, ListStep DEF ListLabels
<1> QED
  BY <1>15, <1>16

(* Without a failure of the API only the PVC can be in the way: the        *)
(* Deployment is not there when the PVC has been created.                  *)
LEMMA ApplyFailsSerial ==
    ASSUME IInv, IInv', SerialInv, NEW r \in Requests, pc[r] = "applying",
           ApplyFails(r, "rollback"), UNCHANGED rows
    PROVE  SerialInv'
<1>1. pc[r] \in ListLabels /\ ~AtRest(r)
  BY DEF ListLabels, AtRest, Answers
<1>2. frame[r] \in Frame /\ frame[r].op = "create" /\ frame[r].world \in Worlds
  BY <1>1, Here, InList
<1>3. PICK u \in Users : frame[r].user = u
  BY <1>1, Here
<1> DEFINE q == Queued(frame[r])
           f == [frame[r] EXCEPT !.todo = <<>>]
<1>4. q[2] = DeploymentAction(u, frame[r].world) /\ Head(<<q[2]>>) = q[2] /\ q # <<>>
  BY <1>2, <1>3, QueuedCreate, QueuedSlices
<1>5. f \in Frame /\ SameRequest(f, frame[r]) /\ f.todo = <<>> /\ f.names = frame[r].names
  <2>1. <<>> \in Seq(Action)
    OBVIOUS
  <2> QED
    BY <1>2, <2>1, TodoSame
<1>6. /\ frame' = [frame EXCEPT ![r] = f] /\ pc' = [pc EXCEPT ![r] = "rollback"]
      /\ UNCHANGED <<pvc, dep, actions, rows>> /\ frame[r].todo # <<>>
  BY DEF ApplyFails, Goto
<1> HIDE DEF f, q
<1>7. frame'[r] = f /\ pc'[r] = "rollback"
  BY <1>6 DEF IInv, TypeOK
<1>8. Queued(f) = q /\ f.user = u /\ f.op = "create"
  BY <1>2, <1>3, <1>5, SameQueued DEF SameRequest, q
<1>9. \/ actions = q /\ frame[r].todo = q /\ frame[r].names = <<>>
      \/ actions = q /\ frame[r].todo = <<q[2]>> /\ frame[r].names = <<PvcName(u)>>
  BY <1>1, <1>3, <1>6, Here DEF ApplyFlight, q
<1>10. ListFlight(r)' /\ ApplyFlight(r)'
  BY <1>5, <1>6, <1>7, <1>8, <1>9 DEF ListFlight, ApplyFlight, Queueing
<1>11. OnlyTouches(f.user) /\ TableInv'
  BY <1>6, ServersSame, TableSame DEF OnlyTouches, SerialInv
<1>12. faults' = MaxFaults => faults = MaxFaults /\ CleanFlight(r)'
  <2> SUFFICES ASSUME faults' = MaxFaults PROVE faults = MaxFaults /\ CleanFlight(r)'
    OBVIOUS
  <2>1. faults = MaxFaults /\ ~Fault
    BY ConstantsAssumption DEF ApplyFails, Fault, NoFault, IInv, TypeOK
  <2>2. CleanFlight(r)
    BY <1>1, <2>1, Here
  <2>3. frame[r].todo # <<q[2]>>
    <3> SUFFICES ASSUME frame[r].todo = <<q[2]>> PROVE FALSE
      OBVIOUS
    <3>1. dep[u] = {}
      BY <1>2, <1>3, <2>2 DEF CleanFlight, q
    <3>2. ~Creatable(q[2])
      BY <1>4, <2>1 DEF ApplyFails
    <3> QED
      BY <1>2, <1>4, <3>1, <3>2, NoneAssumption DEF Creatable, Exists, DeploymentAction
  <2>4. Absent(u)
    BY <1>2, <1>3, <1>9, <2>2, <2>3 DEF CleanFlight, q
  <2>5. Absent(u)'
    BY <1>6, <2>4 DEF Absent
  <2> QED
    BY <1>7, <1>8, <2>1, <2>5 DEF CleanFlight
<1>13. "rollback" \in ListLabels
  BY DEF ListLabels, QueueLabels
<1> QED
  BY <1>1, <1>5, <1>6, <1>10, <1>11, <1>12, <1>13, ListStep

LEMMA ApplyReturnsSerial ==
    ASSUME IInv, IInv', SerialInv, NEW r \in Requests, pc[r] = "applying",
           ApplyReturns(r, "insertRow"), UNCHANGED rows
    PROVE  SerialInv'
<1>1. pc[r] \in ListLabels /\ ~AtRest(r)
  BY DEF ListLabels, AtRest, Answers
<1>2. frame[r] \in Frame /\ frame[r].op = "create"
  BY <1>1, Here, InList
<1>3. PICK u \in Users : frame[r].user = u
  BY <1>1, Here
<1>4. /\ frame' = [frame EXCEPT ![r] = frame[r]] /\ pc' = [pc EXCEPT ![r] = "insertRow"]
      /\ actions' = <<>> /\ UNCHANGED <<pvc, dep, faults, rows>> /\ frame[r].todo = <<>>
  BY DEF ApplyReturns, Goto, IInv, TypeOK
<1>5. frame'[r] = frame[r] /\ pc'[r] = "insertRow"
  BY <1>4 DEF IInv, TypeOK
<1>6. \/ frame[r].names = BothNames(u) /\ Running(frame[r])
      \/ actions = <<>> /\ frame[r].names \in {<<>>, <<PvcName(u)>>}
  BY <1>1, <1>3, <1>4, Here, QueuedSlices DEF ApplyFlight
<1>7. Running(frame[r]) => Running(frame[r])'
  BY <1>4, <1>5 DEF Running
<1>8. ListFlight(r)'
  BY <1>4, <1>5 DEF ListFlight, Queueing
<1>9. ApplyFlight(r)'
  BY <1>3, <1>4, <1>5, <1>6, <1>7 DEF ApplyFlight
<1>10. OnlyTouches(u) /\ TableInv'
  BY <1>4, ServersSame, TableSame DEF OnlyTouches, SerialInv
<1>11. faults' = MaxFaults => faults = MaxFaults /\ CleanFlight(r)'
  <2> SUFFICES ASSUME faults = MaxFaults PROVE CleanFlight(r)'
    BY <1>4
  <2>1. Absent(u) \/ frame[r].names = BothNames(u)
    BY <1>1, <1>2, <1>3, <1>6, Here DEF CleanFlight
  <2>2. Absent(u) => Absent(u)'
    BY <1>4 DEF Absent
  <2> QED
    BY <1>2, <1>3, <1>5, <2>1, <2>2 DEF CleanFlight
<1> QED
  BY <1>1, <1>2, <1>3, <1>4, <1>8, <1>9, <1>10, <1>11, ListStep DEF SameRequest

LEMMA ApplyResourcesSerial ==
    ASSUME IInv, IInv', SerialInv, NEW r \in Requests, ApplyResources(r)
    PROVE  SerialInv'
  BY ApplyStartSerial, ApplyOneSerial, ApplyFailsSerial, ApplyReturnsSerial DEF ApplyResources

LEMMA RollbackStartSerial ==
    ASSUME IInv, IInv', SerialInv, NEW r \in Requests, pc[r] = "rollback",
           RollbackStart(r, "rolling"), UNCHANGED rows
    PROVE  SerialInv'
<1>1. pc[r] \in ListLabels \ {"applying", "rolling"} /\ ~AtRest(r)
  BY DEF ListLabels, QueueLabels, AtRest, Answers
<1>2. frame[r] \in Frame /\ actions \in Seq(Action)
  BY <1>1, Here DEF IInv, TypeOK
<1>3. actions = Queued(frame[r]) /\ ApplyFlight(r)
  BY <1>1, Here DEF ListFlight
<1> DEFINE f == [frame[r] EXCEPT !.todo = actions]
<1>4. f \in Frame /\ SameRequest(f, frame[r]) /\ f.todo = actions /\ f.names = frame[r].names
  BY <1>2, TodoSame
<1>5. /\ frame' = [frame EXCEPT ![r] = f] /\ pc' = [pc EXCEPT ![r] = "rolling"]
      /\ UNCHANGED <<pvc, dep, actions, faults, rows>>
  BY DEF RollbackStart, Goto
<1> HIDE DEF f
<1>6. frame'[r] = f /\ pc'[r] = "rolling"
  BY <1>5 DEF IInv, TypeOK
<1>7. Queued(f) = Queued(frame[r])
  BY <1>4, SameQueued DEF SameRequest
<1>8. ListFlight(r)' /\ ApplyFlight(r)'
  BY <1>3, <1>4, <1>5, <1>6, <1>7 DEF ListFlight, ApplyFlight, Queueing, SameRequest
<1>9. "rolling" \in ListLabels
  BY DEF ListLabels, QueueLabels
<1> QED
  BY <1>1, <1>3, <1>4, <1>5, <1>7, <1>8, <1>9, QuietStep

(* What a Rollback deletes is its own user's.                              *)
LEMMA RollbackOneEffect ==
    ASSUME IInv, SerialInv, NEW r \in Requests, pc[r] = "rolling", RollbackOne(r),
           NEW u \in Users, frame[r].user = u, NEW q, q = Queued(frame[r])
    PROVE  /\ \/ frame[r].todo = q /\ Tail(frame[r].todo) = <<q[2]>>
              \/ frame[r].todo = <<q[2]>> /\ Tail(frame[r].todo) = <<>>
           /\ \/ UNCHANGED <<pvc, dep>> /\ Fault
              \/ /\ NoFault
                 /\ \/ Head(frame[r].todo).kind = "pvc" /\ UNCHANGED dep
                       /\ pvc' = [pvc EXCEPT ![u] = AfterDelete(@)]
                    \/ Head(frame[r].todo).kind = "deployment" /\ UNCHANGED pvc
                       /\ dep' = [dep EXCEPT ![u] = {}]
           /\ frame[r].op = "delete" =>
                 /\ frame[r].todo = q => Head(frame[r].todo).kind = "deployment"
                 /\ frame[r].todo # q => Head(frame[r].todo).kind = "pvc"
<1>1. pc[r] \in ListLabels /\ ~AtRest(r)
  BY DEF ListLabels, QueueLabels, AtRest, Answers
<1>2. frame[r].op \in {"create", "delete"}
  BY <1>1, InList
<1>3. frame[r].todo \in {q, <<q[2]>>}
  BY <1>1, Here DEF ListFlight, RollbackOne
<1>4. /\ q # <<q[2]>> /\ Head(q) = q[1] /\ Tail(q) = <<q[2]>>
      /\ Head(<<q[2]>>) = q[2] /\ Tail(<<q[2]>>) = <<>>
  BY QueuedSlices
<1>5. /\ q[1].user = u /\ q[2].user = u
      /\ q[1].kind \in {"pvc", "deployment"} /\ q[2].kind \in {"pvc", "deployment"}
      /\ frame[r].op = "delete" => q[1].kind = "deployment" /\ q[2].kind = "pvc"
  <2>1. CASE frame[r].op = "create"
    <3>1. /\ q[1] = PVCAction(u, frame[r].world)
          /\ q[2] = DeploymentAction(u, frame[r].world)
      BY <2>1, QueuedCreate
    <3> QED
      BY <2>1, <3>1 DEF PVCAction, DeploymentAction
  <2>2. CASE frame[r].op = "delete"
    <3>1. q[1] = DeploymentAction(u, None) /\ q[2] = PVCAction(u, None)
      BY <2>2, QueuedDelete
    <3> QED
      BY <2>2, <3>1 DEF PVCAction, DeploymentAction
  <2> QED
    BY <1>2, <2>1, <2>2
<1>6. /\ Head(frame[r].todo).user = u /\ Head(frame[r].todo).kind \in {"pvc", "deployment"}
      /\ frame[r].op = "delete" =>
            /\ frame[r].todo = q => Head(frame[r].todo).kind = "deployment"
            /\ frame[r].todo # q => Head(frame[r].todo).kind = "pvc"
  BY <1>3, <1>4, <1>5
<1> DEFINE a == Head(frame[r].todo)
<1>7. \/ UNCHANGED <<pvc, dep>> /\ Fault
      \/ NoFault /\ a.kind = "pvc" /\ UNCHANGED dep /\ pvc' = [pvc EXCEPT ![a.user] = AfterDelete(@)]
      \/ NoFault /\ a.kind # "pvc" /\ UNCHANGED pvc /\ dep' = [dep EXCEPT ![a.user] = {}]
  BY DEF RollbackOne
<1> QED
  BY <1>3, <1>4, <1>6, <1>7

LEMMA RollbackOneSerial ==
    ASSUME IInv, IInv', SerialInv, NEW r \in Requests, pc[r] = "rolling",
           RollbackOne(r), UNCHANGED rows
    PROVE  SerialInv'
<1>1. pc[r] \in ListLabels /\ ~AtRest(r)
  BY DEF ListLabels, QueueLabels, AtRest, Answers
<1>2. frame[r] \in Frame /\ frame[r].op \in {"create", "delete"}
  BY <1>1, Here, InList
<1>3. PICK u \in Users : frame[r].user = u
  BY <1>1, Here
<1> DEFINE q == Queued(frame[r])
           f == [frame[r] EXCEPT !.todo = Tail(@)]
<1>4. f \in Frame /\ SameRequest(f, frame[r])
      /\ f.todo = Tail(frame[r].todo) /\ f.names = frame[r].names
  <2>1. Tail(frame[r].todo) \in Seq(Action)
    BY <1>2 DEF Frame, RollbackOne
  <2> QED
    BY <1>2, <2>1, TodoSame
<1>5. /\ frame' = [frame EXCEPT ![r] = f] /\ pc' = [pc EXCEPT ![r] = "rolling"]
      /\ UNCHANGED <<actions, rows>>
  BY DEF RollbackOne, IInv, TypeOK
<1>6. q # <<>> /\ q # <<q[2]>> /\ <<q[2]>> # <<>>
  BY QueuedSlices
<1>7. Queued(f) = q /\ f.user = u /\ f.op = frame[r].op
  BY <1>3, <1>4, SameQueued DEF SameRequest
<1> HIDE DEF f, q
<1>8. frame'[r] = f /\ pc'[r] = "rolling"
  BY <1>5 DEF IInv, TypeOK
<1>9. /\ f.todo \in {<<q[2]>>, <<>>}
      /\ f.todo = <<q[2]>> => frame[r].todo = q
      /\ f.todo = <<>> => frame[r].todo = <<q[2]>>
  BY <1>1, <1>3, <1>4, <1>6, RollbackOneEffect DEF q
<1>10. ListFlight(r)' /\ ApplyFlight(r)'
  <2>1. ListFlight(r) /\ ApplyFlight(r)
    BY <1>1, Here
  <2> QED
    BY <1>4, <1>5, <1>7, <1>8, <1>9, <2>1 DEF ListFlight, ApplyFlight, Queueing, SameRequest, q
<1>11. pvc \in [Users -> PvcStates] /\ dep \in [Users -> SUBSET Deployment]
  BY DEF IInv, TypeOK
<1>12. \/ UNCHANGED <<pvc, dep>> /\ Fault
       \/ /\ NoFault
          /\ \/ Head(frame[r].todo).kind = "pvc" /\ UNCHANGED dep
                /\ pvc' = [pvc EXCEPT ![u] = AfterDelete(@)]
             \/ Head(frame[r].todo).kind = "deployment" /\ UNCHANGED pvc
                /\ dep' = [dep EXCEPT ![u] = {}]
  BY <1>3, RollbackOneEffect DEF q
<1>13. OnlyTouches(f.user)
  BY <1>5, <1>7, <1>11, <1>12, ServersSame DEF OnlyTouches
<1>14. TableInv'
  <2>1. \A v \in Users : dep'[v] \in {dep[v], {}}
    BY <1>11, <1>12
  <2> QED
    BY <1>5, <2>1 DEF SerialInv, TableInv, OwnResources, OneServerPerUser
<1>15. faults' = MaxFaults => faults = MaxFaults /\ CleanFlight(r)'
  <2> SUFFICES ASSUME faults' = MaxFaults PROVE faults = MaxFaults /\ CleanFlight(r)'
    OBVIOUS
  <2>1. faults = MaxFaults /\ ~Fault
    BY <1>12, ConstantsAssumption DEF Fault, NoFault, IInv, TypeOK
  <2>2. CleanFlight(r)
    BY <1>1, <2>1, Here
  <2>3. f.op = "create" => Absent(u)'
    <3>1. f.op = "create" => Absent(u)
      BY <1>3, <1>7, <2>2 DEF CleanFlight
    <3> QED
      BY <1>11, <1>12, <2>1, <3>1 DEF Absent, AfterDelete
  <2>4. f.op = "delete" /\ f.todo = <<q[2]>> => dep'[u] = {}
    BY <1>3, <1>7, <1>9, <1>11, <1>12, <2>1, RollbackOneEffect DEF q
  <2>5. f.op = "delete" /\ f.todo = <<>> => Absent(u)'
    <3> SUFFICES ASSUME f.op = "delete", f.todo = <<>> PROVE Absent(u)'
      OBVIOUS
    <3>1. frame[r].todo = <<q[2]>> /\ dep[u] = {}
      BY <1>3, <1>7, <1>9, <2>2 DEF CleanFlight, q
    <3>2. frame[r].op = "delete" /\ frame[r].todo # q
      BY <1>6, <1>7, <3>1
    <3>3. Head(frame[r].todo).kind = "pvc"
      BY <1>3, <3>2, RollbackOneEffect DEF q
    <3> QED
      BY <1>11, <1>12, <2>1, <3>1, <3>3 DEF Absent, AfterDelete
  <2>6. f.op \in {"create", "delete"} /\ f.todo # q
    BY <1>2, <1>6, <1>7, <1>9
  <2> QED
    BY <1>6, <1>7, <1>8, <2>1, <2>3, <2>4, <2>5, <2>6 DEF CleanFlight
<1> QED
  BY <1>1, <1>4, <1>5, <1>10, <1>13, <1>14, <1>15, ListStep

LEMMA RollbackReturnsSerial ==
    ASSUME IInv, IInv', SerialInv, NEW r \in Requests, pc[r] = "rolling", UNCHANGED rows,
           NEW label, RollbackReturns(r, label),
           \/ frame[r].op = "create" /\ label = "applying"
           \/ frame[r].op = "delete" /\ label = "deleteRows"
    PROVE  SerialInv'
<1>1. pc[r] \in ListLabels /\ ~AtRest(r)
  BY DEF ListLabels, QueueLabels, AtRest, Answers
<1>2. frame[r] \in Frame
  BY <1>1, Here
<1>3. PICK u \in Users : frame[r].user = u
  BY <1>1, Here
<1>4. /\ frame' = [frame EXCEPT ![r] = frame[r]] /\ pc' = [pc EXCEPT ![r] = label]
      /\ actions' = <<>> /\ UNCHANGED <<pvc, dep, faults, rows>> /\ frame[r].todo = <<>>
  BY DEF RollbackReturns, Goto, IInv, TypeOK
<1>5. frame'[r] = frame[r] /\ pc'[r] = label
  BY <1>4 DEF IInv, TypeOK
<1>6. ListFlight(r)'
  BY <1>4, <1>5 DEF ListFlight, Queueing
<1>7. ApplyFlight(r)'
  <2>1. label = "applying" => frame[r].names \in {<<>>, <<PvcName(u)>>}
    BY <1>1, <1>3, Here DEF ApplyFlight
  <2> QED
    BY <1>3, <1>4, <1>5, <2>1 DEF ApplyFlight
<1>8. OnlyTouches(u) /\ TableInv'
  BY <1>4, ServersSame, TableSame DEF OnlyTouches, SerialInv
<1>9. faults' = MaxFaults => faults = MaxFaults /\ CleanFlight(r)'
  <2> SUFFICES ASSUME faults = MaxFaults PROVE CleanFlight(r)'
    BY <1>4
  <2>1. Absent(u)
    BY <1>1, <1>3, <1>4, Here DEF CleanFlight
  <2>2. Absent(u)'
    BY <1>4, <2>1 DEF Absent
  <2>3. dep'[u] = {}
    BY <2>2 DEF Absent
  <2> QED
    BY <1>3, <1>5, <2>2, <2>3 DEF CleanFlight
<1>10. label \in ListLabels \cup {"deleteRows"}
  BY DEF ListLabels
<1> QED
  BY <1>1, <1>2, <1>3, <1>4, <1>6, <1>7, <1>8, <1>9, <1>10, ListStep DEF SameRequest

LEMMA RollbackSerial ==
    ASSUME IInv, IInv', SerialInv, NEW r \in Requests, Rollback(r)
    PROVE  SerialInv'
  BY RollbackStartSerial, RollbackOneSerial, RollbackReturnsSerial DEF Rollback

-----------------------------------------------------------------------------
(* The table                                                               *)

(* The row that create inserts                                             *)
LEMMA InsertedRow ==
    ASSUME IInv, SerialInv, NEW r \in Requests, InsertRow(r), Len(frame[r].names) = 2,
           NEW u \in Users, frame[r].user = u
    PROVE  /\ Running(frame[r]) /\ ServersOf(u) = {}
           /\ \E id \in RowIds :
                 LET s == OwnRow(id, u, "RUNNING", frame[r].world)
                 IN  /\ \A t \in rows : t.id # id
                     /\ rows' = rows \cup {s}
                     /\ frame' = [frame EXCEPT ![r] = [frame[r] EXCEPT !.server = {s}]]
<1>1. ~AtRest(r) /\ pc[r] = "insertRow"
  BY DEF InsertRow, AtRest, Answers
<1>2. frame[r] \in Frame /\ frame[r].op = "create" /\ ServersOf(u) = {}
  BY <1>1, Here DEF Fits, CreateLabels, RowFlight
<1>3. frame[r].names = BothNames(u) /\ Running(frame[r])
  <2>1. Len(<<>>) # 2 /\ Len(<<PvcName(u)>>) # 2
    OBVIOUS
  <2> QED
    BY <1>1, <2>1, Here DEF ApplyFlight
<1>4. FreshId \in RowIds /\ \A t \in rows : t.id # FreshId
  <2>1. FreshIds # {}
    BY DEF InsertRow
  <2>2. FreshId \in RowIds \ UsedIds
    BY <2>1 DEF FreshId, FreshIds
  <2> QED
    BY <2>2 DEF UsedIds
<1> DEFINE s == OwnRow(FreshId, u, "RUNNING", frame[r].world)
<1>5. s = [id |-> FreshId, user |-> u, pvcName |-> frame[r].names[1],
           deploymentName |-> frame[r].names[2], state |-> "RUNNING", world |-> frame[r].world]
  BY <1>3 DEF OwnRow, BothNames
<1>6. rows' = rows \cup {s} /\ frame' = [frame EXCEPT ![r] = [frame[r] EXCEPT !.server = {s}]]
  BY <1>5 DEF InsertRow
<1> QED
  BY <1>2, <1>3, <1>4, <1>6

LEMMA InsertRowSerial ==
    ASSUME IInv, IInv', SerialInv, NEW r \in Requests, InsertRow(r)
    PROVE  SerialInv'
<1>1. ~AtRest(r) /\ pc[r] = "insertRow" /\ UNCHANGED <<pvc, dep, actions, faults>>
  BY DEF InsertRow, AtRest, Answers
<1>2. frame[r] \in Frame /\ frame[r].op = "create"
  BY <1>1, Here DEF Fits, CreateLabels
<1>3. PICK u \in Users : frame[r].user = u
  BY <1>1, Here
<1>4. CASE Len(frame[r].names) # 2
  <2>1. Answer(r, "500") /\ UNCHANGED rows
    BY <1>4 DEF InsertRow
  <2>2. Len(BothNames(u)) = 2
    BY DEF BothNames
  <2>3. faults = MaxFaults => Consistent(frame[r].user)
    BY <1>1, <1>2, <1>3, <1>4, <2>2, Here DEF CleanFlight, RowFlight, Consistent
  <2> QED
    BY <1>1, <2>1, <2>3, JustAnswers DEF Answers
<1>5. CASE Len(frame[r].names) = 2
  <2>1. Running(frame[r]) /\ ServersOf(u) = {}
    BY <1>3, <1>5, InsertedRow
  <2>2. PICK id \in RowIds :
            LET s == OwnRow(id, u, "RUNNING", frame[r].world)
            IN  /\ \A t \in rows : t.id # id
                /\ rows' = rows \cup {s}
                /\ frame' = [frame EXCEPT ![r] = [frame[r] EXCEPT !.server = {s}]]
    BY <1>3, <1>5, InsertedRow
  <2> DEFINE s == OwnRow(id, u, "RUNNING", frame[r].world)
             f == [frame[r] EXCEPT !.server = {s}]
  <2>3. /\ s.id = id /\ s.user = u /\ s.pvcName = PvcName(u)
        /\ s.deploymentName = DeploymentName(u)
    BY DEF OwnRow
  <2>4. f.user = u /\ f.op = "create" /\ f.world = frame[r].world /\ f.server = {s}
    BY <1>2, <1>3 DEF Frame
  <2>5. frame' = [frame EXCEPT ![r] = f] /\ pc' = [pc EXCEPT ![r] = "saveUser"]
    BY <1>5, <2>2 DEF InsertRow, Goto
  <2>6. s \in rows' /\ \A t \in rows' : t # s => t \in rows /\ t.id # id
    BY <2>2
  <2>7. OwnRow(id, u, "RUNNING", f.world) = s
    BY <2>4
  <2> HIDE DEF f, s
  <2>8. frame'[r] = f /\ pc'[r] = "saveUser" /\ f \in Frame
    BY <2>5 DEF IInv, TypeOK
  <2>9. \A t \in rows : t.user # u /\ t \in rows'
    BY <2>1, <2>2 DEF ServersOf
  <2>10. ServersOf(u)' = {s} /\ \A v \in Users : v # u => ServersOf(v)' = ServersOf(v)
    <3>1. ServersOf(u)' = {s}
      BY <2>3, <2>6, <2>9 DEF ServersOf
    <3>2. ASSUME NEW v \in Users, v # u PROVE ServersOf(v)' = ServersOf(v)
      BY <2>3, <2>6, <2>9, <3>2 DEF ServersOf
    <3> QED
      BY <3>1, <3>2
  <2>11. OnlyTouches(u)
    BY <1>1, <2>10 DEF OnlyTouches
  <2>12. TableInv'
    <3>1. TableInv
      BY DEF SerialInv
    <3>2. OwnResources' /\ OneServerPerUser'
      BY <2>3, <2>6, <2>9, <3>1 DEF TableInv, OwnResources, OneServerPerUser
    <3>3. \A x, y \in rows' : x.id = y.id => x = y
      BY <2>3, <2>6, <3>1 DEF TableInv
    <3> QED
      BY <1>1, <3>1, <3>2, <3>3 DEF TableInv
  <2>13. pvc'[u] = "bound" /\ dep'[u] = {[replicas |-> 1, args |-> f.world]}
    BY <1>1, <1>3, <2>1, <2>4 DEF Running
  <2>14. RowFlight(r)'
    BY <2>4, <2>7, <2>8, <2>10, <2>13 DEF RowFlight, Running
  <2>15. ListFlight(r)' /\ ApplyFlight(r)' /\ ScaleFlight(r)'
    <3>1. actions = <<>>
      BY <1>1, Here DEF ListFlight, Queueing
    <3> QED
      BY <1>1, <2>8, <3>1 DEF ListFlight, ApplyFlight, ScaleFlight, Queueing
  <2>16. CleanFlight(r)'
    BY <2>4, <2>8 DEF CleanFlight
  <2>17. "saveUser" \in Labels \ Answers
    BY DEF Labels, CreateLabels, Answers
  <2> QED
    BY <1>1, <1>3, <2>4, <2>5, <2>8, <2>11, <2>12, <2>14, <2>15, <2>16, <2>17, GoesOn
<1> QED
  BY <1>4, <1>5, <1>2 DEF Frame

(* Saving the user saves the row that is there.                            *)
LEMMA SaveUserSame ==
    ASSUME IInv, SerialInv, NEW r \in Requests, SaveUser(r)
    PROVE  ~AtRest(r) /\ UNCHANGED <<pvc, dep, actions, faults, rows>>
<1>1. ~AtRest(r) /\ pc[r] = "saveUser"
  BY DEF SaveUser, AtRest, Answers
<1>2. frame[r].server \subseteq rows
  BY <1>1, Here DEF RowFlight, ServersOf
<1>3. UNCHANGED rows
  BY <1>2 DEF SaveUser
<1> QED
  BY <1>1, <1>3 DEF SaveUser

LEMMA SaveUserSerial ==
    ASSUME IInv, IInv', SerialInv, NEW r \in Requests, SaveUser(r)
    PROVE  SerialInv'
<1>1. ~AtRest(r) /\ UNCHANGED <<pvc, dep, actions, faults, rows>>
  BY SaveUserSame
<1>2. PICK u \in Users : frame[r].user = u
  BY <1>1, Here
<1>3. /\ ServersOf(u) # {} /\ pvc[u] = "bound"
      /\ \A s \in ServersOf(u) : Agrees(s)
  <2>1. pc[r] = "saveUser"
    BY DEF SaveUser
  <2>2. /\ Running(frame[r])
        /\ \E id \in RowIds : ServersOf(u) = {OwnRow(id, u, "RUNNING", frame[r].world)}
    BY <1>1, <1>2, <2>1, Here DEF RowFlight
  <2> QED
    BY <1>2, <2>2 DEF Running, Agrees, Replicas, OwnRow
<1>4. Consistent(frame[r].user)
  BY <1>2, <1>3 DEF Consistent
<1> QED
  BY <1>1, <1>4, JustAnswers DEF SaveUser, Answers

LEMMA DeleteRowsSerial ==
    ASSUME IInv, IInv', SerialInv, NEW r \in Requests, DeleteRows(r)
    PROVE  SerialInv'
<1>1. ~AtRest(r) /\ pc[r] = "deleteRows" /\ UNCHANGED <<pvc, dep, actions, faults>>
  BY DEF DeleteRows, AtRest, Answers
<1>2. PICK u \in Users : frame[r].user = u
  BY <1>1, Here
<1>3. rows' = rows \ ServersOf(u)
  BY <1>2 DEF DeleteRows
<1>4. ServersOf(u)' = {}
  BY <1>3 DEF ServersOf
<1>5. OnlyTouches(u)
  <2>1. ASSUME NEW v \in Users, v # u PROVE ServersOf(v)' = ServersOf(v)
    BY <1>3, <2>1 DEF ServersOf
  <2> QED
    BY <1>1, <2>1 DEF OnlyTouches
<1>6. TableInv'
  BY <1>1, <1>3 DEF SerialInv, TableInv, OwnResources, OneServerPerUser
<1>7. faults' = MaxFaults => faults = MaxFaults /\ Consistent(u)'
  <2> SUFFICES ASSUME faults = MaxFaults PROVE Consistent(u)'
    BY <1>1
  <2>1. Absent(u)
    BY <1>1, <1>2, Here DEF CleanFlight
  <2> QED
    BY <1>1, <1>4, <2>1 DEF Consistent, Absent
<1> QED
  BY <1>1, <1>2, <1>5, <1>6, <1>7, IsAnswered DEF DeleteRows, Answers

-----------------------------------------------------------------------------
(* Scale and patch                                                         *)

LEMMA InUpdate ==
    ASSUME IInv, SerialInv, NEW r \in Requests, pc[r] \in UpdateLabels
    PROVE  /\ ~AtRest(r) /\ frame[r].op \in {"scale", "patch"} /\ actions = <<>>
           /\ faults = MaxFaults /\ pc[r] # "saveRow" => Consistent(frame[r].user)
<1>1. ~AtRest(r) /\ ~Queueing(r)
  BY DEF AtRest, Answers, UpdateLabels, Queueing
<1>2. frame[r].op \in {"scale", "patch"}
  BY <1>1, Here DEF Fits
<1> QED
  BY <1>1, <1>2, Here DEF ListFlight, CleanFlight

LEMMA UpdateStep ==
    ASSUME IInv, IInv', SerialInv, NEW r \in Requests, pc[r] \in UpdateLabels,
           NEW label \in UpdateLabels, NEW f \in Frame, SameRequest(f, frame[r]),
           pc' = [pc EXCEPT ![r] = label], frame' = [frame EXCEPT ![r] = f],
           UNCHANGED <<actions, rows>>, OnlyTouches(f.user), TableInv', ScaleFlight(r)',
           faults' = MaxFaults =>
               /\ faults = MaxFaults
               /\ IF label = "saveRow" THEN f.op = "scale" /\ pvc'[f.user] = "bound"
                                       ELSE Consistent(f.user)'
    PROVE  SerialInv'
<1>1. ~AtRest(r) /\ f.op \in {"scale", "patch"} /\ actions = <<>>
  BY InUpdate DEF SameRequest
<1>2. f.user \in Users /\ f.user = frame[r].user /\ f.op = frame[r].op
      /\ f.server = frame[r].server
  BY <1>1, Here DEF SameRequest
<1>3. pc'[r] = label /\ frame'[r] = f
  BY DEF IInv, TypeOK
<1>4. ServersOf(f.user)' = ServersOf(f.user)
  BY ServersSame
<1>5. RowFlight(r)'
  <2>1. label \notin {"saveUser", "deleteRows"}
    BY DEF UpdateLabels
  <2> QED
    BY <1>1, <1>2, <1>3, <1>4, <2>1, Here DEF RowFlight
<1>6. ListFlight(r)' /\ ApplyFlight(r)'
  <2>1. label \notin QueueLabels \cup {"apply", "applying", "insertRow"}
    BY DEF UpdateLabels, QueueLabels
  <2> QED
    BY <1>1, <1>3, <2>1 DEF ListFlight, ApplyFlight, QueueLabels
<1>7. faults' = MaxFaults => faults = MaxFaults /\ CleanFlight(r)'
  <2>1. label # "deleteRows"
    BY DEF UpdateLabels
  <2> QED
    BY <1>1, <1>3, <2>1 DEF CleanFlight
<1>8. label \in Labels \ Answers
  BY DEF Labels, UpdateLabels, Answers
<1> QED
  BY <1>1, <1>2, <1>5, <1>6, <1>7, <1>8, GoesOn

(* The Deployment is read, and is there.                                   *)
LEMMA ReadSerial ==
    ASSUME IInv, IInv', SerialInv, NEW r \in Requests, GetDeployment(r) \/ GetScale(r)
    PROVE  SerialInv'
<1>1. /\ pc[r] \in {"getDeployment", "getScale"} /\ pc[r] \in UpdateLabels
      /\ UNCHANGED <<pvc, dep, actions, faults, rows>>
  BY DEF GetDeployment, GetScale, UpdateLabels
<1>2. ~AtRest(r) /\ (faults = MaxFaults => Consistent(frame[r].user))
  BY <1>1, InUpdate
<1>3. CASE Answer(r, "500")
  BY <1>1, <1>2, <1>3, JustAnswers DEF Answers
<1>4. ASSUME NEW label \in {"updateDeployment", "updateScale"}, Goto(r, label),
             UNCHANGED frame, dep[frame[r].user] # {},
             pc[r] = IF label = "updateDeployment" THEN "getDeployment" ELSE "getScale"
      PROVE  SerialInv'
  <2>1. PICK u \in Users : frame[r].user = u
    BY <1>2, Here
  <2>2. frame[r] \in Frame /\ frame' = [frame EXCEPT ![r] = frame[r]]
        /\ pc' = [pc EXCEPT ![r] = label] /\ pc'[r] = label /\ frame'[r] = frame[r]
    BY <1>2, <1>4, Here DEF IInv, TypeOK, Goto
  <2>3. OnlyTouches(u) /\ TableInv'
    BY <1>1, ServersSame, TableSame DEF OnlyTouches, SerialInv
  <2>4. ScaleFlight(r)'
    BY <1>1, <1>2, <1>4, <2>2, Here DEF ScaleFlight
  <2>5. faults = MaxFaults => Consistent(u)'
    BY <1>1, <1>2, <2>1, ServersSame, ConsistentSame
  <2>6. label \in UpdateLabels /\ label # "saveRow"
    BY DEF UpdateLabels
  <2> QED
    BY <1>1, <2>1, <2>2, <2>3, <2>4, <2>5, <2>6, UpdateStep DEF SameRequest
<1> QED
  BY <1>1, <1>3, <1>4 DEF GetDeployment, GetScale

(* The copy of a scale is the user's one row.                              *)
LEMMA ScaleRow ==
    ASSUME IInv, SerialInv, NEW r \in Requests, ~AtRest(r), frame[r].op = "scale",
           NEW u \in Users, frame[r].user = u
    PROVE  \E s \in rows : /\ s.user = u /\ ServersOf(u) = {s} /\ frame[r].server = {s}
                           /\ \A t \in rows : t.user = u \/ t.id = s.id => t = s
<1>1. frame[r].server = ServersOf(u) /\ frame[r].server # {}
  BY Here DEF RowFlight, Fits
<1>2. PICK s \in rows : s.user = u
  BY <1>1 DEF ServersOf
<1>3. \A t \in rows : t.user = u \/ t.id = s.id => t = s
  BY <1>2 DEF SerialInv, TableInv, OneServerPerUser
<1>4. ServersOf(u) = {s}
  BY <1>2, <1>3 DEF ServersOf
<1> QED
  BY <1>1, <1>2, <1>3, <1>4

(* The Deployment that is there is one.                                    *)
LEMMA OneDeployment ==
    ASSUME IInv, SerialInv, NEW u \in Users, dep[u] # {}
    PROVE  \E d \in Deployment : dep[u] = {d}
  BY DEF SerialInv, TableInv, IInv, TypeOK

(* A write to the user's own Deployment                                    *)
LEMMA DeploymentWritten ==
    ASSUME IInv, SerialInv, NEW u \in Users, NEW D, dep' = [dep EXCEPT ![u] = D],
           UNCHANGED <<pvc, rows>>, \A d, e \in D : d = e
    PROVE  OnlyTouches(u) /\ TableInv' /\ dep'[u] = D
<1>1. dep \in [Users -> SUBSET Deployment]
  BY DEF IInv, TypeOK
<1>2. OnlyTouches(u) /\ dep'[u] = D
  BY <1>1, ServersSame DEF OnlyTouches
<1>3. TableInv'
  BY <1>1 DEF SerialInv, TableInv, OwnResources, OneServerPerUser
<1> QED
  BY <1>2, <1>3

LEMMA UpdateDeploymentSerial ==
    ASSUME IInv, IInv', SerialInv, NEW r \in Requests, UpdateDeployment(r)
    PROVE  SerialInv'
<1>1. pc[r] = "updateDeployment" /\ pc[r] \in UpdateLabels
      /\ UNCHANGED <<pvc, actions, faults, rows>>
  BY DEF UpdateDeployment, UpdateLabels
<1>2. /\ ~AtRest(r) /\ frame[r].op \in {"scale", "patch"}
      /\ faults = MaxFaults => Consistent(frame[r].user)
  BY <1>1, InUpdate
<1>3. PICK u \in Users : frame[r].user = u
  BY <1>2, Here
<1>4. CASE r \notin upToDate
  BY <1>1, <1>2, <1>4, JustAnswers DEF UpdateDeployment, Answers
<1>5. CASE r \in upToDate
  <2>1. PICK d \in Deployment : dep[u] = {d}
    BY <1>1, <1>2, <1>3, Here, OneDeployment DEF ScaleFlight
  <2> DEFINE e == [d EXCEPT !.args = NewArgs(frame[r])]
             label == IF frame[r].op = "scale" THEN "getScale" ELSE "findServer"
  <2>2. e = [replicas |-> d.replicas, args |-> NewArgs(frame[r])]
    BY DEF Deployment
  <2>3. dep' = [dep EXCEPT ![u] = {e}]
    BY <1>3, <1>5, <2>1 DEF UpdateDeployment, IInv, TypeOK
  <2>4. OnlyTouches(u) /\ TableInv' /\ dep'[u] = {e}
    BY <1>1, <2>3, DeploymentWritten
  <2>5. /\ frame[r] \in Frame /\ frame' = [frame EXCEPT ![r] = frame[r]] /\ frame'[r] = frame[r]
        /\ pc' = [pc EXCEPT ![r] = label] /\ pc'[r] = label
    BY <1>2, <1>5, Here DEF UpdateDeployment, Goto, IInv, TypeOK
  <2>6. frame[r].op = "scale" => \A s \in frame[r].server : NewArgs(frame[r]) = s.world
    BY <1>2, <1>3, ScaleRow DEF NewArgs
  <2>7. ScaleFlight(r)'
    <3>1. e.args = NewArgs(frame[r])
      BY <2>2
    <3>2. CASE frame[r].op = "scale"
      <4>1. label = "getScale"
        BY <3>2
      <4> HIDE DEF e, label
      <4>2. \A x \in dep'[u], s \in frame[r].server : x.args = s.world
        BY <2>4, <2>6, <3>1, <3>2
      <4>3. dep'[u] # {}
        BY <2>4
      <4> QED
        BY <1>3, <2>5, <4>1, <4>2, <4>3 DEF ScaleFlight
    <3>3. CASE frame[r].op = "patch"
      <4>1. label = "findServer"
        BY <3>3
      <4> HIDE DEF e, label
      <4> QED
        BY <2>5, <4>1 DEF ScaleFlight
    <3> QED
      BY <1>2, <3>2, <3>3
  <2>8. faults = MaxFaults => Consistent(u)'
    <3> SUFFICES ASSUME faults = MaxFaults PROVE Consistent(u)'
      OBVIOUS
    <3>1. Consistent(u)
      BY <1>2, <1>3
    <3>2. CASE frame[r].op = "patch"
      <4>1. ServersOf(u) = {}
        BY <1>2, <1>3, <3>2, Here DEF RowFlight
      <4> QED
        BY <2>1, <3>1, <4>1 DEF Consistent, Absent
    <3>3. CASE frame[r].op = "scale"
      <4>1. PICK s \in rows : s.user = u /\ ServersOf(u) = {s} /\ frame[r].server = {s}
        BY <1>2, <1>3, <3>3, ScaleRow
      <4>2. pvc[u] = "bound" /\ d = [replicas |-> Replicas(s), args |-> s.world]
        BY <2>1, <3>1, <4>1 DEF Consistent, Agrees
      <4>3. e = d
        BY <2>2, <2>6, <3>3, <4>1, <4>2
      <4>4. dep'[u] = dep[u] /\ pvc'[u] = pvc[u]
        BY <1>1, <2>1, <2>4, <4>3
      <4> QED
        BY <1>1, <3>1, <4>4, ServersSame, ConsistentSame
    <3> QED
      BY <1>2, <3>2, <3>3
  <2>9. label \in UpdateLabels /\ label # "saveRow"
    BY DEF UpdateLabels
  <2> HIDE DEF e, label
  <2> QED
    BY <1>1, <1>3, <2>4, <2>5, <2>7, <2>8, <2>9, UpdateStep DEF SameRequest
<1> QED
  BY <1>4, <1>5

LEMMA UpdateScaleSerial ==
    ASSUME IInv, IInv', SerialInv, NEW r \in Requests, UpdateScale(r)
    PROVE  SerialInv'
<1>1. pc[r] = "updateScale" /\ pc[r] \in UpdateLabels
      /\ UNCHANGED <<pvc, actions, faults, rows>>
  BY DEF UpdateScale, UpdateLabels
<1>2. /\ ~AtRest(r) /\ frame[r].op = "scale" /\ frame[r] \in Frame
      /\ faults = MaxFaults => Consistent(frame[r].user)
  BY <1>1, InUpdate, Here DEF Fits
<1>3. PICK u \in Users : frame[r].user = u
  BY <1>2, Here
<1>4. PICK d \in Deployment : dep[u] = {d}
  BY <1>1, <1>2, <1>3, Here, OneDeployment DEF ScaleFlight
<1>5. PICK s \in rows : s.user = u /\ ServersOf(u) = {s} /\ frame[r].server = {s}
  BY <1>2, <1>3, ScaleRow
<1>6. d.args = s.world
  BY <1>1, <1>2, <1>3, <1>4, <1>5, Here DEF ScaleFlight
<1> DEFINE e == [d EXCEPT !.replicas = frame[r].replicas]
<1>7. e = [replicas |-> frame[r].replicas, args |-> s.world]
  BY <1>6 DEF Deployment
<1>8. dep' = [dep EXCEPT ![u] = {e}]
  BY <1>3, <1>4 DEF UpdateScale, IInv, TypeOK
<1>9. OnlyTouches(u) /\ TableInv' /\ dep'[u] = {e}
  BY <1>1, <1>8, DeploymentWritten
<1>10. /\ frame' = [frame EXCEPT ![r] = frame[r]] /\ frame'[r] = frame[r]
       /\ pc' = [pc EXCEPT ![r] = "saveRow"] /\ pc'[r] = "saveRow"
  BY DEF UpdateScale, Goto, IInv, TypeOK
<1>11. ScaleFlight(r)'
  BY <1>3, <1>5, <1>7, <1>9, <1>10 DEF ScaleFlight
<1>12. faults = MaxFaults => pvc'[u] = "bound"
  BY <1>1, <1>2, <1>3, <1>5 DEF Consistent
<1>13. "saveRow" \in UpdateLabels
  BY DEF UpdateLabels
<1> HIDE DEF e
<1> QED
  BY <1>1, <1>2, <1>3, <1>9, <1>10, <1>11, <1>12, <1>13, UpdateStep DEF SameRequest

LEMMA ScaleConflictSerial ==
    ASSUME IInv, IInv', SerialInv, NEW r \in Requests, ScaleConflict(r)
    PROVE  SerialInv'
<1>1. pc[r] = "updateScale" /\ pc[r] \in UpdateLabels
      /\ UNCHANGED <<pvc, dep, actions, rows>>
  BY DEF ScaleConflict, UpdateLabels
<1>2. /\ ~AtRest(r) /\ frame[r] \in Frame
      /\ faults = MaxFaults => Consistent(frame[r].user)
  BY <1>1, InUpdate, Here
<1>3. faults' = MaxFaults => faults = MaxFaults
  BY FaultIsCounted DEF ScaleConflict, IInv
<1>4. CASE Answer(r, "500")
  BY <1>1, <1>2, <1>3, <1>4, JustAnswers DEF Answers
<1>5. CASE frame[r].tries # 1 /\ ~Answer(r, "500")
  <2>1. PICK u \in Users : frame[r].user = u
    BY <1>2, Here
  <2> DEFINE k == frame[r].tries - 1
  <2>2. PICK f \in Frame : f = [frame[r] EXCEPT !.tries = k]
    <3>1. frame[r].tries \in 0 .. RetrySteps /\ frame[r].tries > 0
      BY <1>1, <1>2, Here DEF Frame, Fits
    <3>2. k \in 0 .. RetrySteps
      BY <1>5, <3>1, ConstantsAssumption
    <3> HIDE DEF k
    <3> QED
      BY <1>2, <3>2 DEF Frame
  <2>3. SameRequest(f, frame[r])
    BY <1>2, <2>2 DEF Frame, SameRequest
  <2>4. frame' = [frame EXCEPT ![r] = f] /\ pc' = [pc EXCEPT ![r] = "getScale"]
    BY <1>5, <2>2 DEF ScaleConflict, Goto
  <2>5. frame'[r] = f /\ pc'[r] = "getScale"
    BY <2>4 DEF IInv, TypeOK
  <2>6. OnlyTouches(f.user) /\ TableInv'
    BY <1>1, ServersSame, TableSame DEF OnlyTouches, SerialInv
  <2>7. ScaleFlight(r)'
    BY <1>1, <1>2, <2>3, <2>5, Here DEF ScaleFlight, SameRequest
  <2>8. f.user = u
    BY <2>1, <2>3 DEF SameRequest
  <2>9. faults = MaxFaults => Consistent(u)'
    BY <1>1, <1>2, <2>1, ServersSame, ConsistentSame
  <2>10. "getScale" \in UpdateLabels
    BY DEF UpdateLabels
  <2> QED
    BY <1>1, <1>3, <2>3, <2>4, <2>6, <2>7, <2>8, <2>9, <2>10, UpdateStep
<1> QED
  BY <1>4, <1>5 DEF ScaleConflict

(* Scale records what the Deployment already is.                           *)
LEMMA SavedRow ==
    ASSUME IInv, SerialInv, NEW r \in Requests, SaveRow(r)
    PROVE  /\ ~AtRest(r) /\ frame[r].op = "scale" /\ frame[r].user \in Users
           /\ \E s \in rows, t \in Row :
                 /\ s.user = frame[r].user /\ ServersOf(frame[r].user) = {s}
                 /\ \A x \in rows : x.user = s.user \/ x.id = s.id => x = s
                 /\ t.id = s.id /\ t.user = s.user /\ t.world = s.world
                 /\ t.pvcName = s.pvcName /\ t.deploymentName = s.deploymentName
                 /\ t.state = StateOf(frame[r].replicas) /\ Replicas(t) = frame[r].replicas
                 /\ rows' = (rows \ {s}) \cup {t}
                 /\ dep[t.user] = {[replicas |-> Replicas(t), args |-> t.world]}
<1>1. pc[r] = "saveRow" /\ ~AtRest(r)
  BY DEF SaveRow, AtRest, Answers
<1>2. frame[r].op = "scale" /\ frame[r].user \in Users /\ frame[r].replicas \in {0, 1}
  BY <1>1, Here DEF Fits, Frame
<1>3. PICK u \in Users : frame[r].user = u
  BY <1>2
<1>4. PICK s \in rows : /\ s.user = u /\ ServersOf(u) = {s} /\ frame[r].server = {s}
                        /\ \A t \in rows : t.user = u \/ t.id = s.id => t = s
  BY <1>1, <1>2, <1>3, ScaleRow
<1> DEFINE n == frame[r].replicas
<1>5. s \in Row
  BY DEF IInv, TypeOK
<1>6. PICK t \in Row :
          /\ t = [s EXCEPT !.state = StateOf(n)]
          /\ t.id = s.id /\ t.user = s.user /\ t.world = s.world
          /\ t.pvcName = s.pvcName /\ t.deploymentName = s.deploymentName /\ t.state = StateOf(n)
  <2> DEFINE t == [s EXCEPT !.state = StateOf(n)]
  <2>1. /\ t \in Row /\ t.id = s.id /\ t.user = s.user /\ t.world = s.world
        /\ t.pvcName = s.pvcName /\ t.deploymentName = s.deploymentName /\ t.state = StateOf(n)
    BY <1>5 DEF Row, StateOf
  <2>2. t = [s EXCEPT !.state = StateOf(n)]
    OBVIOUS
  <2> HIDE DEF t
  <2> QED
    BY <2>1, <2>2
<1>7. Replicas(t) = n
  BY <1>2, <1>6 DEF Replicas, StateOf
<1>8. rows' = (rows \ {s}) \cup {t}
  BY <1>4, <1>6 DEF SaveRow
<1>9. dep[u] = {[replicas |-> n, args |-> s.world]}
  BY <1>1, <1>3, <1>4, Here DEF ScaleFlight
<1>10. /\ s.user = frame[r].user /\ ServersOf(frame[r].user) = {s}
       /\ \A x \in rows : x.user = s.user \/ x.id = s.id => x = s
  BY <1>3, <1>4
<1>11. dep[t.user] = {[replicas |-> Replicas(t), args |-> t.world]}
  BY <1>4, <1>6, <1>7, <1>9
<1> HIDE DEF n
<1>12. t.state = StateOf(frame[r].replicas) /\ Replicas(t) = frame[r].replicas
  BY <1>6, <1>7 DEF n
<1> QED
  BY <1>1, <1>2, <1>6, <1>8, <1>10, <1>11, <1>12

LEMMA SaveRowSerial ==
    ASSUME IInv, IInv', SerialInv, NEW r \in Requests, SaveRow(r)
    PROVE  SerialInv'
<1>1. UNCHANGED <<pvc, dep, faults>> /\ Answer(r, "200") /\ pc[r] = "saveRow"
  BY DEF SaveRow
<1>2. ~AtRest(r) /\ frame[r].op = "scale" /\ frame[r].user \in Users
  BY SavedRow
<1>3. PICK u \in Users : frame[r].user = u
  BY <1>2
<1>4. PICK s \in rows, t \in Row :
          /\ s.user = u /\ ServersOf(u) = {s}
          /\ \A x \in rows : x.user = s.user \/ x.id = s.id => x = s
          /\ t.id = s.id /\ t.user = s.user
          /\ t.pvcName = s.pvcName /\ t.deploymentName = s.deploymentName
          /\ rows' = (rows \ {s}) \cup {t}
          /\ dep[u] = {[replicas |-> Replicas(t), args |-> t.world]}
  BY <1>3, SavedRow
<1>5. ServersOf(u)' = {t}
  BY <1>4 DEF ServersOf
<1>6. OnlyTouches(u)
  BY <1>1, <1>4 DEF OnlyTouches, ServersOf
<1>7. TableInv'
  <2>1. OwnResources' /\ OneServerPerUser'
    BY <1>4 DEF SerialInv, TableInv, OwnResources, OneServerPerUser
  <2>2. \A x, y \in rows' : x.id = y.id => x = y
    BY <1>4 DEF SerialInv, TableInv
  <2> QED
    BY <1>1, <2>1, <2>2 DEF SerialInv, TableInv
<1>8. faults' = MaxFaults => faults = MaxFaults /\ Consistent(u)'
  <2> SUFFICES ASSUME faults = MaxFaults PROVE Consistent(u)'
    BY <1>1
  <2>1. pvc[u] = "bound"
    BY <1>1, <1>2, <1>3, Here DEF CleanFlight
  <2> QED
    BY <1>1, <1>4, <1>5, <2>1 DEF Consistent, Agrees, Replicas
<1> QED
  BY <1>1, <1>2, <1>3, <1>6, <1>7, <1>8, IsAnswered DEF Answers

-----------------------------------------------------------------------------
(* A request arrives when no other is in flight                            *)

LEMMA AllAtRest ==
    ASSUME IInv, SerialInv, \A q \in Requests : AtRest(q)
    PROVE  /\ actions = <<>> /\ \A q \in Requests : frame[q] = EmptyFrame
           /\ faults = MaxFaults => \A u \in Users : Consistent(u)
<1>1. actions = <<>>
  BY DEF IInv, QueueInv, AtRest, Answers, Queueing
<1>2. \A q \in Requests : frame[q] = EmptyFrame
  BY DEF SerialInv, TurnsInv
<1>3. \A q \in Requests, u \in Users : frame[q].user # u
  BY <1>2, NoneAssumption DEF EmptyFrame
<1> QED
  BY <1>1, <1>2, <1>3 DEF SerialInv, CleanInv

LEMMA AnsweredAtOnce ==
    ASSUME IInv, SerialInv, \A q \in Requests : AtRest(q),
           NEW r \in Requests, NEW code \in Answers, Answer(r, code),
           UNCHANGED <<pvc, dep, rows>>, faults' = MaxFaults => faults = MaxFaults
    PROVE  SerialInv'
<1>1. \A q \in Requests : AtRest(q)' /\ frame'[q] = EmptyFrame
  BY AllAtRest DEF Answer, Goto, AtRest, IInv, TypeOK
<1>2. TurnsInv' /\ FlightInv'
  BY <1>1 DEF TurnsInv, FlightInv
<1>3. TableInv'
  BY TableSame DEF SerialInv
<1>4. CleanInv'
  BY <1>1, AllAtRest, ServersSame, ConsistentSame DEF CleanInv
<1> QED
  BY <1>2, <1>3, <1>4 DEF SerialInv

LEMMA LimitsFailSerial ==
    ASSUME IInv, SerialInv, \A q \in Requests : AtRest(q), NEW r \in Requests,
           Refuse(r) \/ LimitsFail(r)
    PROVE  SerialInv'
<1>1. UNCHANGED <<pvc, dep, rows>> /\ (Fault \/ NoFault)
  BY DEF Refuse, LimitsFail, NoFault
<1>2. PICK code \in Answers : Answer(r, code)
  BY DEF Refuse, LimitsFail, Answers
<1> QED
  BY <1>1, <1>2, FaultIsCounted, AnsweredAtOnce DEF IInv

(* Where a request begins, and with which copy of the user's rows          *)
Begins(label, f) ==
    CASE f.op = "create" -> label = "doesPvcExist" /\ ServersOf(f.user) = {}
      [] f.op = "delete" -> label = "loadFirst"
      [] f.op = "scale"  -> label = "getDeployment" /\ f.server = ServersOf(f.user)
      [] f.op = "patch"  -> label = "getDeployment" /\ ServersOf(f.user) = {}
      [] OTHER -> FALSE

LEMMA BeginSerial ==
    ASSUME IInv, IInv', SerialInv, \A q \in Requests : AtRest(q), NEW r \in Requests,
           NEW u \in Users, NEW label, NEW f \in Frame, f.user = u, Begins(label, f),
           Begin(r, label, f)
    PROVE  SerialInv'
<1>1. f.op \in {"create", "delete", "scale", "patch"}
  BY DEF Frame, Begins
<1>2. label = CASE f.op = "create" -> "doesPvcExist"
                [] f.op = "delete" -> "loadFirst"
                [] OTHER           -> "getDeployment"
  BY <1>1 DEF Begins
<1>3. label \in {"doesPvcExist", "loadFirst", "getDeployment"}
  BY <1>1, <1>2
<1>4. label \in Labels \ Answers
  BY <1>3 DEF Labels, Answers, CreateLabels, QueueLabels, UpdateLabels
<1>5. /\ pc' = [pc EXCEPT ![r] = label] /\ frame' = [frame EXCEPT ![r] = f]
      /\ pc'[r] = label /\ frame'[r] = f
      /\ UNCHANGED <<pvc, dep, actions, faults, rows>>
  BY DEF Begin, Goto, IInv, TypeOK
<1>6. ServersOf(u)' = ServersOf(u)
  BY <1>5, ServersSame
<1>7. OnlyTouches(u) /\ TableInv'
  BY <1>5, ServersSame, TableSame DEF OnlyTouches, SerialInv
<1>8. ListFlight(r)' /\ ApplyFlight(r)' /\ ScaleFlight(r)'
  BY <1>3, <1>5, AllAtRest DEF ListFlight, ApplyFlight, ScaleFlight
<1>9. RowFlight(r)'
  BY <1>1, <1>3, <1>5, <1>6 DEF RowFlight, Begins
<1>10. faults' = MaxFaults => faults = MaxFaults /\ CleanFlight(r)'
  <2> SUFFICES ASSUME faults = MaxFaults PROVE CleanFlight(r)'
    BY <1>5
  <2>1. Consistent(u) /\ Consistent(u)'
    BY <1>5, <1>6, AllAtRest, ConsistentSame
  <2>2. f.op = "create" => Absent(u)'
    BY <1>5, <2>1 DEF Consistent, Absent, Begins
  <2> QED
    BY <1>1, <1>2, <1>3, <1>5, <2>1, <2>2 DEF CleanFlight
<1> QED
  BY <1>4, <1>5, <1>7, <1>8, <1>9, <1>10, GoesOn

LEMMA CreateServerSerial ==
    ASSUME IInv, IInv', SerialInv, \A q \in Requests : AtRest(q), NEW r \in Requests,
           NEW u \in Users, NEW w \in Worlds, CreateServer(r, u, w) \/ PatchServer(r, u, w)
    PROVE  SerialInv'
<1>1. CASE Refuse(r) \/ LimitsFail(r)
  BY <1>1, LimitsFailSerial
<1>2. ASSUME NEW op \in {"create", "patch"}, ServersOf(u) = {},
             Begin(r, IF op = "create" THEN "doesPvcExist" ELSE "getDeployment",
                   [EmptyFrame EXCEPT !.op = op, !.user = u, !.world = w])
      PROVE  SerialInv'
  <2> DEFINE f == [EmptyFrame EXCEPT !.op = op, !.user = u, !.world = w]
  <2>1. f \in Frame /\ f.op = op /\ f.user = u
    BY EmptyFrameType DEF Frame
  <2>2. Begins(IF op = "create" THEN "doesPvcExist" ELSE "getDeployment", f)
    <3> HIDE DEF f
    <3> QED
      BY <1>2, <2>1 DEF Begins
  <2>3. Begin(r, IF op = "create" THEN "doesPvcExist" ELSE "getDeployment", f)
    BY <1>2
  <2> HIDE DEF f
  <2> QED
    BY <2>1, <2>2, <2>3, BeginSerial
<1> QED
  BY <1>1, <1>2 DEF CreateServer, PatchServer

LEMMA DeleteServerSerial ==
    ASSUME IInv, IInv', SerialInv, \A q \in Requests : AtRest(q), NEW r \in Requests,
           NEW u \in Users, DeleteServer(r, u)
    PROVE  SerialInv'
<1> DEFINE f == [EmptyFrame EXCEPT !.op = "delete", !.user = u]
<1>1. f \in Frame /\ f.op = "delete" /\ f.user = u
  BY EmptyFrameType DEF Frame
<1>2. Begins("loadFirst", f)
  <2> HIDE DEF f
  <2> QED
    BY <1>1 DEF Begins
<1>3. Begin(r, "loadFirst", f)
  BY DEF DeleteServer
<1> HIDE DEF f
<1> QED
  BY <1>1, <1>2, <1>3, BeginSerial

LEMMA ScaleServerSerial ==
    ASSUME IInv, IInv', SerialInv, \A q \in Requests : AtRest(q), NEW r \in Requests,
           NEW u \in Users, NEW n \in {0, 1}, ScaleServer(r, u, n)
    PROVE  SerialInv'
<1>1. CASE Refuse(r)
  BY <1>1, LimitsFailSerial
<1>2. ASSUME NEW s \in ServersOf(u),
             Begin(r, "getDeployment",
                   [EmptyFrame EXCEPT !.op = "scale", !.user = u, !.replicas = n,
                                      !.server = {s}, !.tries = RetrySteps])
      PROVE  SerialInv'
  <2>1. s \in Row /\ s \in rows /\ s.user = u
    BY DEF ServersOf, IInv, TypeOK
  <2> DEFINE f == [EmptyFrame EXCEPT !.op = "scale", !.user = u, !.replicas = n,
                                     !.server = {s}, !.tries = RetrySteps]
  <2>2. {s} \in SUBSET Row
    BY <2>1
  <2>3. f \in Frame /\ f.op = "scale" /\ f.user = u /\ f.server = {s}
    <3>1. RetrySteps \in 0 .. RetrySteps
      BY ConstantsAssumption
    <3>2. f \in Frame
      BY <2>2, <3>1, EmptyFrameType, ScaleFrameType
    <3>3. f.op = "scale" /\ f.user = u /\ f.server = {s}
      BY EmptyFrameType DEF Frame
    <3> QED
      BY <3>2, <3>3
  <2>4. ServersOf(u) = {s}
    BY <2>1 DEF SerialInv, TableInv, OneServerPerUser, ServersOf
  <2>5. Begin(r, "getDeployment", f)
    BY <1>2
  <2> HIDE DEF f
  <2>6. Begins("getDeployment", f)
    BY <2>3, <2>4 DEF Begins
  <2> QED
    BY <2>3, <2>5, <2>6, BeginSerial
<1> QED
  BY <1>1, <1>2 DEF ScaleServer

LEMMA ArriveSerial ==
    ASSUME OneAtATime, IInv, IInv', SerialInv, NEW r \in Requests, Arrive(r)
    PROVE  SerialInv'
<1>1. \A q \in Requests : AtRest(q)
  BY DEF Arrive, CreateServer, DeleteServer, ScaleServer, PatchServer, Accepting
<1> QED
  BY <1>1, CreateServerSerial, DeleteServerSerial, ScaleServerSerial DEF Arrive

LEMMA WorkSerial ==
    ASSUME IInv, IInv', SerialInv, NEW r \in Requests, Work(r) PROVE SerialInv'
  BY RemoveOldPvcSerial, EarlyAnswerSerial, AddActionsSerial, ApplyResourcesSerial,
     RollbackSerial, InsertRowSerial, SaveUserSerial, DeleteRowsSerial, ReadSerial,
     UpdateDeploymentSerial, UpdateScaleSerial, ScaleConflictSerial, SaveRowSerial,
     CallFailsSerial DEF Work

-----------------------------------------------------------------------------
(* Kubernetes finishes what it has begun, and the process restarts         *)

(* On its own Kubernetes neither makes nor unmakes what table and requests *)
(* rely on, and a create that has read the PVC learns of its removal.      *)
LEMMA BackgroundStep ==
    ASSUME IInv, Background
    PROVE  /\ UNCHANGED <<dep, actions, pc, frame, faults, rows>> /\ upToDate' \subseteq upToDate
           /\ \A u \in Users :
                 /\ pvc[u] = "bound" => pvc'[u] = "bound"
                 /\ pvc[u] \in {"none", "terminating"} => pvc'[u] \in {"none", "terminating"}
                 /\ \A r \in Requests :
                       /\ frame[r].user = u /\ frame[r].op = "create"
                       /\ pvc[u] # "none" /\ pvc'[u] = "none"
                       => r \notin upToDate'
  BY DEF Background, FinishPvcDeletion, RestoreFinalizer, Written, Copied, IInv, TypeOK

LEMMA BackgroundSerial ==
    ASSUME IInv, SerialInv, Background PROVE SerialInv'
<1>1. UNCHANGED <<dep, actions, pc, frame, faults, rows>> /\ upToDate' \subseteq upToDate
  BY BackgroundStep
<1>2. \A u : ServersOf(u)' = ServersOf(u)
  BY <1>1, ServersSame
<1>3. \A u \in Users : /\ pvc[u] = "bound" => pvc'[u] = "bound"
                       /\ Absent(u) => Absent(u)'
                       /\ Consistent(u) => Consistent(u)'
  BY <1>1, <1>2, BackgroundStep DEF Absent, Consistent, Agrees
<1>4. TurnsInv' /\ TableInv'
  BY <1>1, TableSame DEF SerialInv, TurnsInv, AtRest
<1>5. ASSUME NEW r \in Requests, ~AtRest(r)'
      PROVE  /\ ListFlight(r)' /\ ApplyFlight(r)' /\ RowFlight(r)' /\ ScaleFlight(r)'
             /\ faults = MaxFaults => CleanFlight(r)'
  <2>1. ~AtRest(r)
    BY <1>1, <1>5 DEF AtRest
  <2>2. PICK u \in Users : frame[r].user = u
    BY <2>1, Here
  <2>3. ListFlight(r)' /\ ScaleFlight(r)'
    BY <1>1, <2>1, Here DEF ListFlight, ScaleFlight, Queueing
  <2>4. Running(frame[r]) => Running(frame[r])'
    BY <1>1, <1>3, <2>2 DEF Running
  <2>5. ApplyFlight(r)'
    BY <1>1, <1>3, <2>1, <2>2, <2>4, Here DEF ApplyFlight
  <2>6. RowFlight(r)'
    BY <1>1, <1>2, <2>1, <2>4, Here DEF RowFlight
  <2>7. faults = MaxFaults => CleanFlight(r)'
    <3> SUFFICES ASSUME faults = MaxFaults PROVE CleanFlight(r)'
      OBVIOUS
    <3>1. CleanFlight(r)
      BY <2>1, Here
    <3>2. frame[r].op = "create" /\ pc[r] = "clearFinalizers" /\ r \in upToDate'
          => pvc'[u] # "none"
      BY <1>1, <2>2, <3>1, BackgroundStep DEF CleanFlight
    <3> QED
      BY <1>1, <1>3, <2>2, <3>1, <3>2 DEF CleanFlight
  <2> QED
    BY <2>3, <2>5, <2>6, <2>7
<1>6. FlightInv'
  BY <1>5 DEF FlightInv
<1>7. CleanInv'
  BY <1>1, <1>3, <1>5 DEF SerialInv, CleanInv
<1> QED
  BY <1>4, <1>6, <1>7 DEF SerialInv

LEMMA RestartSerial ==
    ASSUME IInv, SerialInv, Restart PROVE SerialInv'
<1>1. \A r \in Requests : AtRest(r)' /\ frame'[r] = EmptyFrame
  BY DEF Restart, AtRest, Answers
<1>2. TurnsInv' /\ FlightInv'
  BY <1>1 DEF TurnsInv, FlightInv
<1>3. TableInv'
  BY TableSame DEF SerialInv, Restart
<1>4. faults' # MaxFaults
  BY ConstantsAssumption DEF Restart, Fault, IInv, TypeOK
<1> QED
  BY <1>2, <1>3, <1>4 DEF SerialInv, CleanInv

LEMMA StutterSerial ==
    ASSUME SerialInv, UNCHANGED vars PROVE SerialInv'
<1>1. UNCHANGED <<pvc, dep, actions, pc, frame, upToDate, faults, rows>>
  BY DEF vars
<1>2. TurnsInv' /\ TableInv'
  BY <1>1, TableSame DEF SerialInv, TurnsInv, AtRest
<1>3. \A u : /\ ServersOf(u)' = ServersOf(u)
             /\ (Absent(u)' <=> Absent(u)) /\ (Consistent(u)' <=> Consistent(u))
  BY <1>1 DEF ServersOf, Absent, Consistent, Agrees
<1>4. \A r \in Requests :
          /\ AtRest(r)' <=> AtRest(r)
          /\ ListFlight(r) => ListFlight(r)'
          /\ ApplyFlight(r) => ApplyFlight(r)'
          /\ RowFlight(r) => RowFlight(r)'
          /\ ScaleFlight(r) => ScaleFlight(r)'
          /\ CleanFlight(r) => CleanFlight(r)'
  BY <1>1, <1>3 DEF AtRest, ListFlight, Queueing, ApplyFlight, Running, RowFlight, ScaleFlight,
                    CleanFlight
<1>5. FlightInv'
  BY <1>4 DEF SerialInv, FlightInv
<1>6. CleanInv'
  BY <1>1, <1>3, <1>4 DEF SerialInv, CleanInv
<1> QED
  BY <1>2, <1>5, <1>6 DEF SerialInv

-----------------------------------------------------------------------------
(* Every user has at most the row it starts with, and the objects it names.*)
LEMMA InitSerial == Init => SerialInv
<1> SUFFICES ASSUME Init PROVE SerialInv
  OBVIOUS
<1>1. PICK owners \in SUBSET Users :
        \E id \in [owners -> RowIds], state \in [owners -> {"RUNNING", "TERMINATED"}],
           world \in [owners -> Worlds] :
           /\ \A u, v \in owners : u # v => id[u] # id[v]
           /\ rows = {OwnRow(id[u], u, state[u], world[u]) : u \in owners}
  BY DEF Init
<1>2. PICK id \in [owners -> RowIds], state \in [owners -> {"RUNNING", "TERMINATED"}],
          world \in [owners -> Worlds] :
           /\ \A u, v \in owners : u # v => id[u] # id[v]
           /\ rows = {OwnRow(id[u], u, state[u], world[u]) : u \in owners}
  BY <1>1
<1>3. \A u \in owners : \A k, s, w :
          /\ OwnRow(k, u, s, w).user = u /\ OwnRow(k, u, s, w).id = k
          /\ OwnRow(k, u, s, w).pvcName = PvcName(u)
          /\ OwnRow(k, u, s, w).deploymentName = DeploymentName(u)
  BY DEF OwnRow
<1>4. pc = [r \in Requests |-> "idle"] /\ frame = [r \in Requests |-> EmptyFrame]
  BY DEF Init
<1>5. \A r \in Requests : AtRest(r) /\ frame[r] = EmptyFrame
  BY <1>4 DEF AtRest, Answers
<1>6. TurnsInv /\ FlightInv
  BY <1>5 DEF TurnsInv, FlightInv
<1>7. OwnResources /\ OneServerPerUser /\ \A s, t \in rows : s.id = t.id => s = t
  BY <1>2, <1>3 DEF OwnResources, OneServerPerUser
<1>8. \A u \in Users :
          dep[u] = {[replicas |-> Replicas(s), args |-> s.world] : s \in ServersOf(u)}
          /\ pvc[u] = IF ServersOf(u) = {} THEN "none" ELSE "bound"
  BY DEF Init
<1>9. \A u : \A s, t \in ServersOf(u) : s = t /\ s.user = u
  BY <1>7 DEF ServersOf, OneServerPerUser
<1>10. TableInv
  BY <1>7, <1>8, <1>9 DEF TableInv
<1>11. \A u \in Users : Consistent(u)
  <2> SUFFICES ASSUME NEW u \in Users PROVE Consistent(u)
    OBVIOUS
  <2>1. CASE ServersOf(u) = {}
    BY <1>8, <2>1 DEF Consistent, Absent
  <2>2. ASSUME NEW s \in ServersOf(u) PROVE Consistent(u)
    <3>1. ServersOf(u) = {s} /\ s.user = u
      BY <1>9
    <3>2. dep[u] = {[replicas |-> Replicas(s), args |-> s.world]} /\ pvc[u] = "bound"
      BY <1>8, <3>1
    <3> QED
      BY <3>1, <3>2 DEF Consistent, Agrees
  <2> QED
    BY <2>1, <2>2
<1> QED
  BY <1>5, <1>6, <1>10, <1>11 DEF SerialInv, CleanInv

LEMMA NextSerial ==
    ASSUME OneAtATime, IInv, SerialInv, [Next]_vars PROVE SerialInv'
<1>1. IInv'
  BY NextIInv
<1>2. ASSUME NEW r \in Requests, Arrive(r) \/ Work(r) PROVE SerialInv'
  BY <1>1, <1>2, ArriveSerial, WorkSerial
<1>3. CASE Background \/ Restart
  BY <1>3, BackgroundSerial, RestartSerial
<1>4. CASE UNCHANGED vars
  BY <1>4, StutterSerial
<1> QED
  BY <1>2, <1>3, <1>4 DEF Next

(* When clients take turns, the one request in flight has a true picture   *)
(* of its user: of the shared list, of the Deployment and of the rows,     *)
(* through failures, rollbacks and restarts.                               *)
THEOREM SerialInvariance == ASSUME OneAtATime PROVE Spec => []SerialInv
<1>1. IInv /\ SerialInv /\ [Next]_vars => SerialInv'
  BY NextSerial
<1> QED
  BY <1>1, InitSerial, Invariance, PTL DEF Spec

(* A row names the PVC and the Deployment of its own user: what             *)
(* ApplyResources reports to a create is what that create has queued, and   *)
(* nothing that an earlier request has left in the list.                    *)
THEOREM RowsAreOwn == ASSUME OneAtATime PROVE Spec => []OwnResources
<1>1. SerialInv => OwnResources
  BY DEF SerialInv, TableInv
<1> QED
  BY <1>1, SerialInvariance, PTL

(* While nothing fails, table and cluster agree after every request, for    *)
(* all users at once: creates, deletes, scales and patches leave neither a  *)
(* row without its Deployment and PVC nor a Deployment without its row.     *)
THEOREM TableIsTruth == ASSUME OneAtATime PROVE Spec => []FaultlessConsistency
<1>1. ASSUME IInv, SerialInv PROVE FaultlessConsistency
  <2> SUFFICES ASSUME faults = MaxFaults, \A r \in Requests : AtRest(r), NEW u \in Users
               PROVE  IF ServersOf(u) = {}
                      THEN dep[u] = {} /\ pvc[u] \in {"none", "terminating"}
                      ELSE pvc[u] = "bound" /\ \A s \in ServersOf(u) : Agrees(s)
    BY DEF FaultlessConsistency
  <2>1. Consistent(u)
    BY <1>1, AllAtRest
  <2> QED
    BY <2>1 DEF Consistent, Absent
<1> QED
  BY <1>1, SerialInvariance, Invariance, PTL
=============================================================================
