----------------------- MODULE ServerOverlaps_proofs -----------------------
(***************************************************************************)
(* One theorem about overlapping requests of one user, for any number of   *)
(* them, of users, rows, failures and restarts: a second row takes a       *)
(* create that overlaps with another create or with a scale.               *)
(*                                                                         *)
(* The rows of a user and the copies of them that requests hold are looked *)
(* at together: a delete may remove a row which a scale then saves again.  *)
(***************************************************************************)
EXTENDS ServerOverlaps, ServerApi_proofs

(* Only a scale, and a create that has inserted its row, holds a copy, and *)
(* one of its own user.                                                    *)
CopyInv ==
    \A r \in Requests : \A s \in frame[r].server :
        /\ s.user = frame[r].user
        /\ ~AtRest(r)
        /\ frame[r].op = "scale" \/ pc[r] = "saveUser"
        /\ \A t \in frame[r].server : s = t

(* s is a row of the user or a copy of one.                                *)
Held(u, s) ==
    /\ s.user = u
    /\ s \in rows \/ \E r \in Requests : s \in frame[r].server

Creating(r, u) == InFlight(r, u) /\ frame[r].op = "create" /\ pc[r] # "saveUser"

(* The rows and copies of a user who has had no clash have one primary     *)
(* key, and there are none while a create is on its way to its insert.     *)
UserInv(u) ==
    /\ ~Clash(u)
    /\ (\E r \in Requests : Creating(r, u)) => \A s : ~Held(u, s)
    /\ \A s, t : Held(u, s) /\ Held(u, t) => s.id = t.id
    /\ \A s, t \in ServersOf(u) : s = t

OverlapInv == IInv /\ CopyInv /\ \A u \in Users \ clashed : UserInv(u)

-----------------------------------------------------------------------------
LEMMA ClashRecorded ==
    ASSUME OverlapNext, NEW u \in Users \ clashed'
    PROVE  u \notin clashed /\ ~Clash(u)'
  BY DEF OverlapNext

LEMMA InitOverlaps == OverlapInit => OverlapInv
<1> SUFFICES ASSUME OverlapInit PROVE OverlapInv
  OBVIOUS
<1>1. Init /\ \A r \in Requests : AtRest(r) /\ frame[r].server = {}
  BY DEF OverlapInit, Init, AtRest, Answers, EmptyFrame
<1>2. \A u \in Users : \A s, t \in ServersOf(u) : s = t
  <2>1. PICK owners \in SUBSET Users :
          \E id \in [owners -> RowIds], state \in [owners -> {"RUNNING", "TERMINATED"}],
             world \in [owners -> Worlds] :
             rows = {OwnRow(id[u], u, state[u], world[u]) : u \in owners}
    BY <1>1 DEF Init
  <2>2. PICK id \in [owners -> RowIds], state \in [owners -> {"RUNNING", "TERMINATED"}],
             world \in [owners -> Worlds] :
             rows = {OwnRow(id[u], u, state[u], world[u]) : u \in owners}
    BY <2>1
  <2> QED
    BY <2>2 DEF ServersOf, OwnRow
<1>3. \A u \in Users : ~Clash(u) /\ \A r \in Requests : ~Creating(r, u)
  BY <1>1 DEF Clash, Creating, InFlight
<1>4. \A u \in Users : \A s, t : Held(u, s) /\ Held(u, t) => s.id = t.id
  BY <1>1, <1>2 DEF Held, ServersOf
<1> QED
  BY <1>1, <1>2, <1>3, <1>4, InitIInv DEF OverlapInv, CopyInv, UserInv

-----------------------------------------------------------------------------
(* A step after which nothing is held that was not held before, and no     *)
(* request is on its way to an insert that was not                         *)

Same(r) ==
    /\ frame'[r].user = frame[r].user /\ frame'[r].op = frame[r].op
    /\ frame'[r].server = frame[r].server
    /\ AtRest(r)' <=> AtRest(r)
    /\ pc'[r] = "saveUser" <=> pc[r] = "saveUser"

Ended(r) == AtRest(r)' /\ frame'[r].server = {}

LEMMA NothingNew ==
    ASSUME CopyInv, rows' \subseteq rows, \A r \in Requests : Same(r) \/ Ended(r)
    PROVE  /\ CopyInv'
           /\ \A u \in Users : UserInv(u) /\ ~Clash(u)' => UserInv(u)'
<1>1. CopyInv'
  BY DEF CopyInv, Same, Ended
<1>2. \A u, s : Held(u, s)' => Held(u, s)
  BY DEF Held, Same, Ended
<1>3. \A u : \A r \in Requests : Creating(r, u)' => Creating(r, u)
  BY DEF Creating, InFlight, Same, Ended
<1>4. \A u : \A s \in ServersOf(u)' : s \in ServersOf(u)
  BY DEF ServersOf
<1> QED
  BY <1>1, <1>2, <1>3, <1>4 DEF UserInv

LEMMA AnswerEnds ==
    ASSUME TypeOK, NEW r \in Requests, NEW code \in Answers, Answer(r, code)
    PROVE  \A q \in Requests : Same(q) \/ Ended(q)
  BY DEF TypeOK, Answer, Goto, Same, Ended, AtRest, EmptyFrame

(* A step of one request from label to label that changes no more of its   *)
(* frame than todo, names and tries                                        *)
LEMMA GoesOnSame ==
    ASSUME TypeOK, NEW r \in Requests, NEW label, label \notin Answers, label # "saveUser",
           Goto(r, label) \/ UNCHANGED pc, pc[r] \notin Answers, pc[r] # "saveUser",
           NEW todo, NEW names, NEW tries,
           \/ UNCHANGED frame
           \/ frame' = [frame EXCEPT ![r].todo = todo]
           \/ frame' = [frame EXCEPT ![r].todo = todo, ![r].names = names]
           \/ frame' = [frame EXCEPT ![r].tries = tries]
    PROVE  \A q \in Requests : Same(q)
<1>1. \A q \in Requests :
        /\ frame'[q].user = frame[q].user /\ frame'[q].op = frame[q].op
        /\ frame'[q].server = frame[q].server
  <2> TAKE q \in Requests
  <2>1. frame[q] \in Frame /\ frame \in [Requests -> Frame]
    BY DEF TypeOK
  <2>2. CASE q # r \/ UNCHANGED frame
    BY <2>1, <2>2
  <2>3. CASE q = r /\ frame' = [frame EXCEPT ![r].todo = todo]
    BY <2>1, <2>3 DEF Frame
  <2>4. CASE q = r /\ frame' = [frame EXCEPT ![r].todo = todo, ![r].names = names]
    BY <2>1, <2>4 DEF Frame
  <2>5. CASE q = r /\ frame' = [frame EXCEPT ![r].tries = tries]
    BY <2>1, <2>5 DEF Frame
  <2> QED
    BY <2>2, <2>3, <2>4, <2>5
<1>2. \A q \in Requests : (AtRest(q)' <=> AtRest(q)) /\ (pc'[q] = "saveUser" <=> pc[q] = "saveUser")
  BY DEF TypeOK, Goto, AtRest
<1> QED
  BY <1>1, <1>2 DEF Same

LEMMA RemoveOldPvcSame ==
    ASSUME TypeOK, NEW r \in Requests, RemoveOldPvc(r) PROVE \A q \in Requests : Same(q)
<1>1. UNCHANGED frame /\ pc[r] \in {"doesPvcExist", "getPvc", "clearFinalizers", "deletePvc"}
  BY DEF RemoveOldPvc, DoesPvcExist, GetPvc, ClearFinalizers, DeletePvc
<1>2. \/ Goto(r, "getPvc") \/ Goto(r, "clearFinalizers") \/ Goto(r, "deletePvc")
      \/ Goto(r, "loadFirst")
  BY DEF RemoveOldPvc, DoesPvcExist, GetPvc, ClearFinalizers, DeletePvc
<1> QED
  BY <1>1, <1>2, GoesOnSame DEF Answers

LEMMA AddActionsSame ==
    ASSUME TypeOK, NEW r \in Requests, AddActions(r) PROVE \A q \in Requests : Same(q)
<1>1. /\ \E todo : frame' = [frame EXCEPT ![r].todo = todo]
      /\ pc[r] \in {"loadFirst", "storeFirst", "loadSecond", "storeSecond"}
  BY DEF AddActions, LoadActions, StoreAction
<1>2. \/ Goto(r, "storeFirst") \/ Goto(r, "loadSecond") \/ Goto(r, "storeSecond")
      \/ Goto(r, "apply") \/ Goto(r, "rollback")
  BY DEF AddActions, LoadActions, StoreAction
<1> QED
  BY <1>1, <1>2, GoesOnSame DEF Answers

LEMMA ApplyResourcesSame ==
    ASSUME TypeOK, NEW r \in Requests, ApplyResources(r) PROVE \A q \in Requests : Same(q)
<1>1. /\ \/ UNCHANGED frame
         \/ \E todo : frame' = [frame EXCEPT ![r].todo = todo]
         \/ \E todo, names : frame' = [frame EXCEPT ![r].todo = todo, ![r].names = names]
      /\ pc[r] \in {"apply", "applying"}
  BY DEF ApplyResources, ApplyStart, ApplyOne, ApplyFails, ApplyReturns
<1>2. \/ Goto(r, "applying") \/ Goto(r, "rollback") \/ Goto(r, "insertRow") \/ UNCHANGED pc
  BY DEF ApplyResources, ApplyStart, ApplyOne, ApplyFails, ApplyReturns
<1> QED
  BY <1>1, <1>2, GoesOnSame DEF Answers

LEMMA RollbackSame ==
    ASSUME TypeOK, NEW r \in Requests, Rollback(r) PROVE \A q \in Requests : Same(q)
<1>1. /\ UNCHANGED frame \/ \E todo : frame' = [frame EXCEPT ![r].todo = todo]
      /\ pc[r] \in {"rollback", "rolling"}
  BY DEF Rollback, RollbackStart, RollbackOne, RollbackReturns
<1>2. \/ Goto(r, "rolling") \/ Goto(r, "applying") \/ Goto(r, "deleteRows") \/ UNCHANGED pc
  BY DEF Rollback, RollbackStart, RollbackOne, RollbackReturns
<1> QED
  BY <1>1, <1>2, GoesOnSame DEF Answers

(* The steps of scale and patch up to the last                             *)
LEMMA UpdateSame ==
    ASSUME TypeOK, NEW r \in Requests,
           \/ GetDeployment(r) \/ UpdateDeployment(r) \/ GetScale(r) \/ UpdateScale(r)
           \/ ScaleConflict(r)
    PROVE  \A q \in Requests : Same(q) \/ Ended(q)
<1>1. CASE Answer(r, "500")
  BY <1>1, AnswerEnds DEF Answers
<1>2. CASE ~Answer(r, "500")
  <2>1. /\ UNCHANGED frame \/ \E tries : frame' = [frame EXCEPT ![r].tries = tries]
        /\ pc[r] \in {"getDeployment", "updateDeployment", "getScale", "updateScale"}
    BY <1>2 DEF GetDeployment, UpdateDeployment, GetScale, UpdateScale, ScaleConflict
  <2>2. \/ Goto(r, "updateDeployment") \/ Goto(r, "getScale") \/ Goto(r, "findServer")
        \/ Goto(r, "updateScale") \/ Goto(r, "saveRow")
    BY <1>2 DEF GetDeployment, UpdateDeployment, GetScale, UpdateScale, ScaleConflict
  <2> QED
    BY <2>1, <2>2, GoesOnSame DEF Answers
<1> QED
  BY <1>1, <1>2

LEMMA EarlyAnswerEnds ==
    ASSUME TypeOK, NEW r \in Requests,
           FindServer(r) \/ ClearFinalizersConflict(r) \/ CallFails(r) \/ DeleteRows(r)
    PROVE  /\ \A q \in Requests : Same(q) \/ Ended(q)
           /\ rows' \subseteq rows
  BY AnswerEnds DEF FindServer, Refuse, ClearFinalizersConflict, CallFails, DeleteRows, Answers

LEMMA RestartEnds ==
    ASSUME TypeOK, CopyInv, Restart PROVE \A q \in Requests : Same(q) \/ Ended(q)
  BY DEF TypeOK, Restart, Ended, AtRest, Answers, EmptyFrame

-----------------------------------------------------------------------------
(* The three steps that write a row                                        *)

(* What is held afterwards has the key of what was held before.            *)
LEMMA KeysKept ==
    ASSUME NEW u \in Users, UserInv(u), ~Clash(u)',
           \A t : Held(u, t)' => \E s : Held(u, s) /\ s.id = t.id,
           \A q \in Requests : Creating(q, u)' => Creating(q, u),
           \A s, t \in ServersOf(u)' : s = t
    PROVE  UserInv(u)'
  BY DEF UserInv

LEMMA InsertRowOverlaps ==
    ASSUME TypeOK, ControlInv, CopyInv, NEW r \in Requests, InsertRow(r)
    PROVE  /\ CopyInv'
           /\ \A u \in Users : UserInv(u) /\ ~Clash(u)' => UserInv(u)'
<1>1. CASE Answer(r, "500") /\ UNCHANGED rows
  BY <1>1, AnswerEnds, NothingNew DEF Answers
<1>2. CASE ~(Answer(r, "500") /\ UNCHANGED rows)
  <2>1. PICK s : /\ s.user = frame[r].user
                 /\ rows' = rows \cup {s}
                 /\ frame' = [frame EXCEPT ![r].server = {s}]
                 /\ pc[r] = "insertRow" /\ Goto(r, "saveUser")
    <3> DEFINE new == [id |-> FreshId, user |-> frame[r].user, pvcName |-> frame[r].names[1],
                       deploymentName |-> frame[r].names[2], state |-> "RUNNING",
                       world |-> frame[r].world]
    <3>1. /\ rows' = rows \cup {new} /\ frame' = [frame EXCEPT ![r].server = {new}]
          /\ pc[r] = "insertRow" /\ Goto(r, "saveUser")
      BY <1>2 DEF InsertRow
    <3>2. new.user = frame[r].user
      OBVIOUS
    <3> HIDE DEF new
    <3> QED
      BY <3>1, <3>2
  <2>2. /\ frame'[r].server = {s} /\ frame'[r].user = frame[r].user
        /\ frame'[r].op = frame[r].op /\ frame[r].op = "create" /\ pc'[r] = "saveUser"
    <3>1. frame[r] \in Frame /\ frame \in [Requests -> Frame] /\ pc \in [Requests -> Labels]
      BY DEF TypeOK
    <3>2. frame[r].op = "create"
      BY <2>1, CurrentFits DEF Fits, CreateLabels
    <3> QED
      BY <2>1, <3>1, <3>2 DEF Frame, Goto
  <2>3. \A q \in Requests \ {r} : frame'[q] = frame[q] /\ pc'[q] = pc[q]
    BY <2>1 DEF TypeOK, Goto
  <2>4. CopyInv'
    <3> SUFFICES ASSUME NEW q \in Requests, NEW t \in frame'[q].server
                 PROVE  /\ t.user = frame'[q].user /\ ~AtRest(q)'
                        /\ frame'[q].op = "scale" \/ pc'[q] = "saveUser"
                        /\ \A v \in frame'[q].server : t = v
      BY DEF CopyInv
    <3>1. CASE q = r
      BY <3>1, <2>1, <2>2 DEF AtRest, Answers
    <3>2. CASE q # r
      BY <3>2, <2>3 DEF CopyInv, AtRest
    <3> QED
      BY <3>1, <3>2
  <2>5. ASSUME NEW u \in Users, UserInv(u), ~Clash(u)', u # frame[r].user PROVE UserInv(u)'
    <3>1. \A t : Held(u, t)' => Held(u, t)
      BY <2>1, <2>2, <2>3, <2>5 DEF Held
    <3>2. \A q \in Requests : Creating(q, u)' => Creating(q, u)
      BY <2>2, <2>3 DEF Creating, InFlight, AtRest
    <3>3. \A t, v \in ServersOf(u)' : t = v
      BY <2>1, <2>5 DEF UserInv, ServersOf
    <3> QED
      BY <2>5, <3>1, <3>2, <3>3, KeysKept
  <2>6. ASSUME NEW u \in Users, UserInv(u), ~Clash(u)', u = frame[r].user PROVE UserInv(u)'
    <3>1. Creating(r, u)
      BY <2>1, <2>2, <2>6 DEF Creating, InFlight, AtRest, Answers
    <3>2. \A t : ~Held(u, t)
      BY <2>6, <3>1 DEF UserInv
    <3>3. \A t : Held(u, t)' => t = s
      BY <2>1, <2>2, <2>3, <3>2 DEF Held
    <3>4. InFlight(r, u)'
      BY <2>2, <2>6 DEF InFlight, AtRest, Answers
    <3>5. \A q \in Requests : ~Creating(q, u)'
      BY <2>2, <2>6, <3>4 DEF Creating, Clash
    <3>6. \A t \in ServersOf(u)' : Held(u, t)'
      BY DEF ServersOf, Held
    <3> QED
      BY <2>6, <3>3, <3>5, <3>6 DEF UserInv
  <2> QED
    BY <2>4, <2>5, <2>6
<1> QED
  BY <1>1, <1>2

LEMMA SaveUserOverlaps ==
    ASSUME TypeOK, CopyInv, NEW r \in Requests, SaveUser(r)
    PROVE  /\ CopyInv'
           /\ \A u \in Users : UserInv(u) /\ ~Clash(u)' => UserInv(u)'
<1>1. \A q \in Requests : Same(q) \/ Ended(q)
  BY AnswerEnds DEF SaveUser, Answers
<1>2. CASE UNCHANGED rows
  BY <1>1, <1>2, NothingNew
<1>3. CASE rows' = rows \cup {s \in frame[r].server : \A t \in rows : t.id # s.id}
  <2>1. CopyInv'
    BY <1>1 DEF CopyInv, Same, Ended
  <2>2. ASSUME NEW u \in Users, UserInv(u), ~Clash(u)' PROVE UserInv(u)'
    <3>1. \A t : Held(u, t)' => Held(u, t)
      BY <1>1, <1>3 DEF Held, Same, Ended
    <3>2. \A q \in Requests : Creating(q, u)' => Creating(q, u)
      BY <1>1 DEF Creating, InFlight, Same, Ended
    <3>3. \A s, t \in ServersOf(u)' : s = t
      <4> SUFFICES ASSUME NEW s \in rows', NEW t \in rows', s.user = u, t.user = u PROVE s = t
        BY DEF ServersOf
      <4>1. Held(u, s) /\ Held(u, t)
        BY <1>3 DEF Held
      <4>2. s.id = t.id
        BY <2>2, <4>1 DEF UserInv
      <4>3. CASE s \in rows /\ t \in rows
        BY <2>2, <4>3 DEF UserInv, ServersOf
      <4>4. CASE s \in frame[r].server /\ t \in frame[r].server
        BY <4>4 DEF CopyInv
      <4> QED
        BY <1>3, <4>2, <4>3, <4>4
    <3> QED
      BY <2>2, <3>1, <3>2, <3>3, KeysKept
  <2> QED
    BY <2>1, <2>2
<1> QED
  BY <1>2, <1>3 DEF SaveUser

LEMMA SaveRowOverlaps ==
    ASSUME TypeOK, CopyInv, NEW r \in Requests, SaveRow(r)
    PROVE  /\ CopyInv'
           /\ \A u \in Users : UserInv(u) /\ ~Clash(u)' => UserInv(u)'
<1> DEFINE New(s) == [s EXCEPT !.state = StateOf(frame[r].replicas)]
<1>1. \A q \in Requests : Same(q) \/ Ended(q)
  BY AnswerEnds DEF SaveRow, Answers
<1>2. \A s \in frame[r].server : New(s).id = s.id /\ New(s).user = s.user
  BY DEF TypeOK, Frame, Row
<1>3. rows' = {t \in rows : \A s \in frame[r].server : t.id # s.id}
              \cup {New(s) : s \in frame[r].server}
  BY DEF SaveRow
<1> HIDE DEF New
<1>4. CopyInv'
  BY <1>1 DEF CopyInv, Same, Ended
<1>5. ASSUME NEW u \in Users, UserInv(u), ~Clash(u)' PROVE UserInv(u)'
  <2>1. \A t : Held(u, t)' => \E s : Held(u, s) /\ s.id = t.id
    <3> SUFFICES ASSUME NEW t, Held(u, t)' PROVE \E s : Held(u, s) /\ s.id = t.id
      OBVIOUS
    <3>1. CASE t \in rows \/ \E q \in Requests : t \in frame[q].server
      BY <3>1 DEF Held
    <3>2. CASE t \in {New(s) : s \in frame[r].server}
      BY <1>2, <3>2 DEF Held
    <3> QED
      BY <1>1, <1>3, <3>1, <3>2 DEF Held, Same, Ended
  <2>2. \A q \in Requests : Creating(q, u)' => Creating(q, u)
    BY <1>1 DEF Creating, InFlight, Same, Ended
  <2>3. \A s, t \in ServersOf(u)' : s = t
    <3> SUFFICES ASSUME NEW s \in rows', NEW t \in rows', s.user = u, t.user = u PROVE s = t
      BY DEF ServersOf
    <3>1. CASE s \in rows /\ t \in rows
      BY <1>5, <3>1 DEF UserInv, ServersOf
    <3>2. CASE s \notin rows /\ t \notin rows
      BY <1>3, <3>2 DEF CopyInv
    <3>3. ASSUME NEW x \in rows, NEW c \in frame[r].server, x.user = u, New(c).user = u,
                 \A v \in frame[r].server : x.id # v.id
          PROVE  FALSE
      <4>1. Held(u, x) /\ Held(u, c)
        BY <1>2, <3>3 DEF Held
      <4> QED
        BY <1>5, <3>3, <4>1 DEF UserInv
    <3>4. CASE s \in rows /\ t \notin rows
      BY <1>3, <3>3, <3>4 DEF CopyInv
    <3>5. CASE s \notin rows /\ t \in rows
      BY <1>3, <3>3, <3>5 DEF CopyInv
    <3> QED
      BY <3>1, <3>2, <3>4, <3>5
  <2> QED
    BY <1>5, <2>1, <2>2, <2>3, KeysKept
<1> QED
  BY <1>4, <1>5

-----------------------------------------------------------------------------
(* The beginning of a request                                              *)

LEMMA BeginOverlaps ==
    ASSUME TypeOK, ControlInv, CopyInv, NEW r \in Requests, NEW label \in Labels, NEW f,
           NEW v \in Users, AtRest(r), Begin(r, label, f), f.user = v,
           label \notin Answers, label # "saveUser",
           \/ f.op \in {"delete", "patch"} /\ f.server = {}
           \/ f.op = "scale" /\ \E s \in ServersOf(v) : f.server = {s}
           \/ f.op = "create" /\ f.server = {} /\ ServersOf(v) = {}
    PROVE  /\ CopyInv'
           /\ \A u \in Users : UserInv(u) /\ ~Clash(u)' => UserInv(u)'
<1>1. frame'[r] = f /\ pc'[r] = label /\ UNCHANGED rows
  BY DEF Begin, Goto, TypeOK
<1>2. \A q \in Requests \ {r} : frame'[q] = frame[q] /\ pc'[q] = pc[q]
  BY DEF Begin, Goto, TypeOK
<1>3. CopyInv'
  <2> SUFFICES ASSUME NEW q \in Requests, NEW t \in frame'[q].server
               PROVE  /\ t.user = frame'[q].user /\ ~AtRest(q)'
                      /\ frame'[q].op = "scale" \/ pc'[q] = "saveUser"
                      /\ \A w \in frame'[q].server : t = w
    BY DEF CopyInv
  <2>1. CASE q = r
    BY <1>1, <2>1 DEF AtRest, ServersOf
  <2>2. CASE q # r
    BY <1>2, <2>2 DEF CopyInv, AtRest
  <2> QED
    BY <2>1, <2>2
<1>4. \A u : \A t : Held(u, t)' => Held(u, t)
  <2> SUFFICES ASSUME NEW u, NEW t, Held(u, t)' PROVE Held(u, t)
    OBVIOUS
  <2>1. CASE t \in rows
    BY <2>1 DEF Held
  <2>2. ASSUME NEW q \in Requests, t \in frame'[q].server PROVE Held(u, t)
    BY <1>1, <1>2, <2>2 DEF Held, ServersOf
  <2> QED
    BY <1>1, <2>1, <2>2 DEF Held
<1>5. ASSUME NEW u \in Users, UserInv(u), ~Clash(u)' PROVE UserInv(u)'
  <2>1. \A s, t \in ServersOf(u)' : s = t
    BY <1>1, <1>5 DEF UserInv, ServersOf
  <2>2. CASE ~(f.op = "create" /\ u = v)
    <3>1. \A q \in Requests : Creating(q, u)' => Creating(q, u)
      BY <1>1, <1>2, <2>2 DEF Creating, InFlight, AtRest
    <3> QED
      BY <1>4, <1>5, <2>1, <3>1, KeysKept
  <2>3. CASE f.op = "create" /\ u = v
    <3>1. InFlight(r, u)'
      BY <1>1, <2>3 DEF InFlight, AtRest
    <3>2. ASSUME NEW t, Held(u, t)' PROVE FALSE
      <4>1. PICK q \in Requests : t \in frame'[q].server
        BY <1>1, <2>3, <3>2 DEF Held, ServersOf
      <4>2. q # r /\ t \in frame[q].server
        BY <1>1, <1>2, <2>3, <4>1
      <4>3. ~AtRest(q) /\ frame[q].user = u /\ frame[q].op \in {"create", "scale"}
        BY <3>2, <4>2, CurrentFits DEF CopyInv, Held, Fits, CreateLabels
      <4>4. InFlight(q, u)' /\ frame'[q].op \in {"create", "scale"}
        BY <1>2, <4>2, <4>3 DEF InFlight, AtRest
      <4> QED
        BY <1>1, <1>5, <2>3, <3>1, <4>2, <4>4 DEF Clash
    <3> QED
      BY <1>5, <2>1, <3>2 DEF UserInv
  <2> QED
    BY <2>2, <2>3
<1> QED
  BY <1>3, <1>5

LEMMA RefusedOverlaps ==
    ASSUME TypeOK, CopyInv, NEW r \in Requests, Refuse(r) \/ LimitsFail(r)
    PROVE  /\ CopyInv'
           /\ \A u \in Users : UserInv(u) /\ ~Clash(u)' => UserInv(u)'
  BY AnswerEnds, NothingNew DEF Refuse, LimitsFail, Answers

LEMMA ArriveOverlaps ==
    ASSUME TypeOK, ControlInv, CopyInv, NEW r \in Requests, Arrive(r)
    PROVE  /\ CopyInv'
           /\ \A u \in Users : UserInv(u) /\ ~Clash(u)' => UserInv(u)'
<1>1. PICK v \in Users :
        \/ \E w \in Worlds : CreateServer(r, v, w)
        \/ DeleteServer(r, v)
        \/ \E n \in {0, 1} : ScaleServer(r, v, n)
        \/ \E w \in Worlds : PatchServer(r, v, w)
  BY DEF Arrive
<1>2. AtRest(r)
  BY <1>1 DEF CreateServer, DeleteServer, ScaleServer, PatchServer, Accepting, AtRest, Answers
<1>3. CASE Refuse(r) \/ LimitsFail(r)
  BY <1>3, RefusedOverlaps
<1>4. \A label \in {"doesPvcExist", "loadFirst", "getDeployment"} :
        label \in Labels /\ label \notin Answers /\ label # "saveUser"
  BY DEF Labels, Answers, CreateLabels, QueueLabels, UpdateLabels
<1>5. EmptyFrame \in Frame /\ EmptyFrame.server = {}
  BY EmptyFrameType DEF EmptyFrame
<1>6. ASSUME NEW w \in Worlds, CreateServer(r, v, w), ~(Refuse(r) \/ LimitsFail(r))
      PROVE  /\ CopyInv'
             /\ \A u \in Users : UserInv(u) /\ ~Clash(u)' => UserInv(u)'
  <2> DEFINE f == [EmptyFrame EXCEPT !.op = "create", !.user = v, !.world = w]
  <2>1. f.user = v /\ f.op = "create" /\ f.server = {}
    BY <1>5 DEF Frame
  <2>2. Begin(r, "doesPvcExist", f) /\ ServersOf(v) = {}
    BY <1>6 DEF CreateServer
  <2> HIDE DEF f
  <2> QED
    BY <1>2, <1>4, <2>1, <2>2, BeginOverlaps
<1>7. ASSUME DeleteServer(r, v)
      PROVE  /\ CopyInv'
             /\ \A u \in Users : UserInv(u) /\ ~Clash(u)' => UserInv(u)'
  <2> DEFINE f == [EmptyFrame EXCEPT !.op = "delete", !.user = v]
  <2>1. f.user = v /\ f.op = "delete" /\ f.server = {}
    BY <1>5 DEF Frame
  <2>2. Begin(r, "loadFirst", f)
    BY <1>7 DEF DeleteServer
  <2> HIDE DEF f
  <2> QED
    BY <1>2, <1>4, <2>1, <2>2, BeginOverlaps
<1>8. ASSUME NEW n \in {0, 1}, ScaleServer(r, v, n), ~(Refuse(r) \/ LimitsFail(r))
      PROVE  /\ CopyInv'
             /\ \A u \in Users : UserInv(u) /\ ~Clash(u)' => UserInv(u)'
  <2>1. PICK s \in ServersOf(v) :
          Begin(r, "getDeployment",
                [EmptyFrame EXCEPT !.op = "scale", !.user = v, !.replicas = n,
                                   !.server = {s}, !.tries = RetrySteps])
    BY <1>8 DEF ScaleServer
  <2> DEFINE f == [EmptyFrame EXCEPT !.op = "scale", !.user = v, !.replicas = n,
                                     !.server = {s}, !.tries = RetrySteps]
  <2>2. f.user = v /\ f.op = "scale" /\ f.server = {s}
    BY <1>5 DEF Frame
  <2>3. Begin(r, "getDeployment", f)
    BY <2>1
  <2> HIDE DEF f
  <2> QED
    BY <1>2, <1>4, <2>2, <2>3, BeginOverlaps
<1>9. ASSUME NEW w \in Worlds, PatchServer(r, v, w), ~(Refuse(r) \/ LimitsFail(r))
      PROVE  /\ CopyInv'
             /\ \A u \in Users : UserInv(u) /\ ~Clash(u)' => UserInv(u)'
  <2> DEFINE f == [EmptyFrame EXCEPT !.op = "patch", !.user = v, !.world = w]
  <2>1. f.user = v /\ f.op = "patch" /\ f.server = {}
    BY <1>5 DEF Frame
  <2>2. Begin(r, "getDeployment", f)
    BY <1>9 DEF PatchServer
  <2> HIDE DEF f
  <2> QED
    BY <1>2, <1>4, <2>1, <2>2, BeginOverlaps
<1> QED
  BY <1>1, <1>3, <1>6, <1>7, <1>8, <1>9

-----------------------------------------------------------------------------
LEMMA WorkOverlaps ==
    ASSUME TypeOK, ControlInv, CopyInv, NEW r \in Requests, Work(r)
    PROVE  /\ CopyInv'
           /\ \A u \in Users : UserInv(u) /\ ~Clash(u)' => UserInv(u)'
<1>1. CASE InsertRow(r) \/ SaveUser(r) \/ SaveRow(r)
  BY <1>1, InsertRowOverlaps, SaveUserOverlaps, SaveRowOverlaps
<1>2. CASE RemoveOldPvc(r) \/ AddActions(r) \/ ApplyResources(r) \/ Rollback(r)
  <2>1. UNCHANGED rows
    BY <1>2 DEF RemoveOldPvc, AddActions, ApplyResources, Rollback
  <2> QED
    BY <1>2, <2>1, RemoveOldPvcSame, AddActionsSame, ApplyResourcesSame, RollbackSame, NothingNew
<1>3. CASE \/ GetDeployment(r) \/ UpdateDeployment(r) \/ GetScale(r) \/ UpdateScale(r)
           \/ ScaleConflict(r)
  <2>1. UNCHANGED rows
    BY <1>3 DEF GetDeployment, UpdateDeployment, GetScale, UpdateScale, ScaleConflict
  <2> QED
    BY <1>3, <2>1, UpdateSame, NothingNew
<1>4. CASE FindServer(r) \/ ClearFinalizersConflict(r) \/ CallFails(r) \/ DeleteRows(r)
  BY <1>4, EarlyAnswerEnds, NothingNew
<1> QED
  BY <1>1, <1>2, <1>3, <1>4 DEF Work

LEMMA EnvironmentOverlaps ==
    ASSUME TypeOK, CopyInv, Background \/ Restart
    PROVE  /\ CopyInv'
           /\ \A u \in Users : UserInv(u) /\ ~Clash(u)' => UserInv(u)'
<1>1. CASE Background
  <2>1. UNCHANGED <<rows, pc, frame>>
    BY <1>1 DEF Background, FinishPvcDeletion, RestoreFinalizer
  <2> QED
    BY <2>1, NothingNew DEF Same, AtRest
<1>2. CASE Restart
  BY <1>2, RestartEnds, NothingNew DEF Restart
<1> QED
  BY <1>1, <1>2

LEMMA NextOverlaps == OverlapInv /\ [OverlapNext]_overlapVars => OverlapInv'
<1> SUFFICES ASSUME OverlapInv, [OverlapNext]_overlapVars PROVE OverlapInv'
  OBVIOUS
<1>1. IInv /\ TypeOK /\ ControlInv /\ CopyInv
  BY DEF OverlapInv, IInv
<1>2. CASE OverlapNext
  <2>1. /\ CopyInv'
        /\ \A u \in Users : UserInv(u) /\ ~Clash(u)' => UserInv(u)'
    BY <1>1, <1>2, ArriveOverlaps, WorkOverlaps, EnvironmentOverlaps DEF OverlapNext, Next
  <2>2. IInv'
    BY <1>1, <1>2, NextIInv DEF OverlapNext
  <2> QED
    BY <1>2, <2>1, <2>2, ClashRecorded DEF OverlapInv
<1>3. CASE UNCHANGED overlapVars
  <2>1. UNCHANGED <<vars, rows, pc, frame, clashed>>
    BY <1>3 DEF overlapVars, vars
  <2>2. IInv'
    BY <1>1, <2>1, NextIInv
  <2> QED
    BY <2>1, <2>2 DEF OverlapInv, CopyInv, UserInv, Held, Creating, Clash, InFlight, AtRest,
                      ServersOf
<1> QED
  BY <1>2, <1>3

(* A user has at most one server unless a create of his overlapped with    *)
(* another create or a scale of his, however many requests of all users    *)
(* run at once, fail, or are cut short by a restart: deletes, patches and  *)
(* other scales in flight, and the rows they write back late, do no harm.  *)
THEOREM TwoServersTakeAClash == OverlapSpec => []OneServerUnlessClash
<1>1. OverlapInv => OneServerUnlessClash
  BY DEF OverlapInv, UserInv, OneServerUnlessClash
<1> QED
  BY <1>1, InitOverlaps, NextOverlaps, PTL DEF OverlapSpec
=============================================================================
