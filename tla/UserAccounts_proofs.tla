------------------------ MODULE UserAccounts_proofs ------------------------
(***************************************************************************)
(* Theorems about UserAccounts and its SubscriptionHistory, for every set  *)
(* of users, customers, subscriptions and requests and every bound.        *)
(***************************************************************************)
EXTENDS SubscriptionHistory, FiniteSetTheorems, TLAPS

-----------------------------------------------------------------------------
(* The inductive invariant: what holds of the rows of the table must hold  *)
(* of every copy that a Save may still write, and every event on its way   *)
(* must be about a subscription that exists.                               *)

Backed(row)  == row.id \in cognito /\ [id |-> row.customer, user |-> row.id] \in customers
Owned(row)   == row.sub # None => [id |-> row.sub, customer |-> row.customer] \in subs
Genuine(e)   == [id |-> e.sub, customer |-> e.customer] \in subs

Copies == users \cup consumer.row \cup UNION {frame[r].row : r \in Requests}
Events == outbox \cup {queue[i] : i \in 1 .. Len(queue)} \cup consumer.event

(* How far a sign-up has come: the calls before its next step have been    *)
(* made.                                                                   *)
SignUpInv(label, f) ==
    /\ label \in SignUpLabels => f.user \in Users
    /\ label \in {"newCustomer", "insertUser"} => f.user \in cognito
    /\ label = "insertUser" => [id |-> f.customer, user |-> f.user] \in customers

Sound ==
    /\ \A row \in Copies : Backed(row) /\ Owned(row)
    /\ \A e \in Events : Genuine(e)
    /\ \A r \in Requests : SignUpInv(pc[r], frame[r])

IInv == TypeOK /\ Sound

-----------------------------------------------------------------------------
LEMMA IdleFrame == EmptyFrame \in Frame
  BY DEF EmptyFrame, Frame

LEMMA FrameTypes ==
    ASSUME TypeOK, NEW r \in Requests
    PROVE  /\ \A u \in Users : [frame[r] EXCEPT !.user = u] \in Frame
           /\ \A c \in Customers : [frame[r] EXCEPT !.customer = c] \in Frame
           /\ \A row \in users : [frame[r] EXCEPT !.row = {row}] \in Frame
<1>1. frame[r] \in Frame /\ users \subseteq User
  BY DEF TypeOK
<1>2. \A row \in users : {row} \in SUBSET User
  BY <1>1
<1> QED
  BY <1>1, <1>2 DEF Frame

LEMMA FaultType == ASSUME TypeOK, Fault \/ NoFault PROVE faults' \in 0 .. MaxFaults
  BY AccountAssumption DEF TypeOK, Fault, NoFault

LEMMA InitIInv == Init => IInv
<1> SUFFICES ASSUME Init PROVE IInv
  OBVIOUS
<1>1. TypeOK
  BY IdleFrame, AccountAssumption DEF Init, TypeOK, IdleConsumer
<1>2. Copies = {}
  BY DEF Init, Copies, IdleConsumer, EmptyFrame
<1>3. Events = {}
  BY DEF Init, Events, IdleConsumer
<1>4. \A r \in Requests : SignUpInv(pc[r], frame[r])
  BY DEF Init, SignUpInv, SignUpLabels
<1> QED
  BY <1>1, <1>2, <1>3, <1>4 DEF IInv, Sound

(* Accounts, customers and subscriptions are never removed: what was sound *)
(* stays so, and only what a step adds has to be looked at.                *)
LEMMA SoundStep ==
    ASSUME Sound,
           cognito \subseteq cognito', customers \subseteq customers', subs \subseteq subs',
           \A row \in Copies' : row \in Copies \/ (Backed(row)' /\ Owned(row)'),
           \A e \in Events' : e \in Events \/ Genuine(e)',
           \A r \in Requests : SignUpInv(pc[r], frame[r]) => SignUpInv(pc[r], frame[r])'
    PROVE  Sound'
<1>1. \A row : Backed(row) => Backed(row)'
  BY DEF Backed
<1>2. \A row : Owned(row) => Owned(row)'
  BY DEF Owned
<1>3. \A e : Genuine(e) => Genuine(e)'
  BY DEF Genuine
<1> QED
  BY <1>1, <1>2, <1>3 DEF Sound

(* A request moves, and its rows are among the copies there were.          *)
LEMMA RequestStep ==
    ASSUME TypeOK, Sound, NEW r \in Requests, NEW label, NEW f \in Frame,
           cognito \subseteq cognito', customers \subseteq customers', subs \subseteq subs',
           Goto(r, label), frame' = [frame EXCEPT ![r] = f],
           f.row \subseteq Copies,
           \A row \in users' : row \in Copies \/ (Backed(row)' /\ Owned(row)'),
           UNCHANGED <<outbox, queue, consumer>>,
           SignUpInv(label, f)'
    PROVE  Sound'
<1>1. \A q \in Requests \ {r} : pc'[q] = pc[q] /\ frame'[q] = frame[q]
  BY DEF Goto, TypeOK
<1>2. pc'[r] = label /\ frame'[r] = f
  BY DEF Goto, TypeOK
<1>3. \A row \in Copies' : row \in Copies \/ (Backed(row)' /\ Owned(row)')
  BY <1>1, <1>2 DEF Copies
<1>4. Events' = Events
  BY DEF Events
<1>5. \A q \in Requests : SignUpInv(pc[q], frame[q]) => SignUpInv(pc[q], frame[q])'
  BY <1>1, <1>2 DEF SignUpInv
<1> QED
  BY <1>3, <1>4, <1>5, SoundStep

LEMMA AnswerStep ==
    ASSUME TypeOK, Sound, NEW r \in Requests, Answer(r),
           cognito \subseteq cognito', customers \subseteq customers', subs \subseteq subs',
           \A row \in users' : row \in Copies \/ (Backed(row)' /\ Owned(row)'),
           UNCHANGED <<outbox, queue, consumer>>
    PROVE  Sound'
<1>1. EmptyFrame.row \subseteq Copies
  BY DEF EmptyFrame
<1>2. SignUpInv("idle", EmptyFrame)'
  BY DEF SignUpInv, SignUpLabels
<1> QED
  BY <1>1, <1>2, IdleFrame, RequestStep DEF Answer

(* Users are rows of the table before they are copied.                     *)
LEMMA TableCopied == users \subseteq Copies
  BY DEF Copies

-----------------------------------------------------------------------------
(* Sign-ups                                                                *)

LEMMA SignUpSound ==
    ASSUME TypeOK, Sound, NEW r \in Requests, NEW u \in Users, SignUp(r, u)
    PROVE  Sound'
<1>1. PICK f \in Frame : f = [frame[r] EXCEPT !.user = u]
  BY FrameTypes
<1>2. f.row \subseteq Copies /\ f.user = u
  BY <1>1 DEF TypeOK, Frame, Copies
<1>3. frame' = [frame EXCEPT ![r] = f] /\ Goto(r, "findUser")
  BY <1>1 DEF SignUp, TypeOK
<1>4. SignUpInv("findUser", f)'
  BY <1>2 DEF SignUpInv
<1> QED
  BY <1>2, <1>3, <1>4, TableCopied, RequestStep DEF SignUp, stripeVars

(* A step within the sign-up that leaves the table alone                   *)
LEMMA GoOnSound ==
    ASSUME TypeOK, Sound, NEW r \in Requests, NEW label, Goto(r, label),
           cognito \subseteq cognito', customers \subseteq customers', subs \subseteq subs',
           UNCHANGED <<users, frame, outbox, queue, consumer>>,
           SignUpInv(label, frame[r])'
    PROVE  Sound'
<1>1. PICK f \in Frame : f = frame[r]
  BY DEF TypeOK
<1>2. f.row \subseteq Copies
  BY <1>1 DEF Copies
<1>3. frame' = [frame EXCEPT ![r] = f]
  BY <1>1 DEF TypeOK
<1>4. SignUpInv(label, f)'
  BY <1>1 DEF SignUpInv
<1> QED
  BY <1>2, <1>3, <1>4, TableCopied, RequestStep

LEMMA FindUserSound ==
    ASSUME TypeOK, Sound, NEW r \in Requests, FindUser(r)
    PROVE  Sound'
<1>1. frame[r].user \in Users
  BY DEF Sound, SignUpInv, FindUser, SignUpLabels
<1>2. CASE Goto(r, "refresh")
  <2>1. SignUpInv("refresh", frame[r])'
    BY <1>1 DEF FindUser, SignUpInv
  <2> QED
    BY <1>2, <2>1, GoOnSound DEF FindUser, stripeVars
<1>3. CASE Goto(r, "createCognito")
  <2>1. SignUpInv("createCognito", frame[r])'
    BY <1>1 DEF FindUser, SignUpInv
  <2> QED
    BY <1>3, <2>1, GoOnSound DEF FindUser, stripeVars
<1> QED
  BY <1>2, <1>3 DEF FindUser

LEMMA RefreshSessionSound ==
    ASSUME TypeOK, Sound, NEW r \in Requests, RefreshSession(r)
    PROVE  Sound'
  BY AnswerStep, TableCopied DEF RefreshSession, stripeVars

LEMMA CreateCognitoUserSound ==
    ASSUME TypeOK, Sound, NEW r \in Requests, CreateCognitoUser(r)
    PROVE  Sound'
<1>1. frame[r].user \in Users
  BY DEF Sound, SignUpInv, CreateCognitoUser, SignUpLabels
<1>2. CASE Answer(r) /\ UNCHANGED cognito
  BY <1>2, AnswerStep, TableCopied DEF CreateCognitoUser, stripeVars
<1>3. CASE cognito' = cognito \cup {frame[r].user} /\ Goto(r, "newCustomer") /\ UNCHANGED frame
  <2>1. SignUpInv("newCustomer", frame[r])'
    BY <1>1, <1>3 DEF SignUpInv
  <2> QED
    BY <1>3, <2>1, GoOnSound DEF CreateCognitoUser, stripeVars
<1> QED
  BY <1>2, <1>3 DEF CreateCognitoUser

LEMMA NewCustomerSound ==
    ASSUME TypeOK, Sound, NEW r \in Requests, NewCustomer(r)
    PROVE  Sound'
<1>1. frame[r].user \in cognito /\ frame[r].user \in Users
  BY DEF Sound, SignUpInv, NewCustomer, SignUpLabels
<1>2. CASE Answer(r) /\ UNCHANGED customers
  BY <1>2, AnswerStep, TableCopied DEF NewCustomer
<1>3. CASE /\ FreshIds # {}
           /\ customers' = customers \cup {[id |-> FreshId, user |-> frame[r].user]}
           /\ frame' = [frame EXCEPT ![r].customer = FreshId]
           /\ Goto(r, "insertUser")
  <2>1. FreshId \in Customers
    BY <1>3 DEF FreshId, FreshIds
  <2>2. PICK f \in Frame : f = [frame[r] EXCEPT !.customer = FreshId]
    BY <2>1, FrameTypes
  <2>3. f.row \subseteq Copies /\ f.user = frame[r].user /\ f.customer = FreshId
    BY <2>2 DEF TypeOK, Frame, Copies
  <2>4. frame' = [frame EXCEPT ![r] = f]
    BY <1>3, <2>2 DEF TypeOK
  <2>5. SignUpInv("insertUser", f)'
    BY <1>1, <1>3, <2>3 DEF SignUpInv, NewCustomer
  <2> QED
    BY <1>3, <2>3, <2>4, <2>5, TableCopied, RequestStep DEF NewCustomer
<1> QED
  BY <1>2, <1>3 DEF NewCustomer

LEMMA InsertUserSound ==
    ASSUME TypeOK, Sound, NEW r \in Requests, InsertUser(r)
    PROVE  Sound'
<1> DEFINE new == [id |-> frame[r].user, customer |-> frame[r].customer, sub |-> None]
<1>1. /\ frame[r].user \in cognito
      /\ [id |-> frame[r].customer, user |-> frame[r].user] \in customers
  BY DEF Sound, SignUpInv, InsertUser
<1>2. PICK row : row = new
  OBVIOUS
<1>3. Backed(row)' /\ Owned(row)'
  BY <1>1, <1>2 DEF InsertUser, stripeVars, Backed, Owned
<1>4. \A old \in users' : old \in users \/ old = row
  BY <1>2 DEF InsertUser
<1> QED
  BY <1>3, <1>4, AnswerStep, TableCopied DEF InsertUser, stripeVars

-----------------------------------------------------------------------------
(* Server create                                                           *)

LEMMA CreateServerSound ==
    ASSUME TypeOK, Sound, NEW r \in Requests, NEW row \in users, CreateServer(r, row)
    PROVE  Sound'
<1>1. PICK f \in Frame : f = [frame[r] EXCEPT !.row = {row}]
  BY FrameTypes
<1>2. f.row \subseteq Copies
  BY <1>1 DEF TypeOK, Frame, Copies
<1>3. frame' = [frame EXCEPT ![r] = f] /\ Goto(r, "saveUser")
  BY <1>1 DEF CreateServer, TypeOK
<1>4. SignUpInv("saveUser", f)'
  BY DEF SignUpInv, SignUpLabels
<1> QED
  BY <1>2, <1>3, <1>4, TableCopied, RequestStep DEF CreateServer, stripeVars

LEMMA SaveUserSound ==
    ASSUME TypeOK, Sound, NEW r \in Requests, SaveUser(r)
    PROVE  Sound'
<1>1. frame[r].row \subseteq Copies
  BY DEF Copies
<1>2. \A row \in users' : row \in Copies
  BY <1>1, TableCopied DEF SaveUser, Saved
<1> QED
  BY <1>2, AnswerStep DEF SaveUser, stripeVars

-----------------------------------------------------------------------------
(* Stripe, the webhook and the consumer: the requests stay where they are. *)

LEMMA ElsewhereStep ==
    ASSUME Sound, UNCHANGED <<cognito, customers, requestVars>>, subs \subseteq subs',
           users' \subseteq Copies,
           \A row \in consumer'.row : row \in Copies \/ (Backed(row)' /\ Owned(row)'),
           \A e \in Events' : e \in Events \/ Genuine(e)'
    PROVE  Sound'
<1>1. \A row \in Copies' : row \in Copies \/ (Backed(row)' /\ Owned(row)')
  BY DEF Copies, requestVars
<1>2. \A r \in Requests : SignUpInv(pc[r], frame[r]) => SignUpInv(pc[r], frame[r])'
  BY DEF SignUpInv, requestVars
<1> QED
  BY <1>1, <1>2, SoundStep

LEMMA ConsumerCopied == consumer.row \subseteq Copies /\ consumer.event \subseteq Events
  BY DEF Copies, Events

LEMMA CheckoutSound ==
    ASSUME Sound, NEW row \in users, NEW s \in Subscriptions, Checkout(row, s)
    PROVE  Sound'
<1> DEFINE e == [type |-> "created", customer |-> row.customer, sub |-> s]
<1>1. Genuine(e)'
  BY DEF Genuine, Checkout
<1>2. \A f \in Events' : f \in Events \/ f = e
  BY DEF Events, Checkout
<1> HIDE DEF e
<1>3. \A f \in Events' : f \in Events \/ Genuine(f)'
  BY <1>1, <1>2 DEF Genuine, e, Checkout
<1> QED
  BY <1>3, TableCopied, ConsumerCopied, ElsewhereStep DEF Checkout

LEMMA SubscriptionChangesSound ==
    ASSUME TypeOK, Sound, NEW s \in subs, NEW type \in {"updated", "paused"},
           SubscriptionChanges(s, type)
    PROVE  Sound'
<1>1. \A e \in Events' : e \in Events \/ e = [type |-> type, customer |-> s.customer, sub |-> s.id]
  BY DEF Events, SubscriptionChanges
<1>2. s = [id |-> s.id, customer |-> s.customer]
  BY DEF TypeOK, Subscription
<1>3. \A e \in Events' : e \in Events \/ Genuine(e)'
  BY <1>1, <1>2 DEF Genuine, SubscriptionChanges
<1> QED
  BY <1>3, TableCopied, ConsumerCopied, ElsewhereStep DEF SubscriptionChanges

LEMMA WebhookSound ==
    ASSUME TypeOK, Sound, NEW e \in outbox, Webhook(e)
    PROVE  Sound'
<1>1. outbox' \subseteq outbox
  BY DEF Webhook
<1>2. \A i \in 1 .. Len(queue') : queue'[i] = e \/ (i \in 1 .. Len(queue) /\ queue'[i] = queue[i])
  BY DEF Webhook, TypeOK
<1>3. Events' \subseteq Events
  BY <1>1, <1>2 DEF Events, Webhook
<1> QED
  BY <1>3, TableCopied, ConsumerCopied, ElsewhereStep DEF Webhook

LEMMA WebhookFailsSound ==
    ASSUME Sound, NEW e \in outbox, WebhookFails(e)
    PROVE  Sound'
<1>1. Events' \subseteq Events
  BY DEF Events, WebhookFails
<1> QED
  BY <1>1, TableCopied, ConsumerCopied, ElsewhereStep DEF WebhookFails

LEMMA ReceiveEventSound ==
    ASSUME TypeOK, Sound, ReceiveEvent
    PROVE  Sound'
<1>1. Head(queue) = queue[1] /\ 1 \in 1 .. Len(queue)
  BY DEF ReceiveEvent, TypeOK
<1>2. \A i \in 1 .. Len(queue') : i + 1 \in 1 .. Len(queue) /\ queue'[i] = queue[i + 1]
  BY DEF ReceiveEvent, TypeOK
<1>3. Events' \subseteq Events
  BY <1>1, <1>2 DEF Events, ReceiveEvent, stripeVars
<1> QED
  BY <1>3, TableCopied, ElsewhereStep DEF ReceiveEvent, stripeVars

LEMMA FindCustomerSound ==
    ASSUME TypeOK, Sound, FindCustomer
    PROVE  Sound'
<1>1. PICK e \in consumer.event : consumer'.event \subseteq {e} /\
        \A row \in consumer'.row : \E old \in Owners(e) : row = ChangedRow(e, old)
  BY DEF FindCustomer, IdleConsumer
<1>2. Genuine(e)
  BY ConsumerCopied DEF Sound
<1>3. Events' \subseteq Events
  BY <1>1 DEF Events, FindCustomer, stripeVars
<1>4. ASSUME NEW old \in Owners(e)
      PROVE  Backed(ChangedRow(e, old))' /\ Owned(ChangedRow(e, old))'
  <2>1. Backed(old) /\ Owned(old) /\ old \in User /\ old.customer = e.customer
    BY TableCopied DEF Owners, Sound, TypeOK
  <2>2. PICK row : row = ChangedRow(e, old)
    OBVIOUS
  <2>3. row.id = old.id /\ row.customer = old.customer /\ row.sub \in {old.sub, e.sub}
    BY <2>1, <2>2 DEF ChangedRow, User
  <2>4. Backed(row)
    BY <2>1, <2>3 DEF Backed
  <2>5. Owned(row)
    BY <1>2, <2>1, <2>3 DEF Owned, Genuine
  <2> QED
    BY <2>2, <2>4, <2>5 DEF Backed, Owned, FindCustomer, stripeVars
<1>5. \A row \in consumer'.row : Backed(row)' /\ Owned(row)'
  BY <1>1, <1>4
<1> QED
  BY <1>3, <1>5, TableCopied, ElsewhereStep DEF FindCustomer, stripeVars

LEMMA SaveSubscriptionSound ==
    ASSUME Sound, SaveSubscription
    PROVE  Sound'
<1>1. users' \subseteq Copies
  BY TableCopied, ConsumerCopied DEF SaveSubscription, Saved
<1>2. Events' \subseteq Events /\ consumer'.row = {}
  BY DEF Events, SaveSubscription, IdleConsumer, stripeVars
<1> QED
  BY <1>1, <1>2, ElsewhereStep DEF SaveSubscription, stripeVars

LEMMA RestartSound ==
    ASSUME Sound, Restart
    PROVE  Sound'
<1>1. Copies' \subseteq Copies
  BY DEF Copies, Restart, IdleConsumer, EmptyFrame
<1>2. Events' \subseteq Events
  BY DEF Events, Restart, IdleConsumer, stripeVars
<1>3. \A r \in Requests : SignUpInv(pc[r], frame[r])'
  BY DEF Restart, SignUpInv, SignUpLabels
<1> QED
  BY <1>1, <1>2, <1>3, SoundStep DEF Restart, stripeVars

-----------------------------------------------------------------------------
(* Types                                                                   *)

LEMMA GotoType ==
    ASSUME TypeOK, NEW r \in Requests, NEW label \in SignUpLabels \cup {"idle", "saveUser"},
           Goto(r, label)
    PROVE  pc' \in [Requests -> SignUpLabels \cup {"idle", "saveUser"}]
  BY DEF TypeOK, Goto

LEMMA AnswerType ==
    ASSUME TypeOK, NEW r \in Requests, Answer(r)
    PROVE  /\ pc' \in [Requests -> SignUpLabels \cup {"idle", "saveUser"}]
           /\ frame' \in [Requests -> Frame]
  BY IdleFrame, GotoType DEF Answer, TypeOK

(* A request moves; the table, the accounts and the customers may grow.    *)
LEMMA RequestType ==
    ASSUME TypeOK,
           users' \subseteq User, cognito' \subseteq Users, customers' \subseteq Customer,
           pc' \in [Requests -> SignUpLabels \cup {"idle", "saveUser"}],
           frame' \in [Requests -> Frame],
           UNCHANGED <<subs, outbox, queue, consumer>>,
           Fault \/ NoFault
    PROVE  TypeOK'
  BY FaultType DEF TypeOK

LEMMA SavedType == ASSUME TypeOK, NEW row \in User PROVE Saved(row) \subseteq User
  BY DEF TypeOK, Saved

LEMMA SignUpTypes ==
    ASSUME IInv, NEW r \in Requests,
           \/ \E u \in Users : SignUp(r, u)
           \/ \E row \in users : CreateServer(r, row)
           \/ Work(r)
    PROVE  TypeOK'
<1> USE DEF IInv
<1>1. CASE \E u \in Users : SignUp(r, u)
  <2>1. frame' \in [Requests -> Frame]
    BY <1>1, FrameTypes DEF SignUp, TypeOK
  <2> QED
    BY <1>1, <2>1, GotoType, RequestType DEF SignUp, SignUpLabels, stripeVars, TypeOK, NoFault
<1>2. CASE \E row \in users : CreateServer(r, row)
  <2>1. frame' \in [Requests -> Frame]
    BY <1>2, FrameTypes DEF CreateServer, TypeOK
  <2> QED
    BY <1>2, <2>1, GotoType, RequestType DEF CreateServer, stripeVars, TypeOK, NoFault
<1>3. CASE FindUser(r)
  BY <1>3, GotoType, RequestType DEF FindUser, SignUpLabels, stripeVars, TypeOK
<1>4. CASE RefreshSession(r)
  BY <1>4, AnswerType, RequestType DEF RefreshSession, stripeVars, TypeOK
<1>5. CASE CreateCognitoUser(r)
  <2>1. frame[r].user \in Users
    BY <1>5 DEF Sound, SignUpInv, CreateCognitoUser, SignUpLabels
  <2>2. cognito' \subseteq Users /\ (Fault \/ NoFault)
    BY <1>5, <2>1 DEF CreateCognitoUser, TypeOK
  <2>3. CASE Answer(r)
    BY <1>5, <2>2, <2>3, AnswerType, RequestType DEF CreateCognitoUser, stripeVars, TypeOK
  <2>4. CASE Goto(r, "newCustomer") /\ UNCHANGED frame
    BY <1>5, <2>2, <2>4, GotoType, RequestType
       DEF CreateCognitoUser, SignUpLabels, stripeVars, TypeOK
  <2> QED
    BY <1>5, <2>3, <2>4 DEF CreateCognitoUser
<1>6. CASE NewCustomer(r)
  <2>1. frame[r].user \in Users
    BY <1>6 DEF Sound, SignUpInv, NewCustomer, SignUpLabels
  <2>2. CASE Fault /\ Answer(r) /\ UNCHANGED customers
    BY <1>6, <2>2, AnswerType, RequestType DEF NewCustomer, TypeOK
  <2>3. CASE /\ FreshIds # {}
             /\ customers' = customers \cup {[id |-> FreshId, user |-> frame[r].user]}
             /\ frame' = [frame EXCEPT ![r].customer = FreshId]
             /\ NoFault
             /\ Goto(r, "insertUser")
    <3>1. FreshId \in Customers
      BY <2>3 DEF FreshId, FreshIds
    <3>2. customers' \subseteq Customer
      BY <2>1, <2>3, <3>1 DEF TypeOK, Customer
    <3>3. frame' \in [Requests -> Frame]
      BY <2>3, <3>1, FrameTypes DEF TypeOK
    <3> QED
      BY <1>6, <2>3, <3>2, <3>3, GotoType, RequestType DEF NewCustomer, SignUpLabels, TypeOK
  <2> QED
    BY <1>6, <2>2, <2>3 DEF NewCustomer
<1>7. CASE InsertUser(r)
  <2>1. frame[r].user \in Users /\ frame[r].customer \in Customers
    BY <1>7 DEF Sound, SignUpInv, InsertUser, SignUpLabels, TypeOK, Customer
  <2>2. users' \subseteq User /\ (Fault \/ NoFault)
    BY <1>7, <2>1 DEF InsertUser, TypeOK, User
  <2> QED
    BY <1>7, <2>2, AnswerType, RequestType DEF InsertUser, stripeVars, TypeOK
<1>8. CASE SaveUser(r)
  <2>1. frame[r].row \subseteq User
    BY DEF TypeOK, Frame
  <2>2. users' \subseteq User /\ (Fault \/ NoFault)
    BY <1>8, <2>1, SavedType DEF SaveUser, TypeOK
  <2> QED
    BY <1>8, <2>2, AnswerType, RequestType DEF SaveUser, stripeVars, TypeOK
<1> QED
  BY <1>1, <1>2, <1>3, <1>4, <1>5, <1>6, <1>7, <1>8 DEF Work

LEMMA StripeTypes ==
    ASSUME TypeOK,
           \/ \E row \in users, s \in Subscriptions : Checkout(row, s)
           \/ \E s \in subs, type \in {"updated", "paused"} : SubscriptionChanges(s, type)
           \/ \E e \in outbox : Deliver(e)
           \/ Restart
    PROVE  TypeOK'
<1>1. CASE \E row \in users, s \in Subscriptions : Checkout(row, s)
  BY <1>1 DEF Checkout, TypeOK, User, Subscription, Event, requestVars
<1>2. CASE \E s \in subs, type \in {"updated", "paused"} : SubscriptionChanges(s, type)
  BY <1>2 DEF SubscriptionChanges, TypeOK, Subscription, Event, requestVars
<1>3. CASE \E e \in outbox : Webhook(e)
  BY <1>3, FaultType DEF Webhook, TypeOK, requestVars
<1>4. CASE \E e \in outbox : WebhookFails(e)
  BY <1>4, FaultType DEF WebhookFails, TypeOK, requestVars
<1>5. CASE Restart
  BY <1>5, FaultType, IdleFrame DEF Restart, TypeOK, stripeVars, IdleConsumer
<1> QED
  BY <1>1, <1>2, <1>3, <1>4, <1>5 DEF Deliver

LEMMA ConsumerTypes ==
    ASSUME TypeOK, Consumer
    PROVE  TypeOK'
<1>1. CASE ReceiveEvent
  <2>1. Head(queue) \in Event /\ queue' \in Seq(Event)
    BY <1>1 DEF ReceiveEvent, TypeOK
  <2> QED
    BY <1>1, <2>1 DEF ReceiveEvent, TypeOK, stripeVars, requestVars
<1>2. CASE FindCustomer
  <2>1. consumer.event \subseteq Event
    BY DEF TypeOK
  <2>2. ASSUME NEW e \in consumer.event, NEW row \in Owners(e)
        PROVE  ChangedRow(e, row) \in User
    BY <2>1 DEF ChangedRow, Owners, TypeOK, User, Event
  <2>3. consumer' \in [at : {"ranging", "find", "save"}, event : SUBSET Event, row : SUBSET User]
    BY <1>2, <2>1, <2>2 DEF FindCustomer, IdleConsumer
  <2>4. Fault \/ NoFault
    BY <1>2 DEF FindCustomer
  <2> QED
    BY <1>2, <2>3, <2>4, FaultType DEF FindCustomer, TypeOK, stripeVars, requestVars
<1>3. CASE SaveSubscription
  <2>1. users' \subseteq User /\ (Fault \/ NoFault)
    BY <1>3, SavedType DEF SaveSubscription, TypeOK
  <2> QED
    BY <1>3, <2>1, FaultType DEF SaveSubscription, TypeOK, IdleConsumer, stripeVars, requestVars
<1> QED
  BY <1>1, <1>2, <1>3 DEF Consumer

-----------------------------------------------------------------------------
LEMMA NextIInv == IInv /\ [Next]_vars => IInv'
<1> SUFFICES ASSUME IInv, [Next]_vars PROVE IInv'
  OBVIOUS
<1> USE DEF IInv
<1>1. ASSUME NEW r \in Requests,
             \/ \E u \in Users : SignUp(r, u)
             \/ \E row \in users : CreateServer(r, row)
             \/ Work(r)
      PROVE  IInv'
  <2>1. TypeOK'
    BY <1>1, SignUpTypes
  <2>2. Sound'
    BY <1>1, SignUpSound, CreateServerSound, FindUserSound, RefreshSessionSound,
       CreateCognitoUserSound, NewCustomerSound, InsertUserSound, SaveUserSound DEF Work
  <2> QED
    BY <2>1, <2>2
<1>2. ASSUME NEW row \in users, NEW s \in Subscriptions, Checkout(row, s) PROVE IInv'
  BY <1>2, CheckoutSound, StripeTypes
<1>3. ASSUME NEW s \in subs, NEW type \in {"updated", "paused"}, SubscriptionChanges(s, type)
      PROVE  IInv'
  BY <1>3, SubscriptionChangesSound, StripeTypes
<1>4. ASSUME NEW e \in outbox, Deliver(e) PROVE IInv'
  BY <1>4, WebhookSound, WebhookFailsSound, StripeTypes DEF Deliver
<1>5. CASE Consumer
  BY <1>5, ConsumerTypes, ReceiveEventSound, FindCustomerSound, SaveSubscriptionSound DEF Consumer
<1>6. CASE Restart
  BY <1>6, RestartSound, StripeTypes
<1>7. CASE UNCHANGED vars
  <2>1. TypeOK'
    BY <1>7 DEF vars, TypeOK, stripeVars, requestVars
  <2>2. Sound'
    BY <1>7, SoundStep
       DEF vars, Copies, Events, SignUpInv, stripeVars, requestVars
  <2> QED
    BY <2>1, <2>2
<1> HIDE DEF IInv
<1> QED
  BY <1>1, <1>2, <1>3, <1>4, <1>5, <1>6, <1>7 DEF Next

(* The inductive invariant holds of every behaviour: what is true of the   *)
(* rows is true of every copy a Save may still write back, and every event *)
(* that waits is about a subscription that was bought.                     *)
THEOREM Invariance == Spec => []IInv
  BY InitIInv, NextIInv, PTL DEF Spec

(* Every variable keeps its type, whatever fails or is restarted.          *)
THEOREM TypeCorrect == Spec => []TypeOK
<1>1. IInv => TypeOK
  BY DEF IInv
<1> QED
  BY <1>1, Invariance, PTL

(* A row in the user table has its Cognito account and its Stripe customer *)
(* behind it, for any number of overlapping sign-ups, stale saves, faults  *)
(* and restarts: create-user inserts the row last.                         *)
THEOREM RowsAreBacked == Spec => []RowIsBacked
<1>1. IInv => RowIsBacked
  BY TableCopied DEF IInv, Sound, Backed, RowIsBacked
<1> QED
  BY <1>1, Invariance, PTL

(* The subscription of a row was bought by the customer of that row: no    *)
(* stale save and no late or repeated event mixes up two customers.        *)
THEOREM SubscriptionsAreOwn == Spec => []SubscriptionIsOwn
<1>1. IInv => SubscriptionIsOwn
  BY TableCopied DEF IInv, Sound, Owned, SubscriptionIsOwn
<1> QED
  BY <1>1, Invariance, PTL

-----------------------------------------------------------------------------
(* Stripe customers that nobody will use.  A restart loses the customer of *)
(* a sign-up, and a lookup that fails makes a customer in vain: the first  *)
(* costs a fault at once, the second has cost one by the time the insert   *)
(* is refused without a fault.                                             *)

OrphansOf(u) == {c \in Orphans : c.user = u}

SameName(row, old) == row.id = old.id /\ row.customer = old.customer

(* A sign-up of a user who has a row already: its lookup has failed, and   *)
(* its customer will not be named by the row.                              *)
Due(u) ==
    /\ RowsOf(u) # {}
    /\ \E r \in Requests : /\ frame[r].user = u
                           /\ pc[r] \in {"createCognito", "newCustomer", "insertUser"}

(* Each failure pays for one customer.                                     *)
Bounded(u) ==
    /\ IsFiniteSet(OrphansOf(u))
    /\ Cardinality(OrphansOf(u)) + (IF Due(u) THEN 1 ELSE 0) <= MaxFaults - faults

(* A user has one sign-up at a time, and failures to pay for the orphans.  *)
TurnsInv ==
    /\ \A q, r \in Requests : frame[q].user = frame[r].user /\ frame[q].user # None => q = r
    /\ \A u \in Users : Bounded(u)

(* However sign-ups overlap: a frame names a customer between its making   *)
(* and the insert, customer ids are unique, and whatever copy is saved, the*)
(* table has a row of the same user and customer already.                  *)
CustomerInv ==
    /\ \A r \in Requests : pc[r] # "insertUser" => frame[r].customer = None
    /\ \A c, d \in customers : c.id = d.id => c = d
    /\ \A row \in Copies : \E old \in users : SameName(row, old)

OrphanInv == CustomerInv /\ (OneSignUpPerUser => TurnsInv)

LEMMA OneMore ==
    ASSUME NEW S, IsFiniteSet(S), NEW x, NEW T, T \subseteq S \cup {x}
    PROVE  /\ IsFiniteSet(T)
           /\ Cardinality(T) \in Nat /\ Cardinality(S) \in Nat
           /\ Cardinality(T) <= Cardinality(S) + 1
<1>1. IsFiniteSet(S \cup {x}) /\ Cardinality(S \cup {x}) \in {Cardinality(S), Cardinality(S) + 1}
  BY FS_AddElement
<1>2. IsFiniteSet(T) /\ Cardinality(T) <= Cardinality(S \cup {x})
  BY <1>1, FS_Subset
<1>3. Cardinality(T) \in Nat /\ Cardinality(S) \in Nat
  BY <1>2, FS_CardinalityType
<1> QED
  BY <1>1, <1>2, <1>3

(* A step that leaves no customer behind; it may make one due if it fails. *)
LEMMA Keeps ==
    ASSUME TypeOK, Fault \/ NoFault, NEW u, Bounded(u),
           OrphansOf(u)' \subseteq OrphansOf(u), Due(u)' => Due(u) \/ Fault
    PROVE  Bounded(u)'
<1> DEFINE S == OrphansOf(u)
           T == OrphansOf(u)'
<1>1. IsFiniteSet(S) /\ Cardinality(S) + (IF Due(u) THEN 1 ELSE 0) <= MaxFaults - faults
  BY DEF Bounded
<1>2. T \subseteq S
  OBVIOUS
<1> HIDE DEF S, T
<1>3. /\ IsFiniteSet(T) /\ Cardinality(T) <= Cardinality(S)
      /\ Cardinality(T) \in Nat /\ Cardinality(S) \in Nat
  BY <1>1, <1>2, FS_Subset, FS_CardinalityType
<1>4. MaxFaults \in Nat /\ faults \in Nat /\ faults' \in Nat
  BY FaultType, AccountAssumption DEF TypeOK
<1>5. faults' <= faults /\ (Fault => faults' = faults - 1)
  BY <1>4 DEF Fault, NoFault
<1>6. Cardinality(T) + (IF Due(u)' THEN 1 ELSE 0) <= MaxFaults - faults'
  <2>1. CASE Due(u)' /\ ~Due(u)
    BY <1>1, <1>3, <1>4, <1>5, <2>1
  <2>2. CASE ~Due(u)' \/ Due(u)
    BY <1>1, <1>3, <1>4, <1>5, <2>2
  <2> QED
    BY <2>1, <2>2
<1> QED
  BY <1>3, <1>6 DEF Bounded, T

(* A step that leaves one behind: it fails, or the customer was due.       *)
LEMMA LeavesOne ==
    ASSUME TypeOK, NEW u, Bounded(u), NEW x, OrphansOf(u)' \subseteq OrphansOf(u) \cup {x},
           ~Due(u)', Fault \/ (NoFault /\ Due(u))
    PROVE  Bounded(u)'
<1> DEFINE S == OrphansOf(u)
           T == OrphansOf(u)'
<1>1. IsFiniteSet(S) /\ Cardinality(S) + (IF Due(u) THEN 1 ELSE 0) <= MaxFaults - faults
  BY DEF Bounded
<1>2. T \subseteq S \cup {x}
  OBVIOUS
<1> HIDE DEF S, T
<1>3. /\ IsFiniteSet(T) /\ Cardinality(T) <= Cardinality(S) + 1
      /\ Cardinality(T) \in Nat /\ Cardinality(S) \in Nat
  BY <1>1, <1>2, OneMore
<1>4. MaxFaults \in Nat /\ faults \in Nat /\ faults' \in Nat
  BY FaultType, AccountAssumption DEF TypeOK
<1>5. Cardinality(T) <= MaxFaults - faults'
  <2>1. CASE Fault
    BY <1>1, <1>3, <1>4, <2>1 DEF Fault
  <2>2. CASE NoFault /\ Due(u)
    BY <1>1, <1>3, <1>4, <2>2 DEF NoFault
  <2> QED
    BY <2>1, <2>2
<1>6. Cardinality(T) + (IF Due(u)' THEN 1 ELSE 0) = Cardinality(T)
  BY <1>3
<1> QED
  BY <1>3, <1>5, <1>6 DEF Bounded, T

-----------------------------------------------------------------------------
LEMMA InitOrphans == Init => OrphanInv
<1> SUFFICES ASSUME Init PROVE OrphanInv
  OBVIOUS
<1>1. Copies = {}
  BY DEF Init, Copies, IdleConsumer, EmptyFrame
<1>2. CustomerInv
  BY <1>1 DEF Init, CustomerInv, EmptyFrame
<1>3. ASSUME NEW u \in Users PROVE Bounded(u)
  <2>1. OrphansOf(u) = {} /\ ~Due(u)
    BY DEF Init, OrphansOf, Orphans, Due, RowsOf
  <2>2. IsFiniteSet({}) /\ Cardinality({}) = 0
    BY FS_EmptySet
  <2>3. 0 <= MaxFaults - faults
    BY AccountAssumption DEF Init
  <2> QED
    BY <2>1, <2>2, <2>3 DEF Bounded
<1>4. TurnsInv
  BY <1>3 DEF Init, TurnsInv, EmptyFrame
<1> QED
  BY <1>2, <1>4 DEF OrphanInv

(* Copies of rows are copies: the table goes on naming the same customers. *)
NamesKept ==
    /\ \A old \in users : \E new \in users' : SameName(new, old)
    /\ \A row \in Copies' : \E old \in Copies : SameName(row, old)

LEMMA TableNames ==
    ASSUME CustomerInv, NamesKept
    PROVE  /\ \A row \in Copies' : \E new \in users' : SameName(row, new)
           /\ \A row \in users' : \E old \in users : SameName(row, old)
           /\ \A u : RowsOf(u)' # {} <=> RowsOf(u) # {}
           /\ \A id : (\E row \in users' : row.customer = id)
                        <=> (\E row \in users : row.customer = id)
<1>1. \A row \in Copies' : \E old \in users : SameName(row, old)
  BY DEF CustomerInv, NamesKept, SameName
<1>2. \A row \in Copies' : \E new \in users' : SameName(row, new)
  BY <1>1 DEF NamesKept, SameName
<1>3. users' \subseteq Copies'
  BY DEF Copies
<1>4. \A row \in users' : \E old \in users : SameName(row, old)
  BY <1>1, <1>3
<1>5. \A old \in users : \E new \in users' : SameName(new, old)
  BY DEF NamesKept
<1> QED
  BY <1>2, <1>4, <1>5 DEF SameName, RowsOf

LEMMA SavedNames ==
    ASSUME Sound, CustomerInv, NEW row \in Copies, users' = Saved(row)
    PROVE  /\ \A old \in users : \E new \in users' : SameName(new, old)
           /\ users' \subseteq Copies
<1>1. ASSUME NEW old \in users PROVE \E new \in users' : SameName(new, old)
  <2>1. CASE old.customer # row.customer
    BY <2>1 DEF Saved, SameName
  <2>2. CASE old.customer = row.customer
    <3>1. Backed(old) /\ Backed(row)
      BY TableCopied DEF Sound
    <3>2. [id |-> old.customer, user |-> old.id] = [id |-> row.customer, user |-> row.id]
      BY <2>2, <3>1 DEF Backed, CustomerInv
    <3>3. old.id = row.id
      BY <3>2
    <3> QED
      BY <2>2, <3>3 DEF Saved, SameName
  <2> QED
    BY <2>1, <2>2
<1> QED
  BY <1>1, TableCopied DEF Saved

(* A customer in a frame is that of the sign-up it belongs to.             *)
LEMMA FrameCustomer ==
    ASSUME TypeOK, Sound, CustomerInv, NEW r \in Requests, NEW c \in customers,
           frame[r].customer = c.id
    PROVE  pc[r] = "insertUser" /\ c.user = frame[r].user /\ frame[r].user \in Users
           /\ c = [id |-> frame[r].customer, user |-> frame[r].user]
<1>1. c.id \in Customers /\ c.id # None
  BY AccountAssumption DEF TypeOK, Customer
<1>2. pc[r] = "insertUser"
  BY <1>1 DEF CustomerInv
<1>3. [id |-> frame[r].customer, user |-> frame[r].user] \in customers /\ frame[r].user \in Users
  BY <1>2 DEF Sound, SignUpInv, SignUpLabels
<1>4. c = [id |-> frame[r].customer, user |-> frame[r].user]
  BY <1>3 DEF CustomerInv
<1> QED
  BY <1>2, <1>3, <1>4

(* Steps that leave the requests alone                                     *)
LEMMA ElsewhereOrphans ==
    ASSUME TypeOK, OrphanInv, UNCHANGED <<customers, pc, frame>>, Fault \/ NoFault, NamesKept
    PROVE  OrphanInv'
<1>1. CustomerInv'
  BY TableNames DEF OrphanInv, CustomerInv
<1>2. ASSUME NEW u PROVE OrphansOf(u)' = OrphansOf(u) /\ (Due(u)' <=> Due(u))
  BY TableNames DEF OrphanInv, OrphansOf, Orphans, Due
<1>3. OneSignUpPerUser => TurnsInv'
  <2> SUFFICES ASSUME OneSignUpPerUser PROVE TurnsInv'
    OBVIOUS
  <2>1. ASSUME NEW u \in Users PROVE Bounded(u)'
    BY <1>2, Keeps DEF OrphanInv, TurnsInv
  <2> QED
    BY <2>1 DEF OrphanInv, TurnsInv
<1> QED
  BY <1>1, <1>3 DEF OrphanInv

(* A request goes on to label with frame f, makes no customer and leaves   *)
(* none behind.                                                            *)
LEMMA RequestOrphans ==
    ASSUME TypeOK, OrphanInv, NEW r \in Requests, NEW label, NEW f,
           Goto(r, label), frame' = [frame EXCEPT ![r] = f],
           UNCHANGED customers, Fault \/ NoFault, NamesKept,
           f.customer = None, frame[r].customer = None,
           \/ f.user \in {frame[r].user, None}
           \/ /\ label = "findUser"
              /\ OneSignUpPerUser => \A q \in Requests : frame[q].user # f.user,
           label \in {"createCognito", "newCustomer", "insertUser"} =>
               \/ pc[r] \in {"createCognito", "newCustomer", "insertUser"}
               \/ RowsOf(frame[r].user) = {}
               \/ Fault
    PROVE  OrphanInv'
<1>1. pc'[r] = label /\ frame'[r] = f
  BY DEF TypeOK, Goto
<1>2. \A q \in Requests : q # r => pc'[q] = pc[q] /\ frame'[q] = frame[q]
  BY DEF TypeOK, Goto
<1>3. CustomerInv'
  <2>1. \A q \in Requests : pc'[q] # "insertUser" => frame'[q].customer = None
    BY <1>1, <1>2 DEF OrphanInv, CustomerInv
  <2> QED
    BY <2>1, TableNames DEF OrphanInv, CustomerInv
<1>4. ASSUME NEW u PROVE OrphansOf(u)' = OrphansOf(u)
  <2>1. \A q \in Requests : frame'[q].customer = frame[q].customer
    BY <1>1, <1>2
  <2> QED
    BY <2>1, TableNames DEF OrphanInv, OrphansOf, Orphans
<1>5. ASSUME NEW u \in Users, Due(u)' PROVE Due(u) \/ Fault
  <2>1. RowsOf(u) # {}
    BY <1>5, TableNames DEF Due, OrphanInv
  <2>2. PICK q \in Requests : /\ frame'[q].user = u
                              /\ pc'[q] \in {"createCognito", "newCustomer", "insertUser"}
    BY <1>5 DEF Due
  <2>3. CASE q # r
    BY <1>2, <2>1, <2>2, <2>3 DEF Due
  <2>4. CASE q = r
    <3>1. f.user = u /\ frame[r].user = u
      BY <1>1, <2>2, <2>4, AccountAssumption
    <3> QED
      BY <1>1, <2>1, <2>2, <2>4, <3>1 DEF Due
  <2> QED
    BY <2>3, <2>4
<1>6. OneSignUpPerUser => TurnsInv'
  <2> SUFFICES ASSUME OneSignUpPerUser PROVE TurnsInv'
    OBVIOUS
  <2>1. ASSUME NEW u \in Users PROVE Bounded(u)'
    BY <1>4, <1>5, Keeps DEF OrphanInv, TurnsInv
  <2>2. \A p, q \in Requests : frame'[p].user = frame'[q].user /\ frame'[p].user # None => p = q
    BY <1>1, <1>2 DEF OrphanInv, TurnsInv
  <2> QED
    BY <2>1, <2>2 DEF TurnsInv
<1> QED
  BY <1>3, <1>6 DEF OrphanInv

(* The rows of the frames and of the consumer come from the table.         *)
LEMMA RequestNames ==
    ASSUME TypeOK, Sound, CustomerInv, NEW r \in Requests, NEW f,
           frame' = [frame EXCEPT ![r] = f], f.row \subseteq Copies,
           UNCHANGED consumer,
           \/ UNCHANGED users
           \/ \E row \in Copies : users' = Saved(row)
    PROVE  NamesKept
<1>1. users' \subseteq Copies /\ \A old \in users : \E new \in users' : SameName(new, old)
  BY SavedNames, TableCopied DEF SameName
<1>2. \A q \in Requests : frame'[q].row \subseteq Copies
  BY DEF Copies, TypeOK
<1>3. Copies' \subseteq Copies
  BY <1>1, <1>2 DEF Copies
<1> QED
  BY <1>1, <1>3 DEF NamesKept, SameName

LEMMA ElsewhereNames ==
    ASSUME TypeOK, Sound, CustomerInv, UNCHANGED frame,
           \A row \in consumer'.row : \E old \in Copies : SameName(row, old),
           \/ UNCHANGED users
           \/ \E row \in Copies : users' = Saved(row)
    PROVE  NamesKept
<1>1. users' \subseteq Copies /\ \A old \in users : \E new \in users' : SameName(new, old)
  BY SavedNames, TableCopied DEF SameName
<1>2. \A row \in Copies' : row \in Copies \/ row \in consumer'.row
  BY <1>1 DEF Copies
<1> QED
  BY <1>1, <1>2 DEF NamesKept, SameName

LEMMA SignUpOrphans ==
    ASSUME TypeOK, Sound, OrphanInv, NEW r \in Requests, NEW u \in Users, SignUp(r, u)
    PROVE  OrphanInv'
<1>1. PICK f \in Frame : f = [frame[r] EXCEPT !.user = u]
  BY FrameTypes
<1>2. f.row \subseteq Copies /\ f.user = u /\ f.customer = frame[r].customer
  BY <1>1 DEF TypeOK, Frame, Copies
<1>3. frame[r].customer = None
  BY DEF SignUp, OrphanInv, CustomerInv
<1>4. frame' = [frame EXCEPT ![r] = f] /\ Goto(r, "findUser")
  BY <1>1 DEF SignUp, TypeOK
<1>5. NamesKept
  BY <1>2, <1>4, RequestNames DEF SignUp, OrphanInv
<1> QED
  BY <1>2, <1>3, <1>4, <1>5, RequestOrphans DEF SignUp, stripeVars, NoFault

LEMMA CreateServerOrphans ==
    ASSUME TypeOK, Sound, OrphanInv, NEW r \in Requests, NEW row \in users,
           CreateServer(r, row)
    PROVE  OrphanInv'
<1>1. PICK f \in Frame : f = [frame[r] EXCEPT !.row = {row}]
  BY FrameTypes
<1>2. f.row \subseteq Copies /\ f.user = frame[r].user /\ f.customer = frame[r].customer
  BY <1>1, TableCopied DEF TypeOK, Frame
<1>3. frame[r].customer = None
  BY DEF CreateServer, OrphanInv, CustomerInv
<1>4. frame' = [frame EXCEPT ![r] = f] /\ Goto(r, "saveUser")
  BY <1>1 DEF CreateServer, TypeOK
<1>5. NamesKept
  BY <1>2, <1>4, RequestNames DEF CreateServer, OrphanInv
<1> QED
  BY <1>2, <1>3, <1>4, <1>5, RequestOrphans DEF CreateServer, stripeVars, NoFault

(* A request that is answered and had made no customer                     *)
LEMMA AnswerOrphans ==
    ASSUME TypeOK, Sound, OrphanInv, NEW r \in Requests, Answer(r),
           pc[r] # "insertUser", UNCHANGED <<customers, consumer>>, Fault \/ NoFault,
           \/ UNCHANGED users
           \/ \E row \in Copies : users' = Saved(row)
    PROVE  OrphanInv'
<1>1. frame[r].customer = None
  BY DEF OrphanInv, CustomerInv
<1>2. EmptyFrame.row = {} /\ EmptyFrame.user = None /\ EmptyFrame.customer = None
  BY DEF EmptyFrame
<1>3. frame' = [frame EXCEPT ![r] = EmptyFrame] /\ Goto(r, "idle")
  BY DEF Answer
<1>4. NamesKept
  BY <1>2, <1>3, RequestNames DEF OrphanInv
<1> QED
  BY <1>1, <1>2, <1>3, <1>4, RequestOrphans

(* A step within the sign-up that makes no customer                        *)
LEMMA GoOnOrphans ==
    ASSUME TypeOK, Sound, OrphanInv, NEW r \in Requests, NEW label, Goto(r, label),
           pc[r] # "insertUser", UNCHANGED <<users, customers, consumer, frame>>,
           Fault \/ NoFault,
           label \in {"createCognito", "newCustomer", "insertUser"} =>
               \/ pc[r] \in {"createCognito", "newCustomer", "insertUser"}
               \/ RowsOf(frame[r].user) = {}
               \/ Fault
    PROVE  OrphanInv'
<1>1. PICK f : f = frame[r]
  OBVIOUS
<1>2. f.row \subseteq Copies /\ f.customer = None
  BY <1>1 DEF OrphanInv, CustomerInv, Copies
<1>3. frame' = [frame EXCEPT ![r] = f]
  BY <1>1 DEF TypeOK
<1>4. NamesKept
  BY <1>2, <1>3, RequestNames DEF OrphanInv
<1> QED
  BY <1>1, <1>2, <1>3, <1>4, RequestOrphans

LEMMA NewCustomerOrphans ==
    ASSUME TypeOK, Sound, OrphanInv, NEW r \in Requests, FreshIds # {},
           customers' = customers \cup {[id |-> FreshId, user |-> frame[r].user]},
           frame' = [frame EXCEPT ![r].customer = FreshId],
           NoFault, pc[r] = "newCustomer", Goto(r, "insertUser"),
           UNCHANGED <<users, consumer>>
    PROVE  OrphanInv'
<1>1. FreshId \in Customers /\ \A c \in customers : c.id # FreshId
  BY DEF FreshId, FreshIds
<1>2. PICK f \in Frame : f = [frame[r] EXCEPT !.customer = FreshId]
  BY <1>1, FrameTypes
<1>3. f.row \subseteq Copies /\ f.user = frame[r].user /\ f.customer = FreshId
  BY <1>2 DEF TypeOK, Frame, Copies
<1>4. frame' = [frame EXCEPT ![r] = f]
  BY <1>2 DEF TypeOK
<1>5. pc'[r] = "insertUser" /\ frame'[r] = f
  BY <1>4 DEF TypeOK, Goto
<1>6. \A q \in Requests : q # r => pc'[q] = pc[q] /\ frame'[q] = frame[q]
  BY <1>4 DEF TypeOK, Goto
<1>7. NamesKept
  BY <1>3, <1>4, RequestNames DEF OrphanInv
<1>8. CustomerInv'
  <2>1. \A c, d \in customers' : c.id = d.id => c = d
    BY <1>1 DEF OrphanInv, CustomerInv
  <2>2. \A q \in Requests : pc'[q] # "insertUser" => frame'[q].customer = None
    BY <1>5, <1>6 DEF OrphanInv, CustomerInv
  <2> QED
    BY <1>7, <2>1, <2>2, TableNames DEF OrphanInv, CustomerInv
<1>9. ASSUME NEW u PROVE OrphansOf(u)' \subseteq OrphansOf(u)
  <2> SUFFICES ASSUME NEW c \in OrphansOf(u)' PROVE c \in OrphansOf(u)
    OBVIOUS
  <2>1. /\ c \in customers' /\ c.user = u
        /\ \A row \in users : row.customer # c.id
        /\ \A q \in Requests : frame'[q].customer # c.id
    BY DEF OrphansOf, Orphans
  <2>2. c \in customers
    BY <1>3, <1>5, <2>1
  <2>3. frame[r].customer # c.id
    BY <2>2, AccountAssumption DEF OrphanInv, CustomerInv, TypeOK, Customer
  <2> QED
    BY <1>6, <2>1, <2>2, <2>3 DEF OrphansOf, Orphans
<1>10. ASSUME NEW u, Due(u)' PROVE Due(u)
  BY <1>3, <1>5, <1>6, <1>10 DEF Due, RowsOf
<1>11. OneSignUpPerUser => TurnsInv'
  <2> SUFFICES ASSUME OneSignUpPerUser PROVE TurnsInv'
    OBVIOUS
  <2>1. ASSUME NEW u \in Users PROVE Bounded(u)'
    BY <1>9, <1>10, Keeps DEF OrphanInv, TurnsInv
  <2>2. \A p, q \in Requests : frame'[p].user = frame'[q].user /\ frame'[p].user # None => p = q
    BY <1>3, <1>5, <1>6 DEF OrphanInv, TurnsInv
  <2> QED
    BY <2>1, <2>2 DEF TurnsInv
<1> QED
  BY <1>8, <1>11 DEF OrphanInv

(* The row is inserted, or refused and the customer left behind.           *)
LEMMA InsertUserOrphans ==
    ASSUME TypeOK, Sound, OrphanInv, NEW r \in Requests, InsertUser(r)
    PROVE  OrphanInv'
<1>0. PICK name, cus, new :
          /\ name = frame[r].user /\ name \in Users
          /\ cus = [id |-> frame[r].customer, user |-> frame[r].user]
          /\ new = [id |-> frame[r].user, customer |-> frame[r].customer, sub |-> None]
  BY DEF InsertUser, Sound, SignUpInv, SignUpLabels
<1>1. pc'[r] = "idle" /\ frame'[r].user = None /\ frame'[r].customer = None /\ frame'[r].row = {}
  BY DEF InsertUser, Answer, Goto, EmptyFrame, TypeOK
<1>2. \A q \in Requests : q # r => pc'[q] = pc[q] /\ frame'[q] = frame[q]
  BY DEF InsertUser, Answer, Goto, TypeOK
<1>3. UNCHANGED <<customers, consumer>> /\ pc[r] = "insertUser" /\ (Fault \/ NoFault)
  BY DEF InsertUser, stripeVars
<1>4. \/ users' = users \cup {new}
      \/ users' = users /\ (Fault \/ (NoFault /\ RowsOf(name) # {}))
  BY <1>0 DEF InsertUser
<1>5. \A c \in customers : c.id = frame[r].customer => c = cus
  BY <1>0, FrameCustomer DEF OrphanInv
<1>6. CustomerInv'
  <2>1. \A q \in Requests : pc'[q] # "insertUser" => frame'[q].customer = None
    BY <1>1, <1>2 DEF OrphanInv, CustomerInv
  <2>2. \A row \in Copies' : row \in Copies \/ row \in users'
    BY <1>1, <1>2, <1>3 DEF Copies
  <2>3. \A row \in Copies' : \E old \in users' : SameName(row, old)
    BY <1>4, <2>2 DEF OrphanInv, CustomerInv, SameName
  <2> QED
    BY <1>3, <2>1, <2>3 DEF OrphanInv, CustomerInv
<1>7. OneSignUpPerUser => TurnsInv'
  <2> SUFFICES ASSUME OneSignUpPerUser PROVE TurnsInv'
    OBVIOUS
  <2>1. ASSUME NEW q \in Requests, q # r PROVE frame[q].user # name
    BY <1>0, <2>1, AccountAssumption DEF OrphanInv, TurnsInv
  <2>2. ~Due(name)'
    BY <1>0, <1>1, <1>2, <2>1, AccountAssumption DEF Due
  <2>3. ASSUME NEW u \in Users, NEW c \in OrphansOf(u)'
        PROVE  /\ c \in OrphansOf(u) \/ (c = cus /\ u = name /\ users' = users)
    <3>1. /\ c \in customers /\ c.user = u
          /\ \A row \in users' : row.customer # c.id
          /\ \A q \in Requests : frame'[q].customer # c.id
      BY <1>3 DEF OrphansOf, Orphans
    <3>2. \A row \in users : row.customer # c.id
      BY <1>4, <3>1
    <3>3. CASE frame[r].customer # c.id
      BY <1>2, <3>1, <3>2, <3>3 DEF OrphansOf, Orphans
    <3>4. CASE frame[r].customer = c.id
      <4>1. c = cus /\ u = name
        BY <1>0, <1>5, <3>1, <3>4
      <4>2. new \notin users'
        BY <1>0, <3>1, <3>4
      <4> QED
        BY <1>4, <4>1, <4>2
    <3> QED
      BY <3>3, <3>4
  <2>4. ASSUME NEW u \in Users PROVE Bounded(u)'
    <3>1. Bounded(u)
      BY DEF OrphanInv, TurnsInv
    <3>2. CASE u # name
      <4>1. OrphansOf(u)' \subseteq OrphansOf(u)
        BY <2>3, <3>2
      <4>2. RowsOf(u)' = RowsOf(u)
        BY <1>0, <1>4, <3>2 DEF RowsOf
      <4>3. Due(u)' => Due(u)
        BY <1>1, <1>2, <4>2 DEF Due
      <4> QED
        BY <1>3, <3>1, <4>1, <4>3, Keeps
    <3>3. CASE u = name /\ users' # users
      <4>1. OrphansOf(u)' \subseteq OrphansOf(u)
        BY <2>3, <3>3
      <4> QED
        BY <1>3, <2>2, <3>1, <3>3, <4>1, Keeps
    <3>4. CASE u = name /\ users' = users
      <4>1. OrphansOf(u)' \subseteq OrphansOf(u) \cup {cus}
        BY <2>3
      <4>2. CASE Fault \/ (NoFault /\ RowsOf(name) # {})
        <5>1. Fault \/ (NoFault /\ Due(u))
          BY <1>0, <1>3, <3>4, <4>2 DEF Due
        <5> QED
          BY <2>2, <3>1, <3>4, <4>1, <5>1, LeavesOne
      <4>3. CASE users' = users \cup {new}
        <5>1. new \in users
          BY <3>4, <4>3
        <5>2. RowsOf(name) # {}
          BY <1>0, <5>1 DEF RowsOf
        <5> QED
          BY <1>3, <4>2, <5>2
      <4> QED
        BY <1>4, <4>2, <4>3
    <3> QED
      BY <3>2, <3>3, <3>4
  <2>5. \A p, q \in Requests : frame'[p].user = frame'[q].user /\ frame'[p].user # None => p = q
    BY <1>1, <1>2 DEF OrphanInv, TurnsInv
  <2> QED
    BY <2>4, <2>5 DEF TurnsInv
<1> QED
  BY <1>6, <1>7 DEF OrphanInv

(* A restart leaves behind the customer of the user's one sign-up.         *)
LEMMA RestartOrphans ==
    ASSUME TypeOK, Sound, OrphanInv, Restart
    PROVE  OrphanInv'
<1>1. /\ UNCHANGED <<users, customers>> /\ Fault
      /\ \A q \in Requests : /\ pc'[q] = "idle" /\ frame'[q].user = None
                             /\ frame'[q].customer = None /\ frame'[q].row = {}
      /\ consumer'.row = {}
  BY DEF Restart, EmptyFrame, IdleConsumer, stripeVars
<1>2. CustomerInv'
  <2>1. Copies' = users
    BY <1>1 DEF Copies
  <2> QED
    BY <1>1, <2>1 DEF OrphanInv, CustomerInv, SameName
<1>3. OneSignUpPerUser => TurnsInv'
  <2> SUFFICES ASSUME OneSignUpPerUser PROVE TurnsInv'
    OBVIOUS
  <2>1. ASSUME NEW u \in Users PROVE Bounded(u)'
    <3>1. Bounded(u) /\ ~Due(u)'
      BY <1>1 DEF OrphanInv, TurnsInv, Due
    <3>2. ASSUME NEW c \in OrphansOf(u)'
          PROVE  \/ c \in OrphansOf(u)
                 \/ \E q \in Requests :
                       /\ frame[q].user = u
                       /\ c = [id |-> frame[q].customer, user |-> frame[q].user]
      <4>1. c \in customers /\ c.user = u /\ \A row \in users : row.customer # c.id
        BY <1>1 DEF OrphansOf, Orphans
      <4>2. CASE \A q \in Requests : frame[q].customer # c.id
        BY <4>1, <4>2 DEF OrphansOf, Orphans
      <4>3. ASSUME NEW q \in Requests, frame[q].customer = c.id
            PROVE  /\ frame[q].user = u
                   /\ c = [id |-> frame[q].customer, user |-> frame[q].user]
        BY <4>1, <4>3, FrameCustomer DEF OrphanInv
      <4> QED
        BY <4>2, <4>3
    <3>3. CASE \E q \in Requests : frame[q].user = u
      <4>1. PICK q \in Requests : frame[q].user = u
        BY <3>3
      <4>2. PICK x : x = [id |-> frame[q].customer, user |-> frame[q].user]
        OBVIOUS
      <4>3. \A p \in Requests : frame[p].user = u => p = q
        BY <4>1, AccountAssumption DEF OrphanInv, TurnsInv
      <4>4. OrphansOf(u)' \subseteq OrphansOf(u) \cup {x}
        BY <3>2, <4>2, <4>3
      <4> QED
        BY <1>1, <3>1, <4>4, LeavesOne
    <3>4. CASE ~\E q \in Requests : frame[q].user = u
      <4>1. OrphansOf(u)' \subseteq OrphansOf(u)
        BY <3>2, <3>4
      <4> QED
        BY <1>1, <3>1, <4>1, Keeps
    <3> QED
      BY <3>3, <3>4
  <2> QED
    BY <1>1, <2>1 DEF TurnsInv
<1> QED
  BY <1>2, <1>3 DEF OrphanInv

LEMMA WorkOrphans ==
    ASSUME TypeOK, Sound, OrphanInv, NEW r \in Requests, Work(r)
    PROVE  OrphanInv'
<1>1. CASE FindUser(r)
  <2>1. CASE Goto(r, "refresh")
    BY <1>1, <2>1, GoOnOrphans DEF FindUser, stripeVars
  <2>2. CASE Goto(r, "createCognito") /\ (Fault \/ RowsOf(frame[r].user) = {})
    BY <1>1, <2>2, GoOnOrphans DEF FindUser, stripeVars
  <2> QED
    BY <1>1, <2>1, <2>2 DEF FindUser
<1>2. CASE RefreshSession(r)
  BY <1>2, AnswerOrphans DEF RefreshSession, stripeVars
<1>3. CASE CreateCognitoUser(r)
  <2>1. CASE Goto(r, "newCustomer") /\ NoFault /\ UNCHANGED frame
    BY <1>3, <2>1, GoOnOrphans DEF CreateCognitoUser, stripeVars
  <2>2. CASE Answer(r) /\ (Fault \/ NoFault)
    BY <1>3, <2>2, AnswerOrphans DEF CreateCognitoUser, stripeVars
  <2> QED
    BY <1>3, <2>1, <2>2 DEF CreateCognitoUser
<1>4. CASE NewCustomer(r)
  <2>1. CASE Fault /\ Answer(r) /\ UNCHANGED customers
    BY <1>4, <2>1, AnswerOrphans DEF NewCustomer
  <2>2. CASE /\ FreshIds # {}
             /\ customers' = customers \cup {[id |-> FreshId, user |-> frame[r].user]}
             /\ frame' = [frame EXCEPT ![r].customer = FreshId]
             /\ NoFault
             /\ Goto(r, "insertUser")
    BY <1>4, <2>2, NewCustomerOrphans DEF NewCustomer
  <2> QED
    BY <1>4, <2>1, <2>2 DEF NewCustomer
<1>5. CASE InsertUser(r)
  BY <1>5, InsertUserOrphans
<1>6. CASE SaveUser(r)
  <2>1. UNCHANGED users \/ \E row \in Copies : users' = Saved(row)
    BY <1>6 DEF SaveUser, Copies
  <2> QED
    BY <1>6, <2>1, AnswerOrphans DEF SaveUser, stripeVars
<1> QED
  BY <1>1, <1>2, <1>3, <1>4, <1>5, <1>6 DEF Work

LEMMA ConsumerOrphans ==
    ASSUME TypeOK, Sound, OrphanInv, Consumer
    PROVE  OrphanInv'
<1> USE DEF stripeVars, requestVars
<1>1. CASE ReceiveEvent
  <2>1. NamesKept
    BY <1>1, ElsewhereNames DEF ReceiveEvent, OrphanInv
  <2> QED
    BY <1>1, <2>1, ElsewhereOrphans DEF ReceiveEvent, NoFault
<1>2. CASE FindCustomer
  <2>1. ASSUME NEW row \in consumer'.row PROVE \E old \in Copies : SameName(row, old)
    <3>1. PICK e \in consumer.event : \E old \in Owners(e) : row = ChangedRow(e, old)
      BY <1>2, <2>1 DEF FindCustomer, IdleConsumer
    <3>2. PICK old \in Owners(e) : row = ChangedRow(e, old)
      BY <3>1
    <3>3. old \in users /\ old \in User
      BY DEF Owners, TypeOK
    <3>4. SameName(row, old)
      BY <3>2, <3>3 DEF ChangedRow, SameName, User
    <3> QED
      BY <3>3, <3>4, TableCopied
  <2>2. NamesKept
    BY <1>2, <2>1, ElsewhereNames DEF FindCustomer, OrphanInv
  <2>3. Fault \/ NoFault
    BY <1>2 DEF FindCustomer
  <2> QED
    BY <1>2, <2>2, <2>3, ElsewhereOrphans DEF FindCustomer
<1>3. CASE SaveSubscription
  <2>1. UNCHANGED users \/ \E row \in Copies : users' = Saved(row)
    BY <1>3, ConsumerCopied DEF SaveSubscription
  <2>2. consumer'.row = {} /\ (Fault \/ NoFault)
    BY <1>3 DEF SaveSubscription, IdleConsumer
  <2>3. NamesKept
    BY <1>3, <2>1, <2>2, ElsewhereNames DEF SaveSubscription, OrphanInv
  <2> QED
    BY <1>3, <2>2, <2>3, ElsewhereOrphans DEF SaveSubscription
<1> QED
  BY <1>1, <1>2, <1>3 DEF Consumer

(* Steps of Stripe, which touch neither the table nor a request            *)
LEMMA StripeOrphans ==
    ASSUME TypeOK, Sound, OrphanInv, UNCHANGED <<users, customers, pc, frame, consumer>>,
           Fault \/ NoFault
    PROVE  OrphanInv'
<1>1. consumer'.row \subseteq Copies
  BY ConsumerCopied
<1>2. NamesKept
  BY <1>1, ElsewhereNames DEF OrphanInv, SameName
<1> QED
  BY <1>2, ElsewhereOrphans

LEMMA NextOrphans == IInv /\ OrphanInv /\ [Next]_vars => OrphanInv'
<1> SUFFICES ASSUME IInv, OrphanInv, [Next]_vars PROVE OrphanInv'
  OBVIOUS
<1>1. TypeOK /\ Sound
  BY DEF IInv
<1>2. ASSUME NEW r \in Requests, NEW u \in Users, SignUp(r, u) PROVE OrphanInv'
  BY <1>1, <1>2, SignUpOrphans
<1>3. ASSUME NEW r \in Requests, NEW row \in users, CreateServer(r, row) PROVE OrphanInv'
  BY <1>1, <1>3, CreateServerOrphans
<1>4. ASSUME NEW r \in Requests, Work(r) PROVE OrphanInv'
  BY <1>1, <1>4, WorkOrphans
<1>5. CASE \/ \E row \in users, s \in Subscriptions : Checkout(row, s)
           \/ \E s \in subs, type \in {"updated", "paused"} : SubscriptionChanges(s, type)
           \/ \E e \in outbox : Deliver(e)
           \/ UNCHANGED vars
  <2>1. UNCHANGED <<users, customers, pc, frame, consumer>> /\ (Fault \/ NoFault)
    BY <1>5 DEF Checkout, SubscriptionChanges, Deliver, Webhook, WebhookFails, requestVars,
                stripeVars, vars, NoFault
  <2> QED
    BY <1>1, <2>1, StripeOrphans
<1>6. CASE Consumer
  BY <1>1, <1>6, ConsumerOrphans
<1>7. CASE Restart
  BY <1>1, <1>7, RestartOrphans
<1> QED
  BY <1>2, <1>3, <1>4, <1>5, <1>6, <1>7 DEF Next

(* As long as the sign-ups of each user take turns, a user has no more     *)
(* unused Stripe customers than calls have failed or processes died, for   *)
(* any number of users, retries, overlapping saves and webhooks.           *)
THEOREM OrphansComeFromFailures == Spec => []OrphansAreFailures
<1>1. Init => IInv /\ OrphanInv
  BY InitIInv, InitOrphans
<1>2. IInv /\ OrphanInv /\ [Next]_vars => IInv' /\ OrphanInv'
  BY NextIInv, NextOrphans
<1>3. IInv /\ OrphanInv => OrphansAreFailures
  <2> SUFFICES ASSUME IInv, OrphanInv, OneSignUpPerUser, NEW u \in Users
               PROVE  Cardinality(OrphansOf(u)) <= MaxFaults - faults
    BY DEF OrphansAreFailures, OrphansOf
  <2>1. /\ IsFiniteSet(OrphansOf(u))
        /\ Cardinality(OrphansOf(u)) + (IF Due(u) THEN 1 ELSE 0) <= MaxFaults - faults
    BY DEF OrphanInv, TurnsInv, Bounded
  <2>2. Cardinality(OrphansOf(u)) \in Nat
    BY <2>1, FS_CardinalityType
  <2>3. MaxFaults - faults \in Int
    BY AccountAssumption DEF IInv, TypeOK
  <2> QED
    BY <2>1, <2>2, <2>3
<1> QED
  BY <1>1, <1>2, <1>3, PTL DEF Spec

-----------------------------------------------------------------------------
(* No subscription is forgotten                                            *)

(* A subscription is bought with the customer of a row, and rows stay: the *)
(* consumer finds one for every created event.                             *)
CustomersHaveRows == \A s \in subs : \E row \in users : row.customer = s.customer

(* The consumer has one event at a time, and the row it is about to save   *)
(* names the subscription of a created one.                                *)
ConsumerInv ==
    /\ consumer.at = "ranging" => consumer.event = {}
    /\ \A e, f \in consumer.event : e = f
    /\ consumer.at = "save" =>
          \A e \in consumer.event, row \in consumer.row : e.type = "created" => row.sub = e.sub

HistoryInv == IInv /\ CustomersHaveRows /\ ConsumerInv /\ NothingForgotten

(* The event of subscription x goes on, is written to a row, or fails.     *)
Kept(x) == OnItsWay(x) => OnItsWay(x)' \/ InRow(x)' \/ faults' < faults

LEMMA FaultSpent == ASSUME TypeOK, Fault PROVE faults' < faults
  BY AccountAssumption DEF TypeOK, Fault

LEMMA InitHistory == HistoryInit => HistoryInv
<1> SUFFICES ASSUME HistoryInit PROVE HistoryInv
  OBVIOUS
<1>1. CustomersHaveRows /\ ConsumerInv /\ NothingForgotten
  BY DEF HistoryInit, Init, CustomersHaveRows, ConsumerInv, NothingForgotten, IdleConsumer
<1> QED
  BY <1>1, InitIInv DEF HistoryInit, HistoryInv

(* Customers of rows are never changed.                                    *)
LEMMA SavedKeeps ==
    ASSUME NEW row PROVE \A old \in users : \E new \in Saved(row) : new.customer = old.customer
  BY DEF Saved

LEMMA RequestHistory ==
    ASSUME CustomersHaveRows, ConsumerInv, NEW r \in Requests,
           \/ \E u \in Users : SignUp(r, u)
           \/ \E row \in users : CreateServer(r, row)
           \/ Work(r)
    PROVE  CustomersHaveRows' /\ ConsumerInv' /\ UNCHANGED subs /\ \A x : Kept(x)
<1>1. UNCHANGED <<subs, outbox, queue, consumer>>
  BY DEF SignUp, CreateServer, Work, FindUser, RefreshSession, CreateCognitoUser, NewCustomer,
         InsertUser, SaveUser, stripeVars
<1>2. \A old \in users : \E new \in users' : new.customer = old.customer
  <2>1. CASE SaveUser(r)
    BY <2>1, SavedKeeps DEF SaveUser
  <2>2. CASE InsertUser(r)
    BY <2>2 DEF InsertUser
  <2>3. CASE ~SaveUser(r) /\ ~InsertUser(r)
    BY <2>3 DEF SignUp, CreateServer, Work, FindUser, RefreshSession, CreateCognitoUser,
                NewCustomer
  <2> QED
    BY <2>1, <2>2, <2>3
<1>3. CustomersHaveRows'
  BY <1>1, <1>2 DEF CustomersHaveRows
<1>4. \A x : Kept(x)
  BY <1>1 DEF Kept, OnItsWay
<1>5. ConsumerInv' /\ UNCHANGED subs
  BY <1>1 DEF ConsumerInv
<1> QED
  BY <1>3, <1>4, <1>5

LEMMA CheckoutHistory ==
    ASSUME CustomersHaveRows, ConsumerInv, NEW row \in users, NEW s \in Subscriptions,
           Checkout(row, s)
    PROVE  /\ CustomersHaveRows' /\ ConsumerInv'
           /\ \A t \in subs' : t \in subs \/ OnItsWay(t.id)'
           /\ \A x : Kept(x)
<1>1. UNCHANGED <<users, queue, consumer>> /\ outbox \subseteq outbox'
  BY DEF Checkout
<1>2. \A t \in subs' : t \in subs \/ (t.id = s /\ t.customer = row.customer)
  BY DEF Checkout
<1>3. CustomersHaveRows' /\ ConsumerInv'
  BY <1>1, <1>2 DEF CustomersHaveRows, ConsumerInv
<1>4. OnItsWay(s)'
  <2> DEFINE e == [type |-> "created", customer |-> row.customer, sub |-> s]
  <2>1. e \in outbox' /\ e.type = "created" /\ e.sub = s
    BY DEF Checkout
  <2> HIDE DEF e
  <2> QED
    BY <2>1 DEF OnItsWay
<1>5. \A x : Kept(x)
  BY <1>1 DEF Kept, OnItsWay
<1> QED
  BY <1>2, <1>3, <1>4, <1>5

LEMMA StripeHistory ==
    ASSUME TypeOK, CustomersHaveRows, ConsumerInv,
           \/ \E s \in subs, type \in {"updated", "paused"} : SubscriptionChanges(s, type)
           \/ \E e \in outbox : Deliver(e)
    PROVE  CustomersHaveRows' /\ ConsumerInv' /\ UNCHANGED subs /\ \A x : Kept(x)
<1>1. UNCHANGED <<users, subs, consumer>>
  BY DEF SubscriptionChanges, Deliver, Webhook, WebhookFails
<1>2. CustomersHaveRows' /\ ConsumerInv'
  BY <1>1 DEF CustomersHaveRows, ConsumerInv
<1>3. ASSUME outbox \subseteq outbox', UNCHANGED queue, NEW x PROVE Kept(x)
  BY <1>1, <1>3 DEF Kept, OnItsWay
<1>4. ASSUME NEW e \in outbox, Webhook(e), NEW x PROVE Kept(x)
  <2>1. /\ queue' = Append(queue, e) /\ queue \in Seq(Event)
        /\ outbox \ {e} \subseteq outbox'
    BY <1>4 DEF Webhook, TypeOK
  <2>2. /\ Len(queue') = Len(queue) + 1 /\ queue'[Len(queue) + 1] = e /\ Len(queue) \in Nat
        /\ \A i \in 1 .. Len(queue) : queue'[i] = queue[i]
    BY <2>1
  <2>3. /\ Len(queue) + 1 \in 1 .. Len(queue')
        /\ \A i \in 1 .. Len(queue) : i \in 1 .. Len(queue')
    BY <2>2
  <2> QED
    BY <1>1, <2>1, <2>2, <2>3 DEF Kept, OnItsWay
<1>5. ASSUME NEW e \in outbox, WebhookFails(e) PROVE faults' < faults
  BY <1>5, FaultSpent DEF WebhookFails
<1>6. \A x : Kept(x)
  BY <1>3, <1>4, <1>5 DEF Deliver, SubscriptionChanges, Kept
<1> QED
  BY <1>1, <1>2, <1>6

LEMMA ReceiveEventHistory ==
    ASSUME TypeOK, CustomersHaveRows, ConsumerInv, ReceiveEvent
    PROVE  CustomersHaveRows' /\ ConsumerInv' /\ UNCHANGED subs /\ \A x : Kept(x)
<1>1. UNCHANGED <<users, subs, outbox>> /\ consumer.event = {}
  BY DEF ReceiveEvent, stripeVars, ConsumerInv
<1>2. consumer'.event = {Head(queue)} /\ consumer'.at = "find" /\ queue' = Tail(queue)
  BY DEF ReceiveEvent
<1>3. queue \in Seq(Event) /\ queue # <<>>
  BY DEF ReceiveEvent, TypeOK
<1>4. ASSUME NEW i \in 1 .. Len(queue)
      PROVE  queue[i] = Head(queue) \/ \E j \in 1 .. Len(queue') : queue'[j] = queue[i]
  <2>1. CASE i = 1
    BY <1>3, <2>1
  <2>2. CASE i # 1
    <3>1. i - 1 \in 1 .. Len(queue') /\ queue'[i - 1] = queue[i]
      BY <1>2, <1>3, <1>4, <2>2
    <3> QED
      BY <3>1
  <2> QED
    BY <2>1, <2>2
<1>5. \A x : Kept(x)
  BY <1>1, <1>2, <1>4 DEF Kept, OnItsWay
<1> QED
  BY <1>1, <1>2, <1>5 DEF CustomersHaveRows, ConsumerInv

LEMMA FindCustomerHistory ==
    ASSUME TypeOK, Sound, CustomersHaveRows, ConsumerInv, FindCustomer
    PROVE  CustomersHaveRows' /\ ConsumerInv' /\ UNCHANGED subs /\ \A x : Kept(x)
<1>1. UNCHANGED <<users, subs, outbox, queue>>
  BY DEF FindCustomer, stripeVars
<1>2. PICK e \in consumer.event :
        \/ /\ \E row \in Owners(e) :
                 consumer' = [at |-> "save", event |-> {e}, row |-> {ChangedRow(e, row)}]
        \/ /\ IF e.type = "paused" \/ Owners(e) = {} THEN NoFault ELSE Fault
           /\ consumer' = IdleConsumer
  BY DEF FindCustomer
<1>3. consumer.event = {e}
  BY DEF ConsumerInv
<1>4. CASE consumer' = IdleConsumer
  <2>1. CASE Fault
    BY <1>1, <1>4, <2>1, FaultSpent DEF CustomersHaveRows, ConsumerInv, IdleConsumer, Kept
  <2>2. CASE ~Fault
    <3>1. e.type # "created"
      <4>1. [id |-> e.sub, customer |-> e.customer] \in subs
        BY ConsumerCopied DEF Sound, Genuine
      <4>2. PICK row \in users : row.customer = e.customer
        BY <4>1 DEF CustomersHaveRows
      <4>3. row \in Owners(e)
        BY <4>2 DEF Owners
      <4> QED
        BY <1>2, <1>4, <2>2, <4>3 DEF IdleConsumer
    <3>2. \A x : Kept(x)
      BY <1>1, <1>3, <1>4, <3>1 DEF Kept, OnItsWay, IdleConsumer
    <3> QED
      BY <1>1, <1>4, <3>2 DEF CustomersHaveRows, ConsumerInv, IdleConsumer
  <2> QED
    BY <2>1, <2>2
<1>5. CASE consumer' # IdleConsumer
  <2>1. PICK row \in Owners(e) :
          consumer' = [at |-> "save", event |-> {e}, row |-> {ChangedRow(e, row)}]
    BY <1>2, <1>5
  <2>2. e.type = "created" => ChangedRow(e, row).sub = e.sub
    BY DEF ChangedRow, Owners, TypeOK, User
  <2>3. consumer'.event = {e} /\ consumer'.at = "save" /\ consumer'.row = {ChangedRow(e, row)}
    BY <2>1
  <2>4. ConsumerInv'
    BY <2>2, <2>3 DEF ConsumerInv
  <2>5. \A x : Kept(x)
    BY <1>1, <1>3, <2>3 DEF Kept, OnItsWay
  <2> QED
    BY <1>1, <2>4, <2>5 DEF CustomersHaveRows
<1> QED
  BY <1>4, <1>5

LEMMA SaveSubscriptionHistory ==
    ASSUME TypeOK, CustomersHaveRows, ConsumerInv, SaveSubscription
    PROVE  CustomersHaveRows' /\ ConsumerInv' /\ UNCHANGED subs /\ \A x : Kept(x)
<1>1. UNCHANGED <<subs, outbox, queue>> /\ consumer' = IdleConsumer /\ consumer.at = "save"
  BY DEF SaveSubscription, stripeVars
<1>2. ConsumerInv'
  BY <1>1 DEF ConsumerInv, IdleConsumer
<1>3. CASE UNCHANGED users /\ Fault
  BY <1>1, <1>2, <1>3, FaultSpent DEF CustomersHaveRows, Kept
<1>4. ASSUME NEW row \in consumer.row, users' = Saved(row)
      PROVE  CustomersHaveRows' /\ \A x : Kept(x)
  <2>1. CustomersHaveRows'
    BY <1>1, <1>4, SavedKeeps DEF CustomersHaveRows
  <2>2. row \in users'
    BY <1>4 DEF Saved
  <2>3. \A x : Kept(x)
    BY <1>1, <2>2 DEF Kept, OnItsWay, InRow, ConsumerInv
  <2> QED
    BY <2>1, <2>3
<1> QED
  BY <1>1, <1>2, <1>3, <1>4 DEF SaveSubscription

LEMMA RestartHistory ==
    ASSUME TypeOK, CustomersHaveRows, Restart
    PROVE  CustomersHaveRows' /\ ConsumerInv' /\ UNCHANGED subs /\ \A x : Kept(x)
  BY FaultSpent DEF Restart, stripeVars, CustomersHaveRows, ConsumerInv, IdleConsumer, Kept

LEMMA StepHistory ==
    ASSUME IInv, CustomersHaveRows, ConsumerInv, Next
    PROVE  /\ CustomersHaveRows' /\ ConsumerInv'
           /\ \A t \in subs' : t \in subs \/ OnItsWay(t.id)'
           /\ \A x : Kept(x)
<1>1. TypeOK /\ Sound
  BY DEF IInv
<1>2. CASE \E row \in users, s \in Subscriptions : Checkout(row, s)
  BY <1>2, CheckoutHistory
<1>3. CASE \E r \in Requests : \/ \E u \in Users : SignUp(r, u)
                               \/ \E row \in users : CreateServer(r, row)
                               \/ Work(r)
  BY <1>3, RequestHistory
<1>4. CASE \/ \E s \in subs, type \in {"updated", "paused"} : SubscriptionChanges(s, type)
           \/ \E e \in outbox : Deliver(e)
  BY <1>1, <1>4, StripeHistory
<1>5. CASE Consumer
  BY <1>1, <1>5, ReceiveEventHistory, FindCustomerHistory, SaveSubscriptionHistory DEF Consumer
<1>6. CASE Restart
  BY <1>1, <1>6, RestartHistory
<1> QED
  BY <1>2, <1>3, <1>4, <1>5, <1>6 DEF Next

LEMMA NextHistory == HistoryInv /\ [HistoryNext]_historyVars => HistoryInv'
<1> SUFFICES ASSUME HistoryInv, [HistoryNext]_historyVars PROVE HistoryInv'
  OBVIOUS
<1>1. IInv /\ CustomersHaveRows /\ ConsumerInv /\ NothingForgotten
  BY DEF HistoryInv
<1>2. CASE HistoryNext
  <2>1. /\ CustomersHaveRows' /\ ConsumerInv'
        /\ \A t \in subs' : t \in subs \/ OnItsWay(t.id)'
        /\ \A x : Kept(x)
    BY <1>1, <1>2, StepHistory DEF HistoryNext
  <2>2. IInv'
    BY <1>1, <1>2, NextIInv DEF HistoryNext
  <2>3. subs' \subseteq Subscription
    BY <2>2 DEF IInv, TypeOK
  <2>4. NothingForgotten'
    <3> SUFFICES ASSUME NEW t \in subs', ~OnItsWay(t.id)'
                 PROVE  t.id \in written' \cup lost'
      BY DEF NothingForgotten
    <3>1. t \in subs /\ t.id \in Subscriptions
      BY <2>1, <2>3 DEF Subscription
    <3>2. CASE t.id \in written \cup lost
      BY <1>2, <3>2 DEF HistoryNext
    <3>3. CASE OnItsWay(t.id)
      <4>1. InRow(t.id)' \/ faults' < faults
        BY <2>1, <3>3 DEF Kept
      <4> QED
        BY <1>2, <3>1, <3>3, <4>1 DEF HistoryNext
    <3> QED
      BY <1>1, <3>1, <3>2, <3>3 DEF NothingForgotten
  <2> QED
    BY <2>1, <2>2, <2>4 DEF HistoryInv
<1>3. CASE UNCHANGED historyVars
  <2>1. UNCHANGED <<vars, users, subs, outbox, queue, consumer, written, lost>>
    BY <1>3 DEF historyVars, vars, stripeVars
  <2>2. IInv'
    BY <1>1, <2>1, NextIInv
  <2> QED
    BY <1>1, <2>1, <2>2
       DEF HistoryInv, CustomersHaveRows, ConsumerInv, NothingForgotten, OnItsWay
<1> QED
  BY <1>2, <1>3

(* A subscription that was bought is in a row, or its created event is on  *)
(* its way, or a failure or a restart has struck that very event, whatever *)
(* events of it and of others overtake each other, come twice or are lost, *)
(* and however many sign-ups and stale saves go on meanwhile.              *)
THEOREM NothingIsForgotten == HistorySpec => []NothingForgotten
<1>1. HistoryInv => NothingForgotten
  BY DEF HistoryInv
<1> QED
  BY <1>1, InitHistory, NextHistory, PTL DEF HistorySpec
=============================================================================
