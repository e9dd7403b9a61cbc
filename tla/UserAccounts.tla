---------------------------- MODULE UserAccounts ----------------------------
(***************************************************************************)
(* The user table and what must agree with it: the Cognito accounts and    *)
(* Stripe customers that create-user makes                                 *)
(* (handler/cognito/cognito_create_user_handler.go), and the subscriptions *)
(* that Stripe's webhooks report (handler/stripe_handlers/webhook.go).  A  *)
(* webhook only puts its event on the process's RabbitMQ queue; one        *)
(* consumer goroutine (service/rabbitmq.go) takes the events off it, one   *)
(* after the other, after a delay.                                         *)
(*                                                                         *)
(* db.Save writes every column of a row.  The other route that saves users *)
(* is server create: it writes the copy AuthMiddleware has read.           *)
(***************************************************************************)
EXTENDS Naturals, Sequences, FiniteSets

CONSTANTS
    Users,              \* discord ids
    Customers,          \* Stripe's customer ids
    Subscriptions,      \* Stripe's subscription ids
    Requests,           \* goroutines that serve create-user and server create
    None,
    MaxEvents,          \* bound: events on their way when a subscription changes
    MaxFaults,          \* bound: failing external calls and process restarts
    OneSignUpPerUser    \* TRUE: a user's sign-ups take turns. Nothing in the code
                        \* enforces it.

ASSUME AccountAssumption ==
    /\ None \notin Users \cup Customers \cup Subscriptions
    /\ MaxEvents \in Nat
    /\ MaxFaults \in Nat
    /\ OneSignUpPerUser \in BOOLEAN

VARIABLES
    users,       \* the user table; a customer id belongs to one row
    cognito,     \* users with an account in the Cognito user pool
    customers,   \* Stripe's customers
    subs,        \* Stripe's subscriptions
    outbox,      \* events that Stripe delivers until they are answered with a 200
    pc,          \* pc[r]: next step of request r
    frame,       \* frame[r]: its local variables
    queue,       \* the exclusive queue of this process
    consumer,    \* the goroutine RegisterConsumer starts
    faults       \* failures still allowed

stripeVars  == <<customers, subs, outbox>>
requestVars == <<pc, frame>>
vars == <<users, cognito, stripeVars, requestVars, queue, consumer, faults>>

-----------------------------------------------------------------------------
User         == [id : Users, customer : Customers, sub : Subscriptions \cup {None}]
Customer     == [id : Customers, user : Users]
Subscription == [id : Subscriptions, customer : Customers]

(* "updated" stands for the deleted and trial_will_end events too, which   *)
(* the consumer serves alike. It has no case for "paused" ones.            *)
Event == [type : {"created", "updated", "paused"}, customer : Customers, sub : Subscriptions]

SignUpLabels == {"findUser", "refresh", "createCognito", "newCustomer", "insertUser"}

Frame == [user : Users \cup {None}, customer : Customers \cup {None}, row : SUBSET User]
EmptyFrame == [user |-> None, customer |-> None, row |-> {}]
IdleConsumer == [at |-> "ranging", event |-> {}, row |-> {}]

TypeOK ==
    /\ users \subseteq User
    /\ cognito \subseteq Users
    /\ customers \subseteq Customer
    /\ subs \subseteq Subscription
    /\ outbox \subseteq Event
    /\ pc \in [Requests -> SignUpLabels \cup {"idle", "saveUser"}]
    /\ frame \in [Requests -> Frame]
    /\ queue \in Seq(Event)
    /\ consumer \in [at : {"ranging", "find", "save"}, event : SUBSET Event, row : SUBSET User]
    /\ faults \in 0 .. MaxFaults

Init ==
    /\ users = {} /\ cognito = {} /\ customers = {} /\ subs = {} /\ outbox = {}
    /\ pc = [r \in Requests |-> "idle"]
    /\ frame = [r \in Requests |-> EmptyFrame]
    /\ queue = <<>>
    /\ consumer = IdleConsumer
    /\ faults = MaxFaults

-----------------------------------------------------------------------------
Fault   == faults > 0 /\ faults' = faults - 1
NoFault == UNCHANGED faults

Goto(r, label) == pc' = [pc EXCEPT ![r] = label]

(* The request is answered.                                                *)
Answer(r) ==
    /\ Goto(r, "idle")
    /\ frame' = [frame EXCEPT ![r] = EmptyFrame]

RowsOf(u) == {row \in users : row.id = u}

-----------------------------------------------------------------------------
(* POST /api/v1/cognito/create-user                                        *)

SignUp(r, u) ==
    /\ pc[r] = "idle"
    /\ OneSignUpPerUser => \A q \in Requests : frame[q].user # u
    /\ Goto(r, "findUser")
    /\ frame' = [frame EXCEPT ![r].user = u]
    /\ UNCHANGED <<users, cognito, stripeVars, queue, consumer, faults>>

(* Mutation: the user is never found.                                      *)
FindUserNever(r) ==
    /\ pc[r] = "findUser"
    /\ NoFault
    /\ Goto(r, "createCognito")
    /\ UNCHANGED <<users, cognito, stripeVars, frame, queue, consumer>>

(* Only RowsAffected is looked at: a failed lookup finds no user.          *)
FindUser(r) ==
    /\ pc[r] = "findUser"
    /\ \/ RowsOf(frame[r].user) # {} /\ NoFault /\ Goto(r, "refresh")
       \/ RowsOf(frame[r].user) = {} /\ NoFault /\ Goto(r, "createCognito")
       \/ Fault /\ Goto(r, "createCognito")
    /\ UNCHANGED <<users, cognito, stripeVars, frame, queue, consumer>>

(* The new credentials are answered, not stored; a 400 if there are none.  *)
RefreshSession(r) ==
    /\ pc[r] = "refresh"
    /\ NoFault \/ Fault
    /\ Answer(r)
    /\ UNCHANGED <<users, cognito, stripeVars, queue, consumer>>

(* Mutation: no Stripe customer is made.                                   *)
CreateCognitoUserOnly(r) ==
    /\ pc[r] = "createCognito"
    /\ cognito' = cognito \cup {frame[r].user}
    /\ Goto(r, "insertUser")
    /\ UNCHANGED <<users, stripeVars, frame, queue, consumer, faults>>

(* Mutation: the error of CreateCognitoUser is only logged.                *)
CreateCognitoUserUnchecked(r) ==
    /\ pc[r] = "createCognito"
    /\ \/ cognito' = cognito \cup {frame[r].user} /\ NoFault
       \/ Fault /\ UNCHANGED cognito
    /\ Goto(r, "newCustomer")
    /\ UNCHANGED <<users, stripeVars, frame, queue, consumer>>

(* hearthhub-common is not in this repository: it may or may not accept an *)
(* account that is already there.                                          *)
CreateCognitoUser(r) ==
    /\ pc[r] = "createCognito"
    /\ \/ /\ cognito' = cognito \cup {frame[r].user}
          /\ NoFault
          /\ Goto(r, "newCustomer")
          /\ UNCHANGED frame
       \/ /\ IF frame[r].user \in cognito THEN NoFault ELSE Fault
          /\ Answer(r)
          /\ UNCHANGED cognito
    /\ UNCHANGED <<users, stripeVars, queue, consumer>>

FreshIds == Customers \ {c.id : c \in customers}
FreshId  == CHOOSE id \in FreshIds : TRUE

(* Every call of customer.New makes another customer.                      *)
NewCustomer(r) ==
    /\ pc[r] = "newCustomer"
    /\ \/ /\ FreshIds # {}
          /\ customers' = customers \cup {[id |-> FreshId, user |-> frame[r].user]}
          /\ frame' = [frame EXCEPT ![r].customer = FreshId]
          /\ NoFault
          /\ Goto(r, "insertUser")
       \/ Fault /\ Answer(r) /\ UNCHANGED customers
    /\ UNCHANGED <<users, cognito, subs, outbox, queue, consumer>>

(* Whether the table has a unique index on discord_id is not known here: a *)
(* second row of a user is inserted or refused.                            *)
InsertUser(r) ==
    /\ pc[r] = "insertUser"
    /\ \/ /\ users' = users \cup {[id |-> frame[r].user, customer |-> frame[r].customer, sub |-> None]}
          /\ NoFault
       \/ /\ IF RowsOf(frame[r].user) # {} THEN NoFault ELSE Fault
          /\ UNCHANGED users
    /\ Answer(r)
    /\ UNCHANGED <<cognito, stripeVars, queue, consumer>>

-----------------------------------------------------------------------------
(* The create route of servers, as far as the user table goes              *)

(* AuthMiddleware reads the user, who has no server or has deleted it.     *)
CreateServer(r, row) ==
    /\ pc[r] = "idle"
    /\ Goto(r, "saveUser")
    /\ frame' = [frame EXCEPT ![r].row = {row}]
    /\ UNCHANGED <<users, cognito, stripeVars, queue, consumer, faults>>

(* db.Save: the columns of a row, whatever has been written to it since.   *)
Saved(row) == {old \in users : old.customer # row.customer} \cup {row}

(* db.Save(user) at the end, or a failure on the way                       *)
SaveUser(r) ==
    /\ pc[r] = "saveUser"
    /\ \/ \E row \in frame[r].row : users' = Saved(row) /\ NoFault
       \/ UNCHANGED users /\ Fault
    /\ Answer(r)
    /\ UNCHANGED <<cognito, stripeVars, queue, consumer>>

-----------------------------------------------------------------------------
(* Stripe                                                                  *)

(* A user pays in the checkout session opened with the customer of a row.  *)
Checkout(row, s) ==
    /\ \A t \in subs : t.id # s
    /\ subs' = subs \cup {[id |-> s, customer |-> row.customer]}
    /\ outbox' = outbox \cup {[type |-> "created", customer |-> row.customer, sub |-> s]}
    /\ UNCHANGED <<users, cognito, customers, requestVars, queue, consumer, faults>>

SubscriptionChanges(s, type) ==
    /\ Cardinality(outbox) + Len(queue) + Cardinality(consumer.event) < MaxEvents
    /\ outbox' = outbox \cup {[type |-> type, customer |-> s.customer, sub |-> s.id]}
    /\ UNCHANGED <<users, cognito, customers, subs, requestVars, queue, consumer, faults>>

(* Mutation: the handler has no case for created events.                   *)
WebhookUnpublished(e) ==
    /\ queue' = IF e.type = "created" THEN queue ELSE Append(queue, e)
    /\ outbox' = outbox \ {e}
    /\ UNCHANGED <<users, cognito, customers, subs, requestVars, consumer, faults>>

(* POST /api/v1/stripe/webhook: publish, then 200.  Stripe may miss the    *)
(* answer (a fault) and deliver the event again.                           *)
Webhook(e) ==
    /\ queue' = Append(queue, e)
    /\ \/ outbox' = outbox \ {e} /\ NoFault
       \/ UNCHANGED outbox /\ Fault
    /\ UNCHANGED <<users, cognito, customers, subs, requestVars, consumer>>

(* The publish fails: the 500 is written first and stands, although the    *)
(* handler goes on to write a 200.  Or, as messages are not confirmed, the *)
(* broker loses the message unnoticed.                                     *)
WebhookFails(e) ==
    /\ Fault
    /\ outbox' \in {outbox, outbox \ {e}}
    /\ UNCHANGED <<users, cognito, customers, subs, requestVars, queue, consumer>>

-----------------------------------------------------------------------------
(* RegisterConsumer's goroutine and ConsumeMessageWithDelay                *)

(* The delivery is acknowledged as it is made; then comes the delay.       *)
ReceiveEvent ==
    /\ consumer.at = "ranging"
    /\ queue # <<>>
    /\ queue' = Tail(queue)
    /\ consumer' = [at |-> "find", event |-> {Head(queue)}, row |-> {}]
    /\ UNCHANGED <<users, cognito, stripeVars, requestVars, faults>>

(* Mutation: a new subscription is left to the updated event.              *)
ChangedRowOnUpdate(e, row) == IF e.type = "updated" THEN [row EXCEPT !.sub = e.sub] ELSE row

ChangedRow(e, row) == IF e.type = "created" THEN [row EXCEPT !.sub = e.sub] ELSE row

(* Mutation: First(&user) has no condition.                                *)
OwnersOfAny(e) == users

Owners(e) == {row \in users : row.customer = e.customer}

(* An event of another type, of an unknown customer, or whose lookup fails *)
(* is dropped.                                                             *)
FindCustomer ==
    /\ consumer.at = "find"
    /\ \E e \in consumer.event :
          \/ /\ e.type \in {"created", "updated"}
             /\ NoFault
             /\ \E row \in Owners(e) :
                   consumer' = [at |-> "save", event |-> {e}, row |-> {ChangedRow(e, row)}]
          \/ /\ IF e.type = "paused" \/ Owners(e) = {} THEN NoFault ELSE Fault
             /\ consumer' = IdleConsumer
    /\ UNCHANGED <<users, cognito, stripeVars, requestVars, queue>>

SaveSubscription ==
    /\ consumer.at = "save"
    /\ \/ \E row \in consumer.row : users' = Saved(row) /\ NoFault
       \/ UNCHANGED users /\ Fault
    /\ consumer' = IdleConsumer
    /\ UNCHANGED <<cognito, stripeVars, requestVars, queue>>

(* The exclusive queue goes with the connection of the process.            *)
Restart ==
    /\ Fault
    /\ pc' = [r \in Requests |-> "idle"]
    /\ frame' = [r \in Requests |-> EmptyFrame]
    /\ queue' = <<>>
    /\ consumer' = IdleConsumer
    /\ UNCHANGED <<users, cognito, stripeVars>>

-----------------------------------------------------------------------------
Work(r) ==
    \/ FindUser(r) \/ RefreshSession(r) \/ CreateCognitoUser(r) \/ NewCustomer(r)
    \/ InsertUser(r) \/ SaveUser(r)

Deliver(e) == Webhook(e) \/ WebhookFails(e)

Consumer == ReceiveEvent \/ FindCustomer \/ SaveSubscription

Next ==
    \/ \E r \in Requests : \/ \E u \in Users : SignUp(r, u)
                           \/ \E row \in users : CreateServer(r, row)
                           \/ Work(r)
    \/ \E row \in users, s \in Subscriptions : Checkout(row, s)
    \/ \E s \in subs, type \in {"updated", "paused"} : SubscriptionChanges(s, type)
    \/ \E e \in outbox : Deliver(e)
    \/ Consumer
    \/ Restart

Spec == Init /\ [][Next]_vars

(* Stripe retries an event until it is answered, requests and the consumer *)
(* run on.                                                                 *)
Fairness ==
    /\ \A r \in Requests : WF_vars(Work(r))
    /\ \A e \in Event : e.type = "created" => WF_vars(e \in outbox /\ Deliver(e))
    /\ WF_vars(Consumer)

-----------------------------------------------------------------------------
(* A user's row comes last: its Cognito account and its Stripe customer    *)
(* are there already, however requests overlap and whatever fails.         *)
RowIsBacked ==
    \A row \in users : row.id \in cognito /\ [id |-> row.customer, user |-> row.id] \in customers

(* The subscription in a row is one that the customer of the row bought:   *)
(* neither a stale copy nor a late event brings in another customer's.     *)
SubscriptionIsOwn ==
    \A row \in users :
        row.sub # None => [id |-> row.sub, customer |-> row.customer] \in subs

(* Stripe customers that no row names and no sign-up is about to use       *)
Orphans ==
    {c \in customers : /\ \A row \in users : row.customer # c.id
                       /\ \A r \in Requests : frame[r].customer # c.id}

(* A user whose sign-ups take turns leaves a customer behind only when a   *)
(* call has failed, one for each failure: retries leave no more.           *)
OrphansAreFailures ==
    OneSignUpPerUser =>
        \A u \in Users : Cardinality({c \in Orphans : c.user = u}) <= MaxFaults - faults

-----------------------------------------------------------------------------
(* webhook.go: "Sub status for users are retrieved directly from stripe    *)
(* every time [...]. Therefore, future webhooks like subscription updated, *)
(* deleted, and trial will end which mutate sub status can be ignored":    *)
(* the created event is enough, a row that has a subscription keeps one.   *)
SubscriptionKept ==
    [][\A row \in users :
          row.sub # None =>
              \E new \in users' : new.customer = row.customer /\ new.sub # None]_vars
=============================================================================
