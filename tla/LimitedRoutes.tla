--------------------------- MODULE LimitedRoutes ---------------------------
(***************************************************************************)
(* The routes that depend on what a user pays for: server create and patch *)
(* (src/handler/server) and the signed URLs for uploads                    *)
(* (src/handler/file/file_upload_handler.go), each of which asks Stripe    *)
(* for the limits of the user's plan while the plan may change.            *)
(*                                                                         *)
(* One user, one request at a time.  What Kubernetes and the database do   *)
(* with a create or a patch is the subject of ServerApi: here they are one *)
(* step, with its outcomes.                                                *)
(***************************************************************************)
EXTENDS SubscriptionLimits, ServerRequest, FiniteSetsExt

CONSTANTS
    None,            \* no subscription
    Products,        \* Stripe products: their features
    Subscriptions,   \* bound: the products of a subscription's items
    Bodies,          \* bound: bodies of create and patch requests
    Uploads,         \* bound: bodies of upload requests
    MaxFaults,       \* bound: failing calls
    MaxChanges       \* bound: changes of the plan

(* FileMetadata: the extension of the Name, whether the Prefix, which the  *)
(* client chooses with no regard to the Name, is the key of a world file,  *)
(* and whether the Size is more than 30 MB.                                *)
File == [ext : {".fwl", ".db", ".zip", ".cfg", "", "other"},
         prefix : {"world", "other"},
         tooLarge : BOOLEAN]

ASSUME LimitedAssumption ==
    /\ None \notin Seq(Products)
    /\ Products \subseteq Seq(Feature)
    /\ Subscriptions \subseteq Seq(Products)
    /\ Bodies \subseteq CreateServerRequest
    /\ Uploads \subseteq Seq(File)
    /\ MaxFaults \in Nat /\ MaxChanges \in Nat

VARIABLES
    subscription,   \* products of the items in Stripe; None before a subscription
    row,            \* the user has a row in the server table
    deployment,     \* the Deployment, a set with at most one element
    pc,             \* next step of the handler, or its answer
    request,        \* operation, body, whether the row read had a SubscriptionId
    product,        \* the product of the subscription
    read,           \* number of its features that the loop has seen
    limits,         \* the limits so far
    urls,           \* files for whose Prefix the answer has a signed URL
    faults,         \* failures left
    changes,        \* changes left
    plans,          \* history: values of subscription since the request arrived
    failed          \* history: a call of the request has failed

stripeVars == <<subscription, changes, plans>>
serverVars == <<row, deployment>>
vars == <<stripeVars, serverVars, pc, request, product, read, limits, urls, faults, failed>>

Answers == {"idle", "200", "400", "500", "aborted"}
AtRest  == pc \in Answers

Deployments == [args : World, cpu : Int, memory : Int, maxBackups : Int]

NoRequest == [op |-> "none"]
Requests  ==
    [op : {"create", "patch"}, body : Bodies, hasId : BOOLEAN]
        \cup [op : {"upload"}, body : Uploads, hasId : BOOLEAN]

Init ==
    /\ subscription \in Subscriptions \cup {None}
    /\ row = FALSE
    /\ deployment = {}
    /\ pc = "idle"
    /\ request = NoRequest
    /\ product = <<>>
    /\ read = 0
    /\ limits = NoLimits
    /\ urls = {}
    /\ faults = MaxFaults
    /\ changes = MaxChanges
    /\ plans = {}
    /\ failed = FALSE

Fault   == faults > 0 /\ faults' = faults - 1 /\ failed' = TRUE
NoFault == UNCHANGED <<faults, failed>>

-----------------------------------------------------------------------------
(* A request has passed AuthMiddleware and the checks before it asks for   *)
(* the limits: the body is valid, and a create is for a user without a     *)
(* server; so, by its inverted guard, is a patch.  The row that the        *)
(* middleware read may not have the SubscriptionId yet.                    *)
Arrive(r) ==
    /\ AtRest
    /\ pc' = IF r.op \in {"create", "patch"} /\ (row \/ ~Validate(r.body))
             THEN "400" ELSE "subscription"
    /\ request' = r
    /\ r.hasId => subscription # None
    /\ product' = <<>> /\ read' = 0 /\ limits' = NoLimits /\ urls' = {}
    /\ plans' = {subscription}
    /\ failed' = FALSE
    /\ UNCHANGED <<subscription, changes, serverVars, faults>>

(* GetSubscriptionLimits up to the features: without a SubscriptionId      *)
(* there are no limits, and a subscription must have one item.  Its status *)
(* is not looked at.                                                       *)
GetSubscription ==
    /\ pc = "subscription"
    /\ \/ ~request.hasId /\ pc' = "use" /\ NoFault /\ UNCHANGED product
       \/ request.hasId /\ pc' = "500" /\ Fault /\ UNCHANGED product
       \/ /\ request.hasId
          /\ IF Len(subscription) = 1
             THEN pc' = "features" /\ product' = subscription[1]
             ELSE pc' = "500" /\ UNCHANGED product
          /\ NoFault
    /\ UNCHANGED <<stripeVars, serverVars, request, read, limits, urls>>

(* Mutation: Next is called twice in a turn.                               *)
ReadFeatureTwice ==
    /\ pc = "features"
    /\ IF read < Len(product)
       THEN read' = read + 2 /\ limits' = With(limits, product[read + 1]) /\ UNCHANGED pc
       ELSE pc' = "use" /\ UNCHANGED <<read, limits>>
    /\ NoFault
    /\ UNCHANGED <<stripeVars, serverVars, request, product, urls>>

(* One turn of the loop.  When a page of features cannot be read the loop  *)
(* ends as it does behind the last: features.Err is not looked at.         *)
ReadFeature ==
    /\ pc = "features"
    /\ \/ /\ read < Len(product)
          /\ read' = read + 1
          /\ limits' = With(limits, product[read + 1])
          /\ NoFault
          /\ UNCHANGED pc
       \/ /\ \/ read = Len(product) /\ NoFault
             \/ Fault
          /\ pc' = "use"
          /\ UNCHANGED <<read, limits>>
    /\ UNCHANGED <<stripeVars, serverVars, request, product, urls>>

-----------------------------------------------------------------------------
Answer(code) == pc' = code

(* The world that a create or patch makes of its body                      *)
RequestedWorld == MakeWorld(Clip(request.body, limits.MaxBackups))

(* The connection is dropped: net/http recovers the panic.                 *)
ClippingPanics ==
    /\ pc = "use" /\ request.op \in {"create", "patch"}
    /\ ClipPanics(request.body)
    /\ Answer("aborted")
    /\ UNCHANGED <<stripeVars, serverVars, request, product, read, limits, urls, faults, failed>>

(* CreateDedicatedServerDeployment, and the insertion of the row.  A       *)
(* Deployment left over makes it fail and is rolled back with the rest; a  *)
(* call that fails may be before the Deployment is made, a deletion of the *)
(* rollback, the insertion, or the save of the user behind it.             *)
Create ==
    LET w == RequestedWorld
        made == [args |-> w, cpu |-> w.cpu, memory |-> w.memory,
                 maxBackups |-> limits.MaxBackups]
    IN
    /\ pc = "use" /\ request.op = "create"
    /\ ~ClipPanics(request.body)
    /\ \/ deployment = {} /\ NoFault /\ deployment' = {made} /\ row' = TRUE /\ Answer("200")
       \/ /\ deployment = {} /\ Fault /\ Answer("500")
          /\ deployment' \in {{}, {made}}
          /\ row' \in {row, deployment' # {}}
       \/ deployment # {} /\ NoFault /\ deployment' = {} /\ UNCHANGED row /\ Answer("500")
       \/ deployment # {} /\ Fault /\ deployment' \in {{}, deployment} /\ UNCHANGED row /\ Answer("500")
    /\ UNCHANGED <<stripeVars, request, product, read, limits, urls>>

(* PatchServerDeployment replaces the arguments of the game server, not    *)
(* its resources and not those of the sidecar.  The row is then looked for *)
(* among the servers of a user who has none.                               *)
Patch ==
    /\ pc = "use" /\ request.op = "patch"
    /\ ~ClipPanics(request.body)
    /\ \/ /\ deployment # {}
          /\ deployment' = {[d EXCEPT !.args = RequestedWorld] : d \in deployment}
          /\ NoFault
          /\ Answer("400")
       \/ deployment = {} /\ NoFault /\ UNCHANGED deployment /\ Answer("500")
       \/ Fault /\ UNCHANGED deployment /\ Answer("500")
    /\ UNCHANGED <<stripeVars, row, request, product, read, limits, urls>>

(* The Name is that of a world.                                            *)
WorldFile(f) == f.ext \in {".db", ".fwl"}

(* Mutation: .fwl files are not taken for worlds.                          *)
RefusedUnlessFwl(f) ==
    \/ f.tooLarge
    \/ f.ext \notin {".fwl", ".db", ".zip", ".cfg"}
    \/ f.ext = ".db" /\ ~limits.ExistingWorldUpload

(* Size and Name are checked; the Prefix is not looked at.                 *)
Refused(f) ==
    \/ f.tooLarge
    \/ f.ext \notin {".fwl", ".db", ".zip", ".cfg"}
    \/ WorldFile(f) /\ ~limits.ExistingWorldUpload

(* The URL of each file is for its Prefix.  One file that is refused, or   *)
(* whose URL cannot be signed, and there is no URL at all.                 *)
UploadFiles ==
    LET files == {request.body[i] : i \in DOMAIN request.body} IN
    /\ pc = "use" /\ request.op = "upload"
    /\ \/ (\E f \in files : Refused(f)) /\ NoFault /\ UNCHANGED urls /\ Answer("400")
       \/ (\A f \in files : ~Refused(f)) /\ NoFault /\ urls' = files /\ Answer("200")
       \/ files # {} /\ ~Refused(Head(request.body)) /\ Fault /\ UNCHANGED urls /\ Answer("500")
    /\ UNCHANGED <<stripeVars, serverVars, request, product, read, limits>>

Handler == GetSubscription \/ ReadFeature \/ ClippingPanics \/ Create \/ Patch \/ UploadFiles

-----------------------------------------------------------------------------
(* The user subscribes, or changes the plan.                               *)
ChangePlan ==
    /\ changes > 0
    /\ changes' = changes - 1
    /\ subscription' \in Subscriptions
    /\ plans' = IF AtRest THEN plans ELSE plans \cup {subscription'}
    /\ UNCHANGED <<serverVars, pc, request, product, read, limits, urls, faults, failed>>

(* Another request deletes the server (ServerApi), whether there is a row  *)
(* or not.  A Deployment that cannot be deleted is logged and left behind, *)
(* and the row goes all the same; or the row itself cannot be deleted.     *)
DeleteServer ==
    /\ \/ row' = FALSE /\ deployment' = {} /\ UNCHANGED faults
       \/ /\ faults > 0 /\ faults' = faults - 1
          /\ \/ row' = FALSE /\ UNCHANGED deployment
             \/ deployment' = {} /\ UNCHANGED row
    /\ UNCHANGED <<stripeVars, pc, request, product, read, limits, urls, failed>>

Next == (\E r \in Requests : Arrive(r)) \/ Handler \/ ChangePlan \/ DeleteServer

Spec == Init /\ [][Next]_vars

-----------------------------------------------------------------------------
TypeOK ==
    /\ subscription \in Subscriptions \cup {None}
    /\ row \in BOOLEAN
    /\ deployment \subseteq Deployments
    /\ pc \in Answers \cup {"subscription", "features", "use"}
    /\ request \in Requests \cup {NoRequest}
    /\ product \in Products \cup {<<>>}
    /\ read \in 0 .. Len(product)
    /\ limits \in Limits
    /\ urls \subseteq File
    /\ faults \in 0 .. MaxFaults
    /\ changes \in 0 .. MaxChanges
    /\ plans \subseteq Subscriptions \cup {None}
    /\ failed \in BOOLEAN

-----------------------------------------------------------------------------
(* The features of the plans in force while the request was served         *)
InForce ==
    UNION {UNION {{items[i][j] : j \in DOMAIN items[i]} : i \in DOMAIN items}
               : items \in plans \ {None}}

(* A create or patch leaves a Deployment that keeps no more backups than a *)
(* plan in force during the request grants, and one with no more CPU and   *)
(* memory than the environment allows, however plan and calls go meanwhile.*)
WithinPlan ==
    [][\A d \in deployment' \ deployment :
          /\ d.args.backups > 0 =>
                 \E f \in InForce :
                     f.phrase = "Backups" /\ f.isNumber /\ f.number >= d.args.backups
          /\ d.cpu <= CpuLimit
          /\ d.memory <= MemoryLimit]_vars

(* What the first n features of a product name: the last one of a kind     *)
(* counts, and zero if there is none.                                      *)
Advertised(p, n, phrase) ==
    LET at == {i \in 1 .. n : p[i].phrase = phrase} IN
    IF at = {} THEN 0 ELSE Atoi(p[Max(at)])

AdvertisesUpload(p, n) == \E i \in 1 .. n : p[i].phrase = Upload

AdvertisedLimits(p, n) ==
    [MemoryLimit |-> Advertised(p, n, "GB RAM"),
     CpuLimit    |-> Advertised(p, n, "CPU Cores"),
     MaxBackups  |-> Advertised(p, n, "Backups"),
     MaxWorlds   |-> Advertised(p, n, "Worlds"),
     ExistingWorldUpload |-> AdvertisesUpload(p, n)]

(* The limits a request works with, if no call has failed, are those that  *)
(* the product of the subscription names.                                  *)
LimitsAsAdvertised ==
    pc = "use" /\ ~failed => limits = AdvertisedLimits(product, Len(product))

Lesser(a, b) == IF a <= b THEN a ELSE b

(* What a create or patch gives, unless a call of it has failed: the       *)
(* number of backups asked for or that of one plan in force during the     *)
(* request, whichever is less, however the plan changes meanwhile.  Where  *)
(* the row read has no SubscriptionId, as before the webhook's event has   *)
(* come in, the number is no more than zero, whatever the user pays for.   *)
AsAsked ==
    [][\A d \in deployment' \ deployment :
          LET asked == Some(request.body.BackupCount) IN
          ~failed' =>
              IF request.hasId
              THEN \E items \in plans \ {None} : \E i \in DOMAIN items :
                       d.args.backups =
                           Lesser(asked, Advertised(items[i], Len(items[i]), "Backups"))
              ELSE d.args.backups = Lesser(asked, 0)]_vars

(* A URL for a file whose Name is that of a world is in an answer only if  *)
(* a plan in force during the request allows such uploads.                 *)
NamedWorldsEarned ==
    (\E f \in urls : WorldFile(f)) => \E f \in InForce : f.phrase = Upload

(* "Only Legend tier subscribers can upload existing worlds": a URL to     *)
(* which a world can be uploaded is in an answer only if a plan in force   *)
(* during the request allows such uploads.                                 *)
UploadsEarned ==
    (\E f \in urls : f.prefix = "world") => \E f \in InForce : f.phrase = Upload
=============================================================================
