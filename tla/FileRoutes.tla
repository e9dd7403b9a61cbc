---------------------------- MODULE FileRoutes ----------------------------
(***************************************************************************)
(* src/handler/file: a listing and an install request that overlap, with   *)
(* uploads and with failures, over one bucket.                             *)
(* Two listings share nothing but the bucket, and neither do two install   *)
(* requests: the other ones are among the changes of the bucket.           *)
(***************************************************************************)
EXTENDS FileListing, FileInstall

CONSTANTS
    Buckets,     \* bound: what the bucket may hold at first
    MaxWrites    \* bound: uploads and saved backups

ASSUME BucketAssumption == Buckets \subseteq SUBSET Objects /\ MaxWrites \in Nat

VARIABLES
    writes,   \* writes left
    stayed,   \* history: objects in the bucket ever since the listing began
    seen      \* history: objects in the bucket at some time since

vars == <<bucket, listingVars, installVars, faults, due, writes, stayed, seen>>

Init ==
    /\ bucket \in Buckets
    /\ ListingInit
    /\ InstallInit
    /\ writes = MaxWrites
    /\ stayed = {}
    /\ seen = {}

(* The histories follow the bucket while the goroutines list.              *)
Observed ==
    IF listing = "errors" /\ ~closed
    THEN stayed' = stayed \cap bucket' /\ seen' = seen \cup bucket'
    ELSE UNCHANGED <<stayed, seen>>

-----------------------------------------------------------------------------
BeginListing(u) ==
    /\ StartListing(u)
    /\ stayed' = bucket
    /\ seen' = bucket
    /\ UNCHANGED <<bucket, installVars, faults, due, writes>>

(* Between requests the histories are empty.                               *)
List ==
    /\ UNCHANGED <<bucket, installVars, faults, due, writes>>
    /\ ListingWork
    /\ IF listing' = "errors" THEN UNCHANGED <<stayed, seen>> ELSE stayed' = {} /\ seen' = {}

BeginInstall(u, b) ==
    /\ StartInstall(u, b)
    /\ UNCHANGED <<listingVars, writes, stayed, seen>>

Install ==
    /\ UNCHANGED <<listingVars, writes>>
    /\ InstallWork
    /\ Observed

(* What is written again is not due any more.                              *)
Write ==
    /\ writes > 0
    /\ writes' = writes - 1
    /\ \E o \in Objects : PutObject(o) /\ due' = due \ {o}
    /\ Observed
    /\ UNCHANGED <<listingVars, installVars, faults>>

(* A page that cannot be read ends the process (log.Fatalf), of whichever  *)
(* request it is; so does a restart of the pod.                            *)
Exit ==
    /\ Fault
    /\ ~(ListingAtRest /\ InstallAtRest)
    /\ ListingAborted
    /\ InstallAborted
    /\ stayed' = {} /\ seen' = {}
    /\ UNCHANGED <<bucket, writes>>

Next ==
    \/ \E u \in Clients : BeginListing(u) \/ \E b \in Bodies : BeginInstall(u, b)
    \/ List
    \/ Install
    \/ Write
    \/ Exit

Spec == Init /\ [][Next]_vars

(* Some goroutine of a listing that can run does, and S3 answers.          *)
FairSpec == Spec /\ WF_listingVars(List)

-----------------------------------------------------------------------------
TypeOK ==
    /\ bucket \subseteq Objects
    /\ listing \in {"idle", "errors", "200", "aborted"}
    /\ lister \in Users \cup {None}
    /\ worker \in [Workers -> {"idle", "listing", "sending", "done"}]
    /\ pos \in [Workers -> Nat]
    /\ found \in [Workers -> Slice]
    /\ chan \in [Channels -> Seq(Slice)]
    /\ closed \in BOOLEAN
    /\ install \in {"idle", "list", "delete", "job", "201", "400", "500", "aborted"}
    /\ request \in [user : Users, body : Bodies] \cup {NoRequest}
    /\ at \in Nat
    /\ todo \subseteq Objects
    /\ jobs \subseteq Users
    /\ faults \in 0 .. MaxFaults
    /\ due \subseteq Objects
    /\ writes \in 0 .. MaxWrites
    /\ stayed \subseteq Objects /\ seen \subseteq Objects

-----------------------------------------------------------------------------
(* The goroutines of a listing send before anybody receives: the buffers   *)
(* have room for all of them, and no channel is closed while one has still *)
(* to send (which would panic).                                            *)
SendsNeverBlock ==
    \A w \in Workers : worker[w] \in {"listing", "sending"} =>
        /\ ~closed
        /\ Len(chan[Channel(w)]) < Capacity(Channel(w))

(* What a user sees under each heading                                     *)
Belongs(o, heading, u) ==
    CASE heading = "mods"    -> Keys[o].folder.root = "mods" /\ Keys[o].folder.owner \in {"general", u}
      [] heading = "configs" -> Keys[o].folder = [root |-> "config", owner |-> u]
      [] heading = "backups" -> Keys[o].folder = [root |-> "backups", owner |-> u]

(* A listing that overlaps with uploads and deletions answers with each    *)
(* object of the user at most once and under its heading, with every one   *)
(* that was there all the time, and with none that was never there or is   *)
(* somebody else's.                                                        *)
ListingFaithful ==
    closed =>
        \A o \in Objects, heading \in Channels :
            LET n == Response[heading][o] IN
            /\ n <= 1
            /\ n = 1 => o \in seen /\ Belongs(o, heading, lister) /\ Keys[o].name # "root"
            /\ Belongs(o, heading, lister) /\ o \in stayed /\ Keys[o].name # "root" => n = 1

(* When the deletion of a world is answered with 201, no backup of it that *)
(* the user had is left, but for those a failed call has spared or someone *)
(* has written again since.                                                *)
WorldGone == install = "201" => due \cap bucket = {}

(* Every listing is answered, whatever the folders hold, unless the        *)
(* process exits: no goroutine waits for one that waits for it.            *)
ListingAnswered == listing = "errors" ~> ListingAtRest
=============================================================================
