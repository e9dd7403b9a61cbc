---------------------------- MODULE FileInstall ----------------------------
(***************************************************************************)
(* src/handler/file/install_file_job_handler.go: POST /api/v1/file/install *)
(* deletes the backups of a world from S3 when asked to, and then creates  *)
(* a Job that works on the volume of the user.                             *)
(***************************************************************************)
EXTENDS S3Service, FiniteSetsExt

CONSTANTS
    Clients,     \* bound: users who send requests
    Bodies,      \* bound: the bodies that they send
    MaxFaults    \* bound: failing calls and restarts

VARIABLES
    install,     \* the handler: its next call, or the answer
    request,     \* its user and body
    at,          \* last key of the page of backups it has read
    todo,        \* objects it has still to delete
    jobs,        \* users for whom a Job was created
    faults,      \* failures left
    due          \* history: objects that the request has to delete

installVars == <<install, request, at, todo, jobs>>

(* prefix is the file to work on: "<world>.db" or "<world>.fwl" is its     *)
(* world here.                                                             *)
Body == [destination : {"worlds_local", "config", "plugins", "elsewhere"},
         operation   : {"write", "delete", "copy", "unknown"},
         prefix      : Worlds \cup {"otherFile", None},
         s3Delete    : BOOLEAN]

ASSUME InstallAssumption ==
    /\ Clients \subseteq Users
    /\ Bodies \subseteq Body
    /\ "otherFile" \notin Worlds
    /\ None # "otherFile"
    /\ MaxFaults \in Nat

ValidDestinations == {"worlds_local", "config", "plugins"}
ValidOperations   == {"write", "delete", "copy"}

Validate(b) ==
    /\ b.destination \in ValidDestinations
    /\ b.operation \in ValidOperations
    /\ b.prefix # None

Fault   == faults > 0 /\ faults' = faults - 1
NoFault == UNCHANGED faults

-----------------------------------------------------------------------------
InstallAtRest == install \in {"idle", "201", "400", "500", "aborted"}

NoRequest == [user |-> None, body |-> None]

InstallInit ==
    /\ install = "idle"
    /\ request = NoRequest
    /\ at = 0
    /\ todo = {}
    /\ jobs = {}
    /\ faults = MaxFaults
    /\ due = {}

(* <world>.db, <world>.fwl, and the automatic backups of the world: all    *)
(* names that begin with "<world>_backup_auto-", be they another world's.  *)
Matches(o, w) ==
    /\ Keys[o].world \in {w} \cup BackupNames[w]
    /\ Keys[o].name \in {"saved", "auto"}
    /\ Keys[o].ext \in {"db", "fwl"}

OwnBackup(o, u) == Keys[o].folder = [root |-> "backups", owner |-> u]

(* What the user means to be rid of                                        *)
BackupsOf(u, w) ==
    {o \in bucket : OwnBackup(o, u) /\ Keys[o].world = w /\ Keys[o].ext # "other"}

WantsDeletion(b) == b.s3Delete /\ b.prefix \in Worlds

(* Mutation: a request without a user goes on.                             *)
StartInstallAnonymous(u, b) ==
    /\ InstallAtRest
    /\ \E v \in {u, None} : request' = [user |-> v, body |-> b]
    /\ install' = IF Validate(b) THEN "job" ELSE "400"
    /\ at' = 0 /\ todo' = {} /\ due' = {}
    /\ UNCHANGED <<bucket, jobs, faults>>

StartInstall(u, b) ==
    /\ InstallAtRest
    /\ install' = CASE ~Validate(b)                    -> "400"
                    [] Validate(b) /\ WantsDeletion(b)  -> "list"
                    [] Validate(b) /\ ~WantsDeletion(b) -> "job"
    /\ request' = IF Validate(b) THEN [user |-> u, body |-> b] ELSE NoRequest
    /\ at' = 0
    /\ todo' = {}
    /\ due' = IF Validate(b) /\ WantsDeletion(b) THEN BackupsOf(u, b.prefix) ELSE {}
    /\ UNCHANGED <<bucket, jobs, faults>>

(* One page of ListObjects("valheim-backups-auto/<id>"): the prefix has no *)
(* slash at its end.  The loop that follows passes over the files that do  *)
(* not match without a call.                                               *)
ListBackups ==
    /\ install = "list"
    /\ \E page \in Pages(IdPrefix("backups", request.user), at) :
        /\ at' = page.last
        /\ todo' = todo \cup {o \in page.contents : Matches(o, request.body.prefix)}
        /\ install' = CASE page.more                  -> "list"
                        [] ~page.more /\ todo' # {} -> "delete"
                        [] ~page.more /\ todo' = {} -> "job"
    /\ UNCHANGED <<bucket, request, jobs, faults, due>>

(* A failed DeleteObject is logged, and the loop goes on.                  *)
DeleteNext ==
    LET o == Min(todo) IN
    /\ install = "delete"
    /\ \/ NoFault /\ DeleteObject(o) /\ UNCHANGED due
       \/ Fault /\ UNCHANGED bucket /\ due' = due \ {o}
    /\ todo' = todo \ {o}
    /\ install' = IF todo' = {} THEN "job" ELSE "delete"
    /\ UNCHANGED <<request, at, jobs>>

EndInstall(answer) ==
    /\ install' = answer
    /\ request' = NoRequest
    /\ at' = 0
    /\ todo' = {}

(* The Job works on the volume valheim-pvc-<id>, whether there is one or   *)
(* not.                                                                    *)
CreateFileJob ==
    /\ install = "job"
    /\ \/ NoFault /\ jobs' = jobs \cup {request.user} /\ EndInstall("201")
       \/ Fault /\ UNCHANGED jobs /\ EndInstall("500")
    /\ UNCHANGED <<bucket, due>>

InstallWork == ListBackups \/ DeleteNext \/ CreateFileJob

(* The process has exited.                                                 *)
InstallAborted ==
    IF InstallAtRest
    THEN UNCHANGED <<installVars, due>>
    ELSE EndInstall("aborted") /\ UNCHANGED <<jobs, due>>
=============================================================================
