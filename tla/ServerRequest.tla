--------------------------- MODULE ServerRequest ---------------------------
(***************************************************************************)
(* src/handler/server/create_server_handler.go: the body of a create or    *)
(* patch request, its validation, and the world made of it.  An optional   *)
(* field is a set with at most one element.  The fields that only override *)
(* a default (port, crossplay, intervals ...) are one, settings.           *)
(***************************************************************************)
EXTENDS Integers, Sequences

CONSTANTS
    CpuLimit,      \* Atoi of the environment variable CPU_LIMIT, 0 if it is
    MemoryLimit,   \* no number; the same for MEMORY_LIMIT
    Settings,      \* values of the other optional fields
    Defaults       \* their default

ASSUME EnvironmentAssumption ==
    /\ CpuLimit \in Int /\ MemoryLimit \in Int
    /\ Defaults \in Settings

Optional(S) == {o \in SUBSET S : \A x, y \in o : x = y}
Some(o)     == CHOOSE x \in o : TRUE

(* A modifier, by whether its key is known and its value valid for the key *)
Modifier == {"valid", "badValue", "badKey"}

CreateServerRequest ==
    [required : BOOLEAN,          \* name, world and password are there
     CpuRequest : Optional(Int), MemoryRequest : Optional(Int),
     BackupCount : Optional(Int), settings : Optional(Settings),
     Modifiers : Seq(Modifier)]

(* The loop returns in its first turn, whatever the first modifier is: the *)
(* ones after it are never looked at.                                      *)
Validate(b) == b.required /\ (b.Modifiers = <<>> \/ Head(b.Modifiers) = "valid")

Default(o, value) == IF o = {} THEN value ELSE Some(o)

(* No request: the limit; more than the limit: the limit.                  *)
AtMost(o, limit) == IF o = {} \/ Some(o) > limit THEN limit ELSE Some(o)

World == [cpu : Int, memory : Int, backups : Int, settings : Settings,
          modifiers : Seq(Modifier)]

(* MakeWorldWithDefaults                                                   *)
MakeWorld(b) ==
    [cpu       |-> AtMost(b.CpuRequest, CpuLimit),
     memory    |-> AtMost(b.MemoryRequest, MemoryLimit),
     backups   |-> Default(b.BackupCount, 3),
     settings  |-> Default(b.settings, Defaults),
     modifiers |-> b.Modifiers]

(* What the handlers do with the limits before: a missing backup_count is  *)
(* dereferenced, and the handler panics.                                   *)
ClipPanics(b) == b.BackupCount = {}

(* Mutation: the plan is not looked at.                                    *)
ClipNothing(b, max) == b

(* Mutation: everyone gets what the plan grants.                           *)
ClipToPlan(b, max) == [b EXCEPT !.BackupCount = {max}]

Clip(b, max) == IF Some(b.BackupCount) > max THEN [b EXCEPT !.BackupCount = {max}] ELSE b
=============================================================================
