--------------------------- MODULE ServerOverlaps ---------------------------
(***************************************************************************)
(* ServerApi with a history of the overlaps that its routes do not guard   *)
(* against: create decides on the servers that AuthMiddleware has read     *)
(* (create_server_handler.go:178), and scale saves the row it has read     *)
(* (scale_server_handler.go:106).                                          *)
(***************************************************************************)
EXTENDS ServerApi

VARIABLE clashed   \* users of whom two such requests were once in flight

overlapVars == <<vars, clashed>>

InFlight(r, u) == ~AtRest(r) /\ frame[r].user = u

(* A create of the user overlaps with another create or with a scale.      *)
Clash(u) ==
    \E q, r \in Requests :
        /\ q # r
        /\ InFlight(q, u) /\ frame[q].op = "create"
        /\ InFlight(r, u) /\ frame[r].op \in {"create", "scale"}

OverlapInit == Init /\ clashed = {}
OverlapNext == Next /\ clashed' = clashed \cup {u \in Users : Clash(u)'}

OverlapSpec == OverlapInit /\ [][OverlapNext]_overlapVars

(* A goroutine runs until it answers (ServerApi).                          *)
FairOverlapSpec == OverlapSpec /\ \A r \in Requests : WF_vars(Work(r))

-----------------------------------------------------------------------------
(* Two rows for one user come from nothing else than such an overlap:      *)
(* whatever deletes, patches and other scales of the user, and requests of *)
(* other users, are in flight, whatever they write back late, and whatever *)
(* fails, a user whose creates were alone has at most one.                 *)
OneServerUnlessClash ==
    \A u \in Users \ clashed : \A s, t \in ServersOf(u) : s = t
=============================================================================
