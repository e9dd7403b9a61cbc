---------------------------- MODULE MCServerApi ----------------------------
(* Instances of ServerApi for TLC.                                         *)
EXTENDS ServerApi, TLC

(* Requests are interchangeable, and so are users: Init and Next name none *)
(* of them.  Used in the runs that check no liveness.                      *)
Symmetry == Permutations(Requests) \cup Permutations(Users)
=============================================================================
