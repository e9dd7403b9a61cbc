-------------------------- MODULE MCServerOverlaps --------------------------
(* An instance of ServerOverlaps for TLC.                                  *)
EXTENDS ServerOverlaps, MCServerApi
=============================================================================
