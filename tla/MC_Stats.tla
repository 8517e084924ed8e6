------------------------------ MODULE MC_Stats ------------------------------
(***************************************************************************)
(* Instances of the plugin with its counters for TLC.                      *)
(***************************************************************************)
EXTENDS DpStats

OwnToken(i) == i
=============================================================================
