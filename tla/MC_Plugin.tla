----------------------------- MODULE MC_Plugin -----------------------------
(***************************************************************************)
(* Instances of the plugin for TLC.                                        *)
(***************************************************************************)
EXTENDS DpProps, TLC

\* Sync tokens: every incarnation has its own, or the second one repeats
\* the first one's, the third one gives none and the fourth has its own.
OwnToken(i) == i
StaleToken(i) == <<1, 1, NoInfo, 2>>[i]

Symmetry == Permutations(Ctx)

=============================================================================
