----------------------------- MODULE MCGbaSaves -----------------------------
(***************************************************************************)
(* Three games that fit PSRAM, one of them with a path too long to have a  *)
(* save file, and one that needs NOR.                                      *)
(***************************************************************************)
EXTENDS GbaSaves

CONSTANTS a, b, l, z

MCGames     == {a, b, l, z}
MCBig       == {z}
MCLongNamed == {l}

\* What may follow a weak spot is not explored: no property speaks of it.
\* Three saves in all let two games be saved, one of them twice.
Bounded == exposed = {} /\ plays[a] + plays[b] + plays[l] + plays[z] <= 3
=============================================================================
