---------------------------- MODULE MCDetailFanOut ----------------------------
(* DetailFanOut for one worker or two, and two ids. *)
EXTENDS DetailFanOut, TLC

CONSTANTS w1, w2, i1, i2

OneWorker == {w1}
TwoWorkers == {w1, w2}
TwoIds == {i1, i2}
Symmetry == Permutations(Workers) \cup Permutations(Ids)
===============================================================================
