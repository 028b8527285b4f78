----------------------------- MODULE MCSdeCache -----------------------------
(* SdeCache for two workers, and two tables of two versions each. *)
EXTENDS SdeCache, TLC

CONSTANTS w1, w2, type, system

TwoWorkers == {w1, w2}
TwoSources == <<type, system>>
WorkerSymmetry == Permutations(Workers)
=============================================================================
