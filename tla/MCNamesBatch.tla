---------------------------- MODULE MCNamesBatch ----------------------------
(* NamesBatch for four ids, in chunks of at most three. *)
EXTENDS NamesBatch, TLC

CONSTANTS i1, i2, i3, i4

FourIds == {i1, i2, i3, i4}
=============================================================================
