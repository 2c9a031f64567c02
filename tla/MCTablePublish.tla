---------------------------- MODULE MCTablePublish ----------------------------
(* TablePublish with two or three writers and two keys; keys and writers are *)
(* interchangeable.                                                          *)
EXTENDS TablePublish, TLC

CONSTANTS w1, w2, w3, k1, k2

Symmetry == Permutations(Keys) \cup Permutations(Writers)
=============================================================================
