---------------------------- MODULE MCUserPages ----------------------------
(* Instances of UserPages for TLC.                                          *)
EXTENDS UserPages, TLC

CONSTANTS Promo, s1, s2, s3

\* Every row has the one type there is to filter by.
MCTypeOf == [n \in Notes |-> Promo]

\* Slots tell requests apart and nothing else.
SlotSymmetry == Permutations(Slots)
=============================================================================
