------------------------------ MODULE MCShard ------------------------------
(***************************************************************************)
(* Small instances of Shard for TLC.                                       *)
(***************************************************************************)
EXTENDS ShardKV, TLC

CONSTANTS Short, Long    \* the two values

MCVLen == [c \in Cell |-> IF c = Long THEN 3 ELSE 1]

\* The cell of the first value, with an expiry of its own.
MCMangled == {[off |-> 2, exp |-> 2]}

KeySymmetry == Permutations(Keys)
=============================================================================
