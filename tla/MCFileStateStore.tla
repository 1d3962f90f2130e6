-------------------------- MODULE MCFileStateStore --------------------------
(* FileStateStore with two locations and two states each. *)
EXTENDS FileStateStore, TLC

CONSTANTS k1, k2, s1, s2

MCKeys == {k1, k2}
MCStates == {s1, s2}
MCSymmetry == Permutations(MCKeys) \cup Permutations(MCStates)
============================================================================
