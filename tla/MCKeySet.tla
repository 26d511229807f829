------------------------------- MODULE MCKeySet -------------------------------
(* Two overlapping verifications of tokens signed with two keys.           *)
EXTENDS KeySetHistory, TLC

MCSymmetry == Permutations(Verification) \cup Permutations(SigningKey)
=============================================================================
