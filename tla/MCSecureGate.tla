---------------------------- MODULE MCSecureGate ----------------------------
(* Instances of SecureGate for TLC. *)
EXTENDS SecureGate, TLC

Symmetry == Permutations(Request) \cup Permutations(Token) \cup Permutations(Session)
=============================================================================
