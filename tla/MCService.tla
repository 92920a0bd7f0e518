----------------------------- MODULE MCService -----------------------------
(* Symmetry of the instances of Service. *)
EXTENDS Service

Symmetry == Permutations(Logins) \cup Permutations(Channels)
=============================================================================
