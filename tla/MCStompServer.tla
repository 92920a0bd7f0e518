--------------------------- MODULE MCStompServer ---------------------------
(* Symmetry of the instances whose logins, channels and ids are model values. *)
EXTENDS StompServer

Symmetry == Permutations(Logins) \cup Permutations(Passcodes)
              \cup Permutations(Channels) \cup Permutations(Ids)
=============================================================================
