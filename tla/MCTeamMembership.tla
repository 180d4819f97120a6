-------------------------- MODULE MCTeamMembership --------------------------
(* Instances of TeamMembership: accounts and requests are interchangeable,  *)
(* but for the root account.                                                *)
EXTENDS TeamMembership, TLC

Symmetry == Permutations(Users \ Root) \cup Permutations(Procs)
=============================================================================
