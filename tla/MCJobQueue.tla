----------------------------- MODULE MCJobQueue -----------------------------
(* Small instances of JobQueue: three runs, two of them of one repository. *)
EXTENDS JobQueue

CONSTANTS j1, j2, j3, rA, rB

MCRepoOf == (j1 :> rA) @@ (j2 :> rA) @@ (j3 :> rB)
MCOneRepo == (j1 :> rA) @@ (j2 :> rA)
=============================================================================
