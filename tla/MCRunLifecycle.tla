--------------------------- MODULE MCRunLifecycle ---------------------------
(* Small instances of RunLifecycle: two runs of one repository. *)
EXTENDS RunLifecycle

CONSTANTS j1, j2, rA

MCSameRepo == (j1 :> rA) @@ (j2 :> rA)

(* The generated workflow always concludes with success and reports flat;  *)
(* a workflow of the user's own may fail, and may report a hierarchy.      *)
Ended(c, r, f) == [conclusion |-> c, report |-> r, failing |-> f]
MCGenerated == {Ended("success", "flat", FALSE), Ended("success", "flat", TRUE)}
MCHidden    == {Ended("success", "flat", TRUE)}
MCPassing   == {Ended("success", "flat", FALSE)}
MCFailed    == {Ended("failure", "flat", TRUE)}
MCMixed     == {Ended("failure", "none", FALSE), Ended("success", "tree", TRUE)}
=============================================================================
