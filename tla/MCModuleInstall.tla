--------------------------- MODULE MCModuleInstall ---------------------------
(* Instances of ModuleInstall for TLC. *)
EXTENDS ModuleInstall, TLC

CONSTANTS j1, j2, j3

\* One version is installed twice, and another once.
ThreeInstalls == {j1, j2, j3}
ThreeVer == (j1 :> 1) @@ (j2 :> 1) @@ (j3 :> 2)

TwoInstalls == {j1, j2}
SameVer == (j1 :> 1) @@ (j2 :> 1)
=============================================================================
