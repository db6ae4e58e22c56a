------------------------------- MODULE MCPackages -------------------------------
(***************************************************************************)
(* Packages with three builds of the app.  The first has no PHP package    *)
(* (the Homebrew route), the later ones pin v1 and v2; the databases are   *)
(* packaged in every build, so that an update finds the previous build's   *)
(* version installed.                                                      *)
(***************************************************************************)
EXTENDS Packages, TLC

CONSTANTS v1, v2

MCPinned ==
  [f \in Families |-> IF f = "php" THEN <<NoVersion, v1, v2>> ELSE <<v1, v2, v2>>]
=============================================================================
