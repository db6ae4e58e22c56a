----------------------------- MODULE MCSupervisor -----------------------------
(* Model values and symmetry for checking Supervisor with TLC. *)
EXTENDS Supervisor, TLC

\* Runs and flags are interchangeable identities.
RunFlagSymmetry == Permutations(Runs) \union Permutations(Flags)
=============================================================================
