----------------------------- MODULE MCOrphanReap -----------------------------
(* Model values and symmetry for checking OrphanReap with TLC. *)
EXTENDS OrphanReap, TLC

Symmetry == Permutations(Instances) \union Permutations(Pids)
              \union Permutations(Starts) \union Permutations(Services)
=============================================================================
