-------------------------------- MODULE MCTray --------------------------------
(* Endpoints, order and symmetry for checking Tray with TLC. *)
EXTENDS Tray, FiniteSets, TLC

CONSTANTS mysql8, mysql9

\* Every MySQL major declares the same endpoint.
SameEndpoint == [s \in Services |-> "127.0.0.1:3306"]

Places == [s \in Services |-> IF s = mysql8 THEN 0 ELSE 1]

DispatcherSymmetry == Permutations(Dispatchers)

\* Bound: news, refreshes and clicked calls that are on their way at a time.
InFlight ==
  Cardinality(UNION {{s} \X unsent[s] : s \in Services})
    + Len(channel) + Len(posted) + Cardinality(tasks)
    + Cardinality({d \in Dispatchers : bulk[d].snapshot # None})
    + (IF loop = "receiving" THEN 0 ELSE 1) + (IF click = None THEN 0 ELSE 1)

FewInFlight == InFlight <= 2
=============================================================================
