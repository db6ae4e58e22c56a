-------------------------- MODULE LifecycleRefinement --------------------------
(***************************************************************************)
(* Supervisor implements ServiceLifecycle.  The current run of a service   *)
(* is the one whose sender its entry holds; a terminal entry holds none.   *)
(***************************************************************************)
EXTENDS Supervisor

Current(s) == IF IsRegistered(s) THEN entries[s].control ELSE None

ShownStatus == [s \in Services |->
  IF IsRegistered(s) THEN entries[s].state ELSE "Unregistered"]

CurrentProcess == [s \in Services |->
  IF Current(s) = None \/ child[Current(s)] = "none" THEN "none"
  ELSE IF child[Current(s)] \in Dead THEN "over" ELSE "alive"]

StopAccepted == [s \in Services |-> Current(s) # None /\ asked[Current(s)]]

Lifecycle == INSTANCE ServiceLifecycle
  WITH status <- ShownStatus, process <- CurrentProcess, stopping <- StopAccepted

\* What the README calls the promise of the supervisor: every behaviour of the
\* tasks, channels and flags, seen through a snapshot and the process table, is
\* one of ServiceLifecycle.  In particular a terminal state is never shown over
\* a live process, one run never has two processes, and an accepted stop ends.
ImplementsLifecycle == Lifecycle!Spec
=============================================================================
