--------------------------- MODULE ServiceLifecycle ---------------------------
(***************************************************************************)
(* What the supervisor promises to whoever uses it, with no tasks,         *)
(* channels, flags or locks: a service that is registered is Stopped,      *)
(* Starting, Running or Failed; it has at most one process per run; a run  *)
(* is over only when its process is; and a stop that was accepted ends the *)
(* run.  Supervisor implements it (LifecycleRefinement).                   *)
(***************************************************************************)
CONSTANT Services

VARIABLES
  status,    \* what a snapshot shows: "Unregistered" or a ServiceState
  process,   \* the process of the current run: not created, alive or over
  stopping   \* has a stop been accepted during the current run?

vars == <<status, process, stopping>>

Idle == {"Stopped", "Failed"}
Busy == {"Starting", "Running"}

Init ==
  /\ status = [s \in Services |-> "Unregistered"]
  /\ process = [s \in Services |-> "none"]
  /\ stopping = [s \in Services |-> FALSE]

Register(s) ==
  /\ status[s] \in Idle \union {"Unregistered"}
  /\ status' = [status EXCEPT ![s] = "Stopped"]
  /\ UNCHANGED <<process, stopping>>

Unregister(s) ==
  /\ status[s] \in Idle
  /\ status' = [status EXCEPT ![s] = "Unregistered"]
  /\ UNCHANGED <<process, stopping>>

Begin(s) ==
  /\ status[s] \in Idle
  /\ status' = [status EXCEPT ![s] = "Starting"]
  /\ UNCHANGED <<process, stopping>>

\* The only way a process comes to exist: once, and for a Starting service.
Launch(s) ==
  /\ status[s] = "Starting"
  /\ process[s] = "none"
  /\ process' = [process EXCEPT ![s] = "alive"]
  /\ UNCHANGED <<status, stopping>>

BecomeReady(s) ==
  /\ status[s] = "Starting"
  /\ process[s] # "none"
  /\ status' = [status EXCEPT ![s] = "Running"]
  /\ UNCHANGED <<process, stopping>>

RequestStop(s) ==
  /\ status[s] \in Busy
  /\ stopping' = [stopping EXCEPT ![s] = TRUE]
  /\ UNCHANGED <<status, process>>

ProcessEnds(s) ==
  /\ process[s] = "alive"
  /\ process' = [process EXCEPT ![s] = "over"]
  /\ UNCHANGED <<status, stopping>>

\* The run ends with no process left, and the next one starts afresh.
End(s) ==
  /\ status[s] \in Busy
  /\ process[s] # "alive"
  /\ \E outcome \in Idle : status' = [status EXCEPT ![s] = outcome]
  /\ process' = [process EXCEPT ![s] = "none"]
  /\ stopping' = [stopping EXCEPT ![s] = FALSE]

Next ==
  \E s \in Services :
    \/ Register(s) \/ Unregister(s) \/ Begin(s) \/ Launch(s) \/ BecomeReady(s)
    \/ RequestStop(s) \/ ProcessEnds(s) \/ End(s)

\* An accepted stop ends the run: the process first, then the run.
Fairness ==
  \A s \in Services : /\ WF_vars(stopping[s] /\ ProcessEnds(s))
                      /\ WF_vars(stopping[s] /\ End(s))

Spec == Init /\ [][Next]_vars /\ Fairness
=============================================================================
