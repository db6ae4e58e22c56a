-------------------------------- MODULE AppQuit --------------------------------
(***************************************************************************)
(* quit::perform_quit (apps/desktop/src-tauri/src/quit.rs) against the     *)
(* control socket and the user: mark the quit, unlink the socket, abort a  *)
(* running install, stop every service, destroy the window.                *)
(*                                                                         *)
(* The control handler refuses verbs that change what runs once the quit   *)
(* is marked; a call that passed that gate earlier goes on.  The desktop   *)
(* UI and the tray have no gate.                                           *)
(***************************************************************************)
EXTENDS StopSweep

CONSTANTS
  Quit,      \* the loop perform_quit executes
  Calls,     \* connections of the control socket being served
  MaxClicks  \* bound: starts and stops by the user within one tick

VARIABLES
  quit,      \* how far perform_quit is
  quitting,  \* the Quitting flag
  socket,    \* does the control socket's path exist?
  call,      \* call -> the verb being executed
  clicks     \* starts and stops by the user in this tick

vars == <<svc, loop, quit, quitting, socket, call, clicks>>

ASSUME QuitAssumption ==
  Quit \in Loops /\ Services # {} /\ MaxClicks \in Nat

NoCall == [phase |-> "none", verb |-> "start", service |-> CHOOSE s \in Services : TRUE]

Call == [phase : {"none", "accepted", "admitted", "stopping"},
         verb : {"start", "restart"}, service : Services]

\* Every variable keeps its type (StopSweep adds that no timer overruns).
TypeOK ==
  /\ SweepTypeOK
  /\ quit \in {"idle", "marked", "unlinked", "sweeping", "gone"}
  /\ quitting \in BOOLEAN /\ socket \in BOOLEAN
  /\ call \in [Calls -> Call] /\ clicks \in 0..MaxClicks

Init ==
  /\ SweepInit
  /\ quit = "idle" /\ quitting = FALSE /\ socket = TRUE
  /\ call = [c \in Calls |-> NoCall] /\ clicks = 0

quitVars == <<quit, quitting, socket>>

-----------------------------------------------------------------------------
(* perform_quit. *)

\* Set once and never cleared.
MarkQuit ==
  /\ quit = "idle"
  /\ quit' = "marked" /\ quitting' = TRUE
  /\ UNCHANGED <<sweepVars, socket, call, clicks>>

RemoveSocket ==
  /\ quit = "marked"
  /\ quit' = "unlinked" /\ socket' = FALSE
  /\ UNCHANGED <<sweepVars, quitting, call, clicks>>

\* abort_pending_install has returned, after any time up to its own timeout;
\* stop_all begins.
InstallAborted ==
  /\ quit = "unlinked"
  /\ quit' = "sweeping"
  /\ Begin(Quit, Services)
  /\ UNCHANGED <<svc, quitting, socket, call, clicks>>

\* window.destroy: the process ends, whatever it has not stopped lives on.
Destroy ==
  /\ quit = "sweeping" /\ loop[Quit].phase = "over"
  /\ quit' = "gone"
  /\ UNCHANGED <<sweepVars, quitting, socket, call, clicks>>

\* The window is gone or refuses: the app goes on, and may be asked again.
DestroyFails ==
  /\ quit = "sweeping" /\ loop[Quit].phase = "over"
  /\ quit' = "idle"
  /\ loop' = [loop EXCEPT ![Quit] = Off]
  /\ UNCHANGED <<svc, quitting, socket, call, clicks>>

-----------------------------------------------------------------------------
(* The control socket. *)

Accept(c, verb, s) ==
  /\ socket /\ call[c].phase = "none"
  /\ call' = [call EXCEPT ![c] = [phase |-> "accepted", verb |-> verb, service |-> s]]
  /\ UNCHANGED <<sweepVars, quitVars, clicks>>

\* execute: the gate.  It is read once per request.
Admit(c) ==
  /\ call[c].phase = "accepted"
  /\ call' = IF quitting THEN [call EXCEPT ![c] = NoCall]
             ELSE [call EXCEPT ![c].phase = "admitted"]
  /\ UNCHANGED <<sweepVars, quitVars, clicks>>

\* restart: a service that runs is asked to stop and the call waits for that.
StopHalf(c) ==
  /\ call[c].phase = "admitted" /\ call[c].verb = "restart"
  /\ Pending(call[c].service)
  /\ svc' = Asked(call[c].service)
  /\ call' = [call EXCEPT ![c].phase = "stopping"]
  /\ UNCHANGED <<loop, quitVars, clicks>>

\* Can the call kick a start now?  Only a service that is down is restarted.
StartIsDue(c) ==
  \/ call[c].phase = "admitted" /\ call[c].verb = "start"
  \/ /\ \/ call[c].phase = "admitted" /\ call[c].verb = "restart"
        \/ call[c].phase = "stopping"
     /\ ~Pending(call[c].service)

StartHalf(c) ==
  /\ StartIsDue(c)
  /\ Start(call[c].service)
  /\ call' = [call EXCEPT ![c] = NoCall]
  /\ UNCHANGED <<quitVars, clicks>>

\* The stop half's deadline.
GiveUp(c) ==
  /\ call[c].phase = "stopping"
  /\ call' = [call EXCEPT ![c] = NoCall]
  /\ UNCHANGED <<sweepVars, quitVars, clicks>>

-----------------------------------------------------------------------------
QuitStep == MarkQuit \/ RemoveSocket \/ InstallAborted \/ Destroy \/ DestroyFails

CallStep(c) ==
  \/ \E verb \in {"start", "restart"}, s \in Services : Accept(c, verb, s)
  \/ Admit(c) \/ StopHalf(c) \/ StartHalf(c) \/ GiveUp(c)

Alive == quit # "gone"

Undisturbed == Alive /\ UNCHANGED <<quitVars, call>>

LoopMoves(l) == LoopStep(l) /\ Undisturbed /\ UNCHANGED clicks
ServiceMoves(s) == ServiceStep(s) /\ Undisturbed /\ UNCHANGED clicks

Click(s) ==
  /\ clicks < MaxClicks
  /\ clicks' = clicks + 1
  /\ UserStarts(s) \/ UserStops(s)
  /\ Undisturbed

TimePasses == Tick /\ clicks' = 0 /\ Undisturbed

\* When the process has gone there is nothing left to happen here; its children
\* are the next launch's business (OrphanReap).
Next ==
  \/ QuitStep
  \/ Alive /\ \E c \in Calls : CallStep(c)
  \/ \E l \in Loops : LoopMoves(l)
  \/ \E s \in Services : ServiceMoves(s) \/ Click(s)
  \/ TimePasses

\* Tasks are scheduled and timers fire; nobody clicks, no socket is served and
\* nothing is asked of the user fairly.
Fairness ==
  /\ WF_vars(RemoveSocket) /\ WF_vars(InstallAborted)
  /\ WF_vars(Destroy \/ DestroyFails)
  /\ WF_vars(TimePasses)
  /\ \A l \in Loops : WF_vars(LoopMoves(l))
  /\ \A s \in Services : WF_vars(ServiceMoves(s))

Spec == Init /\ [][Next]_vars
FairSpec == Spec /\ Fairness

-----------------------------------------------------------------------------
(* Properties. *)

\* The inductive invariant: the types, and what keeps the sweep's promises.
IInv == TypeOK /\ SweepIInv

\* Whatever the user and other callers start and stop meanwhile, a loop never
\* gives up on a service that was past its readiness when the loop first looked
\* and has not been started again: the timeout leaves room for its grace.
SettledServicesStop ==
  \A l \in Loops : loop[l].stragglers \intersect loop[l].settled = {}

\* stop_all_with asks again at every look because a bulk start may reach a
\* service late: a service is only reported as not stopped if it was asked to
\* stop, unless it was started after the loop last looked.
StragglersWereAsked ==
  \A l \in Loops : \A s \in loop[l].stragglers \intersect loop[l].early :
    loop[l].phase = "over" => svc[s].asked \/ ~Pending(s)

\* A quit ends, one way or the other, even if something keeps starting services.
QuitReturns == quit = "marked" ~> quit \in {"gone", "idle"}
=============================================================================
