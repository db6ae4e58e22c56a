------------------------------- MODULE StopSweep -------------------------------
(***************************************************************************)
(* quit::stop_all_with (apps/desktop/src-tauri/src/quit.rs): snapshot the  *)
(* services, ask every pending one to stop, sleep, look again, give up     *)
(* after a deadline.  Quit, Stop all and Apply all stop services this way, *)
(* and the desktop UI starts and stops services while they do.             *)
(*                                                                         *)
(* The supervisor is reduced to what its callers can tell apart            *)
(* (ServiceLifecycle, which Supervisor implements), with its timers: a     *)
(* stop sent while a service is coming up is read only once its readiness  *)
(* is decided, the child has its grace period to exit, and its output      *)
(* readers are drained before the terminal state is set.                   *)
(*                                                                         *)
(* Time is a tick, one poll interval long.  Whatever does not wait for a   *)
(* timer happens within the tick in which it becomes possible.             *)
(***************************************************************************)
EXTENDS Naturals, FiniteSets

CONSTANTS
  Services,  \* the registered service ids
  Probed,    \* the services whose readiness is a Command probe
  Ready,     \* service -> ticks of its AliveAfter window or probe deadline
  Grace,     \* service -> ticks of its stop grace
  Drain,     \* ticks of READER_DRAIN_BUDGET
  Loops,     \* executions of stop_all_with that can be in progress
  Timeout    \* loop -> ticks of its timeout argument

VARIABLES
  svc,   \* service -> its run
  loop   \* loop -> its locals

sweepVars == <<svc, loop>>

ASSUME SweepAssumption ==
  /\ Probed \subseteq Services
  /\ Ready \in [Services -> Nat]
  /\ Grace \in [Services -> Nat]
  /\ Drain \in Nat
  /\ Timeout \in [Loops -> Nat]

\* The timeout outlives the longest grace, and the drain that follows it.
ASSUME BudgetAssumption ==
  \A l \in Loops, s \in Services : Grace[s] + Drain < Timeout[l]

-----------------------------------------------------------------------------
\* terminating: terminate_child awaits the child.  draining: the child is gone,
\* the terminal state is not set yet.  A snapshot shows both as the Starting or
\* Running they began in.
Stages == {"down", "starting", "running", "terminating", "draining"}

\* asked: has Supervisor::stop been accepted in this run?
Run == [stage : Stages, age : Nat, asked : BOOLEAN]

\* kept: history, the services that were pending when the loop first looked and
\* have not been started since; settled: those of them that were past their
\* readiness; early: those that have not been started since it last looked.
Loop == [phase : {"off", "looking", "asking", "sleeping", "over"},
         elapsed : Nat, watched : SUBSET Services, todo : SUBSET Services,
         stragglers : SUBSET Services, kept : SUBSET Services,
         settled : SUBSET Services, early : SUBSET Services]

Down == [stage |-> "down", age |-> 0, asked |-> FALSE]

Off == [phase |-> "off", elapsed |-> 0, watched |-> {}, todo |-> {},
        stragglers |-> {}, kept |-> {}, settled |-> {}, early |-> {}]

\* is_pending: neither Stopped nor Failed.
Pending(s) == svc[s].stage # "down"

\* The stages a timer ends, and when it does.
Limit(s) ==
  CASE svc[s].stage = "starting"    -> Ready[s]
    [] svc[s].stage = "terminating" -> Grace[s]
    [] svc[s].stage = "draining"    -> Drain

Timed(s) == svc[s].stage \in {"starting", "terminating", "draining"}

\* Mutated form of Expired: off by one.
ExpiredLate(s) == Timed(s) /\ svc[s].age > Limit(s)

Expired(s) == Timed(s) /\ svc[s].age >= Limit(s)

\* The types, and no timer runs past its limit.
SweepTypeOK ==
  /\ svc \in [Services -> Run]
  /\ loop \in [Loops -> Loop]
  /\ \A s \in Services : Timed(s) => svc[s].age <= Limit(s)

SweepInit ==
  /\ svc \in [Services -> {Down, [Down EXCEPT !.stage = "running"]}]
  /\ loop = [l \in Loops |-> Off]

-----------------------------------------------------------------------------
(* The supervisor. *)

\* Supervisor::start: a no-op for a pending service.  The rest is history.
Start(s) ==
  IF Pending(s)
  THEN UNCHANGED sweepVars
  ELSE /\ svc' = [svc EXCEPT ![s] = [Down EXCEPT !.stage = "starting"]]
       /\ loop' = [l \in Loops |-> [loop[l] EXCEPT !.kept = @ \ {s},
                                     !.settled = @ \ {s}, !.early = @ \ {s}]]

\* Supervisor::stop: a no-op for a terminal service.
Asked(s) == IF Pending(s) THEN [svc EXCEPT ![s].asked = TRUE] ELSE svc

Moves(s, stage) == /\ svc' = [svc EXCEPT ![s].stage = stage, ![s].age = 0]
                   /\ UNCHANGED loop

\* AliveAfter is decided by its timer, a probe by any attempt before its
\* deadline.
BecomesReady(s) ==
  /\ svc[s].stage = "starting"
  /\ s \in Probed \/ Expired(s)
  /\ Moves(s, "running")

\* The probe's deadline tears the child down like a stop.
ProbeDeadline(s) ==
  /\ svc[s].stage = "starting" /\ s \in Probed /\ Expired(s)
  /\ Moves(s, "terminating")

\* The run loop reads the stop channel.
ReceivesStop(s) ==
  /\ svc[s].stage = "running" /\ svc[s].asked
  /\ Moves(s, "terminating")

\* The child exits, at the latest killed when its grace period has expired.
ChildEnds(s) ==
  /\ svc[s].stage \in {"starting", "running", "terminating"}
  /\ Moves(s, "draining")

\* The terminal state is set.
RunEnds(s) ==
  /\ svc[s].stage = "draining"
  /\ svc' = [svc EXCEPT ![s] = Down]
  /\ UNCHANGED loop

ServiceStep(s) ==
  \/ BecomesReady(s) \/ ProbeDeadline(s) \/ ReceivesStop(s)
  \/ ChildEnds(s) \/ RunEnds(s)

-----------------------------------------------------------------------------
(* The loop. *)

Begin(l, watched) ==
  loop' = [loop EXCEPT ![l] = [Off EXCEPT !.phase = "looking", !.watched = watched]]

PendingFor(l) == {s \in loop[l].watched : Pending(s)}

\* What Look leaves in the loop's locals.
Finish(l, stragglers) ==
  [loop[l] EXCEPT !.phase = "over", !.stragglers = stragglers]

\* Mutated form of Observed: the deadline starts anew with every service that
\* was not pending, or had not been started, at the last look.
ObservedAnew(l) ==
  LET still == PendingFor(l)
  IN  [loop[l] EXCEPT !.phase = "asking", !.todo = still, !.early = still,
                      !.elapsed = IF still \subseteq loop[l].early THEN @ ELSE 0]

Observed(l) ==
  LET still   == PendingFor(l)
      first   == loop[l].elapsed = 0
      settled == {s \in still : svc[s].stage # "starting"}
  IN  [loop[l] EXCEPT !.phase = "asking", !.todo = still, !.early = still,
                      !.kept = IF first THEN still ELSE @,
                      !.settled = IF first THEN settled ELSE @]

TimedOut(l) == loop[l].elapsed >= Timeout[l]

\* Mutated form of Look: the loop sleeps before it asks for the first time.
LookAfterSleep(l) ==
  LET seen == Observed(l) IN
  /\ loop[l].phase = "looking"
  /\ loop' = [loop EXCEPT ![l] =
       IF PendingFor(l) = {} THEN Finish(l, {})
       ELSE IF TimedOut(l) THEN Finish(l, PendingFor(l))
       ELSE IF loop[l].elapsed = 0
            THEN [seen EXCEPT !.phase = "sleeping", !.todo = {}] ELSE seen]
  /\ UNCHANGED svc

\* Mutated form of Look: one sweep up front, then the loop only polls.
LookAskingOnce(l) ==
  LET seen == Observed(l) IN
  /\ loop[l].phase = "looking"
  /\ loop' = [loop EXCEPT ![l] =
       IF PendingFor(l) = {} THEN Finish(l, {})
       ELSE IF TimedOut(l) THEN Finish(l, PendingFor(l))
       ELSE IF loop[l].elapsed = 0
            THEN seen ELSE [seen EXCEPT !.phase = "sleeping", !.todo = {}]]
  /\ UNCHANGED svc

\* One snapshot decides: nothing pending, out of time, or ask again.
Look(l) ==
  /\ loop[l].phase = "looking"
  /\ loop' = [loop EXCEPT ![l] =
       IF PendingFor(l) = {} THEN Finish(l, {})
       ELSE IF TimedOut(l) THEN Finish(l, PendingFor(l)) ELSE Observed(l)]
  /\ UNCHANGED svc

Ask(l, s) ==
  /\ loop[l].phase = "asking" /\ s \in loop[l].todo
  /\ svc' = Asked(s)
  /\ loop' = [loop EXCEPT ![l].todo = @ \ {s}]

Sleep(l) ==
  /\ loop[l].phase = "asking" /\ loop[l].todo = {}
  /\ loop' = [loop EXCEPT ![l].phase = "sleeping"]
  /\ UNCHANGED svc

LoopStep(l) == Look(l) \/ Sleep(l) \/ \E s \in Services : Ask(l, s)

-----------------------------------------------------------------------------
(* Time and the user. *)

\* Nothing that is possible now may be put off to the next tick.
Urgent ==
  \/ \E s \in Services : \/ Expired(s)
                         \/ svc[s].stage = "running" /\ svc[s].asked
  \/ \E l \in Loops : loop[l].phase \in {"looking", "asking"}

\* Every loop that sleeps wakes up a tick later.
Tick ==
  /\ ~Urgent
  /\ svc' = [s \in Services |-> IF Timed(s) THEN [svc[s] EXCEPT !.age = @ + 1]
                                ELSE svc[s]]
  /\ loop' = [l \in Loops |->
       IF loop[l].phase = "sleeping"
       THEN [loop[l] EXCEPT !.phase = "looking", !.elapsed = @ + 1]
       ELSE loop[l]]

\* start_service and stop_service, and a click on a row of the tray: no lock
\* and no other condition.
UserStarts(s) == Start(s)
UserStops(s)  == svc' = Asked(s) /\ UNCHANGED loop

-----------------------------------------------------------------------------
(* Why a loop can rely on what it has asked. *)

\* The request has reached the run, or is about to.
Reached(l, s) ==
  svc[s].asked \/ (loop[l].phase = "asking" /\ s \in loop[l].todo)

\* A service observed pending is asked before the loop sleeps.
WillBeAsked(l, s) ==
  s \in loop[l].early /\ Pending(s) => Reached(l, s)

\* How far the run of a settled service is, by the loop's own clock: it reads
\* the request at once, and then only its grace and the drain are left.
OnTime(l, s) ==
  s \in loop[l].settled =>
    /\ svc[s].stage # "starting"
    /\ svc[s].stage = "running" => loop[l].elapsed = 0 /\ Reached(l, s)
    /\ svc[s].stage = "terminating" => loop[l].elapsed <= svc[s].age
    /\ svc[s].stage = "draining" => loop[l].elapsed <= Grace[s] + svc[s].age

\* What the loop reports, and when.
Reports(l) ==
  /\ loop[l].phase # "over" => loop[l].stragglers = {}
  /\ loop[l].stragglers \intersect loop[l].settled = {}

SweepIInv ==
  /\ SweepTypeOK
  /\ \A l \in Loops : Reports(l)
  /\ \A l \in Loops, s \in Services : WillBeAsked(l, s) /\ OnTime(l, s)

=============================================================================
