----------------------------- MODULE AppQuitProofs -----------------------------
(***************************************************************************)
(* Proofs about AppQuit for any services, timers and calls that satisfy    *)
(* the assumptions: a loop that gives up has asked whatever it reports,    *)
(* and never reports a service that was settled when it began; its clock   *)
(* stays within its timeout and nothing sets it back.                      *)
(***************************************************************************)
EXTENDS AppQuit, StopSweepProofs, TLAPS

\* The record of a connection that serves nothing is well formed.
LEMMA NoCallType == NoCall \in Call
BY QuitAssumption DEF NoCall, Call

\* The steps of perform_quit either leave the sweep alone or begin it anew.
LEMMA QuitKeeps ==
  ASSUME IInv, QuitStep
  PROVE  IInv'
<1> USE DEF IInv, TypeOK
<1>1. quit' \in {"idle", "marked", "unlinked", "sweeping", "gone"}
      /\ quitting' \in BOOLEAN /\ socket' \in BOOLEAN
      /\ call' \in [Calls -> Call] /\ clicks' \in 0..MaxClicks
  BY DEF QuitStep, MarkQuit, RemoveSocket, InstallAborted, Destroy, DestroyFails
<1>2. SweepIInv'
  <2>1. CASE UNCHANGED sweepVars
    BY <2>1, SweepUntouched
  <2>2. CASE InstallAborted
    <3>1. [Off EXCEPT !.phase = "looking", !.watched = Services] \in Loop
      BY DEF Off, Loop
    <3>2. /\ Quit \in Loops /\ UNCHANGED svc
          /\ loop' = [loop EXCEPT ![Quit] =
               [Off EXCEPT !.phase = "looking", !.watched = Services]]
      BY <2>2, QuitAssumption DEF InstallAborted, Begin
    <3> QED BY <3>1, <3>2, ResetKeeps DEF Off
  <2>3. CASE DestroyFails
    <3>1. Off \in Loop
      BY DEF Off, Loop
    <3> QED BY <2>3, <3>1, QuitAssumption, ResetKeeps DEF DestroyFails, Off
  <2> QED BY <2>1, <2>2, <2>3 DEF QuitStep, MarkQuit, RemoveSocket, Destroy
<1> QED BY <1>1, <1>2 DEF SweepIInv

\* A control call changes the services as the user does, through start and stop.
LEMMA CallKeeps ==
  ASSUME IInv, NEW c \in Calls, CallStep(c)
  PROVE  IInv'
<1> USE DEF IInv, TypeOK
<1>1. UNCHANGED <<quitVars, clicks>>
  BY DEF CallStep, Accept, Admit, StopHalf, StartHalf, GiveUp
<1>2. call' \in [Calls -> Call]
  <2>1. call[c] \in Call
    OBVIOUS
  <2>2. ASSUME NEW verb \in {"start", "restart"}, NEW s \in Services,
               Accept(c, verb, s)
        PROVE  call' \in [Calls -> Call]
    BY <2>2 DEF Accept, Call
  <2>3. CASE Admit(c) \/ StopHalf(c)
    BY <2>1, <2>3, NoCallType DEF Admit, StopHalf, Call
  <2>4. CASE StartHalf(c) \/ GiveUp(c)
    BY <2>4, NoCallType DEF StartHalf, GiveUp
  <2> QED BY <2>2, <2>3, <2>4 DEF CallStep
<1>3. SweepIInv'
  <2>1. call[c].service \in Services
    BY DEF Call
  <2>2. CASE UNCHANGED sweepVars
    BY <2>2, SweepUntouched
  <2>3. CASE StopHalf(c)
    BY <2>1, <2>3, AskedKeeps DEF StopHalf
  <2>4. CASE StartHalf(c)
    BY <2>1, <2>4, StartKeeps DEF StartHalf
  <2> QED BY <2>2, <2>3, <2>4 DEF CallStep, Accept, Admit, GiveUp
<1> QED BY <1>1, <1>2, <1>3 DEF quitVars, SweepIInv

\* Every step keeps the invariant of the quit.
LEMMA NextKeeps == IInv /\ [Next]_vars => IInv'
<1> SUFFICES ASSUME IInv, [Next]_vars PROVE IInv'
  OBVIOUS
<1>1. ASSUME SweepIInv', UNCHANGED <<quitVars, call>>, clicks' \in 0..MaxClicks
      PROVE  IInv'
  BY <1>1 DEF IInv, TypeOK, quitVars, SweepIInv
<1>2. ASSUME NEW l \in Loops, LoopMoves(l) PROVE IInv'
  <2>1. SweepIInv'
    BY <1>2, LookKeeps, AskKeeps, SleepKeeps DEF LoopMoves, LoopStep, IInv
  <2> QED BY <1>1, <1>2, <2>1 DEF LoopMoves, Undisturbed, IInv, TypeOK
<1>3. ASSUME NEW s \in Services, ServiceMoves(s) PROVE IInv'
  <2>1. SweepIInv'
    BY <1>3, ServiceKeeps DEF ServiceMoves, IInv
  <2> QED BY <1>1, <1>3, <2>1 DEF ServiceMoves, Undisturbed, IInv, TypeOK
<1>4. ASSUME NEW s \in Services, Click(s) PROVE IInv'
  <2>1. SweepIInv'
    BY <1>4, StartKeeps, AskedKeeps DEF Click, UserStarts, UserStops, IInv
  <2>2. clicks' \in 0..MaxClicks
    BY <1>4, QuitAssumption DEF Click, IInv, TypeOK
  <2> QED BY <1>1, <1>4, <2>1, <2>2 DEF Click, Undisturbed
<1>5. CASE TimePasses
  <2>1. SweepIInv' /\ clicks' \in 0..MaxClicks
    BY <1>5, TickKeeps, QuitAssumption DEF TimePasses, IInv
  <2> QED BY <1>1, <1>5, <2>1 DEF TimePasses, Undisturbed
<1>6. CASE UNCHANGED vars
  BY <1>6 DEF vars, IInv, TypeOK, SweepIInv, SweepTypeOK, Reports, WillBeAsked,
     OnTime, Reached, Pending, Timed, Limit
<1> QED BY <1>2, <1>3, <1>4, <1>5, <1>6, QuitKeeps, CallKeeps DEF Next

\* It holds when the app has started.
LEMMA InitHolds == Init => IInv
<1> SUFFICES ASSUME Init PROVE IInv
  OBVIOUS
<1>1. SweepIInv
  BY NoLoopHolds DEF Init, SweepInit
<1>2. TypeOK
  <2>1. call \in [Calls -> Call]
    BY NoCallType DEF Init
  <2>2. clicks \in 0..MaxClicks
    BY QuitAssumption DEF Init
  <2> QED BY <1>1, <2>1, <2>2 DEF Init, TypeOK, SweepIInv
<1> QED BY <1>1, <1>2 DEF IInv

\* The invariant that explains the sweep holds of every behaviour.
THEOREM QuitInductive == Spec => []IInv
BY InitHolds, NextKeeps, PTL DEF Spec

\* Whatever else is started and stopped, a loop never reports a service that
\* was past its readiness at the first look and has not been started since.
THEOREM SettledAreStopped == Spec => []SettledServicesStop
<1>1. IInv => SettledServicesStop
  BY DEF IInv, SweepIInv, Reports, SettledServicesStop
<1> QED BY <1>1, QuitInductive, PTL

\* A service a loop reports was asked to stop, unless it has been started since
\* the last look.
THEOREM NoForgottenStraggler == Spec => []StragglersWereAsked
<1>1. IInv => StragglersWereAsked
  <2> SUFFICES ASSUME IInv, NEW l \in Loops,
                      NEW s \in loop[l].stragglers \intersect loop[l].early,
                      loop[l].phase = "over"
               PROVE  svc[s].asked \/ ~Pending(s)
    BY DEF StragglersWereAsked
  <2>1. s \in Services
    BY DEF IInv, TypeOK, SweepTypeOK, Loop
  <2> QED BY <2>1 DEF IInv, SweepIInv, WillBeAsked, Reached
<1> QED BY <1>1, QuitInductive, PTL
-----------------------------------------------------------------------------
(* The deadline of a sweep, which QuitReturns rests on. *)

\* A loop's clock never runs past its timeout, and one that goes on to ask and
\* sleep has time left; the quit's own loop is there, and watches every service,
\* for as long as perform_quit awaits it.
DeadlineHolds ==
  /\ \A l \in Loops :
       /\ loop[l].elapsed <= Timeout[l]
       /\ loop[l].phase \in {"asking", "sleeping"} => loop[l].elapsed < Timeout[l]
  /\ quit = "sweeping" => loop[Quit].phase # "off" /\ loop[Quit].watched = Services

\* While perform_quit awaits it the loop's clock is not set back, whoever starts
\* services again, and a loop that is over stays so.
SweepGoesOn ==
  [][quit = "sweeping" /\ quit' = "sweeping" =>
       /\ loop'[Quit].elapsed >= loop[Quit].elapsed
       /\ loop[Quit].phase = "over" => loop'[Quit].phase = "over"]_vars

\* What a step does to a loop's clock, its phase and what it watches.
Turns(l, from, to) ==
  /\ loop[l].phase = from /\ loop'[l].phase = to
  /\ loop'[l].elapsed = loop[l].elapsed /\ loop'[l].watched = loop[l].watched

Wakes(l) ==
  /\ loop[l].phase = "sleeping" /\ loop'[l].phase = "looking"
  /\ loop'[l].elapsed = loop[l].elapsed + 1 /\ loop'[l].watched = loop[l].watched

Goes(l) ==
  \/ Turns(l, loop[l].phase, loop[l].phase)
  \/ Turns(l, "looking", "over")
  \/ Turns(l, "looking", "asking") /\ ~TimedOut(l)
  \/ Turns(l, "asking", "sleeping")
  \/ Wakes(l)

\* Only perform_quit begins a loop anew.
LEMMA StartGoes ==
  ASSUME SweepTypeOK, NEW s \in Services, Start(s), NEW l \in Loops
  PROVE  Goes(l)
<1>1. CASE UNCHANGED loop
  BY <1>1 DEF Goes, Turns
<1>2. CASE ~Pending(s)
  <2>1. loop'[l] = [loop[l] EXCEPT !.kept = @ \ {s}, !.settled = @ \ {s}, !.early = @ \ {s}]
    BY <1>2 DEF Start
  <2>2. loop[l] \in Loop
    BY DEF SweepTypeOK
  <2>3. Turns(l, loop[l].phase, loop[l].phase)
    BY <2>1, <2>2 DEF Loop, Turns
  <2>4. QED
    BY <2>3 DEF Goes
<1>3. QED
  BY <1>1, <1>2 DEF Start, sweepVars

LEMMA LookGoes ==
  ASSUME SweepTypeOK, NEW k \in Loops, Look(k), NEW l \in Loops
  PROVE  Goes(l)
<1>1. loop[k] \in Loop /\ loop \in [Loops -> Loop]
  BY DEF SweepTypeOK
<1>2. CASE l # k
  <2>1. loop'[l] = loop[l]
    BY <1>1, <1>2 DEF Look
  <2>2. QED
    BY <2>1 DEF Goes, Turns
<1>3. ASSUME NEW stragglers, loop'[k] = Finish(k, stragglers)
      PROVE  Turns(k, "looking", "over")
  <2>1. loop[k].phase = "looking"
    BY DEF Look
  <2>2. QED
    BY <1>1, <1>3, <2>1 DEF Finish, Loop, Turns
<1>4. ASSUME loop'[k] = Observed(k) PROVE Turns(k, "looking", "asking")
  <2>1. loop[k].phase = "looking"
    BY DEF Look
  <2>2. /\ Observed(k).phase = "asking" /\ Observed(k).elapsed = loop[k].elapsed
        /\ Observed(k).watched = loop[k].watched
    BY <1>1 DEF Observed, Loop
  <2>3. QED
    BY <1>4, <2>1, <2>2 DEF Turns
<1>5. \/ loop'[k] = Finish(k, {}) \/ loop'[k] = Finish(k, PendingFor(k))
      \/ loop'[k] = Observed(k) /\ ~TimedOut(k)
  BY <1>1 DEF Look
<1>6. QED
  BY <1>2, <1>3, <1>4, <1>5 DEF Goes

LEMMA OthersGo ==
  ASSUME IInv, [Next]_vars, ~InstallAborted, ~DestroyFails, NEW l \in Loops
  PROVE  Goes(l)
<1>0. SweepTypeOK /\ loop \in [Loops -> Loop] /\ loop[l] \in Loop
  BY DEF IInv, SweepIInv, SweepTypeOK
<1>1. ASSUME UNCHANGED loop PROVE Goes(l)
  BY <1>1 DEF Goes, Turns
<1>2. CASE QuitStep
  BY <1>1, <1>2 DEF QuitStep, MarkQuit, RemoveSocket, Destroy, sweepVars
<1>3. ASSUME NEW c \in Calls, CallStep(c) PROVE Goes(l)
  <2>1. call[c].service \in Services
    BY DEF IInv, TypeOK, Call
  <2>2. CASE StartHalf(c)
    BY <1>0, <2>1, <2>2, StartGoes DEF StartHalf
  <2>3. QED
    BY <1>1, <1>3, <2>2 DEF CallStep, Accept, Admit, StopHalf, GiveUp, sweepVars
<1>4. ASSUME NEW k \in Loops, LoopMoves(k) PROVE Goes(l)
  <2>1. CASE Look(k)
    BY <1>0, <2>1, LookGoes
  <2>2. CASE Sleep(k)
    <3>1. l = k => Turns(l, "asking", "sleeping")
      BY <1>0, <2>2 DEF Sleep, Loop, Turns
    <3>2. l # k => Turns(l, loop[l].phase, loop[l].phase)
      BY <1>0, <2>2 DEF Sleep, Turns
    <3>3. QED
      BY <3>1, <3>2 DEF Goes
  <2>3. ASSUME NEW s \in Services, Ask(k, s) PROVE Goes(l)
    <3>1. Turns(l, loop[l].phase, loop[l].phase)
      BY <1>0, <2>3 DEF Ask, Loop, Turns
    <3>2. QED
      BY <3>1 DEF Goes
  <2>4. QED
    BY <1>4, <2>1, <2>2, <2>3 DEF LoopMoves, LoopStep
<1>5. ASSUME NEW s \in Services, ServiceMoves(s) PROVE Goes(l)
  BY <1>1, <1>5
     DEF ServiceMoves, ServiceStep, BecomesReady, ProbeDeadline, ReceivesStop,
         ChildEnds, RunEnds, Moves
<1>6. ASSUME NEW s \in Services, Click(s) PROVE Goes(l)
  BY <1>0, <1>1, <1>6, StartGoes DEF Click, UserStarts, UserStops
<1>7. CASE TimePasses
  <2>1. loop[l].phase = "sleeping" => Wakes(l)
    BY <1>0, <1>7 DEF TimePasses, Tick, Loop, Wakes
  <2>2. loop[l].phase # "sleeping" => Turns(l, loop[l].phase, loop[l].phase)
    BY <1>0, <1>7 DEF TimePasses, Tick, Turns
  <2>3. QED
    BY <2>1, <2>2 DEF Goes
<1>8. CASE UNCHANGED vars
  BY <1>1, <1>8 DEF vars
<1>9. QED
  BY <1>2, <1>3, <1>4, <1>5, <1>6, <1>7, <1>8 DEF Next

\* The clock of a sweep stays within its timeout (stop_all_with).
THEOREM SweepKeepsDeadline == Spec => []DeadlineHolds
<1> USE QuitAssumption, SweepAssumption
<1>1. Init => DeadlineHolds
  BY DEF Init, SweepInit, Off, DeadlineHolds
<1>2. IInv /\ DeadlineHolds /\ [Next]_vars => DeadlineHolds'
  <2> SUFFICES ASSUME IInv, DeadlineHolds, [Next]_vars PROVE DeadlineHolds'
    OBVIOUS
  <2>0. loop \in [Loops -> Loop]
    BY DEF IInv, SweepIInv, SweepTypeOK
  <2>1. ASSUME NEW new, loop' = [loop EXCEPT ![Quit] = new],
               new.elapsed = 0, new.phase \in {"off", "looking"},
               quit' = "sweeping" => new.phase = "looking" /\ new.watched = Services
        PROVE  DeadlineHolds'
    <3>1. loop'[Quit] = new /\ \A l \in Loops : l # Quit => loop'[l] = loop[l]
      BY <2>0, <2>1
    <3>2. 0 <= Timeout[Quit]
      OBVIOUS
    <3>3. ASSUME NEW l \in Loops
          PROVE  /\ loop'[l].elapsed <= Timeout[l]
                 /\ loop'[l].phase \in {"asking", "sleeping"} =>
                      loop'[l].elapsed < Timeout[l]
      BY <2>1, <3>1, <3>2 DEF DeadlineHolds
    <3>4. QED
      BY <2>1, <3>1, <3>3 DEF DeadlineHolds
  <2>2. CASE InstallAborted
    <3> DEFINE new == [Off EXCEPT !.phase = "looking", !.watched = Services]
    <3>1. new.elapsed = 0 /\ new.phase = "looking" /\ new.watched = Services
      BY DEF Off
    <3>2. loop' = [loop EXCEPT ![Quit] = new]
      BY <2>2 DEF InstallAborted, Begin
    <3> HIDE DEF new
    <3>3. QED
      BY <2>1, <3>1, <3>2
  <2>3. CASE DestroyFails
    <3>1. loop' = [loop EXCEPT ![Quit] = Off] /\ quit' = "idle"
      BY <2>3 DEF DestroyFails
    <3>2. Off.elapsed = 0 /\ Off.phase = "off"
      BY DEF Off
    <3>3. QED
      BY <2>1, <3>1, <3>2
  <2>4. CASE ~InstallAborted /\ ~DestroyFails
    <3>1. ASSUME NEW l \in Loops
          PROVE  /\ loop'[l].elapsed <= Timeout[l]
                 /\ loop'[l].phase \in {"asking", "sleeping"} =>
                      loop'[l].elapsed < Timeout[l]
      <4>1. Goes(l) /\ loop[l].elapsed \in Nat /\ Timeout[l] \in Nat
        BY <2>0, <2>4, OthersGo DEF Loop
      <4>2. /\ loop[l].elapsed <= Timeout[l]
            /\ loop[l].phase \in {"asking", "sleeping"} => loop[l].elapsed < Timeout[l]
        BY DEF DeadlineHolds
      <4>3. QED
        BY <4>1, <4>2 DEF Goes, Turns, Wakes, TimedOut
    <3>2. quit' = "sweeping" => quit = "sweeping"
      BY <2>4
         DEF Next, vars, QuitStep, MarkQuit, RemoveSocket, Destroy, CallStep, Accept,
             Admit, StopHalf, StartHalf, GiveUp, quitVars, LoopMoves, ServiceMoves,
             Click, TimePasses, Undisturbed
    <3>3. quit' = "sweeping" => loop'[Quit].phase # "off" /\ loop'[Quit].watched = Services
      <4>1. quit = "sweeping" => Goes(Quit)
        BY <2>4, OthersGo
      <4>2. QED
        BY <3>2, <4>1 DEF DeadlineHolds, Goes, Turns, Wakes
    <3>4. QED
      BY <3>1, <3>3 DEF DeadlineHolds
  <2>5. QED
    BY <2>2, <2>3, <2>4
<1>3. QED
  BY <1>1, <1>2, QuitInductive, PTL DEF Spec

\* Nothing sets the quit's clock back or revives its loop while it is awaited.
THEOREM SweepIsNotProlonged == Spec => SweepGoesOn
<1>1. ASSUME IInv, [Next]_vars, quit = "sweeping", quit' = "sweeping"
      PROVE  /\ loop'[Quit].elapsed >= loop[Quit].elapsed
             /\ loop[Quit].phase = "over" => loop'[Quit].phase = "over"
  <2>1. ~InstallAborted /\ ~DestroyFails
    BY <1>1 DEF InstallAborted, DestroyFails
  <2>2. loop[Quit].elapsed \in Nat
    BY <1>1, QuitAssumption DEF IInv, SweepIInv, SweepTypeOK, Loop
  <2>3. Goes(Quit)
    BY <1>1, <2>1, OthersGo, QuitAssumption
  <2>4. QED
    BY <2>2, <2>3 DEF Goes, Turns, Wakes
<1>2. QED
  BY <1>1, QuitInductive, PTL DEF Spec, SweepGoesOn

=============================================================================
