---------------------------- MODULE StopSweepProofs ----------------------------
(***************************************************************************)
(* Lemmas about the stop loop, for any services, timers and loops that     *)
(* satisfy the assumptions: every step of a loop, of a service, of time    *)
(* and of a caller keeps SweepIInv.  The proofs about the quit and about   *)
(* an Apply rest on them.                                                  *)
(***************************************************************************)
EXTENDS StopSweep, TLAPS

\* A timed stage has a length.
LEMMA LimitType ==
  ASSUME SweepTypeOK, NEW s \in Services, Timed(s)
  PROVE  Limit(s) \in Nat
BY SweepAssumption DEF SweepTypeOK, Timed, Limit

\* Starting a service: it leaves the histories of every loop.
LEMMA StartKeeps ==
  ASSUME SweepIInv, NEW s \in Services, Start(s)
  PROVE  SweepIInv'
<1>1. CASE Pending(s)
  BY <1>1 DEF Start, sweepVars, SweepIInv, SweepTypeOK, Reports, WillBeAsked,
     OnTime, Reached, Pending, Timed, Limit
<1>2. CASE ~Pending(s)
  <2>1. /\ svc' = [svc EXCEPT ![s] = [stage |-> "starting", age |-> 0, asked |-> FALSE]]
        /\ loop' = [l \in Loops |-> [loop[l] EXCEPT !.kept = @ \ {s},
                                       !.settled = @ \ {s}, !.early = @ \ {s}]]
    BY <1>2 DEF Start, Down
  <2>2. SweepTypeOK'
    <3>1. svc' \in [Services -> Run]
      BY <2>1 DEF SweepIInv, SweepTypeOK, Run, Stages
    <3>2. loop' \in [Loops -> Loop]
      <4>1. ASSUME NEW l \in Loops
            PROVE  [loop[l] EXCEPT !.kept = @ \ {s}, !.settled = @ \ {s}, !.early = @ \ {s}] \in Loop
        BY DEF SweepIInv, SweepTypeOK, Loop
      <4> QED BY <2>1, <4>1
    <3>3. ASSUME NEW r \in Services, Timed(r)' PROVE (svc[r].age <= Limit(r))'
      <4>1. CASE r = s
        <5>1. svc'[r].age = 0 /\ svc'[r].stage = "starting"
          BY <2>1, <4>1 DEF SweepIInv, SweepTypeOK
        <5> QED BY <5>1, SweepAssumption DEF Limit
      <4>2. CASE r # s
        <5>1. svc'[r] = svc[r]
          BY <2>1, <4>2 DEF SweepIInv, SweepTypeOK
        <5> QED BY <3>3, <5>1 DEF SweepIInv, SweepTypeOK, Timed, Limit
      <4> QED BY <4>1, <4>2
    <3> QED BY <3>1, <3>2, <3>3 DEF SweepTypeOK
  <2>3. ASSUME NEW l \in Loops PROVE Reports(l)'
    BY <2>1 DEF SweepIInv, SweepTypeOK, Reports, Loop
  <2>4. ASSUME NEW l \in Loops, NEW r \in Services
        PROVE  WillBeAsked(l, r)' /\ OnTime(l, r)'
    <3>1. CASE r = s
      BY <2>1, <3>1 DEF SweepIInv, SweepTypeOK, WillBeAsked, OnTime, Loop
    <3>2. CASE r # s
      BY <2>1, <3>2 DEF SweepIInv, SweepTypeOK, WillBeAsked, OnTime, Reached,
         Pending, Loop
    <3> QED BY <3>1, <3>2
  <2> QED BY <2>2, <2>3, <2>4 DEF SweepIInv
<1> QED BY <1>1, <1>2

\* Asking a service to stop changes no stage and no age.
LEMMA AskedKeeps ==
  ASSUME SweepIInv, NEW s \in Services, svc' = Asked(s), UNCHANGED loop
  PROVE  SweepIInv'
<1>1. svc' \in [Services -> Run]
  BY DEF SweepIInv, SweepTypeOK, Asked, Run
<1>2. ASSUME NEW r \in Services
      PROVE  /\ svc'[r].stage = svc[r].stage /\ svc'[r].age = svc[r].age
             /\ svc[r].asked => svc'[r].asked
  BY DEF SweepIInv, SweepTypeOK, Asked, Run
<1>3. SweepTypeOK'
  BY <1>1, <1>2 DEF SweepIInv, SweepTypeOK, Timed, Limit
<1>4. ASSUME NEW l \in Loops PROVE Reports(l)'
  BY DEF SweepIInv, Reports
<1>5. ASSUME NEW l \in Loops, NEW r \in Services
      PROVE  WillBeAsked(l, r)' /\ OnTime(l, r)'
  BY <1>2 DEF SweepIInv, WillBeAsked, OnTime, Reached, Pending
<1> QED BY <1>3, <1>4, <1>5 DEF SweepIInv

\* A run moves on: its timer is restarted.
LEMMA MovesKeepType ==
  ASSUME SweepTypeOK, NEW s \in Services, NEW stage \in Stages, Moves(s, stage)
  PROVE  SweepTypeOK'
<1>1. svc' \in [Services -> Run]
  BY DEF SweepTypeOK, Moves, Run
<1>2. ASSUME NEW r \in Services, Timed(r)' PROVE (svc[r].age <= Limit(r))'
  <2>1. CASE r = s
    <3>1. svc'[r].age = 0
      BY <2>1 DEF SweepTypeOK, Moves, Run
    <3> QED BY <1>2, <3>1, SweepAssumption DEF Timed, Limit
  <2>2. CASE r # s
    <3>1. svc'[r] = svc[r]
      BY <2>2 DEF SweepTypeOK, Moves
    <3> QED BY <1>2, <3>1 DEF SweepTypeOK, Timed, Limit
  <2> QED BY <2>1, <2>2
<1>3. loop' \in [Loops -> Loop]
  BY DEF SweepTypeOK, Moves
<1> QED BY <1>1, <1>2, <1>3 DEF SweepTypeOK, Timed, Limit

\* A service's own step keeps the invariant of the loops.
LEMMA ServiceKeeps ==
  ASSUME SweepIInv, NEW s \in Services, ServiceStep(s)
  PROVE  SweepIInv'
<1>1. UNCHANGED loop
  BY DEF ServiceStep, BecomesReady, ProbeDeadline, ReceivesStop, ChildEnds,
     RunEnds, Moves
<1>2. ASSUME NEW r \in Services, r # s PROVE svc'[r] = svc[r]
  BY <1>2 DEF ServiceStep, BecomesReady, ProbeDeadline, ReceivesStop, ChildEnds,
     RunEnds, Moves, SweepIInv, SweepTypeOK
<1>3. SweepTypeOK'
  <2>1. CASE \E stage \in Stages : Moves(s, stage)
    BY <2>1, MovesKeepType DEF SweepIInv
  <2>2. CASE RunEnds(s)
    <3>1. svc' \in [Services -> Run]
      BY <2>2 DEF RunEnds, Down, SweepIInv, SweepTypeOK, Run, Stages
    <3>2. ASSUME NEW r \in Services, Timed(r)' PROVE (svc[r].age <= Limit(r))'
      BY <2>2, <3>2 DEF RunEnds, Down, SweepIInv, SweepTypeOK, Timed, Limit
    <3> QED BY <1>1, <3>1, <3>2 DEF SweepIInv, SweepTypeOK
  <2> QED BY <2>1, <2>2 DEF ServiceStep, BecomesReady, ProbeDeadline,
          ReceivesStop, ChildEnds, Stages
<1>4. ASSUME NEW l \in Loops PROVE Reports(l)'
  BY <1>1 DEF SweepIInv, Reports
<1>5. ASSUME NEW l \in Loops, NEW r \in Services
      PROVE  WillBeAsked(l, r)' /\ OnTime(l, r)'
  <2>1. CASE r # s
    BY <1>1, <1>2, <2>1 DEF SweepIInv, WillBeAsked, OnTime, Reached, Pending
  <2>2. CASE r = s
    <3>1. svc'[s].asked = svc[s].asked \/ ~Pending(s)'
      BY DEF ServiceStep, BecomesReady, ProbeDeadline, ReceivesStop, ChildEnds,
         RunEnds, Moves, SweepIInv, SweepTypeOK, Run, Pending, Down
    <3>2. Pending(s)' => Pending(s)
      BY DEF ServiceStep, BecomesReady, ProbeDeadline, ReceivesStop, ChildEnds,
         RunEnds, Moves, SweepIInv, SweepTypeOK, Run, Pending, Down
    <3>3. WillBeAsked(l, s)'
      BY <1>1, <3>1, <3>2 DEF SweepIInv, WillBeAsked, Reached
    <3>4. OnTime(l, s)'
      <4> SUFFICES ASSUME s \in loop[l].settled PROVE OnTime(l, s)'
        BY <1>1 DEF OnTime
      <4>1. svc[s].stage # "starting" /\ svc[s] \in Run /\ loop[l].elapsed \in Nat
        BY DEF SweepIInv, SweepTypeOK, OnTime, Loop
      <4>2. CASE ReceivesStop(s)
        <5>1. svc'[s].stage = "terminating" /\ svc'[s].age = 0 /\ loop[l].elapsed = 0
          BY <4>2 DEF ReceivesStop, Moves, SweepIInv, SweepTypeOK, Run, OnTime
        <5> QED BY <1>1, <5>1 DEF OnTime
      <4>3. CASE ChildEnds(s)
        <5>1. svc'[s].stage = "draining" /\ svc'[s].age = 0
          BY <4>3 DEF ChildEnds, Moves, SweepIInv, SweepTypeOK, Run
        <5>2. loop[l].elapsed <= Grace[s]
          <6>1. CASE svc[s].stage = "running"
            BY <6>1, SweepAssumption DEF SweepIInv, OnTime
          <6>2. CASE svc[s].stage = "terminating"
            <7>1. svc[s].age <= Grace[s]
              BY <6>2 DEF SweepIInv, SweepTypeOK, Timed, Limit
            <7> QED BY <4>1, <6>2, <7>1, SweepAssumption DEF SweepIInv, OnTime, Run
          <6> QED BY <4>1, <4>3, <6>1, <6>2 DEF ChildEnds
        <5> QED BY <1>1, <5>1, <5>2, <4>1, SweepAssumption DEF OnTime
      <4>4. CASE RunEnds(s)
        BY <4>4 DEF RunEnds, Down, SweepIInv, SweepTypeOK, OnTime
      <4> QED BY <4>1, <4>2, <4>3, <4>4 DEF ServiceStep, BecomesReady, ProbeDeadline
    <3> QED BY <2>2, <3>3, <3>4
  <2> QED BY <2>1, <2>2
<1> QED BY <1>3, <1>4, <1>5 DEF SweepIInv

\* A look that finds nothing pending, gives up, or asks again.  Giving up, the
\* loop's own clock has left no room for a settled service to be pending.
LEMMA LookKeeps ==
  ASSUME SweepIInv, NEW l \in Loops, Look(l)
  PROVE  SweepIInv'
<1>1. svc' = svc /\ \A k \in Loops : k # l => loop'[k] = loop[k]
  BY DEF Look, SweepIInv, SweepTypeOK
<1>2. loop[l] \in Loop /\ loop[l].phase = "looking" /\ loop[l].stragglers = {}
  BY DEF Look, SweepIInv, SweepTypeOK, Reports
<1>3. loop'[l] \in {Finish(l, {}), Finish(l, PendingFor(l)), Observed(l)}
  BY DEF Look, SweepIInv, SweepTypeOK
<1>4. SweepTypeOK'
  <2>1. PendingFor(l) \in SUBSET Services
    BY <1>2 DEF PendingFor, Loop
  <2>2. Finish(l, {}) \in Loop /\ Finish(l, PendingFor(l)) \in Loop
    BY <1>2, <2>1 DEF Finish, Loop
  <2>3. Observed(l) \in Loop
    BY <1>2, <2>1 DEF Observed, Loop
  <2>4. loop' \in [Loops -> Loop]
    BY <1>3, <2>2, <2>3 DEF Look, SweepIInv, SweepTypeOK
  <2> QED BY <1>1, <2>4 DEF SweepIInv, SweepTypeOK, Timed, Limit
<1>5. ASSUME NEW k \in Loops, k # l
      PROVE  /\ Reports(k)'
             /\ \A s \in Services : WillBeAsked(k, s)' /\ OnTime(k, s)'
  BY <1>1, <1>5 DEF SweepIInv, Reports, WillBeAsked, OnTime, Reached, Pending
<1>6. CASE loop'[l] = Observed(l)
  <2>1. /\ loop'[l].phase = "asking" /\ loop'[l].stragglers = {}
        /\ loop'[l].todo = PendingFor(l) /\ loop'[l].early = PendingFor(l)
        /\ loop'[l].elapsed = loop[l].elapsed
        /\ \/ loop[l].elapsed # 0 /\ loop'[l].settled = loop[l].settled
           \/ /\ loop[l].elapsed = 0
              /\ loop'[l].settled = {s \in PendingFor(l) : svc[s].stage # "starting"}
    BY <1>2, <1>6 DEF Observed, Loop
  <2>2. Reports(l)'
    BY <2>1 DEF Reports
  <2>3. ASSUME NEW s \in Services PROVE WillBeAsked(l, s)'
    BY <2>1, <1>1 DEF WillBeAsked, Reached
  <2>4. ASSUME NEW s \in Services PROVE OnTime(l, s)'
    <3>1. CASE loop[l].elapsed # 0 /\ loop'[l].settled = loop[l].settled
      BY <1>1, <2>1, <3>1 DEF SweepIInv, OnTime
    <3>2. CASE /\ loop[l].elapsed = 0
               /\ loop'[l].settled = {q \in PendingFor(l) : svc[q].stage # "starting"}
      <4>1. svc[s].age \in Nat /\ Grace[s] \in Nat
        BY SweepAssumption DEF SweepIInv, SweepTypeOK, Run
      <4>2. 0 <= svc[s].age /\ 0 <= Grace[s] + svc[s].age
        BY <4>1
      <4>3. s \in loop'[l].settled => s \in loop'[l].todo /\ svc[s].stage # "starting"
        BY <2>1, <3>2
      <4> QED BY <1>1, <2>1, <3>2, <4>2, <4>3 DEF OnTime, Reached
    <3> QED BY <2>1, <3>1, <3>2
  <2> QED BY <1>4, <1>5, <2>2, <2>3, <2>4 DEF SweepIInv
<1>7. CASE \/ loop'[l] = Finish(l, {})
           \/ TimedOut(l) /\ loop'[l] = Finish(l, PendingFor(l))
  <2>1. /\ loop'[l].phase = "over" /\ loop'[l].elapsed = loop[l].elapsed
        /\ loop'[l].settled = loop[l].settled /\ loop'[l].early = loop[l].early
        /\ loop'[l].stragglers \in {{}, PendingFor(l)}
        /\ loop'[l].stragglers # {} => TimedOut(l)
    BY <1>2, <1>7 DEF Finish, Loop
  <2>2. ASSUME NEW s \in Services PROVE WillBeAsked(l, s)' /\ OnTime(l, s)'
    BY <1>1, <1>2, <2>1 DEF SweepIInv, WillBeAsked, OnTime, Reached, Pending
  <2>3. ASSUME TimedOut(l), NEW s \in loop[l].settled PROVE ~Pending(s)
    <3>1. /\ s \in Services /\ svc[s] \in Run /\ loop[l].elapsed \in Nat
          /\ Grace[s] \in Nat /\ Drain \in Nat /\ Timeout[l] \in Nat
      BY <1>2, SweepAssumption DEF SweepIInv, SweepTypeOK, Loop
    <3>2. Grace[s] + Drain < Timeout[l] /\ loop[l].elapsed >= Timeout[l]
      BY <2>3, <3>1, BudgetAssumption DEF TimedOut
    <3>3. OnTime(l, s) /\ (Timed(s) => svc[s].age <= Limit(s))
      BY <3>1 DEF SweepIInv, SweepTypeOK
    <3>4. svc[s].stage # "running"
      BY <3>1, <3>2, <3>3 DEF OnTime
    <3>5. svc[s].stage # "terminating"
      <4> SUFFICES ASSUME svc[s].stage = "terminating" PROVE FALSE
        OBVIOUS
      <4>1. svc[s].age <= Grace[s] /\ loop[l].elapsed <= svc[s].age
        BY <3>3 DEF OnTime, Timed, Limit
      <4>2. svc[s].age \in Nat
        BY <3>1 DEF Run
      <4> QED BY <3>1, <3>2, <4>1, <4>2
    <3>6. svc[s].stage # "draining"
      <4> SUFFICES ASSUME svc[s].stage = "draining" PROVE FALSE
        OBVIOUS
      <4>1. svc[s].age <= Drain /\ loop[l].elapsed <= Grace[s] + svc[s].age
        BY <3>3 DEF OnTime, Timed, Limit
      <4>2. svc[s].age \in Nat
        BY <3>1 DEF Run
      <4> QED BY <3>1, <3>2, <4>1, <4>2
    <3> QED BY <3>1, <3>3, <3>4, <3>5, <3>6 DEF Run, Stages, OnTime, Pending
  <2>4. Reports(l)'
    BY <2>1, <2>3 DEF Reports, PendingFor
  <2> QED BY <1>4, <1>5, <2>2, <2>4 DEF SweepIInv
<1> QED BY <1>6, <1>7 DEF Look, SweepIInv, SweepTypeOK

\* Asking one of the services the look found, and falling asleep after the last.
LEMMA AskKeeps ==
  ASSUME SweepIInv, NEW l \in Loops, NEW s \in Services, Ask(l, s)
  PROVE  SweepIInv'
<1>1. svc' \in [Services -> Run]
  BY DEF SweepIInv, SweepTypeOK, Ask, Asked, Run
<1>2. ASSUME NEW r \in Services
      PROVE  /\ svc'[r].stage = svc[r].stage /\ svc'[r].age = svc[r].age
             /\ svc[r].asked => svc'[r].asked
             /\ r = s /\ Pending(s) => svc'[r].asked
  BY DEF SweepIInv, SweepTypeOK, Ask, Asked, Run
<1>3. /\ loop' \in [Loops -> Loop]
      /\ \A k \in Loops : k # l => loop'[k] = loop[k]
      /\ loop'[l].phase = loop[l].phase /\ loop'[l].elapsed = loop[l].elapsed
      /\ loop'[l].stragglers = loop[l].stragglers
      /\ loop'[l].settled = loop[l].settled /\ loop'[l].early = loop[l].early
      /\ loop'[l].todo = loop[l].todo \ {s}
  <2>1. loop[l] \in Loop /\ loop' = [loop EXCEPT ![l].todo = loop[l].todo \ {s}]
    BY DEF SweepIInv, SweepTypeOK, Ask
  <2>2. [loop[l] EXCEPT !.todo = loop[l].todo \ {s}] \in Loop
    BY <2>1 DEF Loop
  <2>3. /\ loop' \in [Loops -> Loop]
        /\ \A k \in Loops : k # l => loop'[k] = loop[k]
        /\ loop'[l] = [loop[l] EXCEPT !.todo = loop[l].todo \ {s}]
    BY <2>1, <2>2 DEF SweepIInv, SweepTypeOK
  <2> QED BY <2>1, <2>3 DEF Loop
<1>4. SweepTypeOK'
  BY <1>1, <1>2, <1>3 DEF SweepIInv, SweepTypeOK, Timed, Limit
<1>5. ASSUME NEW k \in Loops PROVE Reports(k)'
  BY <1>3 DEF SweepIInv, Reports
<1>6. ASSUME NEW k \in Loops, NEW r \in Services
      PROVE  WillBeAsked(k, r)' /\ OnTime(k, r)'
  <2>1. Reached(k, r) /\ Pending(r) => Reached(k, r)'
    BY <1>2, <1>3 DEF Reached
  <2>2. /\ loop'[k].settled = loop[k].settled /\ loop'[k].early = loop[k].early
        /\ loop'[k].elapsed = loop[k].elapsed
    BY <1>3
  <2> QED BY <1>2, <2>1, <2>2 DEF SweepIInv, WillBeAsked, OnTime, Pending
<1> QED BY <1>4, <1>5, <1>6 DEF SweepIInv

\* A loop that has asked everybody and goes to sleep keeps it.
LEMMA SleepKeeps ==
  ASSUME SweepIInv, NEW l \in Loops, Sleep(l)
  PROVE  SweepIInv'
<1>1. /\ loop' \in [Loops -> Loop] /\ svc' = svc
      /\ \A k \in Loops : k # l => loop'[k] = loop[k]
      /\ loop'[l].phase = "sleeping" /\ loop[l].phase = "asking"
      /\ loop[l].todo = {} /\ loop'[l].elapsed = loop[l].elapsed
      /\ loop'[l].stragglers = loop[l].stragglers
      /\ loop'[l].settled = loop[l].settled /\ loop'[l].early = loop[l].early
  BY DEF SweepIInv, SweepTypeOK, Sleep, Loop
<1>2. SweepTypeOK'
  BY <1>1 DEF SweepIInv, SweepTypeOK, Timed, Limit
<1>3. ASSUME NEW k \in Loops PROVE Reports(k)'
  BY <1>1 DEF SweepIInv, Reports
<1>4. ASSUME NEW k \in Loops, NEW r \in Services
      PROVE  WillBeAsked(k, r)' /\ OnTime(k, r)'
  BY <1>1 DEF SweepIInv, WillBeAsked, OnTime, Reached, Pending
<1> QED BY <1>2, <1>3, <1>4 DEF SweepIInv

\* A loop begins, or is forgotten: it has observed nothing.
LEMMA ResetKeeps ==
  ASSUME SweepIInv, UNCHANGED svc, NEW l \in Loops, NEW new \in Loop,
         loop' = [loop EXCEPT ![l] = new],
         new.stragglers = {}, new.settled = {}, new.early = {}
  PROVE  SweepIInv'
<1>1. SweepTypeOK'
  BY DEF SweepIInv, SweepTypeOK, Timed, Limit
<1>2. ASSUME NEW k \in Loops PROVE Reports(k)'
  BY DEF SweepIInv, SweepTypeOK, Reports
<1>3. ASSUME NEW k \in Loops, NEW r \in Services
      PROVE  WillBeAsked(k, r)' /\ OnTime(k, r)'
  BY DEF SweepIInv, SweepTypeOK, WillBeAsked, OnTime, Reached, Pending
<1> QED BY <1>1, <1>2, <1>3 DEF SweepIInv

\* A tick: a loop's clock never advances more than the timers of the services.
LEMMA TickKeeps ==
  ASSUME SweepIInv, Tick
  PROVE  SweepIInv'
<1>1. ASSUME NEW s \in Services
      PROVE  /\ svc'[s] = IF Timed(s) THEN [svc[s] EXCEPT !.age = @ + 1] ELSE svc[s]
             /\ svc[s] \in Run /\ ~Expired(s)
             /\ ~(svc[s].stage = "running" /\ svc[s].asked)
  BY DEF SweepIInv, SweepTypeOK, Tick, Urgent
<1>2. ASSUME NEW s \in Services
      PROVE  /\ svc'[s] \in Run
             /\ svc'[s].stage = svc[s].stage /\ svc'[s].asked = svc[s].asked
             /\ svc'[s].age = IF Timed(s) THEN svc[s].age + 1 ELSE svc[s].age
  <2>1. CASE Timed(s)
    <3>1. svc'[s] = [svc[s] EXCEPT !.age = svc[s].age + 1]
      BY <1>1, <2>1
    <3>2. svc[s] \in Run
      BY DEF SweepIInv, SweepTypeOK
    <3>3. svc[s].age + 1 \in Nat
      BY <3>2 DEF Run
    <3> QED BY <2>1, <3>1, <3>2, <3>3 DEF Run
  <2>2. CASE ~Timed(s)
    BY <1>1, <2>2 DEF Run
  <2> QED BY <2>1, <2>2
<1>3. ASSUME NEW l \in Loops
      PROVE  /\ loop'[l] \in Loop /\ loop[l] \in Loop
             /\ loop[l].phase \notin {"looking", "asking"}
             /\ loop'[l].phase = "over" => loop[l].phase = "over"
             /\ loop'[l].stragglers = loop[l].stragglers
             /\ loop'[l].settled = loop[l].settled /\ loop'[l].early = loop[l].early
             /\ loop'[l].elapsed \in {loop[l].elapsed, loop[l].elapsed + 1}
             /\ loop[l].phase = "over" => loop'[l].phase = "over"
  <2>1. loop[l] \in Loop /\ loop[l].phase \notin {"looking", "asking"}
    BY DEF SweepIInv, SweepTypeOK, Tick, Urgent
  <2>2. CASE loop[l].phase = "sleeping"
    <3>1. loop'[l] = [loop[l] EXCEPT !.phase = "looking", !.elapsed = @ + 1]
      BY <2>2 DEF Tick
    <3>2. loop[l].elapsed + 1 \in Nat
      BY <2>1 DEF Loop
    <3>3. loop'[l] = [loop[l] EXCEPT !.phase = "looking", !.elapsed = loop[l].elapsed + 1]
      BY <3>1
    <3> QED BY <2>1, <2>2, <3>2, <3>3 DEF Loop
  <2>3. CASE loop[l].phase # "sleeping"
    <3>1. loop'[l] = loop[l]
      BY <2>3 DEF Tick
    <3> QED BY <2>1, <2>3, <3>1 DEF Loop
  <2> QED BY <2>2, <2>3
<1>4. SweepTypeOK'
  <2>1. svc' \in [Services -> Run] /\ loop' \in [Loops -> Loop]
    BY <1>2, <1>3 DEF Tick
  <2>2. ASSUME NEW s \in Services, Timed(s)' PROVE (svc[s].age <= Limit(s))'
    <3>1. Timed(s) /\ Limit(s)' = Limit(s)
      BY <1>2, <2>2 DEF Timed, Limit
    <3>2. Limit(s) \in Nat /\ svc[s].age \in Nat /\ ~(svc[s].age >= Limit(s))
      BY <1>1, <3>1, LimitType DEF SweepIInv, Expired, Run
    <3> QED BY <1>2, <3>1, <3>2
  <2> QED BY <2>1, <2>2 DEF SweepTypeOK
<1>5. ASSUME NEW l \in Loops PROVE Reports(l)'
  BY <1>3 DEF SweepIInv, Reports
<1>6. ASSUME NEW l \in Loops, NEW s \in Services PROVE WillBeAsked(l, s)'
  BY <1>2, <1>3 DEF SweepIInv, WillBeAsked, Reached, Pending
<1>7. ASSUME NEW l \in Loops, NEW s \in Services PROVE OnTime(l, s)'
  <2> SUFFICES ASSUME s \in loop[l].settled PROVE OnTime(l, s)'
    BY <1>3 DEF OnTime
  <2>1. OnTime(l, s) /\ svc[s].stage # "running"
    BY <1>1, <1>3 DEF SweepIInv, OnTime, Reached
  <2>2. /\ loop[l].elapsed \in Nat /\ svc[s].age \in Nat /\ Grace[s] \in Nat
    BY <1>1, <1>3, SweepAssumption DEF Run, Loop
  <2>3. svc[s].stage = "terminating" => loop'[l].elapsed <= svc'[s].age
    BY <1>2, <1>3, <2>1, <2>2 DEF OnTime, Timed
  <2>4. svc[s].stage = "draining" => loop'[l].elapsed <= Grace[s] + svc'[s].age
    BY <1>2, <1>3, <2>1, <2>2 DEF OnTime, Timed
  <2> QED BY <1>2, <2>1, <2>3, <2>4 DEF OnTime
<1> QED BY <1>4, <1>5, <1>6, <1>7 DEF SweepIInv

\* With no loop under way the invariant is about the services only.
LEMMA NoLoopHolds ==
  ASSUME svc \in [Services -> {Down, [Down EXCEPT !.stage = "running"]}],
         loop = [l \in Loops |-> Off]
  PROVE  SweepIInv
<1>1. SweepTypeOK
  <2>1. Down \in Run /\ [Down EXCEPT !.stage = "running"] \in Run /\ Off \in Loop
    BY DEF Down, Run, Stages, Off, Loop
  <2>2. svc \in [Services -> Run] /\ loop \in [Loops -> Loop]
    BY <2>1
  <2>3. ASSUME NEW s \in Services PROVE ~Timed(s)
    BY DEF Down, Timed
  <2> QED BY <2>2, <2>3 DEF SweepTypeOK
<1>2. \A l \in Loops : loop[l] = Off
  OBVIOUS
<1> QED BY <1>1, <1>2 DEF SweepIInv, Off, Reports, WillBeAsked, OnTime

\* A crash of the app takes every run and every loop with it.
LEMMA AllDownHolds ==
  ASSUME svc' = [s \in Services |-> Down], loop' = [l \in Loops |-> Off]
  PROVE  SweepIInv'
<1>1. Down \in Run /\ Off \in Loop
  BY DEF Down, Run, Stages, Off, Loop
<1>2. svc' \in [Services -> Run] /\ loop' \in [Loops -> Loop]
  BY <1>1
<1>3. ASSUME NEW s \in Services PROVE ~Timed(s)'
  BY DEF Down, Timed
<1>4. \A l \in Loops : loop'[l] = Off
  OBVIOUS
<1> QED BY <1>2, <1>3, <1>4 DEF SweepIInv, SweepTypeOK, Off, Reports, WillBeAsked, OnTime

\* A step that moves neither a service nor a loop keeps it.
LEMMA SweepUntouched ==
  ASSUME SweepIInv, UNCHANGED sweepVars
  PROVE  SweepIInv'
BY DEF sweepVars, SweepIInv, SweepTypeOK, Reports, WillBeAsked, OnTime, Reached,
   Pending, Timed, Limit
=============================================================================
