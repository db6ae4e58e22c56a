--------------------------- MODULE SupervisorProofs ---------------------------
(****************************************************************************)
(* Proofs about Supervisor, for any sets of services, runs and flags, about *)
(* its refinement of ServiceLifecycle and about ControlVerbs, for any calls *)
(* and any capacity of their receivers.                                     *)
(*                                                                          *)
(* The safety properties are not inductive by themselves.  IInv adds what   *)
(* ties an entry to the one run it is about: the sender and the flag of a   *)
(* non-terminal entry are those of exactly one run under way, and a run     *)
(* under way finds itself in its service's entry.  CInv adds what ties a    *)
(* call to the supervisor: what it waits for cannot pass without an event   *)
(* that it holds or that is still to come, and a restart knows the run it   *)
(* stopped.                                                                 *)
(*                                                                          *)
(* With the fairness of the specification a run that was asked to stop ends *)
(* and one that is starting comes up or ends.                               *)
(****************************************************************************)
EXTENDS ControlVerbs, LifecycleRefinement, SequenceTheorems, TLAPS

\* The points at which a task may have a living child.
Parenting == {"pid", "recording", "readiness", "ready", "announcingRunning",
              "running", "terminating", "killed"}

\* A finished run is nobody's; any other belongs to a service.
OwnedUnlessDone ==
  \A r \in Runs : /\ pc[r] = "done" => owner[r] = None /\ ~asked[r]
                  /\ pc[r] # "done" => owner[r] \in Services /\ flagOf[r] \in Flags

\* A run under way finds itself in the entry of its service.
EntryIsOfRun ==
  \A r \in Runs : UnderWay(r) =>
    /\ IsRegistered(owner[r])
    /\ ~IsTerminal(owner[r])
    /\ entries[owner[r]].control = r
    /\ entries[owner[r]].flag = flagOf[r]

\* A Starting or Running entry has a run under way.
RunOfEntry ==
  \A s \in Services : IsRegistered(s) /\ ~IsTerminal(s) =>
    /\ entries[s].control \in Runs
    /\ UnderWay(entries[s].control)
    /\ owner[entries[s].control] = s

FlagsUnshared ==
  \A s, t \in Services :
    IsRegistered(s) /\ IsRegistered(t) /\ entries[s].flag = entries[t].flag => s = t

FlagRemembersStop ==
  \A r \in Runs : UnderWay(r) => (asked[r] <=> stop_requested[flagOf[r]])

ChildHasTask ==
  \A r \in Runs : child[r] \in {"alive", "dying"} => pc[r] \in Parenting

RecordIsOfOwner ==
  \A s \in Services, r \in Runs : registry[s] = r /\ pc[r] # "done" => owner[r] = s

\* A terminal entry belongs to no run: set_state has dropped the sender.
NoRunWhenTerminal ==
  \A s \in Services :
    IsRegistered(s) /\ IsTerminal(s) => entries[s].control = None

\* The state an entry shows is the last one its run has written.
StateOfRun ==
  \A r \in Runs :
    /\ pc[r] \in Starting \union {"ready"} => entries[owner[r]].state = "Starting"
    /\ pc[r] \in {"announcingRunning", "running"} => entries[owner[r]].state = "Running"

\* A child exists from the spawn on, unless the spawn failed.
ChildOfRun ==
  \A r \in Runs :
    /\ pc[r] \in {"announcing", "spawning"} => child[r] = "none"
    /\ pc[r] \in Parenting => child[r] # "none"

\* What ties entries, runs, flags and records together.
Ties ==
  /\ OwnedUnlessDone
  /\ EntryIsOfRun
  /\ RunOfEntry
  /\ FlagsUnshared
  /\ FlagRemembersStop
  /\ ChildHasTask
  /\ RecordIsOfOwner
  /\ StopNotLost
  /\ NoRunWhenTerminal
  /\ StateOfRun
  /\ ChildOfRun

IInv == TypeOK /\ Ties

-----------------------------------------------------------------------------
\* The critical sections that write one entry leave a table of entries.
LEMMA EntryWrites ==
  ASSUME TypeOK, NEW s, NEW e \in Entry, entries' = [entries EXCEPT ![s] = e]
  PROVE  entries' \in [Services -> Entry \union {None}]
BY DEF TypeOK

\* The updates of an entry are entries.
LEMMA EntryFields ==
  ASSUME NEW e \in Entry
  PROVE  /\ \A state \in States : [e EXCEPT !.state = state] \in Entry
         /\ \A state \in States : [e EXCEPT !.state = state, !.pid = None,
                                            !.control = None] \in Entry
         /\ \A r \in Runs : [e EXCEPT !.pid = r] \in Entry
         /\ \A r \in Runs : [e EXCEPT !.state = "Starting", !.control = r] \in Entry
BY DEF Entry, States

\* set_state keeps the table of entries well formed.
LEMMA SetStateType ==
  ASSUME TypeOK, NEW s \in Services \union {None}, NEW state \in States,
         SetState(s, state)
  PROVE  entries' \in [Services -> Entry \union {None}]
<1>1. CASE IsRegistered(s) /\ s \in Services
  <2>1. entries[s] \in Entry
    BY <1>1 DEF TypeOK, IsRegistered
  <2>2. CASE state \in TerminalStates
    BY <1>1, <2>1, <2>2, EntryFields, EntryWrites DEF SetState
  <2>3. CASE state \notin TerminalStates
    BY <1>1, <2>1, <2>3, EntryFields, EntryWrites DEF SetState
  <2>4. QED
    BY <2>2, <2>3
<1>2. CASE ~(IsRegistered(s) /\ s \in Services)
  BY <1>2, SupervisorAssumption DEF SetState, TypeOK
<1>3. QED
  BY <1>1, <1>2

\* Every step keeps the types.
LEMMA TypeStep == TypeOK /\ [Next]_vars => TypeOK'
<1> SUFFICES ASSUME TypeOK, [Next]_vars PROVE TypeOK'
  OBVIOUS
<1> USE SupervisorAssumption DEF TypeOK
<1>1. ASSUME NEW s \in Services, NEW g \in Flags, Register(s, g) PROVE TypeOK'
  BY <1>1 DEF Register, Entry, States, TerminalStates
<1>2. ASSUME NEW s \in Services, Unregister(s) PROVE TypeOK'
  BY <1>2 DEF Unregister
<1>3. ASSUME NEW s \in Services, NEW r \in Runs, Start(s, r) PROVE TypeOK'
  <2>1. entries[s] \in Entry
    BY <1>3 DEF Start, IsRegistered
  <2>2. entries' = [entries EXCEPT ![s] =
                     [entries[s] EXCEPT !.state = "Starting", !.control = r]]
    BY <1>3 DEF Start
  <2>3. entries' \in [Services -> Entry \union {None}]
    BY <2>1, <2>2, EntryFields, EntryWrites
  <2>4. entries[s].flag \in Flags
    BY <2>1 DEF Entry
  <2>5. stop_requested' \in [Flags -> BOOLEAN]
    BY <1>3 DEF Start, ClearedFlags
  <2>6. QED
    BY <1>3, <2>3, <2>4, <2>5 DEF Start, Points, Starting
<1>4. ASSUME NEW s \in Services, Stop(s) PROVE TypeOK'
  <2>1. entries[s] \in Entry
    BY <1>4 DEF Stop, IsRegistered
  <2>2. entries[s].control \in Runs \union {None}
    BY <2>1 DEF Entry
  <2>3. stop_requested' \in [Flags -> BOOLEAN]
    BY <1>4 DEF Stop
  <2>4. CASE entries[s].control = None
    BY <1>4, <2>3, <2>4 DEF Stop
  <2>5. CASE entries[s].control \in Runs
    <3> DEFINE r == entries[s].control
    <3>1. r # None
      BY <2>5
    <3>2. /\ sending[r] < MaxSends
          /\ sending' = [sending EXCEPT ![r] = @ + 1]
          /\ asked' = [asked EXCEPT ![r] = TRUE]
      BY <1>4, <3>1 DEF Stop
    <3>3. r \in Runs /\ sending[r] \in 0 .. MaxSends
      BY <2>5
    <3>4. sending' \in [Runs -> 0 .. MaxSends]
      <4> HIDE DEF r
      <4>1. sending[r] + 1 \in 0 .. MaxSends
        BY <3>2, <3>3
      <4>2. QED
        BY <3>2, <3>3, <4>1
    <3>5. asked' \in [Runs -> BOOLEAN]
      BY <3>2
    <3>6. QED
      BY <1>4, <2>3, <3>4, <3>5 DEF Stop
  <2>6. QED
    BY <2>2, <2>4, <2>5
<1>5. ASSUME NEW r \in Runs, TrySend(r) PROVE TypeOK'
  BY <1>5 DEF TrySend
<1>6. ASSUME NEW r \in Runs, AnnounceStart(r) PROVE TypeOK'
  BY <1>6 DEF AnnounceStart, Goto, Points, Starting
<1>7. ASSUME NEW r \in Runs, Spawn(r) PROVE TypeOK'
  BY <1>7 DEF Spawn, Goto, Points, Starting, Children
<1>8. ASSUME NEW r \in Runs, SpawnFails(r) PROVE TypeOK'
  BY <1>8 DEF SpawnFails, Goto, Points, Ending
<1>9. ASSUME NEW r \in Runs, SetPid(r) PROVE TypeOK'
  <2>1. CASE IsRegistered(owner[r]) /\ owner[r] \in Services
    <3>1. entries[owner[r]] \in Entry
      BY <2>1 DEF IsRegistered
    <3>2. entries' = [entries EXCEPT ![owner[r]] = [entries[owner[r]] EXCEPT !.pid = r]]
      BY <1>9, <2>1 DEF SetPid
    <3>3. entries' \in [Services -> Entry \union {None}]
      BY <3>1, <3>2, EntryFields, EntryWrites
    <3>4. QED
      BY <1>9, <3>3 DEF SetPid, Goto, Points, Starting
  <2>2. CASE ~(IsRegistered(owner[r]) /\ owner[r] \in Services)
    <3>1. entries' = entries
      BY <1>9, <2>2 DEF SetPid
    <3>2. QED
      BY <1>9, <3>1 DEF SetPid, Goto, Points, Starting
  <2>3. QED
    BY <2>1, <2>2
<1>10. ASSUME NEW r \in Runs, RecordRunning(r) PROVE TypeOK'
  BY <1>10 DEF RecordRunning, Goto, Points, Starting
<1>11. ASSUME NEW r \in Runs, AliveAfterElapsed(r) PROVE TypeOK'
  BY <1>11 DEF AliveAfterElapsed, Goto, Points
<1>12. ASSUME NEW r \in Runs, ProbeDeadline(r) PROVE TypeOK'
  BY <1>12 DEF ProbeDeadline, Goto, Points
<1>13. ASSUME NEW r \in Runs, SetRunning(r) PROVE TypeOK'
  <2>1. entries' \in [Services -> Entry \union {None}]
    BY <1>13, SetStateType DEF SetRunning, States
  <2>2. QED
    BY <1>13, <2>1 DEF SetRunning, Goto, Points
<1>14. ASSUME NEW r \in Runs, AnnounceRunning(r) PROVE TypeOK'
  BY <1>14 DEF AnnounceRunning, Goto, Points
<1>15. ASSUME NEW r \in Runs, ReceiveStop(r) PROVE TypeOK'
  BY <1>15 DEF ReceiveStop, Goto, Points
<1>16. ASSUME NEW r \in Runs, GraceElapsed(r) PROVE TypeOK'
  BY <1>16 DEF GraceElapsed, Goto, Points, Children
<1>17. ASSUME NEW r \in Runs, ChildReaped(r) PROVE TypeOK'
  BY <1>17 DEF ChildReaped, Points, Ending
<1>18. ASSUME NEW r \in Runs, Classify(r) PROVE TypeOK'
  BY <1>18 DEF Classify, Goto, Points, Ending, TerminalStates
<1>19. ASSUME NEW r \in Runs, RemoveRecord(r) PROVE TypeOK'
  BY <1>19 DEF RemoveRecord, Goto, Points, Ending
<1>20. ASSUME NEW r \in Runs, SetTerminal(r) PROVE TypeOK'
  <2>1. entries' \in [Services -> Entry \union {None}]
    BY <1>20, SetStateType DEF SetTerminal, States
  <2>2. QED
    BY <1>20, <2>1 DEF SetTerminal, Goto, Points
<1>21. ASSUME NEW r \in Runs, AnnounceTerminal(r) PROVE TypeOK'
  BY <1>21 DEF AnnounceTerminal, Goto, Points, Children, TerminalStates
<1>22. ASSUME NEW r \in Runs, ProbeSucceeds(r) PROVE TypeOK'
  BY <1>22 DEF ProbeSucceeds, Goto, Points
<1>23. ASSUME NEW r \in Runs, NEW status \in Dead, ChildExits(r, status) PROVE TypeOK'
  BY <1>23 DEF ChildExits, Children
<1>24. ASSUME NEW r \in Runs, KillLands(r) PROVE TypeOK'
  BY <1>24 DEF KillLands, Children, Dead
<1>25. CASE UNCHANGED vars
  BY <1>25 DEF vars
<1>26. QED
  BY <1>1, <1>2, <1>3, <1>4, <1>5, <1>6, <1>7, <1>8, <1>9, <1>10, <1>11,
     <1>12, <1>13, <1>14, <1>15, <1>16, <1>17, <1>18, <1>19, <1>20, <1>21,
     <1>22, <1>23, <1>24, <1>25
     DEF Next, CallerStep, RunStep, TaskStep

\* Every variable keeps its type: a run is always at a known point, an entry
\* always holds a known run or none, and a stop call never sends twice.
THEOREM TypeCorrect == Spec => []TypeOK
<1>1. Init => TypeOK
  BY SupervisorAssumption DEF Init, TypeOK, Points, Children, TerminalStates
<1>2. QED
  BY <1>1, TypeStep, PTL DEF Spec

-----------------------------------------------------------------------------
\* Most ties are about variables that a stop call leaves alone.
LEMMA StopLeavesTies ==
  ASSUME Ties, UNCHANGED <<entries, pc, owner, flagOf, child, registry>>
  PROVE  /\ EntryIsOfRun' /\ RunOfEntry' /\ FlagsUnshared' /\ ChildHasTask'
         /\ RecordIsOfOwner' /\ NoRunWhenTerminal' /\ StateOfRun' /\ ChildOfRun'
<1>1. EntryIsOfRun' /\ RunOfEntry'
  BY DEF Ties, EntryIsOfRun, RunOfEntry, UnderWay, IsRegistered, IsTerminal
<1>2. FlagsUnshared' /\ ChildHasTask' /\ RecordIsOfOwner'
  BY DEF Ties, FlagsUnshared, ChildHasTask, RecordIsOfOwner, IsRegistered
<1>3. NoRunWhenTerminal' /\ StateOfRun' /\ ChildOfRun'
  BY DEF Ties, NoRunWhenTerminal, StateOfRun, ChildOfRun, IsRegistered, IsTerminal
<1>4. QED
  BY <1>1, <1>2, <1>3

\* A stop call asks no run that is done: the entry it finds is not terminal, and
\* its run is under way.
LEMMA StopAsksALiveRun ==
  ASSUME TypeOK, OwnedUnlessDone, RunOfEntry, NEW s \in Services, Stop(s)
  PROVE  OwnedUnlessDone'
<1>1. UNCHANGED <<pc, owner, flagOf>>
  BY DEF Stop
<1>2. entries[s].control \in Runs /\ pc[entries[s].control] # "done"
  BY DEF Stop, RunOfEntry, UnderWay
<1>3. \A r \in Runs : r # entries[s].control => asked'[r] = asked[r]
  BY DEF Stop, TypeOK
<1>4. QED
  BY <1>1, <1>2, <1>3 DEF OwnedUnlessDone

\* A stop call that asks a run sends to it.
LEMMA StopIsSent ==
  ASSUME TypeOK, StopNotLost, NEW s \in Services, Stop(s)
  PROVE  StopNotLost'
<1>1. UNCHANGED <<pc, mailbox>>
  BY DEF Stop
<1>2. \A r \in Runs : sending[r] > 0 => sending'[r] > 0
  BY DEF Stop, TypeOK
<1>3. \A r \in Runs : asked'[r] => asked[r] \/ sending'[r] > 0
  BY DEF Stop, TypeOK
<1>4. QED
  BY <1>1, <1>2, <1>3 DEF StopNotLost, UnderWay

\* The flag of a run under way is set when the run is asked.
LEMMA StopIsRemembered ==
  ASSUME TypeOK, OwnedUnlessDone, EntryIsOfRun, RunOfEntry, FlagsUnshared,
         FlagRemembersStop, NEW s \in Services, Stop(s)
  PROVE  FlagRemembersStop'
<1> USE SupervisorAssumption DEF TypeOK
<1>1. UNCHANGED <<entries, pc, owner, flagOf>>
  BY DEF Stop
<1>2. PICK r \in Runs : /\ entries[s].control = r /\ UnderWay(r) /\ owner[r] = s
                       /\ IsRegistered(s) /\ entries[s].flag = flagOf[r]
  BY DEF Stop, RunOfEntry, EntryIsOfRun
<1>3. asked' = [asked EXCEPT ![r] = TRUE]
  BY <1>2 DEF Stop
<1>4. stop_requested' = [stop_requested EXCEPT ![flagOf[r]] = TRUE]
  BY <1>2 DEF Stop
<1>5. ASSUME NEW q \in Runs, UnderWay(q) PROVE asked'[q] <=> stop_requested'[flagOf[q]]
  <2>1. owner[q] \in Services /\ flagOf[q] \in Flags
    BY <1>5 DEF OwnedUnlessDone, UnderWay
  <2>2. /\ IsRegistered(owner[q])
        /\ entries[owner[q]].control = q
        /\ entries[owner[q]].flag = flagOf[q]
    BY <1>5 DEF EntryIsOfRun
  <2>3. q # r => flagOf[q] # flagOf[r]
    BY <1>2, <2>1, <2>2 DEF FlagsUnshared
  <2>4. asked[q] <=> stop_requested[flagOf[q]]
    BY <1>5 DEF FlagRemembersStop
  <2>5. QED
    BY <1>2, <1>3, <1>4, <2>1, <2>3, <2>4
<1>6. QED
  BY <1>1, <1>5 DEF FlagRemembersStop, UnderWay

\* A stop call keeps what ties an entry to its run.
LEMMA StopKeepsTies ==
  ASSUME TypeOK, Ties, NEW s \in Services, Stop(s)
  PROVE  Ties'
<1>1. UNCHANGED <<entries, pc, owner, flagOf, child, registry>>
  BY DEF Stop
<1>2. StopNotLost' /\ OwnedUnlessDone' /\ FlagRemembersStop'
  BY StopIsSent, StopAsksALiveRun, StopIsRemembered DEF Ties
<1>3. QED
  BY <1>1, <1>2, StopLeavesTies DEF Ties

\* The calls: an entry is written only when it is terminal, or (stop) its flag
\* and the history of its one run change together.
LEMMA CallsKeepTies == IInv /\ CallerStep => Ties'
<1> SUFFICES ASSUME IInv, CallerStep PROVE Ties'
  OBVIOUS
<1> USE SupervisorAssumption
    DEF IInv, Ties, TypeOK, Entry, States, TerminalStates, IsRegistered,
        IsTerminal, UnderWay, Starting, Ending, Parenting, OwnedUnlessDone,
        EntryIsOfRun, RunOfEntry, FlagsUnshared, FlagRemembersStop, ChildHasTask,
        RecordIsOfOwner, StopNotLost, NoRunWhenTerminal, StateOfRun, ChildOfRun
<1>1. ASSUME NEW s \in Services, NEW g \in Flags, Register(s, g) PROVE Ties'
  BY <1>1 DEF Register, FreshFlag
<1>2. ASSUME NEW s \in Services, Unregister(s) PROVE Ties'
  BY <1>2 DEF Unregister, MayForget
<1>3. ASSUME NEW s \in Services, NEW r \in Runs, Start(s, r) PROVE Ties'
  <2>1. OwnedUnlessDone'
    BY <1>3 DEF Start, MayStart, ClearedFlags, FreshRun
  <2>2. EntryIsOfRun'
    BY <1>3 DEF Start, MayStart, ClearedFlags, FreshRun
  <2>3. RunOfEntry'
    BY <1>3 DEF Start, MayStart, ClearedFlags, FreshRun
  <2>4. FlagsUnshared'
    BY <1>3 DEF Start, MayStart, ClearedFlags, FreshRun
  <2>5. FlagRemembersStop'
    BY <1>3 DEF Start, MayStart, ClearedFlags, FreshRun
  <2>6. ChildHasTask'
    BY <1>3 DEF Start, MayStart, ClearedFlags, FreshRun
  <2>7. RecordIsOfOwner'
    BY <1>3 DEF Start, MayStart, ClearedFlags, FreshRun
  <2>8. StopNotLost'
    BY <1>3 DEF Start, MayStart, ClearedFlags, FreshRun
  <2>9. NoRunWhenTerminal'
    BY <1>3 DEF Start, MayStart, ClearedFlags, FreshRun
  <2>10. StateOfRun'
    BY <1>3 DEF Start, MayStart, ClearedFlags, FreshRun
  <2>11. ChildOfRun'
    BY <1>3 DEF Start, MayStart, ClearedFlags, FreshRun
  <2> HIDE DEF IInv, TypeOK, Entry, States, TerminalStates, IsRegistered, IsTerminal,
               UnderWay, Starting, Ending, Parenting, OwnedUnlessDone, EntryIsOfRun,
               RunOfEntry, FlagsUnshared, FlagRemembersStop, ChildHasTask,
               RecordIsOfOwner, StopNotLost, NoRunWhenTerminal, StateOfRun, ChildOfRun
  <2>12. QED
    BY <2>1, <2>2, <2>3, <2>4, <2>5, <2>6, <2>7, <2>8, <2>9, <2>10, <2>11
<1> HIDE DEF IInv, Ties, TypeOK, Entry, States, TerminalStates, IsRegistered, IsTerminal,
             UnderWay, Starting, Ending, Parenting, OwnedUnlessDone, EntryIsOfRun,
             RunOfEntry, FlagsUnshared, FlagRemembersStop, ChildHasTask,
             RecordIsOfOwner, StopNotLost, NoRunWhenTerminal, StateOfRun, ChildOfRun
<1>4. QED
  BY <1>1, <1>2, <1>3, StopKeepsTies DEF CallerStep, IInv

\* The task, the operating system and the end of a stop call: a run moves on
\* under way until SetTerminal writes the entry, and only then lets it go.
LEMMA RunStepsKeepTies == ASSUME IInv, NEW r \in Runs, RunStep(r) PROVE Ties'
<1> USE SupervisorAssumption
    DEF IInv, Ties, TypeOK, Entry, States, TerminalStates, IsRegistered,
        IsTerminal, UnderWay, Starting, Ending, Parenting, OwnedUnlessDone,
        EntryIsOfRun, RunOfEntry, FlagsUnshared, FlagRemembersStop,
        ChildHasTask, RecordIsOfOwner, StopNotLost, NoRunWhenTerminal, StateOfRun,
        ChildOfRun
<1>1. CASE TrySend(r)
  BY <1>1 DEF TrySend
<1>2. CASE AnnounceStart(r)
  BY <1>2 DEF AnnounceStart, Goto
<1>3. CASE Spawn(r)
  BY <1>3 DEF Spawn, Goto
<1>4. CASE SpawnFails(r)
  BY <1>4 DEF SpawnFails, Goto
<1>5. CASE SetPid(r)
  <2>1. OwnedUnlessDone'
    BY <1>5 DEF SetPid, Goto
  <2>2. EntryIsOfRun'
    BY <1>5 DEF SetPid, Goto
  <2>3. RunOfEntry'
    BY <1>5 DEF SetPid, Goto
  <2>4. FlagsUnshared'
    BY <1>5 DEF SetPid, Goto
  <2>5. FlagRemembersStop'
    BY <1>5 DEF SetPid, Goto
  <2>6. ChildHasTask'
    BY <1>5 DEF SetPid, Goto
  <2>7. RecordIsOfOwner'
    BY <1>5 DEF SetPid, Goto
  <2>8. StopNotLost'
    BY <1>5 DEF SetPid, Goto
  <2>9. NoRunWhenTerminal'
    BY <1>5 DEF SetPid, Goto
  <2>10. StateOfRun'
    BY <1>5 DEF SetPid, Goto
  <2>11. ChildOfRun'
    BY <1>5 DEF SetPid, Goto
  <2> HIDE DEF IInv, TypeOK, Entry, States, TerminalStates, IsRegistered, IsTerminal,
               UnderWay, Starting, Ending, Parenting, OwnedUnlessDone, EntryIsOfRun,
               RunOfEntry, FlagsUnshared, FlagRemembersStop, ChildHasTask,
               RecordIsOfOwner, StopNotLost, NoRunWhenTerminal, StateOfRun, ChildOfRun
  <2>12. QED
    BY <2>1, <2>2, <2>3, <2>4, <2>5, <2>6, <2>7, <2>8, <2>9, <2>10, <2>11
<1>6. CASE RecordRunning(r)
  <2>1. OwnedUnlessDone'
    BY <1>6 DEF RecordRunning, Goto
  <2>2. EntryIsOfRun'
    BY <1>6 DEF RecordRunning, Goto
  <2>3. RunOfEntry'
    BY <1>6 DEF RecordRunning, Goto
  <2>4. FlagsUnshared'
    BY <1>6 DEF RecordRunning, Goto
  <2>5. FlagRemembersStop'
    BY <1>6 DEF RecordRunning, Goto
  <2>6. ChildHasTask'
    BY <1>6 DEF RecordRunning, Goto
  <2>7. RecordIsOfOwner'
    BY <1>6 DEF RecordRunning, Goto
  <2>8. StopNotLost'
    BY <1>6 DEF RecordRunning, Goto
  <2>9. NoRunWhenTerminal'
    BY <1>6 DEF RecordRunning, Goto
  <2>10. StateOfRun'
    BY <1>6 DEF RecordRunning, Goto
  <2>11. ChildOfRun'
    BY <1>6 DEF RecordRunning, Goto
  <2> HIDE DEF IInv, TypeOK, Entry, States, TerminalStates, IsRegistered, IsTerminal,
               UnderWay, Starting, Ending, Parenting, OwnedUnlessDone, EntryIsOfRun,
               RunOfEntry, FlagsUnshared, FlagRemembersStop, ChildHasTask,
               RecordIsOfOwner, StopNotLost, NoRunWhenTerminal, StateOfRun, ChildOfRun
  <2>12. QED
    BY <2>1, <2>2, <2>3, <2>4, <2>5, <2>6, <2>7, <2>8, <2>9, <2>10, <2>11
<1>7. CASE AliveAfterElapsed(r)
  BY <1>7 DEF AliveAfterElapsed, Goto
<1>8. CASE ProbeDeadline(r)
  BY <1>8 DEF ProbeDeadline, Goto
<1>9. CASE SetRunning(r)
  <2>1. OwnedUnlessDone'
    BY <1>9 DEF SetRunning, SetState, Goto
  <2>2. EntryIsOfRun'
    BY <1>9 DEF SetRunning, SetState, Goto
  <2>3. RunOfEntry'
    BY <1>9 DEF SetRunning, SetState, Goto
  <2>4. FlagsUnshared'
    BY <1>9 DEF SetRunning, SetState, Goto
  <2>5. FlagRemembersStop'
    BY <1>9 DEF SetRunning, SetState, Goto
  <2>6. ChildHasTask'
    BY <1>9 DEF SetRunning, SetState, Goto
  <2>7. RecordIsOfOwner'
    BY <1>9 DEF SetRunning, SetState, Goto
  <2>8. StopNotLost'
    BY <1>9 DEF SetRunning, SetState, Goto
  <2>9. NoRunWhenTerminal'
    BY <1>9 DEF SetRunning, SetState, Goto
  <2>10. StateOfRun'
    BY <1>9 DEF SetRunning, SetState, Goto
  <2>11. ChildOfRun'
    BY <1>9 DEF SetRunning, SetState, Goto
  <2> HIDE DEF IInv, TypeOK, Entry, States, TerminalStates, IsRegistered, IsTerminal,
               UnderWay, Starting, Ending, Parenting, OwnedUnlessDone, EntryIsOfRun,
               RunOfEntry, FlagsUnshared, FlagRemembersStop, ChildHasTask,
               RecordIsOfOwner, StopNotLost, NoRunWhenTerminal, StateOfRun, ChildOfRun
  <2>12. QED
    BY <2>1, <2>2, <2>3, <2>4, <2>5, <2>6, <2>7, <2>8, <2>9, <2>10, <2>11
<1>10. CASE AnnounceRunning(r)
  BY <1>10 DEF AnnounceRunning, Goto
<1>11. CASE ReceiveStop(r)
  BY <1>11 DEF ReceiveStop, Goto
<1>12. CASE GraceElapsed(r)
  BY <1>12 DEF GraceElapsed, Goto
<1>13. CASE ChildReaped(r)
  BY <1>13 DEF ChildReaped, Dead
<1>14. CASE Classify(r)
  BY <1>14 DEF Classify, Goto
<1>15. CASE RemoveRecord(r)
  <2>1. OwnedUnlessDone'
    BY <1>15 DEF RemoveRecord, Goto
  <2>2. EntryIsOfRun'
    BY <1>15 DEF RemoveRecord, Goto
  <2>3. RunOfEntry'
    BY <1>15 DEF RemoveRecord, Goto
  <2>4. FlagsUnshared'
    BY <1>15 DEF RemoveRecord, Goto
  <2>5. FlagRemembersStop'
    BY <1>15 DEF RemoveRecord, Goto
  <2>6. ChildHasTask'
    BY <1>15 DEF RemoveRecord, Goto
  <2>7. RecordIsOfOwner'
    <3>1. registry' = [registry EXCEPT ![owner[r]] = None] \/ UNCHANGED registry
      BY <1>15 DEF RemoveRecord
    <3>2. UNCHANGED owner /\ pc[r] # "done" /\ \A q \in Runs \ {r} : pc'[q] = pc[q]
      BY <1>15 DEF RemoveRecord, Goto
    <3>3. \A t \in Services : registry'[t] \in {registry[t], None}
      BY <3>1
    <3>4. None \notin Runs
      OBVIOUS
    <3>5. QED
      BY <3>2, <3>3, <3>4
  <2>8. StopNotLost'
    BY <1>15 DEF RemoveRecord, Goto
  <2>9. NoRunWhenTerminal'
    BY <1>15 DEF RemoveRecord, Goto
  <2>10. StateOfRun'
    BY <1>15 DEF RemoveRecord, Goto
  <2>11. ChildOfRun'
    BY <1>15 DEF RemoveRecord, Goto
  <2> HIDE DEF IInv, TypeOK, Entry, States, TerminalStates, IsRegistered, IsTerminal,
               UnderWay, Starting, Ending, Parenting, OwnedUnlessDone, EntryIsOfRun,
               RunOfEntry, FlagsUnshared, FlagRemembersStop, ChildHasTask,
               RecordIsOfOwner, StopNotLost, NoRunWhenTerminal, StateOfRun, ChildOfRun
  <2>12. QED
    BY <2>1, <2>2, <2>3, <2>4, <2>5, <2>6, <2>7, <2>8, <2>9, <2>10, <2>11
<1>16. CASE SetTerminal(r)
  <2>1. OwnedUnlessDone'
    BY <1>16 DEF SetTerminal, SetState, Goto
  <2>2. EntryIsOfRun'
    BY <1>16 DEF SetTerminal, SetState, Goto
  <2>3. RunOfEntry'
    BY <1>16 DEF SetTerminal, SetState, Goto
  <2>4. FlagsUnshared'
    BY <1>16 DEF SetTerminal, SetState, Goto
  <2>5. FlagRemembersStop'
    BY <1>16 DEF SetTerminal, SetState, Goto
  <2>6. ChildHasTask'
    BY <1>16 DEF SetTerminal, SetState, Goto
  <2>7. RecordIsOfOwner'
    BY <1>16 DEF SetTerminal, SetState, Goto
  <2>8. StopNotLost'
    BY <1>16 DEF SetTerminal, SetState, Goto
  <2>9. NoRunWhenTerminal'
    BY <1>16 DEF SetTerminal, SetState, Goto
  <2>10. StateOfRun'
    BY <1>16 DEF SetTerminal, SetState, Goto
  <2>11. ChildOfRun'
    BY <1>16 DEF SetTerminal, SetState, Goto
  <2> HIDE DEF IInv, TypeOK, Entry, States, TerminalStates, IsRegistered, IsTerminal,
               UnderWay, Starting, Ending, Parenting, OwnedUnlessDone, EntryIsOfRun,
               RunOfEntry, FlagsUnshared, FlagRemembersStop, ChildHasTask,
               RecordIsOfOwner, StopNotLost, NoRunWhenTerminal, StateOfRun, ChildOfRun
  <2>12. QED
    BY <2>1, <2>2, <2>3, <2>4, <2>5, <2>6, <2>7, <2>8, <2>9, <2>10, <2>11
<1>17. CASE AnnounceTerminal(r)
  BY <1>17 DEF AnnounceTerminal, Goto
<1>18. CASE ProbeSucceeds(r)
  BY <1>18 DEF ProbeSucceeds, Goto
<1>19. ASSUME NEW status \in Dead, ChildExits(r, status) PROVE Ties'
  BY <1>19 DEF ChildExits, Dead
<1>20. CASE KillLands(r)
  BY <1>20 DEF KillLands, Dead
<1> HIDE DEF IInv, Ties, TypeOK, Entry, States, TerminalStates, IsRegistered, IsTerminal,
             UnderWay, Starting, Ending, Parenting, OwnedUnlessDone, EntryIsOfRun,
             RunOfEntry, FlagsUnshared, FlagRemembersStop, ChildHasTask,
             RecordIsOfOwner, StopNotLost, NoRunWhenTerminal, StateOfRun, ChildOfRun
<1>21. QED
  BY <1>1, <1>2, <1>3, <1>4, <1>5, <1>6, <1>7, <1>8, <1>9, <1>10,
     <1>11, <1>12, <1>13, <1>14, <1>15, <1>16, <1>17, <1>18, <1>19, <1>20
     DEF RunStep, TaskStep

\* They hold when nothing has been registered yet.
LEMMA IInvInit == Init => IInv
BY SupervisorAssumption
   DEF Init, IInv, Ties, TypeOK, Points, Children, TerminalStates, UnderWay,
       Starting, Parenting, IsRegistered, IsTerminal, OwnedUnlessDone,
       EntryIsOfRun, RunOfEntry, FlagsUnshared,
       FlagRemembersStop, ChildHasTask, RecordIsOfOwner, StopNotLost,
       NoRunWhenTerminal, StateOfRun, ChildOfRun

\* Every step keeps the supervisor's invariant.
LEMMA IInvStep ==
  ASSUME IInv, [Next]_vars
  PROVE  IInv'
<1>1. TypeOK'
  BY TypeStep DEF IInv
<1>2. Ties'
  <2>1. CASE CallerStep
    BY <2>1, CallsKeepTies
  <2>2. ASSUME NEW r \in Runs, RunStep(r) PROVE Ties'
    BY <2>2, RunStepsKeepTies
  <2>3. CASE UNCHANGED vars
    BY <2>3
       DEF vars, IInv, Ties, IsRegistered, IsTerminal, UnderWay,
           OwnedUnlessDone, EntryIsOfRun, RunOfEntry, FlagsUnshared,
           FlagRemembersStop, ChildHasTask, RecordIsOfOwner, StopNotLost,
           NoRunWhenTerminal, StateOfRun, ChildOfRun
  <2>4. QED
    BY <2>1, <2>2, <2>3 DEF Next
<1>3. QED
  BY <1>1, <1>2 DEF IInv, Ties

\* The supervisor's inductive invariant holds of every behaviour.
THEOREM Inductive == Spec => []IInv
<1>1. Init => IInv
  BY IInvInit
<1>2. QED
  BY <1>1, IInvStep, PTL DEF Spec

-----------------------------------------------------------------------------
\* No service is ever run twice at once, whatever the callers and however many
\* of them: both runs would be the one whose sender the entry holds.
THEOREM NoDoubleRun == Spec => []OneRunPerService
<1>1. IInv => OneRunPerService
  BY DEF IInv, Ties, EntryIsOfRun, OneRunPerService
<1>2. QED
  BY <1>1, Inductive, PTL

\* unregister never forgets a living child, and no snapshot shows one as
\* stopped: its run is under way, so its entry is there and not terminal.
THEOREM NoForgottenChild == Spec => []LiveChildIsShown
<1>1. IInv => LiveChildIsShown
  BY SupervisorAssumption
     DEF IInv, Ties, TypeOK, ChildHasTask, Parenting, UnderWay, EntryIsOfRun,
         OwnedUnlessDone, LiveChildIsShown
<1>2. QED
  BY <1>1, Inductive, PTL

\* The run loop never spins on a closed channel.
THEOREM ChannelStaysOpen == Spec => []SenderHeld
<1>1. IInv => SenderHeld
  BY DEF IInv, Ties, EntryIsOfRun, SenderHeld
<1>2. QED
  BY <1>1, Inductive, PTL

\* A stop accepted by stop() is pending or acted upon until its run ends.
THEOREM StopIsKept == Spec => []StopNotLost
<1>1. IInv => StopNotLost
  BY DEF IInv, Ties
<1>2. QED
  BY <1>1, Inductive, PTL

\* Only Classify takes a run from draining to removing.
LEMMA OnlyClassifyDecides ==
  ASSUME TypeOK, Next, NEW r \in Runs, pc[r] = "draining", pc'[r] = "removing"
  PROVE  Classify(r)
<1>1. CASE CallerStep
  BY <1>1 DEF TypeOK, CallerStep, Register, Unregister, Start, Stop
<1>2. ASSUME NEW q \in Runs, RunStep(q) PROVE Classify(r)
  <2>1. CASE q = r
    BY <1>2, <2>1
       DEF TypeOK, RunStep, TaskStep, Goto, TrySend, AnnounceStart, Spawn,
           SpawnFails, SetPid, RecordRunning, AliveAfterElapsed, ProbeSucceeds,
           ProbeDeadline, SetRunning, AnnounceRunning, ReceiveStop,
           GraceElapsed, ChildReaped, RemoveRecord, SetTerminal,
           AnnounceTerminal, ChildExits, KillLands
  <2>2. CASE q # r
    BY <1>2, <2>2
       DEF TypeOK, RunStep, TaskStep, Goto, TrySend, AnnounceStart, Spawn,
           SpawnFails, SetPid, RecordRunning, AliveAfterElapsed, ProbeSucceeds,
           ProbeDeadline, SetRunning, AnnounceRunning, ReceiveStop,
           GraceElapsed, ChildReaped, Classify, RemoveRecord, SetTerminal,
           AnnounceTerminal, ChildExits, KillLands
  <2>3. QED
    BY <2>1, <2>2
<1>3. QED
  BY <1>1, <1>2 DEF Next

\* A run is called Stopped exactly when a stop was accepted during it or it
\* exited cleanly after being ready, whatever earlier runs were told: the flag
\* the task reads remembers this run's stops and no other's.
THEOREM VerdictIsHonest == Spec => HonestVerdict
<1>1. ASSUME IInv, [Next]_vars
      PROVE  [\A r \in Runs : pc[r] = "draining" /\ pc'[r] = "removing" =>
               (verdict'[r] = "Stopped"
                  <=> asked[r] \/ (child[r] = "exit_ok" /\ ~neverReady[r]))]_vars
  <2>1. CASE UNCHANGED vars
    BY <2>1
  <2>2. ASSUME Next, NEW r \in Runs, pc[r] = "draining", pc'[r] = "removing"
        PROVE  verdict'[r] = "Stopped"
                 <=> asked[r] \/ (child[r] = "exit_ok" /\ ~neverReady[r])
    <3>1. Classify(r)
      BY <1>1, <2>2, OnlyClassifyDecides DEF IInv
    <3>2. asked[r] <=> stop_requested[flagOf[r]]
      BY <1>1, <2>2 DEF IInv, Ties, FlagRemembersStop, UnderWay
    <3>3. verdict'[r] = IF Justified(r) THEN "Stopped" ELSE "Failed"
      BY <1>1, <3>1 DEF Classify, IInv, TypeOK
    <3>4. QED
      BY <3>2, <3>3 DEF Justified
  <2>3. QED
    BY <1>1, <2>1, <2>2
<1>2. QED
  BY <1>1, Inductive, PTL DEF Spec, HonestVerdict

\* Only the task that is recording or removing touches its service's record.
LEMMA RecordWriters ==
  ASSUME TypeOK, Next, NEW s \in Services, registry'[s] # registry[s]
  PROVE  \E q \in Runs : owner[q] = s /\ (RecordRunning(q) \/ RemoveRecord(q))
<1>1. ~CallerStep
  BY DEF TypeOK, CallerStep, Register, Unregister, Start, Stop
<1>2. PICK q \in Runs : RunStep(q)
  BY <1>1 DEF Next
<1>3. RecordRunning(q) \/ RemoveRecord(q)
  BY <1>2
     DEF RunStep, TaskStep, Goto, TrySend, AnnounceStart, Spawn, SpawnFails,
         SetPid, AliveAfterElapsed, ProbeSucceeds, ProbeDeadline, SetRunning,
         AnnounceRunning, ReceiveStop, GraceElapsed, ChildReaped, Classify,
         SetTerminal, AnnounceTerminal, ChildExits, KillLands
<1>4. owner[q] = s
  BY <1>3 DEF TypeOK, RecordRunning, RemoveRecord
<1>5. QED
  BY <1>3, <1>4

\* A living child keeps its crash-cleanup record: any task that writes the
\* record of that service is that child's own, at a point where it records it
\* again or has already seen it exit.
THEOREM RecordIsKept == Spec => RecordOutlivesChild
<1>1. ASSUME IInv, [Next]_vars
      PROVE  [\A s \in Services, r \in Runs :
                registry[s] = r /\ child[r] \in {"alive", "dying"} =>
                  registry'[s] = r]_vars
  <2>1. CASE UNCHANGED vars
    BY <2>1
  <2>2. ASSUME Next, NEW s \in Services, NEW r \in Runs, registry[s] = r,
               child[r] \in {"alive", "dying"}, registry'[s] # r
        PROVE  FALSE
    <3>1. PICK q \in Runs : owner[q] = s /\ (RecordRunning(q) \/ RemoveRecord(q))
      BY <1>1, <2>2, RecordWriters DEF IInv
    <3>2. pc[r] \in Parenting /\ owner[r] = s
      BY <1>1, <2>2 DEF IInv, Ties, ChildHasTask, RecordIsOfOwner, Parenting
    <3>3. UnderWay(q) /\ UnderWay(r)
      BY <3>1, <3>2 DEF RecordRunning, RemoveRecord, Goto, UnderWay, Parenting
    <3>4. q = r
      BY <1>1, <3>1, <3>2, <3>3 DEF IInv, Ties, EntryIsOfRun
    <3>5. RecordRunning(r)
      BY <3>1, <3>2, <3>4 DEF RemoveRecord, Goto, Parenting
    <3>6. registry'[s] = r
      BY <1>1, <2>2, <3>2, <3>5 DEF RecordRunning, IInv, TypeOK
    <3>7. QED
      BY <2>2, <3>6
  <2>3. QED
    BY <1>1, <2>1, <2>2
<1>2. QED
  BY <1>1, Inductive, PTL DEF Spec, RecordOutlivesChild

-----------------------------------------------------------------------------
(* Supervisor implements ServiceLifecycle, step by step. *)

\* The run whose sender an entry holds is the one under way for that service.
LEMMA CurrentIsUnderWay ==
  ASSUME IInv, NEW s \in Services, NEW r \in Runs
  PROVE  Current(s) = r <=> UnderWay(r) /\ owner[r] = s
BY SupervisorAssumption
   DEF IInv, Ties, TypeOK, RunOfEntry, NoRunWhenTerminal, EntryIsOfRun, Current

\* What a snapshot and the process table show of a run under way.
RunsAreShown ==
  \A r \in Runs : UnderWay(r) =>
    /\ owner[r] \in Services
    /\ ShownStatus[owner[r]] = entries[owner[r]].state
    /\ CurrentProcess[owner[r]] =
         IF child[r] = "none" THEN "none"
         ELSE IF child[r] \in Dead THEN "over" ELSE "alive"
    /\ StopAccepted[owner[r]] = asked[r]

\* A run under way is the current run of its service, which shows it.
LEMMA Shown == IInv => RunsAreShown
<1> SUFFICES ASSUME IInv, NEW r \in Runs, UnderWay(r)
             PROVE  /\ owner[r] \in Services
                    /\ ShownStatus[owner[r]] = entries[owner[r]].state
                    /\ CurrentProcess[owner[r]] =
                         IF child[r] = "none" THEN "none"
                         ELSE IF child[r] \in Dead THEN "over" ELSE "alive"
                    /\ StopAccepted[owner[r]] = asked[r]
  BY DEF RunsAreShown
<1>1. owner[r] \in Services /\ IsRegistered(owner[r])
  BY DEF IInv, Ties, OwnedUnlessDone, EntryIsOfRun, UnderWay
<1>2. Current(owner[r]) = r
  BY <1>1, CurrentIsUnderWay
<1>3. r # None
  BY SupervisorAssumption
<1>4. asked[r] \in BOOLEAN
  BY DEF IInv, TypeOK
<1>5. QED
  BY <1>1, <1>2, <1>3, <1>4 DEF ShownStatus, CurrentProcess, StopAccepted

\* A terminal or missing entry shows no process and no stop.
LEMMA SeenOfIdle ==
  ASSUME IInv, NEW s \in Services, IsRegistered(s) => IsTerminal(s)
  PROVE  Current(s) = None /\ CurrentProcess[s] = "none" /\ StopAccepted[s] = FALSE
BY DEF IInv, Ties, NoRunWhenTerminal, Current, CurrentProcess, StopAccepted

\* What is shown is a table with a row per service.
LEMMA SeenAreTables ==
  /\ ShownStatus = [t \in Services |-> ShownStatus[t]]
  /\ CurrentProcess = [t \in Services |-> CurrentProcess[t]]
  /\ StopAccepted = [t \in Services |-> StopAccepted[t]]
BY DEF ShownStatus, CurrentProcess, StopAccepted

\* A step that writes the entry of no other service, and the child and the
\* history of no run that is current at another.
SparesOthers(s) ==
  \A t \in Services \ {s} :
    /\ entries'[t] = entries[t]
    /\ Current(t) # None => /\ child'[Current(t)] = child[Current(t)]
                            /\ asked'[Current(t)] = asked[Current(t)]

\* What a user sees changes at one service only.
SeenOnlyAt(s) ==
  /\ ShownStatus' = [ShownStatus EXCEPT ![s] = ShownStatus'[s]]
  /\ CurrentProcess' = [CurrentProcess EXCEPT ![s] = CurrentProcess'[s]]
  /\ StopAccepted' = [StopAccepted EXCEPT ![s] = StopAccepted'[s]]

\* A step that spares the other services is seen at its own only.
LEMMA SeenAtOneService ==
  ASSUME NEW s \in Services, SparesOthers(s)
  PROVE  SeenOnlyAt(s)
<1>1. ASSUME NEW t \in Services \ {s}
      PROVE  /\ ShownStatus'[t] = ShownStatus[t]
             /\ CurrentProcess'[t] = CurrentProcess[t]
             /\ StopAccepted'[t] = StopAccepted[t]
  <2>1. /\ entries'[t] = entries[t] /\ Current(t)' = Current(t)
        /\ Current(t) # None => /\ child'[Current(t)] = child[Current(t)]
                                /\ asked'[Current(t)] = asked[Current(t)]
    BY DEF SparesOthers, Current, IsRegistered
  <2>2. QED
    BY <2>1 DEF ShownStatus, CurrentProcess, StopAccepted, IsRegistered
<1>2. /\ ShownStatus' = [t \in Services |-> ShownStatus'[t]]
      /\ CurrentProcess' = [t \in Services |-> CurrentProcess'[t]]
      /\ StopAccepted' = [t \in Services |-> StopAccepted'[t]]
  BY DEF ShownStatus, CurrentProcess, StopAccepted
<1>3. QED
  BY <1>1, <1>2, SeenAreTables DEF SeenOnlyAt

\* A step of one run is seen at its own service only.
LEMMA SeenAtOwner ==
  ASSUME IInv, NEW r \in Runs, UnderWay(r),
         \A t \in Services \ {owner[r]} : entries'[t] = entries[t],
         \A q \in Runs \ {r} : child'[q] = child[q] /\ asked'[q] = asked[q]
  PROVE  SeenOnlyAt(owner[r])
<1>1. owner[r] \in Services
  BY Shown DEF RunsAreShown
<1>2. \A t \in Services \ {owner[r]} :
        Current(t) # None => Current(t) \in Runs /\ Current(t) # r
  BY CurrentIsUnderWay DEF IInv, TypeOK, Entry, Current, IsRegistered
<1>3. SparesOthers(owner[r])
  BY <1>2 DEF SparesOthers
<1>4. QED
  BY <1>1, <1>3, SeenAtOneService

\* Nothing is seen of a table that keeps its value at the one service.
LEMMA TableKept ==
  ASSUME NEW f, NEW g, NEW s \in Services, f = [t \in Services |-> f[t]],
         g = [f EXCEPT ![s] = f[s]]
  PROVE  g = f
OBVIOUS

LEMMA NothingSeen ==
  ASSUME NEW s \in Services, SeenOnlyAt(s),
         CurrentProcess'[s] = CurrentProcess[s], StopAccepted'[s] = StopAccepted[s]
  PROVE  UNCHANGED <<CurrentProcess, StopAccepted>>
<1>1. CurrentProcess' = [CurrentProcess EXCEPT ![s] = CurrentProcess[s]]
  BY DEF SeenOnlyAt
<1>2. StopAccepted' = [StopAccepted EXCEPT ![s] = StopAccepted[s]]
  BY DEF SeenOnlyAt
<1>3. CurrentProcess' = CurrentProcess
  BY <1>1, SeenAreTables, TableKept
<1>4. StopAccepted' = StopAccepted
  BY <1>2, SeenAreTables, TableKept
<1>5. QED
  BY <1>3, <1>4

\* An idle service shows the same process and stop after a step that leaves it
\* idle: none.
LEMMA IdleStaysUnseen ==
  ASSUME IInv, IInv', NEW s \in Services,
         IsRegistered(s) => IsTerminal(s),
         IsRegistered(s)' => IsTerminal(s)',
         SeenOnlyAt(s)
  PROVE  UNCHANGED <<CurrentProcess, StopAccepted>>
<1>1. CurrentProcess[s] = "none" /\ StopAccepted[s] = FALSE
  BY SeenOfIdle
<1>2. Current(s)' = None
  BY DEF IInv, Ties, NoRunWhenTerminal, Current
<1>3. CurrentProcess'[s] = "none" /\ StopAccepted'[s] = FALSE
  BY <1>2 DEF CurrentProcess, StopAccepted
<1>4. QED
  BY <1>1, <1>3, NothingSeen

\* The calls of the supervisor are the actions a user of it sees.
LEMMA CallsAreSeen ==
  ASSUME IInv, IInv', CallerStep
  PROVE  \E s \in Services :
           \/ Lifecycle!Register(s) \/ Lifecycle!Unregister(s)
           \/ Lifecycle!Begin(s) \/ Lifecycle!RequestStop(s)
<1>1. ASSUME NEW s \in Services, NEW g \in Flags, Register(s, g)
      PROVE  Lifecycle!Register(s)
  <2>1. ShownStatus[s] \in {"Stopped", "Failed", "Unregistered"}
    BY <1>1 DEF Register, ShownStatus, IsTerminal, TerminalStates
  <2>2. entries'[s] # None /\ entries'[s].state = "Stopped"
    <3>1. [state |-> "Stopped", pid |-> None, control |-> None, flag |-> g] \in Entry
      BY DEF Entry, States, TerminalStates
    <3>2. QED
      BY <1>1, <3>1, SupervisorAssumption DEF Register, IInv, TypeOK
  <2>3. ShownStatus'[s] = "Stopped" /\ IsTerminal(s)'
    BY <2>2 DEF ShownStatus, IsRegistered, IsTerminal, TerminalStates
  <2>4. SeenOnlyAt(s)
    <3>1. SparesOthers(s)
      BY <1>1 DEF Register, IInv, TypeOK, SparesOthers
    <3>2. QED
      BY <3>1, SeenAtOneService
  <2>5. UNCHANGED <<CurrentProcess, StopAccepted>>
    BY <1>1, <2>3, <2>4, IdleStaysUnseen DEF Register
  <2>6. QED
    BY <2>1, <2>3, <2>4, <2>5 DEF SeenOnlyAt, Lifecycle!Register, Lifecycle!Idle
<1>2. ASSUME NEW s \in Services, Unregister(s) PROVE Lifecycle!Unregister(s)
  <2>1. ShownStatus[s] \in {"Stopped", "Failed"}
    BY <1>2 DEF Unregister, MayForget, ShownStatus, IsTerminal, TerminalStates
  <2>2. ShownStatus'[s] = "Unregistered" /\ ~IsRegistered(s)'
    BY <1>2 DEF Unregister, ShownStatus, IsRegistered, IInv, TypeOK
  <2>3. SeenOnlyAt(s)
    <3>1. SparesOthers(s)
      BY <1>2 DEF Unregister, IInv, TypeOK, SparesOthers
    <3>2. QED
      BY <3>1, SeenAtOneService
  <2>4. UNCHANGED <<CurrentProcess, StopAccepted>>
    BY <1>2, <2>2, <2>3, IdleStaysUnseen DEF Unregister, MayForget
  <2>5. QED
    BY <2>1, <2>2, <2>3, <2>4 DEF SeenOnlyAt, Lifecycle!Unregister, Lifecycle!Idle
<1>3. ASSUME NEW s \in Services, NEW r \in Runs, Start(s, r)
      PROVE  Lifecycle!Begin(s)
  <2>1. IsRegistered(s) /\ IsTerminal(s) /\ entries[s] \in Entry
    BY <1>3 DEF Start, MayStart, IsRegistered, IInv, TypeOK
  <2>2. ShownStatus[s] \in {"Stopped", "Failed"}
    BY <2>1 DEF ShownStatus, IsTerminal, TerminalStates
  <2>3. entries'[s] = [entries[s] EXCEPT !.state = "Starting", !.control = r]
    BY <1>3 DEF Start, IInv, TypeOK
  <2>4. entries'[s] \in Entry
    BY <2>1, <2>3, EntryFields
  <2>5. entries'[s].state = "Starting" /\ Current(s)' = r
    BY <2>1, <2>3, <2>4, SupervisorAssumption DEF Entry, Current, IsRegistered
  <2>6. child'[r] = "none" /\ asked'[r] = FALSE
    BY <1>3 DEF Start, FreshRun, IInv, Ties, OwnedUnlessDone, TypeOK
  <2>7. /\ ShownStatus'[s] = "Starting"
        /\ CurrentProcess'[s] = "none"
        /\ StopAccepted'[s] = FALSE
    BY <2>4, <2>5, <2>6, SupervisorAssumption
       DEF ShownStatus, CurrentProcess, StopAccepted, IsRegistered
  <2>8. CurrentProcess[s] = "none" /\ StopAccepted[s] = FALSE
    BY <2>1, SeenOfIdle
  <2>9. SeenOnlyAt(s)
    <3>1. SparesOthers(s)
      BY <1>3 DEF Start, IInv, TypeOK, SparesOthers
    <3>2. QED
      BY <3>1, SeenAtOneService
  <2>10. UNCHANGED <<CurrentProcess, StopAccepted>>
    BY <2>7, <2>8, <2>9, NothingSeen
  <2>11. QED
    BY <2>2, <2>7, <2>9, <2>10 DEF SeenOnlyAt, Lifecycle!Begin, Lifecycle!Idle
<1>4. ASSUME NEW s \in Services, Stop(s) PROVE Lifecycle!RequestStop(s)
  <2> DEFINE r == entries[s].control
  <2>1. IsRegistered(s) /\ ~IsTerminal(s) /\ entries[s] \in Entry
    BY <1>4 DEF Stop, IsRegistered, IInv, TypeOK
  <2>2. r \in Runs /\ UnderWay(r) /\ owner[r] = s /\ r # None
    BY <2>1, SupervisorAssumption DEF IInv, Ties, RunOfEntry
  <2>3. asked' = [asked EXCEPT ![r] = TRUE] /\ UNCHANGED <<entries, child, pc, owner>>
    BY <1>4, <2>2 DEF Stop
  <2>4. ShownStatus[s] \in {"Starting", "Running"}
    BY <2>1 DEF ShownStatus, Entry, States, TerminalStates, IsTerminal
  <2>5. StopAccepted'[s] = TRUE
    BY <2>1, <2>2, <2>3 DEF StopAccepted, Current, IsRegistered, IInv, TypeOK
  <2>6. UNCHANGED <<ShownStatus, CurrentProcess>>
    BY <2>3 DEF ShownStatus, CurrentProcess, Current, IsRegistered
  <2> HIDE DEF r
  <2>7. StopAccepted' = [StopAccepted EXCEPT ![s] = StopAccepted'[s]]
    <3>1. \A q \in Runs \ {r} : child'[q] = child[q] /\ asked'[q] = asked[q]
      BY <2>2, <2>3 DEF IInv, TypeOK
    <3>2. \A t \in Services \ {owner[r]} : entries'[t] = entries[t]
      BY <2>3
    <3>3. SeenOnlyAt(owner[r])
      BY <2>2, <3>1, <3>2, SeenAtOwner
    <3>4. QED
      BY <2>2, <3>3 DEF SeenOnlyAt
  <2>8. QED
    BY <2>4, <2>5, <2>6, <2>7 DEF Lifecycle!RequestStop, Lifecycle!Busy
<1>5. QED
  BY <1>1, <1>2, <1>3, <1>4 DEF CallerStep
\* Of the steps of a run a user sees the spawn, readiness, the exit and the end;
\* every other one only moves a task, a channel, a flag or a record.
LEMMA RunStepsAreSeen ==
  ASSUME IInv, IInv', NEW r \in Runs, RunStep(r)
  PROVE  \/ \E s \in Services :
              \/ Lifecycle!Launch(s) \/ Lifecycle!BecomeReady(s)
              \/ Lifecycle!ProcessEnds(s) \/ Lifecycle!End(s)
         \/ UNCHANGED Lifecycle!vars
<1> DEFINE s == owner[r]
<1>a. RunsAreShown /\ RunsAreShown'
  BY Shown, PTL
<1>b. ASSUME UnderWay(r),
             entries' = entries \/ entries' = [entries EXCEPT ![s] = entries'[s]],
             child' = [child EXCEPT ![r] = child'[r]], asked' = asked
      PROVE  /\ ShownStatus' = [ShownStatus EXCEPT ![s] = ShownStatus'[s]]
             /\ CurrentProcess' = [CurrentProcess EXCEPT ![s] = CurrentProcess'[s]]
             /\ StopAccepted' = [StopAccepted EXCEPT ![s] = StopAccepted'[s]]
  <2>1. \A t \in Services \ {s} : entries'[t] = entries[t]
    BY <1>b DEF IInv, TypeOK
  <2>2. \A q \in Runs \ {r} : child'[q] = child[q] /\ asked'[q] = asked[q]
    BY <1>b DEF IInv, TypeOK
  <2>3. SeenOnlyAt(s)
    BY <1>b, <2>1, <2>2, SeenAtOwner
  <2>4. QED
    BY <2>3 DEF SeenOnlyAt
<1>1. CASE Spawn(r)
  <2>1. /\ UnderWay(r) /\ UnderWay(r)' /\ s' = s
        /\ UNCHANGED <<entries, asked>>
        /\ child' = [child EXCEPT ![r] = child'[r]]
    BY <1>1 DEF Spawn, Goto, UnderWay, IInv, TypeOK
  <2>2. child[r] = "none" /\ child'[r] = "alive"
    BY <1>1 DEF Spawn, Goto, IInv, TypeOK, Ties, ChildOfRun
  <2>3. entries[s].state = "Starting"
    BY <1>1 DEF Spawn, Goto, IInv, Ties, StateOfRun, Starting
  <2>4. s \in Services /\ ShownStatus[s] = "Starting" /\ CurrentProcess[s] = "none"
    BY <1>a, <2>1, <2>2, <2>3 DEF RunsAreShown
  <2>5. CurrentProcess'[s] = "alive"
    BY <1>a, <2>1, <2>2 DEF RunsAreShown, Dead
  <2>6. UNCHANGED <<ShownStatus, StopAccepted>>
    BY <2>1 DEF ShownStatus, StopAccepted, Current, IsRegistered
  <2>7. CurrentProcess' = [CurrentProcess EXCEPT ![s] = "alive"]
    BY <1>b, <2>1, <2>5
  <2>8. QED
    BY <2>4, <2>6, <2>7 DEF Lifecycle!Launch
<1>2. CASE SetRunning(r)
  <2>1. /\ UnderWay(r) /\ UnderWay(r)' /\ s' = s
        /\ UNCHANGED <<child, asked>>
    BY <1>2 DEF SetRunning, Goto, UnderWay, IInv, TypeOK
  <2>2. /\ child[r] # "none"
        /\ entries[s].state = "Starting" /\ entries'[s].state = "Running"
    BY <1>2, <2>1
       DEF SetRunning, Goto, IInv, TypeOK, Ties, ChildOfRun, StateOfRun, Parenting,
           UnderWay
  <2>3. entries' = [entries EXCEPT ![s] = entries'[s]]
    BY <1>2, <2>1 DEF SetRunning, SetState, IInv, TypeOK
  <2>4. /\ s \in Services /\ ShownStatus[s] = "Starting" /\ CurrentProcess[s] # "none"
        /\ ShownStatus'[s] = "Running"
        /\ CurrentProcess'[s] = CurrentProcess[s]
        /\ StopAccepted'[s] = StopAccepted[s]
    BY <1>a, <2>1, <2>2 DEF RunsAreShown
  <2>5. child' = [child EXCEPT ![r] = child'[r]]
    BY <2>1 DEF IInv, TypeOK
  <2>6. UNCHANGED <<CurrentProcess, StopAccepted>>
    BY <1>b, <2>1, <2>3, <2>4, <2>5, SeenAreTables
  <2>7. ShownStatus' = [ShownStatus EXCEPT ![s] = "Running"]
    BY <1>b, <2>1, <2>3, <2>4, <2>5
  <2>8. QED
    BY <2>4, <2>6, <2>7 DEF Lifecycle!BecomeReady
<1>3. CASE (\E status \in Dead : ChildExits(r, status)) \/ KillLands(r)
  <2>1. /\ UnderWay(r) /\ UnderWay(r)' /\ s' = s
        /\ UNCHANGED <<entries, asked>>
        /\ child' = [child EXCEPT ![r] = child'[r]]
        /\ child[r] \in {"alive", "dying"} /\ child'[r] \in Dead
    BY <1>3
       DEF ChildExits, KillLands, Dead, UnderWay, IInv, TypeOK, Ties,
           ChildHasTask, Parenting
  <2>2. s \in Services /\ CurrentProcess[s] = "alive" /\ CurrentProcess'[s] = "over"
    BY <1>a, <2>1 DEF RunsAreShown, Dead
  <2>3. UNCHANGED <<ShownStatus, StopAccepted>>
    BY <2>1 DEF ShownStatus, StopAccepted, Current, IsRegistered
  <2>4. CurrentProcess' = [CurrentProcess EXCEPT ![s] = "over"]
    BY <1>b, <2>1, <2>2
  <2>5. QED
    BY <2>2, <2>3, <2>4 DEF Lifecycle!ProcessEnds
<1>4. CASE SetTerminal(r)
  <2>1. UnderWay(r) /\ UNCHANGED <<child, asked>>
    BY <1>4 DEF SetTerminal, Goto, UnderWay
  <2>2. /\ s \in Services /\ IsRegistered(s) /\ ~IsTerminal(s) /\ entries[s] \in Entry
    BY <2>1
       DEF IInv, Ties, TypeOK, EntryIsOfRun, OwnedUnlessDone, UnderWay, IsRegistered
  <2>3. verdict[r] \in {"Stopped", "Failed"} /\ child[r] \notin {"alive", "dying"}
    BY <1>4
       DEF SetTerminal, Goto, IInv, TypeOK, Ties, ChildHasTask, Parenting,
           TerminalStates
  <2>4. /\ entries'[s] = [entries[s] EXCEPT !.state = verdict[r], !.pid = None,
                                           !.control = None]
        /\ entries' = [entries EXCEPT ![s] = entries'[s]]
    BY <1>4, <2>2, <2>3 DEF SetTerminal, SetState, IInv, TypeOK, TerminalStates
  <2>5. entries'[s] \in Entry
    BY <2>2, <2>3, <2>4 DEF Entry, States, TerminalStates
  <2>6. /\ entries'[s] # None
        /\ entries'[s].state = verdict[r] /\ entries'[s].control = None
    BY <2>2, <2>4, <2>5, SupervisorAssumption DEF Entry
  <2>7. /\ ShownStatus[s] \in {"Starting", "Running"}
        /\ CurrentProcess[s] # "alive"
    BY <1>a, <2>1, <2>2, <2>3
       DEF RunsAreShown, Entry, States, TerminalStates, IsTerminal, IInv, TypeOK,
           Children
  <2>8. /\ ShownStatus'[s] = verdict[r]
        /\ CurrentProcess'[s] = "none"
        /\ StopAccepted'[s] = FALSE
    BY <2>2, <2>6
       DEF ShownStatus, CurrentProcess, StopAccepted, Current, IsRegistered
  <2>9. /\ ShownStatus' = [ShownStatus EXCEPT ![s] = verdict[r]]
        /\ CurrentProcess' = [CurrentProcess EXCEPT ![s] = "none"]
        /\ StopAccepted' = [StopAccepted EXCEPT ![s] = FALSE]
    BY <1>b, <2>1, <2>4, <2>8 DEF IInv, TypeOK
  <2>10. QED
    BY <2>2, <2>3, <2>7, <2>9 DEF Lifecycle!End, Lifecycle!Busy, Lifecycle!Idle
<1>5. CASE AnnounceTerminal(r)
  <2>1. \A t \in Services :
          /\ entries'[t] = entries[t]
          /\ Current(t) # None => /\ child'[Current(t)] = child[Current(t)]
                                  /\ asked'[Current(t)] = asked[Current(t)]
    <3> TAKE t \in Services
    <3>1. Current(t) # None => Current(t) \in Runs /\ Current(t) # r
      BY <1>5, CurrentIsUnderWay
         DEF AnnounceTerminal, Goto, UnderWay, IInv, TypeOK, Entry, Current,
             IsRegistered
    <3>2. /\ UNCHANGED entries
          /\ \A q \in Runs \ {r} : child'[q] = child[q] /\ asked'[q] = asked[q]
      BY <1>5 DEF AnnounceTerminal, IInv, TypeOK
    <3>3. QED
      BY <3>1, <3>2
  <2>2. \A t \in Services : Current(t)' = Current(t) /\ entries'[t] = entries[t]
    BY <2>1 DEF Current, IsRegistered
  <2>3. UNCHANGED <<ShownStatus, CurrentProcess, StopAccepted>>
    BY <2>1, <2>2 DEF ShownStatus, CurrentProcess, StopAccepted, IsRegistered
  <2>4. QED
    BY <2>3 DEF Lifecycle!vars
<1>6. CASE GraceElapsed(r)
  <2>1. /\ UnderWay(r) /\ UnderWay(r)' /\ s' = s
        /\ UNCHANGED <<entries, asked>>
        /\ child' = [child EXCEPT ![r] = child'[r]]
        /\ child'[r] = IF child[r] = "alive" THEN "dying" ELSE child[r]
    BY <1>6 DEF GraceElapsed, Goto, UnderWay, IInv, TypeOK
  <2>2. s \in Services /\ CurrentProcess'[s] = CurrentProcess[s]
    BY <1>a, <2>1 DEF RunsAreShown, Dead
  <2>3. UNCHANGED <<ShownStatus, StopAccepted>>
    BY <2>1 DEF ShownStatus, StopAccepted, Current, IsRegistered
  <2>4. UNCHANGED CurrentProcess
    BY <1>b, <2>1, <2>2, SeenAreTables
  <2>5. QED
    BY <2>3, <2>4 DEF Lifecycle!vars
<1>7. CASE SetPid(r)
  <2>1. UnderWay(r) /\ UNCHANGED <<child, asked>>
    BY <1>7 DEF SetPid, Goto, UnderWay
  <2>2. s \in Services /\ IsRegistered(s) /\ entries[s] \in Entry
    BY <2>1
       DEF IInv, Ties, TypeOK, EntryIsOfRun, OwnedUnlessDone, UnderWay, IsRegistered
  <2>3. entries' = [entries EXCEPT ![s] = [entries[s] EXCEPT !.pid = r]]
    BY <1>7, <2>2 DEF SetPid
  <2>4. [entries[s] EXCEPT !.pid = r] \in Entry
    BY <2>2, EntryFields
  <2>5. /\ entries'[s] # None
        /\ entries'[s].state = entries[s].state
        /\ entries'[s].control = entries[s].control
    BY <2>2, <2>3, <2>4, SupervisorAssumption DEF Entry, IInv, TypeOK
  <2>6. \A t \in Services : /\ IsRegistered(t)' <=> IsRegistered(t)
                            /\ IsRegistered(t) => entries'[t].state = entries[t].state
                            /\ Current(t)' = Current(t)
    BY <2>2, <2>3, <2>5 DEF IsRegistered, Current, IInv, TypeOK
  <2>7. UNCHANGED <<ShownStatus, CurrentProcess, StopAccepted>>
    BY <2>1, <2>6 DEF ShownStatus, CurrentProcess, StopAccepted
  <2>8. QED
    BY <2>7 DEF Lifecycle!vars
<1>8. CASE \/ TrySend(r) \/ AnnounceStart(r) \/ SpawnFails(r) \/ RecordRunning(r)
           \/ AliveAfterElapsed(r) \/ ProbeSucceeds(r) \/ ProbeDeadline(r)
           \/ AnnounceRunning(r) \/ ReceiveStop(r) \/ ChildReaped(r)
           \/ Classify(r) \/ RemoveRecord(r)
  <2>1. UNCHANGED <<entries, child, asked>>
    BY <1>8
       DEF TrySend, AnnounceStart, SpawnFails, RecordRunning, AliveAfterElapsed,
           ProbeSucceeds, ProbeDeadline, AnnounceRunning, ReceiveStop,
           ChildReaped, Classify, RemoveRecord
  <2>2. UNCHANGED <<ShownStatus, CurrentProcess, StopAccepted>>
    BY <2>1 DEF ShownStatus, CurrentProcess, StopAccepted, Current, IsRegistered
  <2>3. QED
    BY <2>2 DEF Lifecycle!vars
<1>9. QED
  BY <1>1, <1>2, <1>3, <1>4, <1>5, <1>6, <1>7, <1>8 DEF RunStep, TaskStep

\* The supervisor implements what it promises its users, for any number of
\* services, runs and concurrent callers: no interleaving of tasks, calls and
\* late broadcasts shows a state that ServiceLifecycle could not show next.  In
\* particular a run has at most one process, a service becomes Running only with
\* one, and a terminal state is written only when there is none left.
THEOREM StepsOfLifecycle ==
  Spec => Lifecycle!Init /\ [][Lifecycle!Next]_(Lifecycle!vars)
<1>1. Init => Lifecycle!Init
  <2> SUFFICES ASSUME Init PROVE Lifecycle!Init
    OBVIOUS
  <2>1. \A s \in Services : entries[s] = None
    BY DEF Init
  <2>2. \A s \in Services : ~IsRegistered(s) /\ Current(s) = None
    BY <2>1 DEF IsRegistered, Current
  <2>3. QED
    BY <2>2 DEF Lifecycle!Init, ShownStatus, CurrentProcess, StopAccepted
<1>2. IInv /\ IInv' /\ [Next]_vars => [Lifecycle!Next]_(Lifecycle!vars)
  <2> SUFFICES ASSUME IInv, IInv', [Next]_vars
               PROVE  [Lifecycle!Next]_(Lifecycle!vars)
    OBVIOUS
  <2>1. CASE CallerStep
    BY <2>1, CallsAreSeen DEF Lifecycle!Next
  <2>2. ASSUME NEW r \in Runs, RunStep(r)
        PROVE  [Lifecycle!Next]_(Lifecycle!vars)
    BY <2>2, RunStepsAreSeen DEF Lifecycle!Next
  <2>3. CASE UNCHANGED vars
    BY <2>3
       DEF vars, Lifecycle!vars, ShownStatus, CurrentProcess, StopAccepted,
           Current, IsRegistered
  <2>4. QED
    BY <2>1, <2>2, <2>3 DEF Next
<1>3. QED
  BY <1>1, <1>2, Inductive, PTL DEF Spec

-----------------------------------------------------------------------------
(* The control socket's verbs: every step of the supervisor may fall between  *)
(* two steps of a call.                                                       *)

\* The history of a restart that may report success.
Excused(c) == past[c] \intersect {"began", "misled"} # {}

\* There is nothing of this service for a restart to stop.
IsDown(s) == IsRegistered(s) => IsTerminal(s)

\* A call that has not been told yet will be: by an event it holds, by the
\* notice that it lost one, or by a broadcast that is still to come.
WillHear(c) ==
  \/ lagged[c]
  \/ inbox[c] # <<>>
  \/ AnnouncementDue(calls[c].service)
  \/ "blind" \in past[c]

\* The service of a call is where the call wants it, or is no longer registered.
IsOver(c) ==
  LET s == calls[c].service
      target == calls[c].target
  IN  \/ /\ calls[c].phase = "kicking"
         /\ IsRegistered(s) => Settled(target, entries[s].state)
      \/ /\ calls[c].phase = "waiting"
         /\ IsRegistered(s) => Step(target, entries[s].state) # "Pending"

\* A terminal event in a receiver is that of a run whose task has returned.
TerminalNewsIsOld(c) ==
  \A i \in DOMAIN inbox[c] :
    inbox[c][i].state \in TerminalStates =>
      inbox[c][i].run \in Runs /\ pc[inbox[c][i].run] = "done"

Restarting(c, target) ==
  Active(c) /\ calls[c].verb = "restart" /\ calls[c].target = target

\* The stop half waits for the run it stopped, unless that one is over.
StopHalfKnowsRun(c) ==
  Restarting(c, "Stopped") /\ calls[c].phase = "waiting" =>
    LET s == calls[c].service
        r == calls[c].run
    IN  \/ "began" \in past[c]
        \/ IsDown(s)
        \/ r \in Runs /\ UnderWay(r) /\ owner[r] = s

\* The start half finds the service down, unless a run has begun since.
StartHalfStartsAnew(c) ==
  Restarting(c, "Running") =>
    /\ Excused(c) \/ IsDown(calls[c].service)
    /\ \A i \in DOMAIN inbox[c] : inbox[c][i].state = "Running" => Excused(c)

\* What RestartRestarts says of one call.
RestartKept(c) ==
  calls[c].verb = "restart" /\ calls[c].answer = "Changed" => Excused(c)

\* A call has no answer before it is over.
Unanswered(c) == Active(c) => calls[c].answer = "none"

CallTies(c) ==
  /\ IsOver(c) => WillHear(c)
  /\ TerminalNewsIsOld(c)
  /\ StopHalfKnowsRun(c)
  /\ StartHalfStartsAnew(c)
  /\ RestartKept(c)
  /\ Unanswered(c)

\* The inductive invariant of the verbs.
CInv == IInv /\ ControlTypeOK /\ \A c \in Calls : CallTies(c)

\* A step of the verbs or of the other actors is, to the supervisor, one of its
\* own steps or none.
LEMMA ControlStepsAreSteps ==
  ASSUME ControlTypeOK, [ControlNext]_allVars
  PROVE  [Next]_vars
<1>1. CASE QuietStep
  BY <1>1 DEF QuietStep, Next, CallerStep
<1>2. ASSUME NEW r \in Runs, Announce(r) PROVE Next
  BY <1>2 DEF Announce, Next, RunStep, TaskStep
<1>3. ASSUME NEW s \in Services, AnnounceRemoval(s) \/ OthersUnregister(s)
      PROVE  [Next]_vars
  BY <1>3 DEF AnnounceRemoval, OthersUnregister, Next, CallerStep
<1>4. ASSUME NEW s \in Services, NEW r \in Runs, OthersStart(s, r) PROVE Next
  BY <1>4 DEF OthersStart, StartRun, Next, CallerStep
<1>5. ASSUME NEW c \in Calls, KickStart(c) \/ KickStop(c) PROVE [Next]_vars
  <2>1. calls[c].service \in Services
    BY DEF ControlTypeOK, Call
  <2>2. QED
    BY <1>5, <2>1 DEF KickStart, KickStop, StartRun, Next, CallerStep
<1>6. ASSUME NEW c \in Calls,
             \/ \E verb \in Verbs, s \in Services, wait \in BOOLEAN :
                  Begin(c, verb, s, wait)
             \/ Admit(c) \/ KickNotFound(c) \/ Receive(c) \/ ReceiveLagged(c)
             \/ LogOverflow(c) \/ TimesOut(c)
      PROVE  UNCHANGED vars
  BY <1>6 DEF Begin, Admit, KickNotFound, Receive, ReceiveLagged, LogOverflow, TimesOut
<1>7. CASE UNCHANGED allVars
  BY <1>7 DEF allVars
<1>8. QED
  BY <1>1, <1>2, <1>3, <1>4, <1>5, <1>6, <1>7 DEF ControlNext, Proceed

\* What a receiver holds after a broadcast: no more than its capacity, the event,
\* and otherwise only what it held.
LEMMA Pushed ==
  ASSUME NEW q \in Seq(Event), Len(q) <= Capacity, NEW e \in Event, NEW p,
         p = Append(IF Len(q) = Capacity THEN Tail(q) ELSE q, e)
  PROVE  /\ p \in Seq(Event)
         /\ Len(p) <= Capacity
         /\ p # <<>>
         /\ \A i \in DOMAIN p : p[i] = e \/ \E j \in DOMAIN q : p[i] = q[j]
<1>1. Capacity \in Nat \ {0}
  BY ControlAssumption
<1>2. ASSUME NEW t \in Seq(Event), p = Append(t, e), Len(t) < Capacity,
             \A i \in 1 .. Len(t) : \E j \in DOMAIN q : t[i] = q[j]
      PROVE  /\ p \in Seq(Event) /\ Len(p) <= Capacity /\ p # <<>>
             /\ \A i \in DOMAIN p : p[i] = e \/ \E j \in DOMAIN q : p[i] = q[j]
  <2>1. /\ p \in Seq(Event) /\ p # <<>> /\ Len(p) = Len(t) + 1
        /\ \A i \in 1 .. Len(t) : p[i] = t[i]
        /\ p[Len(t) + 1] = e
    <3>1. /\ Append(t, e) \in Seq(Event) /\ Append(t, e) # <<>>
          /\ Len(Append(t, e)) = Len(t) + 1
          /\ \A i \in 1 .. Len(t) : Append(t, e)[i] = t[i]
          /\ Append(t, e)[Len(t) + 1] = e
      BY <1>2, AppendProperties
    <3>2. QED
      BY <1>2, <3>1, Zenon
  <2>2. Len(t) \in Nat /\ DOMAIN p = 1 .. Len(p)
    BY <2>1
  <2>3. ASSUME NEW i \in 1 .. Len(p)
        PROVE  p[i] = e \/ \E j \in DOMAIN q : p[i] = q[j]
    <3>1. i \in 1 .. Len(t) \/ i = Len(t) + 1
      BY <2>1, <2>2
    <3>2. QED
      BY <1>2, <2>1, <3>1
  <2>4. QED
    BY <1>1, <1>2, <2>1, <2>2, <2>3
<1>3. CASE Len(q) = Capacity
  <2>1. q # <<>>
    BY <1>1, <1>3
  <2>2. /\ Tail(q) \in Seq(Event) /\ Len(Tail(q)) = Len(q) - 1
        /\ \A i \in 1 .. Len(Tail(q)) : Tail(q)[i] = q[i + 1]
    BY <2>1, HeadTailProperties
  <2>3. \A i \in 1 .. Len(Tail(q)) : i + 1 \in DOMAIN q
    BY <2>2
  <2>4. p = Append(Tail(q), e) /\ Len(Tail(q)) < Capacity
    BY <1>1, <1>3, <2>2
  <2>5. QED
    BY <1>2, <2>2, <2>3, <2>4
<1>4. CASE Len(q) # Capacity
  <2>1. p = Append(q, e) /\ Len(q) < Capacity
    BY <1>1, <1>4
  <2>2. \A i \in 1 .. Len(q) : i \in DOMAIN q
    OBVIOUS
  <2>3. QED
    BY <1>2, <2>1, <2>2
<1>5. QED
  BY <1>3, <1>4

\* A receiver that drops its oldest event keeps the others.
LEMMA Popped ==
  ASSUME NEW q \in Seq(Event), q # <<>>
  PROVE  /\ Tail(q) \in Seq(Event)
         /\ Len(Tail(q)) <= Len(q)
         /\ \A i \in DOMAIN Tail(q) : \E j \in DOMAIN q : Tail(q)[i] = q[j]
<1>1. /\ Tail(q) \in Seq(Event) /\ Len(Tail(q)) = Len(q) - 1
      /\ \A i \in 1 .. Len(Tail(q)) : i + 1 \in 1 .. Len(q) /\ Tail(q)[i] = q[i + 1]
  OBVIOUS
<1>2. QED
  BY <1>1

\* What a broadcast does to a receiver.
LEMMA Heard ==
  ASSUME ControlTypeOK, NEW s, NEW e \in Event, Broadcast(s, e), NEW c \in Calls
  PROVE  /\ inbox'[c] \in Seq(Event) /\ Len(inbox'[c]) <= Capacity
         /\ inbox[c] # <<>> => inbox'[c] # <<>>
         /\ c \in On(s) /\ Ends(c, e) => inbox'[c] # <<>>
         /\ \A i \in DOMAIN inbox'[c] :
              \/ inbox'[c][i] = e /\ c \in On(s)
              \/ \E j \in DOMAIN inbox[c] : inbox'[c][i] = inbox[c][j]
         /\ lagged[c] => lagged'[c]
<1>1. inbox[c] \in Seq(Event) /\ Len(inbox[c]) <= Capacity
  BY DEF ControlTypeOK
<1>2. lagged[c] => lagged'[c]
  BY DEF Broadcast
<1>3. CASE c \in On(s) /\ Ends(c, e)
  <2>1. inbox'[c] =
          Append(IF Len(inbox[c]) = Capacity THEN Tail(inbox[c]) ELSE inbox[c], e)
    <3>1. c \in {d \in On(s) : Hears(d) /\ Ends(d, e)}
      BY <1>3 DEF Hears, On
    <3>2. QED
      BY <3>1 DEF Broadcast, IsFull
  <2>2. /\ inbox'[c] \in Seq(Event) /\ Len(inbox'[c]) <= Capacity /\ inbox'[c] # <<>>
        /\ \A i \in DOMAIN inbox'[c] :
             inbox'[c][i] = e \/ \E j \in DOMAIN inbox[c] : inbox'[c][i] = inbox[c][j]
    <3> DEFINE q == inbox[c]
               p == inbox'[c]
    <3>1. q \in Seq(Event) /\ Len(q) <= Capacity
      BY <1>1
    <3>2. p = Append(IF Len(q) = Capacity THEN Tail(q) ELSE q, e)
      BY <2>1
    <3> HIDE DEF q, p
    <3>3. /\ p \in Seq(Event) /\ Len(p) <= Capacity /\ p # <<>>
          /\ \A i \in DOMAIN p : p[i] = e \/ \E j \in DOMAIN q : p[i] = q[j]
      BY <3>1, <3>2, Pushed
    <3>4. QED
      BY <3>3 DEF q, p
  <2>3. QED
    BY <1>2, <1>3, <2>2
<1>4. CASE ~(c \in On(s) /\ Ends(c, e))
  <2>1. inbox'[c] = inbox[c]
    BY <1>4 DEF Broadcast
  <2>2. QED
    BY <1>1, <1>2, <1>4, <2>1
<1>5. QED
  BY <1>3, <1>4

\* A broadcast keeps the types of the receivers.
LEMMA BroadcastType ==
  ASSUME ControlTypeOK, NEW s, NEW e \in Event, Broadcast(s, e)
  PROVE  /\ inbox' \in [Calls -> Seq(Event)]
         /\ \A c \in Calls : Len(inbox'[c]) <= Capacity
         /\ lagged' \in [Calls -> BOOLEAN]
         /\ UNCHANGED <<calls, past>>
<1>1. \A c \in Calls : inbox'[c] \in Seq(Event) /\ Len(inbox'[c]) <= Capacity
  BY Heard
<1>2. inbox' = [c \in Calls |-> inbox'[c]]
  BY DEF Broadcast
<1>3. lagged' \in [Calls -> BOOLEAN] /\ UNCHANGED <<calls, past>>
  BY DEF Broadcast, ControlTypeOK
<1>4. QED
  BY <1>1, <1>2, <1>3

\* An answer, and the move of a restart to its start half, are the two ways out
\* of a transition; both leave an empty receiver.
GoesOn(c) ==
  /\ calls[c].verb = "restart" /\ calls[c].target = "Stopped"
  /\ calls' = [calls EXCEPT ![c].phase = "admitting", ![c].target = "Running",
                            ![c].run = None]
  /\ ClearReceiver(c)

\* Reach takes the way out that its half of the restart calls for.
LEMMA ReachCases ==
  ASSUME NEW c, NEW disposition, Reach(c, disposition)
  PROVE  \/ GoesOn(c)
         \/ /\ calls[c].verb = "restart" => calls[c].target # "Stopped"
            /\ Answer(c, IF calls[c].verb = "restart" THEN "Changed" ELSE disposition)
BY DEF Reach, GoesOn

\* A new receiver is empty.
LEMMA ClearedType ==
  ASSUME ControlTypeOK, NEW c \in Calls, ClearReceiver(c)
  PROVE  /\ inbox' \in [Calls -> Seq(Event)]
         /\ \A d \in Calls : Len(inbox'[d]) <= Capacity
         /\ lagged' \in [Calls -> BOOLEAN]
<1>1. <<>> \in Seq(Event) /\ Len(<<>>) = 0 /\ 0 <= Capacity
  BY ControlAssumption
<1>2. QED
  BY <1>1 DEF ControlTypeOK, ClearReceiver

\* Both ways out keep the types.
LEMMA WaysOutType ==
  ASSUME ControlTypeOK, NEW c \in Calls,
         GoesOn(c) \/ \E answer \in Answers : Answer(c, answer)
  PROVE  /\ calls' \in [Calls -> Call]
         /\ inbox' \in [Calls -> Seq(Event)]
         /\ \A d \in Calls : Len(inbox'[d]) <= Capacity
         /\ lagged' \in [Calls -> BOOLEAN]
<1> USE DEF ControlTypeOK
<1>1. ClearReceiver(c)
  BY DEF GoesOn, Answer
<1>2. calls[c] \in Call
  OBVIOUS
<1>3. CASE GoesOn(c)
  <2>1. [calls[c] EXCEPT !.phase = "admitting", !.target = "Running", !.run = None]
          \in Call
    BY <1>2 DEF Call, Phases
  <2>2. calls' = [calls EXCEPT ![c] =
          [calls[c] EXCEPT !.phase = "admitting", !.target = "Running", !.run = None]]
    BY <1>3 DEF GoesOn
  <2>3. QED
    BY <1>1, <2>1, <2>2, ClearedType
<1>4. ASSUME NEW answer \in Answers, Answer(c, answer) PROVE calls' \in [Calls -> Call]
  <2>1. Answered(calls[c].verb, calls[c].service, answer) \in Call
    BY <1>2 DEF Call, Phases, Answered
  <2>2. calls' = [calls EXCEPT ![c] = Answered(calls[c].verb, calls[c].service, answer)]
    BY <1>4 DEF Answer
  <2>3. QED
    BY <2>1, <2>2
<1>5. QED
  BY <1>1, <1>3, <1>4, ClearedType

\* After the kick a call waits, or is over.
LEMMA KickedType ==
  ASSUME ControlTypeOK, NEW c \in Calls, NEW r \in Runs \union {None}, Kicked(c, r)
  PROVE  /\ calls' \in [Calls -> Call]
         /\ inbox' \in [Calls -> Seq(Event)]
         /\ \A d \in Calls : Len(inbox'[d]) <= Capacity
         /\ lagged' \in [Calls -> BOOLEAN]
<1>1. CASE Reach(c, "Changed")
  BY <1>1, ReachCases, WaysOutType DEF Answers
<1>2. CASE /\ calls' = [calls EXCEPT ![c].phase = "waiting", ![c].run = r]
           /\ UNCHANGED <<inbox, lagged>>
  <2>1. [calls[c] EXCEPT !.phase = "waiting", !.run = r] \in Call
    <3>1. calls[c] \in Call /\ "waiting" \in Phases
      BY DEF ControlTypeOK, Phases
    <3>2. QED
      BY <3>1 DEF Call
  <2>2. calls' = [calls EXCEPT ![c] = [calls[c] EXCEPT !.phase = "waiting", !.run = r]]
    BY <1>2
  <2>3. QED
    BY <1>2, <2>1, <2>2 DEF ControlTypeOK
<1>3. QED
  BY <1>1, <1>2 DEF Kicked

\* Every step of the verbs keeps their types.
LEMMA ControlTypeStep ==
  ASSUME TypeOK, ControlTypeOK, [ControlNext]_allVars
  PROVE  ControlTypeOK'
<1> USE DEF ControlTypeOK
<1>1. CASE QuietStep \/ UNCHANGED allVars
  BY <1>1 DEF QuietStep, allVars, callVars
<1>2. ASSUME NEW r \in Runs, Announce(r) PROVE ControlTypeOK'
  <2>1. \A state \in States : [run |-> r, state |-> state] \in Event
    BY DEF Event
  <2>2. verdict[r] \in States /\ "Starting" \in States /\ "Running" \in States
    BY DEF TypeOK, States
  <2>3. \E e \in Event : Broadcast(owner[r], e)
    BY <1>2, <2>1, <2>2 DEF Announce
  <2>4. QED
    BY <1>2, <2>3, BroadcastType DEF Announce
<1>3. ASSUME NEW s \in Services, AnnounceRemoval(s) PROVE ControlTypeOK'
  <2>1. [run |-> None, state |-> "Unregistered"] \in Event
    BY DEF Event
  <2>2. QED
    BY <1>3, <2>1, BroadcastType DEF AnnounceRemoval
<1>4. ASSUME NEW s \in Services, OthersUnregister(s) PROVE ControlTypeOK'
  BY <1>4 DEF OthersUnregister
<1>5. ASSUME NEW s \in Services, NEW r \in Runs, OthersStart(s, r) PROVE ControlTypeOK'
  BY <1>5 DEF OthersStart, NoteStart, Facts
<1>6. ASSUME NEW c \in Calls, NEW verb \in Verbs, NEW s \in Services,
             NEW wait \in BOOLEAN, Begin(c, verb, s, wait)
      PROVE  ControlTypeOK'
  <2> DEFINE call == [phase |-> "admitting", verb |-> verb, service |-> s,
                      wait |-> wait,
                      target |-> IF verb = "start" THEN "Running" ELSE "Stopped",
                      run |-> None, answer |-> "none"]
  <2>1. call \in Call
    BY DEF Call, Phases, Answers
  <2>2. calls' = [calls EXCEPT ![c] = call] /\ past' = [past EXCEPT ![c] = {}]
        /\ UNCHANGED unannounced
    BY <1>6 DEF Begin
  <2> HIDE DEF call
  <2>3. calls' \in [Calls -> Call] /\ past' \in [Calls -> SUBSET Facts]
    BY <2>1, <2>2
  <2>4. ClearReceiver(c)
    BY <1>6 DEF Begin
  <2>5. QED
    BY <2>2, <2>3, <2>4, ClearedType
<1>7. ASSUME NEW c \in Calls, Admit(c) PROVE ControlTypeOK'
  <2>1. UNCHANGED <<unannounced, past>>
    BY <1>7 DEF Admit
  <2>2. CASE Answer(c, "UnknownService") \/ Reach(c, "Unchanged")
    BY <2>1, <2>2, WaysOutType, ReachCases DEF Answers
  <2>3. CASE /\ calls' = [calls EXCEPT ![c].phase = "kicking"]
             /\ UNCHANGED <<inbox, lagged>>
    <3>1. calls[c] \in Call /\ "kicking" \in Phases
      BY DEF Phases
    <3>2. [calls[c] EXCEPT !.phase = "kicking"] \in Call
      BY <3>1 DEF Call
    <3>3. QED
      BY <2>1, <2>3, <3>2
  <2>4. QED
    BY <1>7, <2>2, <2>3 DEF Admit
<1>8. ASSUME NEW c \in Calls, KickStart(c) PROVE ControlTypeOK'
  <2>1. UNCHANGED unannounced /\ past' \in [Calls -> SUBSET Facts]
    <3>1. UNCHANGED unannounced /\ (NoteStart(calls[c].service) \/ UNCHANGED past)
      BY <1>8 DEF KickStart
    <3>2. QED
      BY <3>1 DEF NoteStart, Facts
  <2>2. calls[c].service \in Services
    BY DEF Call
  <2>3. entries[calls[c].service].control \in Runs \union {None}
    BY <1>8, <2>2 DEF KickStart, TypeOK, Entry, IsRegistered
  <2>4. \E r \in Runs \union {None} : Kicked(c, r)
    BY <1>8, <2>3 DEF KickStart
  <2>5. QED
    BY <2>1, <2>4, KickedType
<1>9. ASSUME NEW c \in Calls, KickStop(c) PROVE ControlTypeOK'
  <2>1. UNCHANGED unannounced /\ past' \in [Calls -> SUBSET Facts]
    BY <1>9 DEF KickStop
  <2>2. calls[c].service \in Services
    BY DEF Call
  <2>3. entries[calls[c].service].control \in Runs \union {None}
    BY <1>9, <2>2 DEF KickStop, TypeOK, Entry, IsRegistered
  <2>4. QED
    BY <1>9, <2>1, <2>3, KickedType DEF KickStop
<1>10. ASSUME NEW c \in Calls, KickNotFound(c) \/ TimesOut(c) PROVE ControlTypeOK'
  BY <1>10, WaysOutType DEF KickNotFound, TimesOut, Answers
<1>11. ASSUME NEW c \in Calls, Receive(c) PROVE ControlTypeOK'
  <2>1. UNCHANGED unannounced /\ past' \in [Calls -> SUBSET Facts]
    BY <1>11 DEF Receive, Facts
  <2>2. GoesOn(c) \/ \E answer \in Answers : Answer(c, answer)
    BY <1>11, ReachCases DEF Receive, Observe, Answers
  <2>3. QED
    BY <2>1, <2>2, WaysOutType
<1>12. ASSUME NEW c \in Calls, ReceiveLagged(c) PROVE ControlTypeOK'
  <2>1. UNCHANGED unannounced /\ past' \in [Calls -> SUBSET Facts]
    BY <1>12 DEF ReceiveLagged, Facts
  <2>2. CASE \E state : Observe(c, state)
    <3>1. GoesOn(c) \/ \E answer \in Answers : Answer(c, answer)
      BY <2>2, ReachCases DEF Observe, Answers
    <3>2. QED
      BY <2>1, <3>1, WaysOutType
  <2>3. CASE lagged' = [lagged EXCEPT ![c] = FALSE] /\ UNCHANGED <<calls, inbox>>
    BY <2>1, <2>3
  <2>4. QED
    BY <1>12, <2>2, <2>3 DEF ReceiveLagged
<1>13. ASSUME NEW c \in Calls, LogOverflow(c) PROVE ControlTypeOK'
  <2>1. inbox[c] \in Seq(Event) /\ Len(inbox[c]) <= Capacity
    OBVIOUS
  <2> DEFINE q == IF inbox[c] = <<>> THEN inbox[c] ELSE Tail(inbox[c])
  <2>2. q \in Seq(Event) /\ Len(q) <= Len(inbox[c])
    BY <2>1, Popped
  <2>3. inbox' = [inbox EXCEPT ![c] = q]
    BY <1>13 DEF LogOverflow
  <2> HIDE DEF q
  <2>4. Len(q) <= Capacity
    BY <2>1, <2>2, ControlAssumption
  <2>5. inbox' \in [Calls -> Seq(Event)] /\ \A d \in Calls : Len(inbox'[d]) <= Capacity
    BY <2>2, <2>3, <2>4
  <2>6. QED
    BY <1>13, <2>5 DEF LogOverflow
<1>14. QED
  BY <1>1, <1>2, <1>3, <1>4, <1>5, <1>6, <1>7, <1>8, <1>9, <1>10, <1>11,
     <1>12, <1>13
     DEF ControlNext, Proceed

\* Of its steps a task writes its entry in three.
LEMMA TaskWrites ==
  ASSUME NEW r \in Runs, RunStep(r)
  PROVE  SetPid(r) \/ SetRunning(r) \/ SetTerminal(r) \/ UNCHANGED entries
BY DEF RunStep, TaskStep, Goto, TrySend, AnnounceStart, Spawn, SpawnFails,
       RecordRunning, AliveAfterElapsed, ProbeSucceeds, ProbeDeadline,
       AnnounceRunning, ReceiveStop, GraceElapsed, ChildReaped, Classify,
       RemoveRecord, AnnounceTerminal, ChildExits, KillLands

\* It gives its service up in its last step only.
LEMMA OwnersRest ==
  ASSUME NEW r \in Runs, RunStep(r), ~AnnounceTerminal(r)
  PROVE  UNCHANGED owner
BY DEF RunStep, TaskStep, TrySend, AnnounceStart, Spawn, SpawnFails, SetPid,
       RecordRunning, AliveAfterElapsed, ProbeSucceeds, ProbeDeadline, SetRunning,
       AnnounceRunning, ReceiveStop, GraceElapsed, ChildReaped, Classify,
       RemoveRecord, SetTerminal, ChildExits, KillLands

\* The step of one run moves no other.
LEMMA OtherRunsRest ==
  ASSUME TypeOK, NEW q \in Runs, RunStep(q), NEW r \in Runs, q # r
  PROVE  pc'[r] = pc[r] /\ owner'[r] = owner[r]
BY DEF TypeOK, RunStep, TaskStep, Goto, TrySend, AnnounceStart, Spawn, SpawnFails,
       SetPid, RecordRunning, AliveAfterElapsed, ProbeSucceeds, ProbeDeadline,
       SetRunning, AnnounceRunning, ReceiveStop, GraceElapsed, ChildReaped,
       Classify, RemoveRecord, SetTerminal, AnnounceTerminal, ChildExits, KillLands

\* Only these steps write an entry.
LEMMA EntryWriters ==
  ASSUME [Next]_vars
  PROVE  \/ CallerStep
         \/ \E r \in Runs : SetPid(r) \/ SetRunning(r) \/ SetTerminal(r)
         \/ UNCHANGED entries
BY TaskWrites DEF Next, vars

\* A service that is up was up, or has just been started.
LEMMA UpSinceStart ==
  ASSUME IInv, [Next]_vars, NEW s \in Services, ~IsDown(s)'
  PROVE  ~IsDown(s) \/ \E r \in Runs : Start(s, r)
<1> USE SupervisorAssumption
    DEF IInv, TypeOK, Entry, States, TerminalStates, IsDown, IsRegistered,
        IsTerminal
<1>1. ASSUME NEW t \in Services, NEW g \in Flags, Register(t, g)
      PROVE  ~IsDown(s)
  BY <1>1 DEF Register
<1>2. ASSUME NEW t \in Services, Unregister(t) \/ Stop(t)
      PROVE  ~IsDown(s)
  BY <1>2 DEF Unregister, Stop
<1>3. ASSUME NEW t \in Services, NEW r \in Runs, Start(t, r)
      PROVE  ~IsDown(s) \/ t = s
  BY <1>3 DEF Start
<1>4. ASSUME NEW r \in Runs, SetPid(r) \/ SetRunning(r) \/ SetTerminal(r)
      PROVE  ~IsDown(s)
  <2>1. UnderWay(r)
    BY <1>4 DEF SetPid, SetRunning, SetTerminal, Goto, UnderWay
  <2>2. ~IsDown(owner[r])
    BY <2>1 DEF Ties, EntryIsOfRun
  <2>3. s # owner[r] => entries'[s] = entries[s]
    BY <1>4 DEF SetPid, SetRunning, SetTerminal, SetState
  <2>4. QED
    BY <2>2, <2>3
<1>5. CASE UNCHANGED entries
  BY <1>5
<1>6. QED
  BY <1>1, <1>2, <1>3, <1>4, <1>5, EntryWriters DEF CallerStep

\* Only a start and the task itself move a run.
LEMMA RunMovers ==
  ASSUME TypeOK, [Next]_vars, NEW r \in Runs
  PROVE  \/ pc'[r] = pc[r] /\ owner'[r] = owner[r]
         \/ \E s \in Services : Start(s, r)
         \/ TaskStep(r) \/ ProbeSucceeds(r)
<1>1. CASE UNCHANGED vars
  BY <1>1 DEF vars
<1>2. CASE CallerStep
  <2>1. ASSUME NEW s \in Services, NEW q \in Runs, Start(s, q), q # r
        PROVE  pc'[r] = pc[r] /\ owner'[r] = owner[r]
    BY <2>1 DEF Start, TypeOK
  <2>2. ASSUME NEW s \in Services,
               (\E g \in Flags : Register(s, g)) \/ Unregister(s) \/ Stop(s)
        PROVE  pc'[r] = pc[r] /\ owner'[r] = owner[r]
    BY <2>2 DEF Register, Unregister, Stop
  <2>3. QED
    BY <1>2, <2>1, <2>2 DEF CallerStep
<1>3. ASSUME NEW q \in Runs, RunStep(q), q # r
      PROVE  pc'[r] = pc[r] /\ owner'[r] = owner[r]
  BY <1>3, OtherRunsRest
<1>4. CASE TrySend(r) \/ (\E status \in Dead : ChildExits(r, status)) \/ KillLands(r)
  BY <1>4 DEF TrySend, ChildExits, KillLands
<1>5. QED
  BY <1>1, <1>2, <1>3, <1>4 DEF Next, RunStep

\* A run under way goes on for the same service until that service is down.
LEMMA RunGoesOn ==
  ASSUME IInv, [Next]_vars, NEW r \in Runs, UnderWay(r), NEW s, owner[r] = s
  PROVE  \/ UnderWay(r)' /\ owner'[r] = s
         \/ IsDown(s)'
<1>1. CASE pc'[r] = pc[r] /\ owner'[r] = owner[r]
  BY <1>1 DEF UnderWay
<1>2. CASE \E t \in Services : Start(t, r)
  BY <1>2 DEF Start, FreshRun, UnderWay
<1>3. CASE SetTerminal(r)
  BY <1>3, SupervisorAssumption
     DEF SetTerminal, SetState, IsDown, IsRegistered, IsTerminal, IInv, TypeOK, Entry,
         TerminalStates, Ties, OwnedUnlessDone, UnderWay
<1>4. CASE (TaskStep(r) /\ ~SetTerminal(r)) \/ ProbeSucceeds(r)
  BY <1>4
     DEF IInv, TypeOK, TaskStep, Goto, AnnounceStart, Spawn, SpawnFails,
         SetPid, RecordRunning, AliveAfterElapsed, ProbeSucceeds, ProbeDeadline,
         SetRunning, AnnounceRunning, ReceiveStop, GraceElapsed, ChildReaped,
         Classify, RemoveRecord, AnnounceTerminal, UnderWay
<1>5. QED
  BY <1>1, <1>2, <1>3, <1>4, RunMovers DEF IInv

\* A finished run stays finished until it is used for another start.
LEMMA DoneUntilStart ==
  ASSUME TypeOK, [Next]_vars, NEW r \in Runs, pc[r] = "done", pc'[r] # "done"
  PROVE  \E s \in Services : Start(s, r)
<1>1. ~TaskStep(r) /\ ~ProbeSucceeds(r)
  BY DEF TaskStep, Goto, AnnounceStart, Spawn, SpawnFails,
         SetPid, RecordRunning, AliveAfterElapsed, ProbeSucceeds, ProbeDeadline,
         SetRunning, AnnounceRunning, ReceiveStop, GraceElapsed, ChildReaped,
         Classify, RemoveRecord, SetTerminal, AnnounceTerminal
<1>2. QED
  BY <1>1, RunMovers

\* The sets of states a call may be waiting for.
Awaited == {TerminalStates, {"Running"}, TerminalStates \union {"Running"}}

\* A service shows the outcome of a transition only when it did already, or an
\* announcement of it is due.
LEMMA OutcomeIsDue ==
  ASSUME IInv, [Next]_vars, NEW s \in Services,
         NEW shown \in Awaited,
         IsRegistered(s)' => entries'[s].state \in shown
  PROVE  \/ IsRegistered(s) => entries[s].state \in shown
         \/ \E r \in Runs : owner'[r] = s /\ pc'[r] \in AnnouncePoints
         \/ IsRegistered(s) /\ ~IsRegistered(s)'
<1> USE SupervisorAssumption
    DEF IInv, TypeOK, Entry, States, TerminalStates, IsRegistered, IsTerminal, Awaited
<1>1. ASSUME NEW t \in Services, NEW g \in Flags, Register(t, g)
      PROVE  IsRegistered(s) => entries[s].state \in shown
  BY <1>1 DEF Register
<1>2. ASSUME NEW t \in Services, Unregister(t) \/ Stop(t)
      PROVE  \/ IsRegistered(s) => entries[s].state \in shown
             \/ IsRegistered(s) /\ ~IsRegistered(s)'
  BY <1>2 DEF Unregister, Stop
<1>3. ASSUME NEW t \in Services, NEW r \in Runs, Start(t, r)
      PROVE  IsRegistered(s) => entries[s].state \in shown
  <2>1. t # s => entries'[s] = entries[s]
    BY <1>3 DEF Start
  <2>2. t = s => entries'[s].state = "Starting" /\ entries'[s] # None
    BY <1>3 DEF Start
  <2>3. QED
    BY <2>1, <2>2
<1>4. ASSUME NEW r \in Runs, SetPid(r)
      PROVE  IsRegistered(s) => entries[s].state \in shown
  BY <1>4 DEF SetPid
<1>5. ASSUME NEW r \in Runs, SetRunning(r) \/ SetTerminal(r), s # owner[r]
      PROVE  IsRegistered(s) => entries[s].state \in shown
  <2>1. entries'[s] = entries[s]
    BY <1>5 DEF SetRunning, SetTerminal, SetState
  <2>2. QED
    BY <2>1
<1>6. ASSUME NEW r \in Runs, SetRunning(r) \/ SetTerminal(r), s = owner[r]
      PROVE  owner'[r] = s /\ pc'[r] \in AnnouncePoints
  BY <1>6 DEF SetRunning, SetTerminal, Goto, AnnouncePoints
<1>7. CASE UNCHANGED entries
  BY <1>7
<1>8. QED
  BY <1>1, <1>2, <1>3, <1>4, <1>5, <1>6, <1>7, EntryWriters DEF CallerStep

\* Which states of its service a call has been waiting for, once it has been
\* admitted and once it has kicked.
LEMMA OverStates ==
  ASSUME IInv, ControlTypeOK, NEW c \in Calls, calls[c].phase \in {"kicking", "waiting"}
  PROVE  \E shown \in Awaited :
           /\ \A state \in States :
                /\ calls[c].phase = "kicking" =>
                     (Settled(calls[c].target, state) <=> state \in shown)
                /\ calls[c].phase = "waiting" =>
                     (Step(calls[c].target, state) # "Pending" <=> state \in shown)
<1> calls[c].target \in {"Running", "Stopped"}
  BY DEF ControlTypeOK, Call
<1> USE DEF Awaited
<1>1. CASE calls[c].target = "Stopped"
  <2> WITNESS TerminalStates \in Awaited
  <2> QED
    BY <1>1 DEF States, TerminalStates, Settled, Step
<1>2. CASE calls[c].target = "Running" /\ calls[c].phase = "kicking"
  <2> WITNESS {"Running"} \in Awaited
  <2> QED
    BY <1>2 DEF States, TerminalStates, Settled, Step
<1>3. CASE calls[c].target = "Running" /\ calls[c].phase = "waiting"
  <2> WITNESS TerminalStates \union {"Running"} \in Awaited
  <2> QED
    BY <1>3 DEF States, TerminalStates, Settled, Step
<1>4. QED
  BY <1>1, <1>2, <1>3

\* A call that nobody has told anything keeps its ties when the supervisor
\* moves: what it waits for is announced before it goes unnoticed, and a start
\* is noted in its history.
LEMMA BystanderKept ==
  ASSUME CInv, IInv', [Next]_vars, NEW c \in Calls,
         calls'[c] = calls[c], inbox'[c] = inbox[c], lagged[c] => lagged'[c],
         past[c] \subseteq past'[c],
         \A s \in Services, r \in Runs : Start(s, r) =>
           /\ Unmentioned(r)
           /\ s = calls[c].service /\ Active(c) /\ calls[c].verb = "restart"
                => "began" \in past'[c],
         AnnouncementDue(calls[c].service) => AnnouncementDue(calls[c].service)',
         IsRegistered(calls[c].service) /\ ~IsRegistered(calls[c].service)'
           => AnnouncementDue(calls[c].service)'
  PROVE  CallTies(c)'
<1> DEFINE s == calls[c].service
<1>1. s \in Services /\ s' = s
  BY DEF CInv, ControlTypeOK, Call
<1>2. CallTies(c)
  BY DEF CInv
<1>3. IsOver(c)' => WillHear(c)'
  <2>1. SUFFICES ASSUME IsOver(c)', ~AnnouncementDue(s)' PROVE WillHear(c)'
    BY <1>1 DEF WillHear
  <2>2. IsOver(c)
    <3>1. calls[c].phase \in {"kicking", "waiting"}
      BY <2>1 DEF IsOver
    <3>2. PICK shown \in Awaited :
            \A state \in States :
              /\ calls[c].phase = "kicking" =>
                   (Settled(calls[c].target, state) <=> state \in shown)
              /\ calls[c].phase = "waiting" =>
                   (Step(calls[c].target, state) # "Pending" <=> state \in shown)
      BY <3>1, OverStates DEF CInv
    <3>3. /\ IsRegistered(s) => entries[s].state \in States
          /\ IsRegistered(s)' => entries'[s].state \in States
      BY <1>1 DEF CInv, IInv, TypeOK, Entry, IsRegistered
    <3>4. IsRegistered(s)' => entries'[s].state \in shown
      BY <1>1, <2>1, <3>2, <3>3 DEF IsOver, Settled, Step
    <3>5. \A r \in Runs : ~(owner'[r] = s /\ pc'[r] \in AnnouncePoints)
      BY <1>1, <2>1 DEF AnnouncementDue
    <3>6. IsRegistered(s) => entries[s].state \in shown
      BY <1>1, <2>1, <3>4, <3>5, OutcomeIsDue DEF CInv
    <3>7. QED
      BY <3>1, <3>2, <3>3, <3>6 DEF IsOver
  <2>3. WillHear(c)
    BY <1>2, <2>2 DEF CallTies
  <2>4. QED
    BY <2>1, <2>3 DEF WillHear
<1>4. TerminalNewsIsOld(c)'
  <2> SUFFICES ASSUME NEW i \in DOMAIN inbox[c], inbox[c][i].state \in TerminalStates
               PROVE  inbox[c][i].run \in Runs /\ pc'[inbox[c][i].run] = "done"
    BY DEF TerminalNewsIsOld
  <2>1. inbox[c][i].run \in Runs /\ pc[inbox[c][i].run] = "done"
    BY <1>2 DEF CallTies, TerminalNewsIsOld
  <2>2. \A t \in Services : ~Start(t, inbox[c][i].run)
    BY <2>1 DEF Unmentioned
  <2>3. QED
    BY <2>1, <2>2, DoneUntilStart DEF CInv, IInv
<1>5. ASSUME Active(c), calls[c].verb = "restart"
      PROVE  IsDown(s) => IsDown(s)' \/ "began" \in past'[c]
  BY <1>1, <1>5, UpSinceStart DEF CInv
<1>6. StopHalfKnowsRun(c)'
  <2> SUFFICES ASSUME Restarting(c, "Stopped"), calls[c].phase = "waiting"
               PROVE  \/ "began" \in past'[c] \/ IsDown(s)'
                      \/ /\ calls[c].run \in Runs /\ UnderWay(calls[c].run)'
                         /\ owner'[calls[c].run] = s
    BY DEF StopHalfKnowsRun, Restarting, Active
  <2>1. \/ "began" \in past[c] \/ IsDown(s)
        \/ calls[c].run \in Runs /\ UnderWay(calls[c].run) /\ owner[calls[c].run] = s
    BY <1>2 DEF CallTies, StopHalfKnowsRun
  <2>2. CASE "began" \in past[c] \/ IsDown(s)
    BY <1>5, <2>2 DEF Restarting
  <2>3. CASE calls[c].run \in Runs /\ UnderWay(calls[c].run) /\ owner[calls[c].run] = s
    BY <2>3, RunGoesOn DEF CInv
  <2>4. QED
    BY <2>1, <2>2, <2>3
<1>7. StartHalfStartsAnew(c)'
  <2> SUFFICES ASSUME Restarting(c, "Running")
               PROVE  /\ Excused(c)' \/ IsDown(s)'
                      /\ \A i \in DOMAIN inbox[c] :
                           inbox[c][i].state = "Running" => Excused(c)'
    BY DEF StartHalfStartsAnew, Restarting, Active
  <2>1. /\ Excused(c) \/ IsDown(s)
        /\ \A i \in DOMAIN inbox[c] : inbox[c][i].state = "Running" => Excused(c)
    BY <1>2 DEF CallTies, StartHalfStartsAnew
  <2>2. Excused(c) \/ "began" \in past'[c] => Excused(c)'
    BY DEF Excused
  <2>3. QED
    BY <1>5, <2>1, <2>2 DEF Restarting
<1>8. RestartKept(c)'
  BY <1>2 DEF CallTies, RestartKept, Excused
<1>9. Unanswered(c)'
  BY <1>2 DEF CallTies, Unanswered, Active
<1>10. QED
  BY <1>3, <1>4, <1>6, <1>7, <1>8, <1>9 DEF CallTies

\* A call that has its answer has nothing left to hear.
LEMMA AnswerKeeps ==
  ASSUME CInv, NEW c \in Calls, NEW answer, Answer(c, answer),
         calls[c].verb = "restart" /\ answer = "Changed" => Excused(c)'
  PROVE  CallTies(c)'
<1>1. calls'[c] = Answered(calls[c].verb, calls[c].service, answer)
  BY DEF Answer, CInv, ControlTypeOK
<1>2. inbox'[c] = <<>>
  BY DEF Answer, ClearReceiver, CInv, ControlTypeOK
<1>3. /\ calls'[c].phase = "answered" /\ calls'[c].verb = calls[c].verb
      /\ calls'[c].answer = answer
  BY <1>1 DEF Answered
<1>4. ~IsOver(c)' /\ ~Active(c)'
  BY <1>3 DEF IsOver, Active
<1>5. TerminalNewsIsOld(c)'
  BY <1>2 DEF TerminalNewsIsOld
<1>6. RestartKept(c)'
  BY <1>3 DEF RestartKept
<1>7. QED
  BY <1>4, <1>5, <1>6
     DEF CallTies, StopHalfKnowsRun, StartHalfStartsAnew, Restarting, Unanswered

\* The start half of a restart begins with the service down or excused.
LEMMA GoesOnKeeps ==
  ASSUME CInv, NEW c \in Calls, Active(c), GoesOn(c),
         NEW s, calls[c].service = s, Excused(c)' \/ IsDown(s)'
  PROVE  CallTies(c)'
<1>1. calls'[c] = [calls[c] EXCEPT !.phase = "admitting", !.target = "Running",
                                   !.run = None]
  BY DEF GoesOn, CInv, ControlTypeOK
<1>2. inbox'[c] = <<>>
  BY DEF GoesOn, ClearReceiver, CInv, ControlTypeOK
<1>3. calls[c] \in Call /\ calls[c].answer = "none"
  BY DEF CInv, ControlTypeOK, CallTies, Unanswered
<1>4. /\ calls'[c].phase = "admitting" /\ calls'[c].target = "Running"
      /\ calls'[c].answer = "none" /\ calls'[c].service = calls[c].service
  BY <1>1, <1>3 DEF Call
<1>5. ~IsOver(c)' /\ StopHalfKnowsRun(c)' /\ RestartKept(c)' /\ Unanswered(c)'
  BY <1>4 DEF IsOver, StopHalfKnowsRun, RestartKept, Unanswered
<1>6. TerminalNewsIsOld(c)' /\ StartHalfStartsAnew(c)'
  BY <1>2, <1>4 DEF TerminalNewsIsOld, StartHalfStartsAnew
<1>7. QED
  BY <1>5, <1>6 DEF CallTies

\* Where Reach leads, a restart is excused or finds its service down.
LEMMA ReachKeeps ==
  ASSUME CInv, NEW c \in Calls, Active(c), NEW disposition, Reach(c, disposition),
         NEW s, calls[c].service = s,
         Restarting(c, "Stopped") => Excused(c)' \/ IsDown(s)',
         Restarting(c, "Running") => Excused(c)'
  PROVE  CallTies(c)'
<1>1. CASE GoesOn(c)
  BY <1>1, GoesOnKeeps DEF GoesOn, Restarting
<1>2. CASE /\ calls[c].verb = "restart" => calls[c].target # "Stopped"
           /\ Answer(c, IF calls[c].verb = "restart" THEN "Changed" ELSE disposition)
  <2>1. calls[c].verb = "restart" => Restarting(c, "Running")
    BY <1>2 DEF Restarting, CInv, ControlTypeOK, Call
  <2>2. QED
    BY <1>2, <2>1, AnswerKeeps
<1>3. QED
  BY <1>1, <1>2, ReachCases

\* The admission snapshot: a restart whose service is down at once goes on to
\* its start half, and one that finds it Running there saw it begin.
LEMMA AdmitKeeps ==
  ASSUME CInv, NEW c \in Calls, Admit(c)
  PROVE  CallTies(c)'
<1> PICK s \in Services : calls[c].service = s
  BY DEF CInv, ControlTypeOK, Call
<1>1. /\ calls[c].phase = "admitting" /\ Active(c) /\ calls[c] \in Call /\ CallTies(c)
      /\ UNCHANGED <<vars, unannounced, past>>
  BY DEF Admit, Active, CInv, ControlTypeOK
<1>2. Excused(c) => Excused(c)'
  BY <1>1 DEF Excused
<1>3. CASE Answer(c, "UnknownService")
  BY <1>3, AnswerKeeps
<1>4. CASE /\ IsRegistered(s) /\ Settled(calls[c].target, entries[s].state)
           /\ Reach(c, "Unchanged")
  <2>1. Restarting(c, "Stopped") => IsDown(s)'
    BY <1>1, <1>4 DEF Restarting, Settled, IsDown, IsRegistered, IsTerminal, vars
  <2>2. Restarting(c, "Running") => Excused(c)
    BY <1>1, <1>4
       DEF Restarting, Settled, IsTerminal, TerminalStates, IsDown, CallTies,
           StartHalfStartsAnew
  <2>3. QED
    BY <1>1, <1>2, <1>4, <2>1, <2>2, ReachKeeps
<1>5. CASE /\ IsRegistered(s) /\ ~Settled(calls[c].target, entries[s].state)
           /\ calls' = [calls EXCEPT ![c].phase = "kicking"]
           /\ UNCHANGED <<inbox, lagged>>
  <2>1. calls'[c] = [calls[c] EXCEPT !.phase = "kicking"]
    BY <1>5 DEF CInv, ControlTypeOK
  <2>2. /\ calls'[c].phase = "kicking" /\ calls'[c].verb = calls[c].verb
        /\ calls'[c].target = calls[c].target /\ calls'[c].service = s
        /\ calls'[c].run = calls[c].run /\ calls'[c].answer = calls[c].answer
    BY <1>1, <2>1 DEF Call
  <2>3. ~IsOver(c)'
    BY <1>1, <1>5, <2>2 DEF IsOver, IsRegistered, vars, Settled
  <2>4. TerminalNewsIsOld(c)' /\ Unanswered(c)'
    BY <1>1, <1>5, <2>2 DEF CallTies, TerminalNewsIsOld, Unanswered, vars
  <2>5. StopHalfKnowsRun(c)' /\ RestartKept(c)'
    BY <1>1, <2>2 DEF CallTies, StopHalfKnowsRun, RestartKept, Unanswered
  <2>6. Restarting(c, "Running")' => Restarting(c, "Running")
    BY <1>1, <2>2 DEF Restarting, Active
  <2>7. StartHalfStartsAnew(c)'
    BY <1>1, <1>5, <2>2, <2>6
       DEF CallTies, StartHalfStartsAnew, Excused, IsDown, IsRegistered, IsTerminal,
           vars
  <2>8. QED
    BY <2>3, <2>4, <2>5, <2>7 DEF CallTies
<1>6. QED
  BY <1>1, <1>3, <1>4, <1>5 DEF Admit

\* A new call starts from nothing.
LEMMA BeginKeeps ==
  ASSUME CInv, NEW c \in Calls, NEW verb, NEW t, NEW wait, Begin(c, verb, t, wait)
  PROVE  CallTies(c)'
<1>1. /\ calls'[c].phase = "admitting" /\ calls'[c].verb = verb
      /\ calls'[c].target = IF verb = "start" THEN "Running" ELSE "Stopped"
      /\ calls'[c].answer = "none"
  BY DEF Begin, CInv, ControlTypeOK
<1>2. inbox'[c] = <<>>
  BY DEF Begin, ClearReceiver, CInv, ControlTypeOK
<1>3. ~IsOver(c)' /\ StopHalfKnowsRun(c)' /\ RestartKept(c)' /\ Unanswered(c)'
  BY <1>1 DEF IsOver, StopHalfKnowsRun, RestartKept, Unanswered
<1>4. TerminalNewsIsOld(c)' /\ StartHalfStartsAnew(c)'
  BY <1>1, <1>2 DEF TerminalNewsIsOld, StartHalfStartsAnew, Restarting
<1>5. QED
  BY <1>3, <1>4 DEF CallTies

\* What a kick makes of a call that waits.
WaitingCall(call, r) == [call EXCEPT !.phase = "waiting", !.run = r]

\* It knows its run, and nothing else about it has changed.
LEMMA WaitingFields ==
  ASSUME NEW call \in Call, NEW r, NEW next, next = WaitingCall(call, r)
  PROVE  /\ next.phase = "waiting" /\ next.run = r
         /\ next.verb = call.verb /\ next.service = call.service
         /\ next.target = call.target /\ next.answer = call.answer
BY DEF Call, WaitingCall

\* A call that goes on to wait after its kick.
LEMMA WaitingKeeps ==
  ASSUME CInv, NEW c \in Calls, NEW r, calls[c].phase = "kicking",
         calls'[c] = WaitingCall(calls[c], r),
         inbox'[c] = inbox[c],
         \A q \in Runs : pc[q] = "done" /\ pc'[q] # "done" => Unmentioned(q),
         IsOver(c)' => WillHear(c)',
         Restarting(c, "Stopped") => StopHalfKnowsRun(c)',
         Restarting(c, "Running") => Excused(c)'
  PROVE  CallTies(c)'
<1>1. calls[c] \in Call /\ CallTies(c)
  BY DEF CInv, ControlTypeOK
<1>2. /\ calls'[c].phase = "waiting" /\ calls'[c].verb = calls[c].verb
      /\ calls'[c].target = calls[c].target /\ calls'[c].answer = calls[c].answer
      /\ calls'[c].service = calls[c].service
  BY <1>1, WaitingFields
<1>3. TerminalNewsIsOld(c)'
  BY <1>1 DEF CallTies, TerminalNewsIsOld, Unmentioned
<1>4. calls'[c].answer = "none"
  BY <1>1, <1>2 DEF CallTies, Unanswered, Active
<1>5. Active(c) /\ Active(c)'
  BY <1>2 DEF Active
<1>6. StopHalfKnowsRun(c)' /\ StartHalfStartsAnew(c)'
  BY <1>2, <1>5 DEF StopHalfKnowsRun, StartHalfStartsAnew, Restarting
<1>7. RestartKept(c)' /\ Unanswered(c)'
  BY <1>4 DEF RestartKept, Unanswered
<1>8. QED
  BY <1>3, <1>6, <1>7 DEF CallTies

\* The kick of a start: either the call starts the run itself, or the service is
\* up already and the call hears of it.
LEMMA KickStartKeeps ==
  ASSUME CInv, IInv', NEW c \in Calls, KickStart(c)
  PROVE  CallTies(c)'
<1> PICK s \in Services : calls[c].service = s
  BY DEF CInv, ControlTypeOK, Call
<1>1. /\ calls[c].phase = "kicking" /\ calls[c].target = "Running" /\ Active(c)
      /\ ~Restarting(c, "Stopped") /\ IsRegistered(s) /\ CallTies(c)
      /\ calls[c] \in Call
      /\ UNCHANGED unannounced
  BY DEF KickStart, Active, Restarting, CInv, ControlTypeOK
<1>2. ASSUME NEW r \in Runs, StartRun(s, r), Kicked(c, r), NoteStart(s)
      PROVE  CallTies(c)'
  <2>1. Restarting(c, "Running") => Excused(c)'
    BY <1>1, <1>2 DEF NoteStart, On, Restarting, Excused
  <2>2. CASE Reach(c, "Changed")
    BY <1>1, <2>1, <2>2, ReachKeeps
  <2>3. CASE /\ calls' = [calls EXCEPT ![c].phase = "waiting", ![c].run = r]
             /\ UNCHANGED <<inbox, lagged>>
    <3>a. calls'[c] = WaitingCall(calls[c], r)
      BY <2>3 DEF CInv, ControlTypeOK, WaitingCall
    <3>1. \A q \in Runs : pc[q] = "done" /\ pc'[q] # "done" => Unmentioned(q)
      BY <1>2 DEF StartRun, Start, CInv, IInv, TypeOK
    <3>2. entries'[s] # None /\ entries'[s].state = "Starting"
      <4>1. entries'[s] = [entries[s] EXCEPT !.state = "Starting", !.control = r]
        BY <1>2 DEF StartRun, Start, CInv, IInv, TypeOK
      <4>2. entries[s] \in Entry
        BY <1>1 DEF CInv, IInv, TypeOK, IsRegistered
      <4>3. entries'[s] \in Entry /\ entries'[s].state = "Starting"
        BY <4>1, <4>2, EntryFields DEF Entry
      <4>4. QED
        BY <4>3, SupervisorAssumption
    <3>3. ~IsOver(c)'
      <4>1. /\ calls'[c].phase = "waiting" /\ calls'[c].target = "Running"
            /\ calls'[c].service = s
        BY <1>1, <3>a, WaitingFields
      <4>2. QED
        BY <3>2, <4>1 DEF IsOver, IsRegistered, Step
    <3>4. QED
      BY <1>1, <2>1, <2>3, <3>1, <3>a, <3>3, WaitingKeeps
  <2>4. QED
    BY <1>2, <2>2, <2>3 DEF Kicked
<1>3. ASSUME ~MayStart(s), NEW r, Kicked(c, r), UNCHANGED <<vars, past>>
      PROVE  CallTies(c)'
  <2>1. ~IsDown(s) /\ entries[s].state \in {"Starting", "Running"}
    BY <1>1, <1>3
       DEF MayStart, IsDown, IsTerminal, IsRegistered, TerminalStates, CInv, IInv,
           TypeOK, Entry, States
  <2>2. Restarting(c, "Running") => Excused(c)'
    BY <1>1, <1>3, <2>1 DEF CallTies, StartHalfStartsAnew, Excused
  <2>3. CASE Reach(c, "Changed")
    BY <1>1, <2>2, <2>3, ReachKeeps
  <2>4. CASE /\ calls' = [calls EXCEPT ![c].phase = "waiting", ![c].run = r]
             /\ UNCHANGED <<inbox, lagged>>
    <3>a. calls'[c] = WaitingCall(calls[c], r)
      BY <2>4 DEF CInv, ControlTypeOK, WaitingCall
    <3>1. \A q \in Runs : pc'[q] = pc[q]
      BY <1>3 DEF vars
    <3>2. IsOver(c)' => WillHear(c)'
      <4> SUFFICES ASSUME IsOver(c)' PROVE WillHear(c)'
        OBVIOUS
      <4>2. /\ calls'[c].phase = "waiting" /\ calls'[c].target = "Running"
            /\ calls'[c].service = s
        BY <1>1, <3>a, WaitingFields
      <4>3. entries[s].state = "Running"
        BY <1>1, <1>3, <2>1, <4>2 DEF IsOver, IsRegistered, Step, vars
      <4>4. IsOver(c)
        BY <1>1, <4>3 DEF IsOver, Settled
      <4>5. WillHear(c)
        BY <1>1, <4>4 DEF CallTies
      <4>6. QED
        BY <1>1, <1>3, <2>4, <4>2, <4>5 DEF WillHear, AnnouncementDue, vars
    <3>3. QED
      BY <1>1, <2>2, <2>4, <3>a, <3>1, <3>2, WaitingKeeps
  <2>5. QED
    BY <1>3, <2>3, <2>4 DEF Kicked
<1>4. QED
  BY <1>2, <1>3 DEF KickStart

\* The kick of a stop: the call remembers the run it asked to stop, and a service
\* that is down already is one the call hears of.
LEMMA KickStopKeeps ==
  ASSUME CInv, IInv', NEW c \in Calls, KickStop(c)
  PROVE  CallTies(c)'
<1> PICK s \in Services : calls[c].service = s
  BY DEF CInv, ControlTypeOK, Call
<1> DEFINE r == entries[s].control
<1>1. /\ calls[c].phase = "kicking" /\ calls[c].target = "Stopped" /\ Active(c)
      /\ ~Restarting(c, "Running") /\ IsRegistered(s) /\ CallTies(c)
      /\ calls[c] \in Call /\ Kicked(c, r)
      /\ UNCHANGED <<unannounced, entries, pc, owner>>
  BY DEF KickStop, Stop, Active, Restarting, CInv, ControlTypeOK, vars
<1>2. "blind" \in past[c] => "blind" \in past'[c]
  BY DEF KickStop, CInv, ControlTypeOK
<1>3. ~IsTerminal(s) => r \in Runs /\ UnderWay(r) /\ owner[r] = s
  BY <1>1 DEF CInv, IInv, Ties, RunOfEntry
<1> HIDE DEF r
<1>4. CASE ~Waits(c)
  <2>1. Reach(c, "Changed") /\ ~Restarting(c, "Stopped")
    BY <1>1, <1>4 DEF Kicked, Waits, Restarting
  <2>2. QED
    BY <1>1, <2>1, ReachKeeps
<1>5. CASE Waits(c)
  <2>1. /\ calls' = [calls EXCEPT ![c].phase = "waiting", ![c].run = r]
        /\ UNCHANGED <<inbox, lagged>>
    BY <1>1, <1>5 DEF Kicked
  <2>2. calls'[c] = WaitingCall(calls[c], r)
    BY <2>1 DEF CInv, ControlTypeOK, WaitingCall
  <2>3. /\ calls'[c].phase = "waiting" /\ calls'[c].target = "Stopped"
        /\ calls'[c].service = s /\ calls'[c].run = r
    BY <1>1, <2>2, WaitingFields
  <2>4. IsOver(c)' => WillHear(c)'
    <3> SUFFICES ASSUME IsOver(c)' PROVE WillHear(c)'
      OBVIOUS
    <3>1. IsTerminal(s)
      BY <1>1, <2>3
         DEF IsOver, IsRegistered, IsTerminal, TerminalStates, Step, CInv, IInv,
             TypeOK, Entry, States
    <3>2. WillHear(c)
      BY <1>1, <3>1 DEF IsOver, Settled, CallTies, IsTerminal
    <3>3. QED
      BY <1>1, <1>2, <2>1, <2>3, <3>2 DEF WillHear, AnnouncementDue
  <2>5. StopHalfKnowsRun(c)'
    BY <1>1, <1>3, <2>3
       DEF StopHalfKnowsRun, IsDown, IsRegistered, IsTerminal, UnderWay
  <2>6. QED
    BY <1>1, <2>1, <2>2, <2>4, <2>5, WaitingKeeps
<1>6. QED
  BY <1>4, <1>5

\* An event that ends the wait: the one a restart's stop half gets on with is a
\* terminal one, so it is of its own run, of another (misled), or the service is
\* down or a run has begun.
LEMMA ReceiveKeeps ==
  ASSUME CInv, NEW c \in Calls, Receive(c)
  PROVE  CallTies(c)'
<1> PICK s \in Services : calls[c].service = s
  BY DEF CInv, ControlTypeOK, Call
<1> DEFINE event == Head(inbox[c])
<1>1. /\ calls[c].phase = "waiting" /\ Active(c) /\ CallTies(c) /\ calls[c] \in Call
      /\ inbox[c] \in Seq(Event) /\ inbox[c] # <<>>
      /\ UNCHANGED vars
  BY DEF Receive, Active, CInv, ControlTypeOK
<1>2. 1 \in DOMAIN inbox[c] /\ event = inbox[c][1] /\ event \in Event
  BY <1>1
<1>3. past[c] \subseteq past'[c]
  BY DEF Receive, CInv, ControlTypeOK
<1>4. calls[c].verb = "restart" /\ calls[c].target = "Stopped"
        /\ event.run # calls[c].run /\ calls[c].run # None => "misled" \in past'[c]
  BY DEF Receive, CInv, ControlTypeOK
<1>5. CASE Answer(c, "Removed") \/ Answer(c, "OperationFailed")
  BY <1>5, AnswerKeeps
<1>6. CASE /\ event.state \in States /\ Step(calls[c].target, event.state) = "Reached"
           /\ Reach(c, "Changed")
  <2>1. event.state = calls[c].target
    BY <1>1, <1>6 DEF Step, Call
  <2>2. ASSUME Restarting(c, "Stopped") PROVE Excused(c)' \/ IsDown(s)'
    <3>1. event.run \in Runs /\ pc[event.run] = "done"
      BY <1>1, <1>2, <2>1, <2>2
         DEF CallTies, TerminalNewsIsOld, TerminalStates, Restarting
    <3>2. \/ "began" \in past[c] \/ IsDown(s)
          \/ calls[c].run \in Runs /\ UnderWay(calls[c].run)
      BY <1>1, <2>2 DEF CallTies, StopHalfKnowsRun
    <3>3. CASE "began" \in past[c]
      BY <1>3, <3>3 DEF Excused
    <3>4. CASE IsDown(s)
      BY <1>1, <3>4 DEF IsDown, IsRegistered, IsTerminal, vars
    <3>5. CASE calls[c].run \in Runs /\ UnderWay(calls[c].run)
      <4>1. event.run # calls[c].run /\ calls[c].run # None
        BY <3>1, <3>5, SupervisorAssumption DEF UnderWay
      <4>2. QED
        BY <1>4, <2>2, <4>1 DEF Restarting, Excused
    <3>6. QED
      BY <3>2, <3>3, <3>4, <3>5
  <2>3. ASSUME Restarting(c, "Running") PROVE Excused(c)'
    <3>1. Excused(c)
      BY <1>1, <1>2, <2>1, <2>3 DEF CallTies, StartHalfStartsAnew, Restarting
    <3>2. QED
      BY <1>3, <3>1 DEF Excused
  <2>4. QED
    BY <1>1, <1>6, <2>2, <2>3, ReachKeeps
<1>7. QED
  BY <1>5, <1>6 DEF Receive, Observe

\* The snapshot read after a loss shows the outcome, or shows that it is still to
\* come, or that the service is gone.
LEMMA ReceiveLaggedKeeps ==
  ASSUME CInv, NEW c \in Calls, ReceiveLagged(c)
  PROVE  CallTies(c)'
<1> PICK s \in Services : calls[c].service = s
  BY DEF CInv, ControlTypeOK, Call
<1>1. /\ calls[c].phase = "waiting" /\ Active(c) /\ CallTies(c) /\ calls[c] \in Call
      /\ UNCHANGED <<vars, unannounced>>
  BY DEF ReceiveLagged, Active, CInv, ControlTypeOK
<1>2. CASE Answer(c, "OperationFailed")
  BY <1>2, AnswerKeeps
<1>3. CASE /\ IsRegistered(s) /\ Step(calls[c].target, entries[s].state) = "Reached"
           /\ Reach(c, "Changed") /\ UNCHANGED past
  <2>1. entries[s].state = calls[c].target
    BY <1>1, <1>3 DEF Step, Call
  <2>2. Restarting(c, "Stopped") => IsDown(s)'
    BY <1>1, <2>1
       DEF Restarting, IsDown, IsRegistered, IsTerminal, TerminalStates, vars
  <2>3. Restarting(c, "Running") => Excused(c)'
    BY <1>1, <1>3, <2>1
       DEF Restarting, CallTies, StartHalfStartsAnew, IsDown, IsTerminal,
           TerminalStates, Excused
  <2>4. QED
    BY <1>1, <1>3, <2>2, <2>3, ReachKeeps
<1>4. CASE /\ IsRegistered(s) => Step(calls[c].target, entries[s].state) = "Pending"
           /\ past' = [past EXCEPT ![c] =
                IF IsRegistered(s) THEN @ ELSE @ \union {"blind"}]
           /\ UNCHANGED <<calls, inbox>>
  <2>1. past[c] \subseteq past'[c] /\ (IsRegistered(s) \/ "blind" \in past'[c])
    BY <1>4 DEF CInv, ControlTypeOK
  <2>2. IsOver(c)' => ~IsRegistered(s)
    BY <1>1, <1>4 DEF IsOver, IsRegistered, vars
  <2>3. IsOver(c)' => WillHear(c)'
    BY <2>1, <2>2 DEF WillHear
  <2>4. TerminalNewsIsOld(c)' /\ Unanswered(c)'
    BY <1>1, <1>4 DEF CallTies, TerminalNewsIsOld, Unanswered, Active, vars
  <2>5. StopHalfKnowsRun(c)'
    BY <1>1, <1>4, <2>1
       DEF CallTies, StopHalfKnowsRun, Restarting, Active, IsDown, IsRegistered,
           IsTerminal, UnderWay, vars
  <2>6. StartHalfStartsAnew(c)' /\ RestartKept(c)'
    BY <1>1, <1>4, <2>1
       DEF CallTies, StartHalfStartsAnew, RestartKept, Restarting, Active, IsDown,
           IsRegistered, IsTerminal, Excused, vars
  <2>7. QED
    BY <2>3, <2>4, <2>5, <2>6 DEF CallTies
<1>5. QED
  BY <1>1, <1>2, <1>3, <1>4 DEF ReceiveLagged, Observe

\* A loss is noticed.
LEMMA LogOverflowKeeps ==
  ASSUME CInv, NEW c \in Calls, LogOverflow(c)
  PROVE  CallTies(c)'
<1>1. CallTies(c) /\ lagged'[c] = TRUE /\ UNCHANGED <<vars, calls, past>>
  BY DEF LogOverflow, CInv, ControlTypeOK
<1>2. \A i \in DOMAIN inbox'[c] : \E j \in DOMAIN inbox[c] : inbox'[c][i] = inbox[c][j]
  <2>1. inbox'[c] = IF inbox[c] = <<>> THEN inbox[c] ELSE Tail(inbox[c])
    BY DEF LogOverflow, CInv, ControlTypeOK
  <2>2. inbox[c] \in Seq(Event)
    BY DEF CInv, ControlTypeOK
  <2>3. QED
    BY <2>1, <2>2, Popped
<1>3. IsOver(c)' => WillHear(c)'
  BY <1>1 DEF WillHear
<1>4. TerminalNewsIsOld(c)'
  BY <1>1, <1>2 DEF CallTies, TerminalNewsIsOld, vars
<1>5. StartHalfStartsAnew(c)'
  BY <1>1, <1>2
     DEF CallTies, StartHalfStartsAnew, Restarting, Active, IsDown, IsRegistered,
         IsTerminal, Excused, vars
<1>6. StopHalfKnowsRun(c)' /\ RestartKept(c)' /\ Unanswered(c)'
  BY <1>1
     DEF CallTies, StopHalfKnowsRun, RestartKept, Unanswered, Restarting, Active,
         IsDown, IsRegistered, IsTerminal, UnderWay, Excused, vars
<1>7. QED
  BY <1>3, <1>4, <1>5, <1>6 DEF CallTies

\* A step of a task, or one that leaves the tasks alone, is not a start.
LEMMA NoStart ==
  ASSUME TypeOK, UNCHANGED pc \/ \E r \in Runs : RunStep(r),
         NEW s \in Services, NEW q \in Runs
  PROVE  ~Start(s, q)
<1> SUFFICES ASSUME Start(s, q) PROVE FALSE
  OBVIOUS
<1>1. pc[q] = "done" /\ pc'[q] = "announcing"
  BY DEF Start, FreshRun, TypeOK
<1>2. PICK r \in Runs : RunStep(r)
  BY <1>1
<1>3. CASE r # q
  BY <1>1, <1>2, <1>3
     DEF TypeOK, RunStep, TaskStep, Goto, TrySend, AnnounceStart, Spawn, SpawnFails,
         SetPid, RecordRunning, AliveAfterElapsed, ProbeSucceeds, ProbeDeadline,
         SetRunning, AnnounceRunning, ReceiveStop, GraceElapsed, ChildReaped,
         Classify, RemoveRecord, SetTerminal, AnnounceTerminal, ChildExits, KillLands
<1>4. CASE r = q
  BY <1>1, <1>2, <1>4
     DEF TypeOK, RunStep, TaskStep, Goto, TrySend, AnnounceStart, Spawn, SpawnFails,
         SetPid, RecordRunning, AliveAfterElapsed, ProbeSucceeds, ProbeDeadline,
         SetRunning, AnnounceRunning, ReceiveStop, GraceElapsed, ChildReaped,
         Classify, RemoveRecord, SetTerminal, AnnounceTerminal, ChildExits, KillLands
<1>5. QED
  BY <1>3, <1>4

\* A step starts one run of one service.
LEMMA OneStart ==
  ASSUME TypeOK, NEW s \in Services, NEW r \in Runs, Start(s, r),
         NEW t \in Services, NEW q \in Runs, Start(t, q)
  PROVE  s = t /\ r = q
<1>1. pc[q] = "done" /\ pc'[q] = "announcing" /\ owner'[q] = t
  BY DEF Start, FreshRun, TypeOK
<1>2. pc' = [pc EXCEPT ![r] = "announcing"] /\ owner' = [owner EXCEPT ![r] = s]
  BY DEF Start
<1>3. r = q
  BY <1>1, <1>2 DEF TypeOK
<1>4. QED
  BY <1>1, <1>2, <1>3 DEF TypeOK

\* The event a task broadcasts tells what it has just written.
LEMMA EventOfAnnounce ==
  ASSUME IInv, NEW r \in Runs, Announce(r)
  PROVE  /\ owner[r] \in Services /\ pc[r] \in AnnouncePoints
         /\ UNCHANGED <<entries, unannounced>> /\ [Next]_vars
         /\ \A q \in Runs \ {r} : pc'[q] = pc[q] /\ owner'[q] = owner[q]
         /\ \E e \in Event :
              /\ Broadcast(owner[r], e)
              /\ e.run = r
              /\ \/ e.state = "Starting" /\ pc[r] = "announcing"
                 \/ e.state = "Running" /\ pc[r] = "announcingRunning"
                 \/ e.state \in TerminalStates /\ pc'[r] = "done"
<1>1. /\ pc[r] \in AnnouncePoints
      /\ UNCHANGED <<entries, unannounced>> /\ [Next]_vars
      /\ \A q \in Runs \ {r} : pc'[q] = pc[q] /\ owner'[q] = owner[q]
  BY DEF Announce, AnnounceStart, AnnounceRunning, AnnounceTerminal, Goto,
         AnnouncePoints, Next, RunStep, TaskStep, IInv, TypeOK
<1>2. owner[r] \in Services
  BY <1>1 DEF IInv, Ties, OwnedUnlessDone, AnnouncePoints
<1>3. \A state \in States : [run |-> r, state |-> state] \in Event
  BY DEF Event
<1>4. CASE AnnounceStart(r) /\ Broadcast(owner[r], [run |-> r, state |-> "Starting"])
  <2> DEFINE e == [run |-> r, state |-> "Starting"]
  <2>1. e \in Event /\ e.run = r /\ e.state = "Starting" /\ Broadcast(owner[r], e)
    BY <1>3, <1>4 DEF States
  <2>2. pc[r] = "announcing"
    BY <1>4 DEF AnnounceStart, Goto
  <2> HIDE DEF e
  <2>3. QED
    BY <1>1, <1>2, <2>1, <2>2
<1>5. CASE AnnounceRunning(r) /\ Broadcast(owner[r], [run |-> r, state |-> "Running"])
  <2> DEFINE e == [run |-> r, state |-> "Running"]
  <2>1. e \in Event /\ e.run = r /\ e.state = "Running" /\ Broadcast(owner[r], e)
    BY <1>3, <1>5 DEF States
  <2>2. pc[r] = "announcingRunning"
    BY <1>5 DEF AnnounceRunning, Goto
  <2> HIDE DEF e
  <2>3. QED
    BY <1>1, <1>2, <2>1, <2>2
<1>6. CASE AnnounceTerminal(r) /\ Broadcast(owner[r], [run |-> r, state |-> verdict[r]])
  <2> DEFINE e == [run |-> r, state |-> verdict[r]]
  <2>1. /\ e \in Event /\ e.run = r /\ e.state \in TerminalStates
        /\ Broadcast(owner[r], e)
    BY <1>3, <1>6 DEF States, IInv, TypeOK
  <2>2. pc'[r] = "done"
    BY <1>6 DEF AnnounceTerminal, Goto, IInv, TypeOK
  <2> HIDE DEF e
  <2>3. QED
    BY <1>1, <1>2, <2>1, <2>2
<1>7. QED
  BY <1>4, <1>5, <1>6 DEF Announce

\* An announcement reaches every call on its service whose wait it ends; the
\* state it announces is one the others do not wait for.
LEMMA AnnounceKeeps ==
  ASSUME CInv, NEW r \in Runs, Announce(r), NEW c \in Calls
  PROVE  CallTies(c)'
<1> PICK s \in Services : calls[c].service = s
  BY DEF CInv, ControlTypeOK, Call
<1>1. CallTies(c) /\ IInv /\ TypeOK /\ calls[c] \in Call
  BY DEF CInv, IInv, ControlTypeOK
<1>2. /\ owner[r] \in Services /\ pc[r] \in AnnouncePoints
      /\ UNCHANGED <<entries, unannounced>> /\ [Next]_vars
      /\ \A q \in Runs \ {r} : pc'[q] = pc[q] /\ owner'[q] = owner[q]
  BY <1>1, EventOfAnnounce
<1>3. PICK e \in Event :
        /\ Broadcast(owner[r], e)
        /\ e.run = r
        /\ \/ e.state = "Starting" /\ pc[r] = "announcing"
           \/ e.state = "Running" /\ pc[r] = "announcingRunning"
           \/ e.state \in TerminalStates /\ pc'[r] = "done"
  BY <1>1, EventOfAnnounce
<1>4. UNCHANGED <<calls, past>>
  BY <1>3 DEF Broadcast
<1>5. /\ inbox[c] # <<>> => inbox'[c] # <<>>
      /\ c \in On(owner[r]) /\ Ends(c, e) => inbox'[c] # <<>>
      /\ lagged[c] => lagged'[c]
  BY <1>3, Heard DEF CInv
<1>6. \A i \in DOMAIN inbox'[c] :
        \/ inbox'[c][i] = e /\ c \in On(owner[r])
        \/ \E j \in DOMAIN inbox[c] : inbox'[c][i] = inbox[c][j]
  BY <1>3, Heard DEF CInv
<1>7. pc[r] = "announcingRunning" =>
        IsRegistered(owner[r]) /\ entries[owner[r]].state = "Running"
  BY <1>1 DEF IInv, Ties, EntryIsOfRun, StateOfRun, UnderWay
<1>8. IsOver(c)' => WillHear(c)'
  <2>1. SUFFICES ASSUME IsOver(c)' PROVE WillHear(c)'
    OBVIOUS
  <2>2. IsOver(c)
    BY <1>2, <1>4, <2>1 DEF IsOver, IsRegistered
  <2>3. WillHear(c)
    BY <1>1, <2>2 DEF CallTies
  <2>4. CASE owner[r] = s
    <3>1. c \in On(owner[r])
      BY <2>2, <2>4 DEF On, Active, IsOver
    <3>2. calls[c].target \in {"Running", "Stopped"}
      BY <1>1 DEF Call
    <3>3. ~(e.state = "Starting" /\ pc[r] = "announcing")
      <4>1. SUFFICES ASSUME pc[r] = "announcing" PROVE FALSE
        OBVIOUS
      <4>2. IsRegistered(s) /\ entries[s].state = "Starting"
        BY <1>1, <2>4, <4>1
           DEF IInv, Ties, EntryIsOfRun, StateOfRun, UnderWay, Starting
      <4>3. QED
        BY <2>2, <3>2, <4>2 DEF IsOver, Settled, Step, TerminalStates
    <3>4. e.state = "Running" /\ pc[r] = "announcingRunning" => Ends(c, e)
      BY <1>7, <2>2, <2>4, <3>2 DEF IsOver, Settled, Step, TerminalStates, Ends
    <3>5. e.state \in TerminalStates => Ends(c, e)
      BY <3>2 DEF Step, TerminalStates, Ends
    <3>6. inbox'[c] # <<>>
      BY <1>3, <1>5, <3>1, <3>3, <3>4, <3>5
    <3>7. QED
      BY <3>6 DEF WillHear
  <2>5. CASE owner[r] # s
    <3>1. AnnouncementDue(s) => AnnouncementDue(s)'
      BY <1>2, <2>5 DEF AnnouncementDue
    <3>2. QED
      BY <1>4, <1>5, <2>3, <3>1 DEF WillHear
  <2>6. QED
    BY <2>4, <2>5
<1>9. TerminalNewsIsOld(c)'
  <2> SUFFICES ASSUME NEW i \in DOMAIN inbox'[c], inbox'[c][i].state \in TerminalStates
               PROVE  inbox'[c][i].run \in Runs /\ pc'[inbox'[c][i].run] = "done"
    BY DEF TerminalNewsIsOld
  <2>1. CASE inbox'[c][i] = e
    BY <1>3, <2>1 DEF TerminalStates
  <2>2. ASSUME NEW j \in DOMAIN inbox[c], inbox'[c][i] = inbox[c][j]
        PROVE  inbox'[c][i].run \in Runs /\ pc'[inbox'[c][i].run] = "done"
    <3>1. inbox[c][j].run \in Runs /\ pc[inbox[c][j].run] = "done"
      BY <1>1, <2>2 DEF CallTies, TerminalNewsIsOld
    <3>2. inbox[c][j].run # r
      BY <1>2, <3>1 DEF AnnouncePoints
    <3>3. QED
      BY <1>2, <2>2, <3>1, <3>2
  <2>3. QED
    BY <1>6, <2>1, <2>2
<1>10. StopHalfKnowsRun(c)'
  <2> SUFFICES ASSUME Restarting(c, "Stopped"), calls[c].phase = "waiting"
               PROVE  \/ "began" \in past[c] \/ IsDown(s)'
                      \/ /\ calls[c].run \in Runs /\ UnderWay(calls[c].run)'
                         /\ owner'[calls[c].run] = s
    BY <1>4 DEF StopHalfKnowsRun, Restarting, Active
  <2>1. \/ "began" \in past[c] \/ IsDown(s)
        \/ calls[c].run \in Runs /\ UnderWay(calls[c].run) /\ owner[calls[c].run] = s
    BY <1>1 DEF CallTies, StopHalfKnowsRun
  <2>2. CASE IsDown(s)
    BY <1>2, <2>2 DEF IsDown, IsRegistered, IsTerminal
  <2>3. CASE calls[c].run \in Runs /\ UnderWay(calls[c].run) /\ owner[calls[c].run] = s
    BY <1>1, <1>2, <1>4, <2>3, RunGoesOn DEF UnderWay
  <2>4. QED
    BY <2>1, <2>2, <2>3
<1>11. StartHalfStartsAnew(c)'
  <2> SUFFICES ASSUME Restarting(c, "Running")
               PROVE  /\ Excused(c) \/ IsDown(s)'
                      /\ \A i \in DOMAIN inbox'[c] :
                           inbox'[c][i].state = "Running" => Excused(c)
    BY <1>4 DEF StartHalfStartsAnew, Restarting, Active, Excused
  <2>1. /\ Excused(c) \/ IsDown(s)
        /\ \A i \in DOMAIN inbox[c] : inbox[c][i].state = "Running" => Excused(c)
    BY <1>1 DEF CallTies, StartHalfStartsAnew
  <2>2. IsDown(s) => IsDown(s)'
    BY <1>2 DEF IsDown, IsRegistered, IsTerminal
  <2>3. e.state = "Running" /\ c \in On(owner[r]) => ~IsDown(s)
    BY <1>3, <1>7 DEF On, IsDown, IsTerminal, TerminalStates
  <2>4. QED
    BY <1>6, <2>1, <2>2, <2>3
<1>12. RestartKept(c)' /\ Unanswered(c)'
  BY <1>1, <1>4 DEF CallTies, RestartKept, Unanswered, Excused, Active
<1>13. QED
  BY <1>8, <1>9, <1>10, <1>11, <1>12 DEF CallTies

\* The removal of a service ends every wait for it.
LEMMA AnnounceRemovalKeeps ==
  ASSUME CInv, NEW t \in Services, AnnounceRemoval(t), NEW c \in Calls
  PROVE  CallTies(c)'
<1> PICK s \in Services : calls[c].service = s
  BY DEF CInv, ControlTypeOK, Call
<1> DEFINE e == [run |-> None, state |-> "Unregistered"]
<1>1. CallTies(c) /\ UNCHANGED vars
  BY DEF CInv, AnnounceRemoval
<1>2. e \in Event /\ e.state = "Unregistered" /\ Broadcast(t, e)
  BY DEF AnnounceRemoval, Event
<1> HIDE DEF e
<1>3. UNCHANGED <<calls, past>>
  BY <1>2 DEF Broadcast
<1>4. /\ inbox[c] # <<>> => inbox'[c] # <<>>
      /\ c \in On(t) => inbox'[c] # <<>>
      /\ lagged[c] => lagged'[c]
  BY <1>2, Heard DEF CInv, Ends
<1>5. \A i \in DOMAIN inbox'[c] :
        inbox'[c][i] = e \/ \E j \in DOMAIN inbox[c] : inbox'[c][i] = inbox[c][j]
  BY <1>2, Heard DEF CInv
<1>6. IsOver(c)' => WillHear(c)'
  <2>1. SUFFICES ASSUME IsOver(c) PROVE WillHear(c)'
    BY <1>1, <1>3 DEF IsOver, IsRegistered, vars
  <2>2. WillHear(c)
    BY <1>1, <2>1 DEF CallTies
  <2>3. CASE s = t
    BY <1>4, <2>1, <2>3 DEF On, Active, IsOver, WillHear
  <2>4. CASE s # t
    <3>1. AnnouncementDue(s) => AnnouncementDue(s)'
      BY <1>1, <2>4 DEF AnnounceRemoval, AnnouncementDue, vars, CInv, ControlTypeOK
    <3>2. QED
      BY <1>3, <1>4, <2>2, <3>1 DEF WillHear
  <2>5. QED
    BY <2>3, <2>4
<1>7. TerminalNewsIsOld(c)'
  BY <1>1, <1>2, <1>5 DEF CallTies, TerminalNewsIsOld, TerminalStates, vars
<1>8. StartHalfStartsAnew(c)'
  BY <1>1, <1>2, <1>3, <1>5
     DEF CallTies, StartHalfStartsAnew, Restarting, Active, IsDown, IsRegistered,
         IsTerminal, Excused, vars
<1>9. StopHalfKnowsRun(c)' /\ RestartKept(c)' /\ Unanswered(c)'
  BY <1>1, <1>3
     DEF CallTies, StopHalfKnowsRun, RestartKept, Unanswered, Restarting, Active,
         IsDown, IsRegistered, IsTerminal, UnderWay, Excused, vars
<1>10. QED
  BY <1>6, <1>7, <1>8, <1>9 DEF CallTies

\* A step that leaves the announcements due as they are.
LEMMA DueKept ==
  ASSUME IInv, NEW s \in Services, AnnouncementDue(s),
         unannounced[s] => unannounced'[s],
         \A r \in Runs : pc[r] \in AnnouncePoints =>
           pc'[r] = pc[r] /\ owner'[r] = owner[r]
  PROVE  AnnouncementDue(s)'
BY DEF AnnouncementDue

\* An entry is removed by unregister only.
LEMMA StaysRegistered ==
  ASSUME IInv, NEW s \in Services, IsRegistered(s),
         \/ UNCHANGED entries
         \/ \E t \in Services, g \in Flags : Register(t, g)
         \/ \E t \in Services, r \in Runs : Start(t, r)
         \/ \E r \in Runs : SetPid(r) \/ SetRunning(r) \/ SetTerminal(r)
  PROVE  IsRegistered(s)'
<1>1. entries[s] \in Entry /\ IInv
  BY DEF IInv, TypeOK, IsRegistered
<1>2. CASE entries'[s] = entries[s]
  BY <1>2 DEF IsRegistered
<1>3. CASE \E t \in Services, g \in Flags : Register(t, g)
  BY <1>1, <1>3, SupervisorAssumption
     DEF Register, IsRegistered, IInv, TypeOK, Entry, States, TerminalStates
<1>4. ASSUME NEW t \in Services, NEW r \in Runs, Start(t, r), entries'[s] # entries[s]
      PROVE  IsRegistered(s)'
  <2>1. entries'[s] = [entries[s] EXCEPT !.state = "Starting", !.control = r]
    BY <1>4 DEF Start, IInv, TypeOK
  <2>2. entries'[s] \in Entry
    BY <1>1, <2>1, EntryFields
  <2>3. QED
    BY <2>2, SupervisorAssumption DEF IsRegistered
<1>5. ASSUME NEW r \in Runs, SetPid(r), entries'[s] # entries[s] PROVE IsRegistered(s)'
  <2>1. entries'[s] = [entries[s] EXCEPT !.pid = r]
    <3>1. s = owner[r] /\ entries' = [entries EXCEPT ![owner[r]].pid = r]
      BY <1>5 DEF SetPid, IInv, TypeOK
    <3>2. s \in DOMAIN entries
      BY <1>1 DEF IInv, TypeOK
    <3>3. QED
      BY <3>1, <3>2
  <2>2. entries'[s] \in Entry
    BY <1>1, <2>1, EntryFields
  <2>3. QED
    BY <2>2, SupervisorAssumption DEF IsRegistered
<1>6. ASSUME NEW r \in Runs, SetRunning(r) \/ SetTerminal(r), entries'[s] # entries[s]
      PROVE  IsRegistered(s)'
  <2>1. s = owner[r] /\ IsRegistered(owner[r]) /\ s \in DOMAIN entries
    BY <1>1, <1>6, Zenon DEF SetRunning, SetTerminal, SetState, IInv, TypeOK
  <2>2. verdict[r] \in TerminalStates /\ "Running" \notin TerminalStates
    BY <1>1 DEF IInv, TypeOK, TerminalStates
  <2> "Running" \in States /\ verdict[r] \in States
    BY <2>2 DEF States
  <2>3. CASE SetRunning(r)
    <3>1. entries'[s] = [entries[s] EXCEPT !.state = "Running"]
      <4>1. entries' = [entries EXCEPT ![s] = [entries[s] EXCEPT !.state = "Running"]]
        BY <2>1, <2>2, <2>3 DEF SetRunning, SetState
      <4>2. QED
        BY <2>1, <4>1
    <3>2. [entries[s] EXCEPT !.state = "Running"] \in Entry
      BY <1>1, EntryFields
    <3>3. QED
      BY <3>1, <3>2, SupervisorAssumption DEF IsRegistered
  <2>4. CASE SetTerminal(r)
    <3>1. entries'[s] = [entries[s] EXCEPT !.state = verdict[r], !.pid = None,
                                           !.control = None]
      <4>1. entries' = [entries EXCEPT ![s] = [entries[s] EXCEPT !.state = verdict[r],
                                                 !.pid = None, !.control = None]]
        BY <2>1, <2>2, <2>4 DEF SetTerminal, SetState
      <4>2. QED
        BY <2>1, <4>1
    <3>2. [entries[s] EXCEPT !.state = verdict[r], !.pid = None, !.control = None]
             \in Entry
      BY <1>1, EntryFields
    <3>3. QED
      BY <3>1, <3>2, SupervisorAssumption DEF IsRegistered
  <2>5. QED
    BY <1>6, <2>3, <2>4
<1>7. QED
  BY <1>2, <1>3, <1>4, <1>5, <1>6

\* A call is not disturbed by another actor's start, which its history notes.
LEMMA BystanderOfStart ==
  ASSUME CInv, IInv', NEW c \in Calls, NEW t \in Services, NEW r \in Runs,
         StartRun(t, r), NoteStart(t), UNCHANGED unannounced,
         calls'[c] = calls[c], inbox'[c] = inbox[c], lagged'[c] = lagged[c]
  PROVE  CallTies(c)'
<1> PICK s \in Services : calls[c].service = s
  BY DEF CInv, ControlTypeOK, Call
<1>1. Start(t, r) /\ Unmentioned(r) /\ IInv /\ TypeOK /\ [Next]_vars
  BY DEF StartRun, CInv, IInv, Next, CallerStep
<1>2. past[c] \subseteq past'[c]
      /\ (c \in On(t) /\ calls[c].verb = "restart" => "began" \in past'[c])
  BY DEF NoteStart
<1>3. ASSUME NEW u \in Services, NEW q \in Runs, Start(u, q)
      PROVE  /\ Unmentioned(q)
             /\ u = calls[c].service /\ Active(c) /\ calls[c].verb = "restart"
                  => "began" \in past'[c]
  BY <1>1, <1>2, <1>3, OneStart DEF On
<1>4. \A q \in Runs : pc[q] \in AnnouncePoints =>
        pc'[q] = pc[q] /\ owner'[q] = owner[q]
  BY <1>1 DEF Start, FreshRun, AnnouncePoints, TypeOK
<1>5. AnnouncementDue(s) => AnnouncementDue(s)'
  BY <1>1, <1>4, DueKept
<1>6. IsRegistered(s) => IsRegistered(s)'
  BY <1>1, StaysRegistered
<1>7. QED
  BY <1>1, <1>2, <1>3, <1>5, <1>6, BystanderKept

\* A call is not disturbed by a step that announces, starts and removes nothing.
LEMMA BystanderOfQuiet ==
  ASSUME CInv, IInv', NEW c \in Calls, UNCHANGED unannounced,
         calls'[c] = calls[c], inbox'[c] = inbox[c], lagged'[c] = lagged[c],
         past[c] \subseteq past'[c],
         \/ UNCHANGED vars
         \/ \E s \in Services, g \in Flags : Register(s, g)
         \/ \E s \in Services : Stop(s)
         \/ \E r \in Runs : RunStep(r) /\ (pc[r] \in AnnouncePoints => pc'[r] = pc[r])
  PROVE  CallTies(c)'
<1> PICK s \in Services : calls[c].service = s
  BY DEF CInv, ControlTypeOK, Call
<1>1. IInv /\ TypeOK /\ [Next]_vars
  BY DEF CInv, IInv, Next, CallerStep
<1>2. UNCHANGED pc \/ \E r \in Runs : RunStep(r)
  BY DEF vars, Register, Stop
<1>3. \A u \in Services, q \in Runs : ~Start(u, q)
  BY <1>1, <1>2, NoStart
<1>4. ASSUME NEW q \in Runs, pc[q] \in AnnouncePoints
      PROVE  pc'[q] = pc[q] /\ owner'[q] = owner[q]
  <2>1. ASSUME NEW p \in Runs, RunStep(p), pc[p] \in AnnouncePoints => pc'[p] = pc[p]
        PROVE  pc'[q] = pc[q] /\ owner'[q] = owner[q]
    <3>1. CASE p # q
      BY <1>1, <2>1, <3>1, OtherRunsRest
    <3>2. CASE p = q
      <4>1. pc'[q] = pc[q]
        BY <1>4, <2>1, <3>2
      <4>2. ~AnnounceTerminal(q)
        BY <1>1, <1>4, <4>1 DEF AnnounceTerminal, Goto, AnnouncePoints, TypeOK
      <4>3. UNCHANGED owner
        BY <2>1, <3>2, <4>2, OwnersRest
      <4>4. QED
        BY <4>1, <4>3
    <3>3. QED
      BY <3>1, <3>2
  <2>2. QED
    BY <2>1 DEF vars, Register, Stop
<1>5. AnnouncementDue(s) => AnnouncementDue(s)'
  BY <1>1, <1>4, DueKept
<1>6. IsRegistered(s) => IsRegistered(s)'
  <2>1. \/ UNCHANGED entries
        \/ \E t \in Services, g \in Flags : Register(t, g)
        \/ \E r \in Runs : SetPid(r) \/ SetRunning(r) \/ SetTerminal(r)
    BY TaskWrites DEF vars, Stop
  <2>2. QED
    BY <1>1, <2>1, StaysRegistered
<1>7. QED
  BY <1>1, <1>3, <1>5, <1>6, BystanderKept

\* A step of one call touches neither what another knows nor its receiver.
LEMMA OthersUntouched ==
  ASSUME ControlTypeOK, NEW c \in Calls, NEW d \in Calls \ {c},
         \/ \E verb \in Verbs, s \in Services, wait \in BOOLEAN :
              Begin(d, verb, s, wait)
         \/ Proceed(d) \/ LogOverflow(d) \/ TimesOut(d)
  PROVE  /\ calls'[c] = calls[c] /\ inbox'[c] = inbox[c] /\ lagged'[c] = lagged[c]
         /\ UNCHANGED unannounced
<1> DEFINE Untouched ==
      calls'[c] = calls[c] /\ inbox'[c] = inbox[c] /\ lagged'[c] = lagged[c]
<1>1. UNCHANGED unannounced
  BY DEF Begin, Proceed, Admit, KickStart, KickStop, KickNotFound, Receive,
         ReceiveLagged, LogOverflow, TimesOut
<1>2. ClearReceiver(d) => inbox'[c] = inbox[c] /\ lagged'[c] = lagged[c]
  BY DEF ClearReceiver, ControlTypeOK
<1>3. GoesOn(d) => Untouched
  BY <1>2 DEF GoesOn, ControlTypeOK
<1>4. \A answer : Answer(d, answer) => Untouched
  BY <1>2 DEF Answer, ControlTypeOK
<1>5. \A disposition : Reach(d, disposition) => Untouched
  BY <1>3, <1>4, ReachCases
<1>6. \A r : Kicked(d, r) => Untouched
  BY <1>5 DEF Kicked, ControlTypeOK
<1>7. \A state : Observe(d, state) => Untouched
  BY <1>4, <1>5 DEF Observe
<1>8. ASSUME NEW verb, NEW s, NEW wait, Begin(d, verb, s, wait) PROVE Untouched
  BY <1>2, <1>8 DEF Begin, ControlTypeOK
<1>9. CASE Admit(d)
  BY <1>4, <1>5, <1>9 DEF Admit, ControlTypeOK
<1>10. CASE KickStart(d) \/ KickStop(d)
  BY <1>6, <1>10 DEF KickStart, KickStop
<1>11. CASE KickNotFound(d) \/ TimesOut(d)
  BY <1>4, <1>11 DEF KickNotFound, TimesOut
<1>12. CASE Receive(d)
  BY <1>4, <1>7, <1>12 DEF Receive
<1>13. CASE ReceiveLagged(d)
  BY <1>7, <1>13 DEF ReceiveLagged, ControlTypeOK
<1>14. CASE LogOverflow(d)
  BY <1>14 DEF LogOverflow, ControlTypeOK
<1>15. QED
  BY <1>1, <1>8, <1>9, <1>10, <1>11, <1>12, <1>13, <1>14 DEF Proceed

\* Steps of the supervisor and of the other calls leave a call's ties alone.
LEMMA OthersKeep ==
  ASSUME CInv, IInv', NEW c \in Calls,
         \/ QuietStep \/ UNCHANGED allVars
         \/ \E s \in Services : OthersUnregister(s)
         \/ \E s \in Services, r \in Runs : OthersStart(s, r)
         \/ \E d \in Calls \ {c} :
              \/ \E verb \in Verbs, s \in Services, wait \in BOOLEAN :
                   Begin(d, verb, s, wait)
              \/ Proceed(d) \/ LogOverflow(d) \/ TimesOut(d)
  PROVE  CallTies(c)'
<1>1. CASE QuietStep \/ UNCHANGED allVars
  BY <1>1, BystanderOfQuiet DEF QuietStep, allVars, callVars
<1>2. ASSUME NEW t \in Services, OthersUnregister(t) PROVE CallTies(c)'
  <2> PICK s \in Services : calls[c].service = s
    BY DEF CInv, ControlTypeOK, Call
  <2>1. IInv /\ TypeOK /\ Unregister(t) /\ [Next]_vars
    BY <1>2 DEF OthersUnregister, CInv, IInv, Next, CallerStep
  <2>2. \A u \in Services, q \in Runs : ~Start(u, q)
    BY <2>1, NoStart DEF Unregister
  <2>3. AnnouncementDue(s) => AnnouncementDue(s)'
    BY <1>2, <2>1 DEF OthersUnregister, Unregister, AnnouncementDue, CInv, ControlTypeOK
  <2>4. IsRegistered(s) /\ ~IsRegistered(s)' => AnnouncementDue(s)'
    BY <1>2, <2>1
       DEF OthersUnregister, Unregister, AnnouncementDue, IsRegistered, CInv,
           ControlTypeOK, TypeOK
  <2>5. UNCHANGED <<calls, inbox, lagged, past>>
    BY <1>2 DEF OthersUnregister
  <2>6. QED
    BY <2>1, <2>2, <2>3, <2>4, <2>5, BystanderKept
<1>3. ASSUME NEW t \in Services, NEW r \in Runs, OthersStart(t, r) PROVE CallTies(c)'
  BY <1>3, BystanderOfStart DEF OthersStart
<1>4. ASSUME NEW d \in Calls \ {c},
             \/ \E verb \in Verbs, s \in Services, wait \in BOOLEAN :
                  Begin(d, verb, s, wait)
             \/ Proceed(d) \/ LogOverflow(d) \/ TimesOut(d)
      PROVE  CallTies(c)'
  <2>1. /\ calls'[c] = calls[c] /\ inbox'[c] = inbox[c] /\ lagged'[c] = lagged[c]
        /\ UNCHANGED unannounced
    BY <1>4, OthersUntouched DEF CInv
  <2>2. calls[d].service \in Services
    BY <1>4 DEF CInv, ControlTypeOK, Call
  <2>3. CASE \E r \in Runs :
               StartRun(calls[d].service, r) /\ NoteStart(calls[d].service)
    BY <2>1, <2>2, <2>3, BystanderOfStart
  <2>4. CASE ~\E r \in Runs :
                StartRun(calls[d].service, r) /\ NoteStart(calls[d].service)
    <3>1. past'[c] = past[c]
      <4>1. CASE KickStart(d)
        BY <2>4, <4>1 DEF KickStart
      <4>2. CASE KickStop(d)
        BY <4>2 DEF KickStop, CInv, ControlTypeOK
      <4>3. CASE Admit(d) \/ KickNotFound(d) \/ LogOverflow(d) \/ TimesOut(d)
        BY <4>3 DEF Admit, KickNotFound, LogOverflow, TimesOut
      <4>4. CASE Receive(d) \/ ReceiveLagged(d)
        BY <4>4 DEF Receive, ReceiveLagged, CInv, ControlTypeOK
      <4>5. ASSUME NEW verb \in Verbs, NEW s \in Services, NEW wait \in BOOLEAN,
                   Begin(d, verb, s, wait)
            PROVE  past'[c] = past[c]
        BY <4>5 DEF Begin, CInv, ControlTypeOK
      <4>6. QED
        BY <1>4, <4>1, <4>2, <4>3, <4>4, <4>5 DEF Proceed
    <3>2. UNCHANGED vars \/ Stop(calls[d].service)
      <4>1. CASE KickStart(d)
        BY <2>4, <4>1 DEF KickStart
      <4>2. CASE KickStop(d)
        BY <4>2 DEF KickStop
      <4>3. CASE Admit(d) \/ KickNotFound(d) \/ LogOverflow(d) \/ TimesOut(d)
        BY <4>3 DEF Admit, KickNotFound, LogOverflow, TimesOut
      <4>4. CASE Receive(d) \/ ReceiveLagged(d)
        BY <4>4 DEF Receive, ReceiveLagged
      <4>5. ASSUME NEW verb \in Verbs, NEW s \in Services, NEW wait \in BOOLEAN,
                   Begin(d, verb, s, wait)
            PROVE  UNCHANGED vars
        BY <4>5 DEF Begin
      <4>6. QED
        BY <1>4, <4>1, <4>2, <4>3, <4>4, <4>5 DEF Proceed
    <3>3. QED
      BY <2>1, <2>2, <3>1, <3>2, BystanderOfQuiet
  <2>5. QED
    BY <2>3, <2>4
<1>5. QED
  BY <1>1, <1>2, <1>3, <1>4

\* Every step keeps the ties of every call.
LEMMA CallTiesStep ==
  ASSUME CInv, IInv', [ControlNext]_allVars, NEW c \in Calls
  PROVE  CallTies(c)'
<1>2. ASSUME NEW verb \in Verbs, NEW s \in Services, NEW wait \in BOOLEAN,
             Begin(c, verb, s, wait)
      PROVE  CallTies(c)'
  BY <1>2, BeginKeeps
<1>3. CASE Proceed(c)
  <2>1. CASE KickNotFound(c)
    BY <2>1, AnswerKeeps DEF KickNotFound
  <2>2. QED
    BY <1>3, <2>1, AdmitKeeps, KickStartKeeps, KickStopKeeps, ReceiveKeeps,
       ReceiveLaggedKeeps DEF Proceed
<1>4. CASE LogOverflow(c) \/ TimesOut(c)
  BY <1>4, LogOverflowKeeps, AnswerKeeps DEF TimesOut
<1>5. CASE \E r \in Runs : Announce(r)
  BY <1>5, AnnounceKeeps
<1>6. CASE \E s \in Services : AnnounceRemoval(s)
  BY <1>6, AnnounceRemovalKeeps
<1>7. QED
  BY <1>2, <1>3, <1>4, <1>5, <1>6, OthersKeep DEF ControlNext

\* The verbs' invariant holds of every behaviour, with the supervisor's own.
THEOREM ControlInductive == ControlSpec => []CInv
<1>1. ControlInit => CInv
  <2> SUFFICES ASSUME ControlInit PROVE CInv
    OBVIOUS
  <2>1. IInv
    BY IInvInit DEF ControlInit
  <2>2. \A verb \in Verbs, s \in Services :
          /\ Answered(verb, s, "none") \in Call
          /\ Answered(verb, s, "none").phase = "answered"
          /\ Answered(verb, s, "none").answer = "none"
    BY DEF Answered, Call, Phases, Answers
  <2>3. \A c \in Calls : /\ calls[c] \in Call
                         /\ calls[c].phase = "answered" /\ calls[c].answer = "none"
    BY <2>2 DEF ControlInit
  <2>4. <<>> \in Seq(Event) /\ Len(<<>>) = 0 /\ DOMAIN <<>> = {} /\ 0 <= Capacity
    BY ControlAssumption
  <2>5. calls = [c \in Calls |-> calls[c]]
    BY DEF ControlInit
  <2>6. ControlTypeOK
    BY <2>3, <2>4, <2>5 DEF ControlInit, ControlTypeOK
  <2>7. ASSUME NEW c \in Calls PROVE CallTies(c)
    BY <2>3, <2>4, <2>7
       DEF ControlInit, CallTies, IsOver, TerminalNewsIsOld, StopHalfKnowsRun,
           StartHalfStartsAnew, RestartKept, Unanswered, Restarting, Active
  <2>8. QED
    BY <2>1, <2>6, <2>7 DEF CInv
<1>2. ASSUME CInv, [ControlNext]_allVars PROVE CInv'
  <2>1. [Next]_vars
    BY <1>2, ControlStepsAreSteps DEF CInv
  <2>2. IInv'
    BY <1>2, <2>1, IInvStep DEF CInv
  <2>3. ControlTypeOK'
    BY <1>2, ControlTypeStep DEF CInv, IInv
  <2>4. \A c \in Calls : CallTies(c)'
    BY <1>2, <2>2, CallTiesStep
  <2>5. QED
    BY <2>2, <2>3, <2>4 DEF CInv
<1>3. QED
  BY <1>1, <1>2, PTL DEF ControlSpec

\* The verbs add nothing to what the supervisor does: with all their callers, a
\* behaviour of ControlVerbs is one of Supervisor, so what is proved of Supervisor
\* holds while calls are executed.
THEOREM VerbsAreCallers == ControlSpec => Spec
<1>1. ControlInit => Init
  BY DEF ControlInit
<1>2. CInv /\ [ControlNext]_allVars => [Next]_vars
  BY ControlStepsAreSteps DEF CInv
<1>3. QED
  BY <1>1, <1>2, ControlInductive, PTL DEF ControlSpec, Spec

\* Subscribing before the snapshot leaves no window: whatever interleaving of the
\* supervisor, its late broadcasts and other callers, a call with nothing left to
\* read waits for a service that is not yet where the call wants it, unless its
\* removal was lost.
THEOREM NobodyWaitsInVain == ControlSpec => []NoVainWait
<1>1. CInv => NoVainWait
  BY DEF CInv, CallTies, NoVainWait, IsOver, WillHear
<1>2. QED
  BY <1>1, ControlInductive, PTL

\* A restart that reports success saw a run begin since it asked for the stop,
\* or had its stop half answered by the event of another run.
THEOREM RestartIsHonest == ControlSpec => []RestartRestarts
<1>1. CInv => RestartRestarts
  BY DEF CInv, CallTies, RestartKept, Excused, RestartRestarts
<1>2. QED
  BY <1>1, ControlInductive, PTL
-----------------------------------------------------------------------------
(* Liveness of the supervisor.  A run only goes forward through the points of *)
(* its task, and at every point a fair step is due; the one exception is the  *)
(* run loop, which waits for a stop or for the child.                         *)

\* A child of a run past the grace period has been killed: the wait for it is
\* over as soon as the kill lands.
KillIsSent == \A r \in Runs : pc[r] = "killed" => child[r] \in Dead \union {"dying"}

\* The points of a task in the order in which it passes them.
Rank(point) ==
  CASE point = "announcing"         -> 1
    [] point = "spawning"           -> 2
    [] point = "pid"                -> 3
    [] point = "recording"          -> 4
    [] point = "readiness"          -> 5
    [] point = "ready"              -> 6
    [] point = "announcingRunning"  -> 7
    [] point = "running"            -> 8
    [] point = "terminating"        -> 9
    [] point = "killed"             -> 10
    [] point = "draining"           -> 11
    [] point = "removing"           -> 12
    [] point = "settling"           -> 13
    [] point = "announcingTerminal" -> 14
    [] point = "done"               -> 15


HasReached(r, k) == Rank(pc[r]) >= k
StandsAt(r, k)   == Rank(pc[r]) = k
HasPassed(r, k)  == Rank(pc[r]) > k

\* Within reach of the fair steps: what follows from their guards.
Scheduled == FairSpec /\ []GuardsSuffice

\* Every point has a rank.
LEMMA Ranks ==
  ASSUME TypeOK, NEW r \in Runs
  PROVE  /\ Rank(pc[r]) \in 1 .. 15
         /\ Rank(pc[r]) = 15 <=> pc[r] = "done"
         /\ Rank(pc[r]) = 8 <=> pc[r] = "running"
         /\ Rank(pc[r]) = 10 <=> pc[r] = "killed"
<1> DEFINE p == pc[r]
<1>1. p \in Points
  BY DEF TypeOK
<1> HIDE DEF p
<1>2. Rank(p) \in 1 .. 15
  BY <1>1 DEF Points, Starting, Ending, Rank
<1>3. Rank(p) = 15 <=> p = "done"
  BY <1>1 DEF Points, Starting, Ending, Rank
<1>4. Rank(p) = 8 <=> p = "running"
  BY <1>1 DEF Points, Starting, Ending, Rank
<1>5. Rank(p) = 10 <=> p = "killed"
  BY <1>1 DEF Points, Starting, Ending, Rank
<1>6. QED
  BY <1>2, <1>3, <1>4, <1>5 DEF p

LEMMA RanksLater ==
  ASSUME TypeOK', NEW r \in Runs
  PROVE  Rank(pc'[r]) \in 1 .. 15
BY DEF TypeOK, Points, Starting, Ending, Rank

\* A task step takes a run to a later point.
LEMMA TaskGoesForward ==
  ASSUME TypeOK, NEW r \in Runs, TaskStep(r) \/ ProbeSucceeds(r)
  PROVE  pc[r] # "done" /\ Rank(pc'[r]) > Rank(pc[r])
<1> USE DEF TypeOK, Goto, Rank
<1>1. CASE AnnounceStart(r) \/ Spawn(r) \/ SpawnFails(r) \/ SetPid(r)
  BY <1>1 DEF AnnounceStart, Spawn, SpawnFails, SetPid
<1>2. CASE RecordRunning(r) \/ AliveAfterElapsed(r) \/ ProbeSucceeds(r)
  BY <1>2 DEF RecordRunning, AliveAfterElapsed, ProbeSucceeds
<1>3. CASE ProbeDeadline(r) \/ SetRunning(r) \/ AnnounceRunning(r)
  BY <1>3 DEF ProbeDeadline, SetRunning, AnnounceRunning
<1>4. CASE ReceiveStop(r) \/ GraceElapsed(r) \/ ChildReaped(r)
  BY <1>4 DEF ReceiveStop, GraceElapsed, ChildReaped
<1>5. CASE Classify(r) \/ RemoveRecord(r) \/ SetTerminal(r) \/ AnnounceTerminal(r)
  BY <1>5 DEF Classify, RemoveRecord, SetTerminal, AnnounceTerminal
<1>6. QED
  BY <1>1, <1>2, <1>3, <1>4, <1>5 DEF TaskStep

\* Whoever moves, a run that is not done stands still or goes forward.
LEMMA StepGoesForward ==
  ASSUME TypeOK, [Next]_vars, NEW r \in Runs, pc[r] # "done"
  PROVE  pc'[r] = pc[r] \/ Rank(pc'[r]) > Rank(pc[r])
<1>1. ~\E s \in Services : Start(s, r)
  BY DEF Start, FreshRun
<1>2. QED
  BY <1>1, RunMovers, TaskGoesForward

\* No task goes back to an earlier point: a run that was announced as Running
\* is never Starting again, and none listens to its channel once it has begun
\* to tear its child down.
THEOREM RunsGoForward ==
  Spec => [][\A r \in Runs : pc[r] # "done" => Rank(pc'[r]) >= Rank(pc[r])]_vars
<1>1. ASSUME TypeOK, [Next]_vars, NEW r \in Runs, pc[r] # "done"
      PROVE  Rank(pc'[r]) >= Rank(pc[r])
  <2>1. Rank(pc[r]) \in Int
    BY <1>1, Ranks
  <2>2. pc'[r] = pc[r] \/ Rank(pc'[r]) > Rank(pc[r])
    BY <1>1, StepGoesForward
  <2>3. Rank(pc'[r]) \in Int
    BY <1>1, TypeStep, RanksLater
  <2>4. QED
    BY <2>1, <2>2, <2>3
<1>2. TypeOK /\ [Next]_vars =>
        [\A r \in Runs : pc[r] # "done" => Rank(pc'[r]) >= Rank(pc[r])]_vars
  BY <1>1
<1>3. QED
  BY <1>2, TypeCorrect, PTL DEF Spec

\* A child is born, killed, reaped or exits; nothing else touches it.
LEMMA ChildMovers ==
  ASSUME TypeOK, [Next]_vars, NEW r \in Runs
  PROVE  \/ child'[r] = child[r]
         \/ child'[r] \in Dead
         \/ Spawn(r) \/ GraceElapsed(r) \/ AnnounceTerminal(r)
<1>1. CASE UNCHANGED vars
  BY <1>1 DEF vars
<1>2. CASE CallerStep
  BY <1>2 DEF CallerStep, Register, Unregister, Start, Stop
<1>3. ASSUME NEW q \in Runs, Spawn(q) \/ GraceElapsed(q) \/ AnnounceTerminal(q), q # r
      PROVE  child'[r] = child[r]
  BY <1>3 DEF Spawn, GraceElapsed, AnnounceTerminal, TypeOK
<1>4. ASSUME NEW q \in Runs, (\E status \in Dead : ChildExits(q, status)) \/ KillLands(q)
      PROVE  child'[r] = child[r] \/ child'[r] \in Dead
  BY <1>4 DEF ChildExits, KillLands, TypeOK, Dead
<1>5. ASSUME NEW q \in Runs, TaskStep(q) \/ TrySend(q) \/ ProbeSucceeds(q)
      PROVE  \/ UNCHANGED child
             \/ Spawn(q) \/ GraceElapsed(q) \/ AnnounceTerminal(q)
  BY <1>5
     DEF TaskStep, TrySend, AnnounceStart, SpawnFails, SetPid, RecordRunning,
         AliveAfterElapsed, ProbeSucceeds, ProbeDeadline, SetRunning,
         AnnounceRunning, ReceiveStop, ChildReaped, Classify, RemoveRecord,
         SetTerminal
<1>6. QED
  BY <1>1, <1>2, <1>3, <1>4, <1>5 DEF Next, RunStep

\* The child of a run past its grace period is dying or dead.
LEMMA KilledIsGoing == Spec => []KillIsSent
<1>1. Init => KillIsSent
  BY DEF Init, KillIsSent
<1>2. IInv /\ KillIsSent /\ [Next]_vars => KillIsSent'
  <2> SUFFICES ASSUME IInv, KillIsSent, [Next]_vars,
                      NEW r \in Runs, pc'[r] = "killed"
               PROVE  child'[r] \in Dead \union {"dying"}
    BY DEF KillIsSent
  <2>1. CASE GraceElapsed(r)
    <3>1. child[r] # "none" /\ child[r] \in Children
      BY <2>1 DEF GraceElapsed, Goto, IInv, Ties, ChildOfRun, Parenting, TypeOK
    <3>2. child'[r] = IF child[r] = "alive" THEN "dying" ELSE child[r]
      BY <2>1 DEF GraceElapsed, IInv, TypeOK
    <3>3. QED
      BY <3>1, <3>2 DEF Children
  <2>2. CASE ~GraceElapsed(r)
    <3>1. ~TaskStep(r) /\ ~ProbeSucceeds(r)
      BY <2>2
         DEF IInv, TypeOK, TaskStep, Goto, AnnounceStart, Spawn, SpawnFails,
             SetPid, RecordRunning, AliveAfterElapsed, ProbeSucceeds,
             ProbeDeadline, SetRunning, AnnounceRunning, ReceiveStop, ChildReaped,
             Classify, RemoveRecord, SetTerminal, AnnounceTerminal
    <3>2. ASSUME NEW s \in Services, Start(s, r) PROVE FALSE
      BY <3>2 DEF Start, IInv, TypeOK
    <3>3. pc[r] = "killed"
      BY <3>1, <3>2, RunMovers DEF IInv
    <3>4. child[r] \in Dead \union {"dying"}
      BY <3>3 DEF KillIsSent
    <3>5. QED
      BY <2>2, <3>1, <3>4, ChildMovers DEF IInv, TaskStep
  <2>3. QED
    BY <2>1, <2>2
<1>3. QED
  BY <1>1, <1>2, Inductive, PTL DEF Spec

-----------------------------------------------------------------------------
\* A run does not stay at a point, or before it, for ever.
Passes(r, k) == HasReached(r, k) ~> HasPassed(r, k)

\* A run leaves its point for a later one only.
LEMMA StaysOrPasses ==
  ASSUME TypeOK, [Next]_vars, NEW r \in Runs, NEW k \in 1 .. 14, StandsAt(r, k)
  PROVE  StandsAt(r, k)' \/ HasPassed(r, k)'
<1>1. pc[r] # "done"
  BY Ranks DEF StandsAt
<1>2. pc'[r] = pc[r] \/ Rank(pc'[r]) > Rank(pc[r])
  BY <1>1, StepGoesForward
<1>3. Rank(pc'[r]) \in 1 .. 15
  BY TypeStep, RanksLater
<1>4. QED
  BY <1>2, <1>3 DEF StandsAt, HasPassed

\* A step of its task takes it there.
LEMMA TaskPasses ==
  ASSUME TypeOK, NEW r \in Runs, NEW k \in 1 .. 14, StandsAt(r, k),
         <<TaskStep(r)>>_vars
  PROVE  HasPassed(r, k)'
<1>1. Rank(pc'[r]) > Rank(pc[r])
  BY TaskGoesForward
<1>2. [Next]_vars
  BY DEF Next, RunStep
<1>3. Rank(pc'[r]) \in 1 .. 15
  BY <1>2, TypeStep, RanksLater
<1>4. QED
  BY <1>1, <1>3 DEF StandsAt, HasPassed

LEMMA StandsOrPassed ==
  ASSUME TypeOK, NEW r \in Runs, NEW k \in 1 .. 14, HasReached(r, k)
  PROVE  StandsAt(r, k) \/ HasPassed(r, k)
BY Ranks DEF HasReached, StandsAt, HasPassed

\* At every point but two a task step is due whatever else happens.
LEMMA StraightOn ==
  Scheduled => \A r \in Runs, k \in 1 .. 14 \ {8, 10} : Passes(r, k)
<1> SUFFICES ASSUME NEW r \in Runs, NEW k \in 1 .. 14 \ {8, 10}
             PROVE  Scheduled => Passes(r, k)
  OBVIOUS
<1>1. TypeOK /\ HasReached(r, k) => StandsAt(r, k) \/ HasPassed(r, k)
  BY StandsOrPassed
<1>2. TypeOK /\ StandsAt(r, k) /\ [Next]_vars
        => StandsAt(r, k)' \/ HasPassed(r, k)'
  BY StaysOrPasses
<1>3. TypeOK /\ StandsAt(r, k) /\ <<TaskStep(r)>>_vars => HasPassed(r, k)'
  BY TaskPasses
<1>4. TypeOK /\ GuardsSuffice /\ StandsAt(r, k) => ENABLED <<TaskStep(r)>>_vars
  <2> SUFFICES ASSUME TypeOK, StandsAt(r, k) PROVE TaskIsDue(r)
    BY DEF GuardsSuffice
  <2>1. QED
    BY Ranks DEF StandsAt, TaskIsDue
<1>5. Fairness => RunFairness(r)
  BY DEF Fairness
<1>6. QED
  BY <1>1, <1>2, <1>3, <1>4, <1>5, TypeCorrect, PTL
     DEF Passes, Scheduled, FairSpec, Spec, RunFairness

\* Past the grace period the kill lands, and the wait for the child is over.
LEMMA KilledPasses == Scheduled => \A r \in Runs : Passes(r, 10)
<1> SUFFICES ASSUME NEW r \in Runs PROVE Scheduled => Passes(r, 10)
  OBVIOUS
<1> DEFINE Dying == StandsAt(r, 10) /\ child[r] = "dying"
           Gone  == StandsAt(r, 10) /\ child[r] \in Dead
<1>1. TypeOK /\ KillIsSent /\ HasReached(r, 10) => Dying \/ Gone \/ HasPassed(r, 10)
  BY StandsOrPassed, Ranks DEF KillIsSent, StandsAt
<1>2. ASSUME TypeOK, [Next]_vars, StandsAt(r, 10)
      PROVE  \/ HasPassed(r, 10)'
             \/ StandsAt(r, 10)' /\ (child'[r] = child[r] \/ child'[r] \in Dead)
  <2>1. StandsAt(r, 10)' \/ HasPassed(r, 10)'
    BY <1>2, StaysOrPasses
  <2>2. CASE Spawn(r) \/ GraceElapsed(r) \/ AnnounceTerminal(r)
    <3>1. pc[r] = "killed"
      BY <1>2, Ranks DEF StandsAt
    <3>2. QED
      BY <2>2, <3>1 DEF Spawn, GraceElapsed, AnnounceTerminal, Goto
  <2>3. QED
    BY <1>2, <2>1, <2>2, ChildMovers
<1>3. TypeOK /\ Dying /\ [Next]_vars => Dying' \/ Gone' \/ HasPassed(r, 10)'
  BY <1>2
<1>4. TypeOK /\ Gone /\ [Next]_vars => Gone' \/ HasPassed(r, 10)'
  BY <1>2
<1>5. TypeOK /\ Dying /\ <<KillLands(r)>>_vars => Gone' \/ HasPassed(r, 10)'
  <2> SUFFICES ASSUME TypeOK, Dying, <<KillLands(r)>>_vars
               PROVE  Gone' \/ HasPassed(r, 10)'
    OBVIOUS
  <2>1. child'[r] \in Dead
    BY DEF KillLands, TypeOK, Dead
  <2>2. [Next]_vars
    BY DEF Next, RunStep
  <2>3. QED
    BY <2>1, <2>2, <1>2
<1>6. TypeOK /\ Gone /\ <<TaskStep(r)>>_vars => HasPassed(r, 10)'
  BY TaskPasses
<1>7. GuardsSuffice /\ Dying => ENABLED <<KillLands(r)>>_vars
  BY DEF GuardsSuffice
<1>8. TypeOK /\ GuardsSuffice /\ Gone => ENABLED <<TaskStep(r)>>_vars
  <2> SUFFICES ASSUME TypeOK, Gone PROVE TaskIsDue(r)
    BY DEF GuardsSuffice
  <2>1. QED
    BY Ranks DEF StandsAt, TaskIsDue
<1>9. Fairness => RunFairness(r)
  BY DEF Fairness
<1> HIDE DEF Dying, Gone
<1>10. QED
  BY <1>1, <1>3, <1>4, <1>5, <1>6, <1>7, <1>8, <1>9, TypeCorrect, KilledIsGoing, PTL
     DEF Passes, Scheduled, FairSpec, Spec, RunFairness

\* Only its own send, and only its own task, take a stop out of the way to a run.
LEMMA MailMovers ==
  ASSUME TypeOK, [Next]_vars, NEW r \in Runs
  PROVE  /\ sending[r] > 0 => sending'[r] > 0 \/ TrySend(r)
         /\ mailbox[r] => mailbox'[r] \/ TaskStep(r)
<1>1. CASE UNCHANGED vars
  BY <1>1 DEF vars
<1>2. CASE CallerStep
  <2>1. UNCHANGED mailbox
    BY <1>2 DEF CallerStep, Register, Unregister, Start, Stop
  <2>2. ASSUME NEW s \in Services, Stop(s) PROVE sending[r] > 0 => sending'[r] > 0
    BY <2>2 DEF Stop, TypeOK
  <2>3. QED
    BY <1>2, <2>1, <2>2 DEF CallerStep, Register, Unregister, Start
<1>3. ASSUME NEW q \in Runs, TrySend(q) \/ ReceiveStop(q) \/ AnnounceTerminal(q)
      PROVE  /\ sending[r] > 0 => sending'[r] > 0 \/ TrySend(r)
             /\ mailbox[r] => mailbox'[r] \/ TaskStep(r)
  BY <1>3 DEF TrySend, ReceiveStop, AnnounceTerminal, TaskStep, TypeOK
<1>4. ASSUME NEW q \in Runs,
             RunStep(q), ~TrySend(q), ~ReceiveStop(q), ~AnnounceTerminal(q)
      PROVE  UNCHANGED <<sending, mailbox>>
  BY <1>4
     DEF RunStep, TaskStep, AnnounceStart, Spawn, SpawnFails, SetPid,
         RecordRunning, AliveAfterElapsed, ProbeSucceeds, ProbeDeadline,
         SetRunning, AnnounceRunning, GraceElapsed, ChildReaped, Classify,
         RemoveRecord, SetTerminal, ChildExits, KillLands
<1>5. QED
  BY <1>1, <1>2, <1>3, <1>4 DEF Next

\* The run loop takes the stop out of its channel, and a stop that is still to
\* be sent gets there.
AskedPasses(r) == asked[r] /\ HasReached(r, 8) ~> HasPassed(r, 8)

LEMMA RunningPasses == Scheduled => \A r \in Runs : AskedPasses(r)
<1> SUFFICES ASSUME NEW r \in Runs PROVE Scheduled => AskedPasses(r)
  OBVIOUS
<1> DEFINE OnItsWay == StandsAt(r, 8) /\ sending[r] > 0
           Arrived  == StandsAt(r, 8) /\ mailbox[r]
<1>1. IInv /\ asked[r] /\ HasReached(r, 8) => OnItsWay \/ Arrived \/ HasPassed(r, 8)
  <2> SUFFICES ASSUME IInv, asked[r], StandsAt(r, 8) PROVE OnItsWay \/ Arrived
    BY StandsOrPassed DEF IInv
  <2>1. pc[r] = "running"
    BY Ranks DEF StandsAt, IInv
  <2>2. QED
    BY <2>1 DEF IInv, Ties, StopNotLost, UnderWay, Ending
<1>2. TypeOK /\ OnItsWay /\ [Next]_vars
        => OnItsWay' \/ (TrySend(r) /\ StandsAt(r, 8)') \/ HasPassed(r, 8)'
  BY StaysOrPasses, MailMovers
<1>3. ASSUME TypeOK, StandsAt(r, 8), TrySend(r) PROVE mailbox'[r]
  BY <1>3, Ranks DEF StandsAt, TrySend, TypeOK
<1>4. TypeOK /\ OnItsWay /\ [Next]_vars => OnItsWay' \/ Arrived' \/ HasPassed(r, 8)'
  BY <1>2, <1>3
<1>5. TypeOK /\ OnItsWay /\ <<TrySend(r)>>_vars => Arrived' \/ HasPassed(r, 8)'
  <2> SUFFICES ASSUME TypeOK, OnItsWay, [Next]_vars, TrySend(r)
               PROVE  Arrived' \/ HasPassed(r, 8)'
    BY DEF Next, RunStep
  <2>1. QED
    BY <1>3, StaysOrPasses
<1>6. TypeOK /\ Arrived /\ [Next]_vars => Arrived' \/ HasPassed(r, 8)'
  <2> SUFFICES ASSUME TypeOK, Arrived, [Next]_vars, ~HasPassed(r, 8)' PROVE Arrived'
    OBVIOUS
  <2>1. StandsAt(r, 8)'
    BY StaysOrPasses
  <2>2. ~TaskStep(r)
    <3>1. SUFFICES ASSUME TaskStep(r) PROVE FALSE
      OBVIOUS
    <3>2. Rank(pc'[r]) > Rank(pc[r])
      BY <3>1, TaskGoesForward
    <3>3. QED
      BY <2>1, <3>2 DEF StandsAt
  <2>3. QED
    BY <2>1, <2>2, MailMovers
<1>7. TypeOK /\ Arrived /\ <<TaskStep(r)>>_vars => HasPassed(r, 8)'
  BY TaskPasses
<1>8. GuardsSuffice /\ OnItsWay => ENABLED <<TrySend(r)>>_vars
  BY DEF GuardsSuffice
<1>9. TypeOK /\ GuardsSuffice /\ Arrived => ENABLED <<TaskStep(r)>>_vars
  <2> SUFFICES ASSUME TypeOK, Arrived PROVE TaskIsDue(r)
    BY DEF GuardsSuffice
  <2>1. QED
    BY Ranks DEF StandsAt, TaskIsDue
<1>10. Fairness => RunFairness(r)
  BY DEF Fairness
<1>11. IInv => TypeOK
  BY DEF IInv
<1> HIDE DEF OnItsWay, Arrived
<1>12. QED
  BY <1>1, <1>4, <1>5, <1>6, <1>7, <1>8, <1>9, <1>10, <1>11, Inductive, PTL
     DEF AskedPasses, Scheduled, FairSpec, Spec, RunFairness

\* A run comes up, or goes down; and once past its run loop it is done.
ComesUp(r)  == HasReached(r, 1) ~> HasReached(r, 8)
WindsUp(r)  == HasReached(r, 9) ~> pc[r] = "done"

LEMMA AllComeUp == Scheduled => \A r \in Runs : ComesUp(r)
<1> SUFFICES ASSUME NEW r \in Runs PROVE Scheduled => ComesUp(r)
  OBVIOUS
<1>1. Scheduled => Passes(r, 1) /\ Passes(r, 2) /\ Passes(r, 3) /\ Passes(r, 4)
                   /\ Passes(r, 5) /\ Passes(r, 6) /\ Passes(r, 7)
  BY StraightOn
<1>2. TypeOK => /\ HasPassed(r, 1) => HasReached(r, 2)
                /\ HasPassed(r, 2) => HasReached(r, 3)
                /\ HasPassed(r, 3) => HasReached(r, 4)
                /\ HasPassed(r, 4) => HasReached(r, 5)
                /\ HasPassed(r, 5) => HasReached(r, 6)
                /\ HasPassed(r, 6) => HasReached(r, 7)
                /\ HasPassed(r, 7) => HasReached(r, 8)
  BY Ranks DEF HasPassed, HasReached
<1>3. QED
  BY <1>1, <1>2, TypeCorrect, PTL DEF Passes, ComesUp, Scheduled, FairSpec

LEMMA AllWindUp == Scheduled => \A r \in Runs : WindsUp(r)
<1> SUFFICES ASSUME NEW r \in Runs PROVE Scheduled => WindsUp(r)
  OBVIOUS
<1>1. Scheduled => Passes(r, 9) /\ Passes(r, 11) /\ Passes(r, 12) /\ Passes(r, 13)
                   /\ Passes(r, 14)
  BY StraightOn
<1>2. Scheduled => Passes(r, 10)
  BY KilledPasses
<1>3. TypeOK => /\ HasPassed(r, 9) => HasReached(r, 10)
                /\ HasPassed(r, 10) => HasReached(r, 11)
                /\ HasPassed(r, 11) => HasReached(r, 12)
                /\ HasPassed(r, 12) => HasReached(r, 13)
                /\ HasPassed(r, 13) => HasReached(r, 14)
                /\ HasPassed(r, 14) => pc[r] = "done"
  BY Ranks DEF HasPassed, HasReached
<1>4. QED
  BY <1>1, <1>2, <1>3, TypeCorrect, PTL DEF Passes, WindsUp, Scheduled, FairSpec

\* A run remembers until it is done that it was asked to stop.
LEMMA AskedUntilDone ==
  ASSUME TypeOK, [Next]_vars, NEW r \in Runs, asked[r]
  PROVE  asked'[r] \/ pc'[r] = "done"
<1>1. CASE UNCHANGED vars
  BY <1>1 DEF vars
<1>2. CASE CallerStep
  BY <1>2 DEF CallerStep, Register, Unregister, Start, Stop, TypeOK
<1>3. ASSUME NEW q \in Runs, AnnounceTerminal(q)
      PROVE  asked'[r] \/ pc'[r] = "done"
  BY <1>3 DEF AnnounceTerminal, Goto, TypeOK
<1>4. ASSUME NEW q \in Runs, RunStep(q), ~AnnounceTerminal(q)
      PROVE  UNCHANGED asked
  BY <1>4
     DEF RunStep, TaskStep, TrySend, AnnounceStart, Spawn, SpawnFails, SetPid,
         RecordRunning, AliveAfterElapsed, ProbeSucceeds, ProbeDeadline,
         SetRunning, AnnounceRunning, ReceiveStop, GraceElapsed, ChildReaped,
         Classify, RemoveRecord, SetTerminal, ChildExits, KillLands
<1>5. QED
  BY <1>1, <1>2, <1>3, <1>4 DEF Next

AskedEnds(r)   == asked[r] ~> pc[r] = "done"
StartEnds(r)   == pc[r] \in Starting ~> pc[r] \in {"running", "done"}

\* Every accepted stop ends its run, for any number of services and runs, and
\* however often it is repeated: start-up comes to the run loop, the loop finds
\* the stop in its channel, and the teardown does not depend on the child.
THEOREM AcceptedStopEnds == Scheduled => StopCompletes
<1> SUFFICES ASSUME NEW r \in Runs PROVE Scheduled => AskedEnds(r)
  BY DEF StopCompletes, AskedEnds
<1>1. Scheduled => ComesUp(r) /\ AskedPasses(r) /\ WindsUp(r)
  BY AllComeUp, RunningPasses, AllWindUp
<1>2. TypeOK => HasReached(r, 1) /\ (HasPassed(r, 8) => HasReached(r, 9))
  BY Ranks DEF HasPassed, HasReached
<1>3. TypeOK /\ asked[r] /\ [Next]_vars => (asked[r])' \/ (pc[r] = "done")'
  BY AskedUntilDone
<1>4. QED
  BY <1>1, <1>2, <1>3, TypeCorrect, PTL
     DEF ComesUp, AskedPasses, WindsUp, AskedEnds, Scheduled, FairSpec, Spec

\* No service stays in Starting: its run comes to the loop, or it is torn down
\* and done.
THEOREM StartingResolves == Scheduled => StartResolves
<1> SUFFICES ASSUME NEW r \in Runs PROVE Scheduled => StartEnds(r)
  BY DEF StartResolves, StartEnds
<1>1. Scheduled => ComesUp(r) /\ WindsUp(r)
  BY AllComeUp, AllWindUp
<1>2. TypeOK => HasReached(r, 1)
  BY Ranks DEF HasReached
<1>3. TypeOK /\ HasReached(r, 8) => pc[r] = "running" \/ HasReached(r, 9)
  BY Ranks DEF HasReached
<1>4. pc[r] \in {"running", "done"} <=> pc[r] = "running" \/ pc[r] = "done"
  OBVIOUS
<1>5. QED
  BY <1>1, <1>2, <1>3, <1>4, TypeCorrect, PTL
     DEF ComesUp, WindsUp, StartEnds, Scheduled, FairSpec, Spec
=============================================================================
