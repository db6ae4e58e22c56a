----------------------------- MODULE PackagesProofs -----------------------------
(***************************************************************************)
(* Proofs about package operations, for any versions, number of builds and *)
(* pins: the managed list is true whenever the lock is free, a current     *)
(* link names a complete version, an ended run has left no brew running,   *)
(* only an uninstall takes a version away, and one that reports Done has.  *)
(* With the fairness of the specification an operation ends.               *)
(***************************************************************************)
EXTENDS Packages, Integers, TLAPS

\* Goto moves the run and leaves the rest of it alone.
LEMMA GotoMoves ==
  ASSUME TypeOK, NEW pc \in TaskPc, Goto(pc)
  PROVE  /\ task' \in Task /\ task'.pc = pc
         /\ task'.child = task.child /\ task'.aborted = task.aborted
BY DEF TypeOK, Goto, Task

\* Step moves the command and leaves the rest of it alone.
LEMMA StepMoves ==
  ASSUME TypeOK, NEW pc \in OpPc, Step(pc)
  PROVE  /\ op' \in Op /\ op'.pc = pc
         /\ op'.verb = op.verb /\ op'.target = op.target /\ op'.found = op.found
BY DEF TypeOK, Step, Op

\* So does a step of the removal that has met a problem.
LEMMA ProblemMoves ==
  ASSUME TypeOK, NEW pc \in OpPc, op' = [op EXCEPT !.pc = pc, !.problem = TRUE]
  PROVE  /\ op' \in Op /\ op'.pc = pc
         /\ op'.verb = op.verb /\ op'.target = op.target /\ op'.found = op.found
BY DEF TypeOK, Op

\* What stands for no command, no run and no row is well formed.
LEMMA NothingIsTyped ==
  /\ NoOp \in Op /\ NoOp.pc = "idle" /\ NoOp.verb = "none"
  /\ NoTask \in Task /\ NoTask.pc = "none" /\ NoTask.child = FALSE
  /\ NoRow \in [program : Programs, up : BOOLEAN]
BY DEF NoOp, Op, OpPc, Verbs, Programs, NoTask, Task, TaskPc, NoRow

\* Begin makes a well-formed command of what it is given.
LEMMA BeginMoves ==
  ASSUME NEW verb \in Verbs, NEW pc \in OpPc, NEW target \in Programs,
         Begin(verb, pc, target)
  PROVE  op' \in Op /\ op'.pc = pc /\ op'.verb = verb /\ op'.target = target
BY DEF Begin, NoOp, Op, OpPc, Verbs, Programs

\* Discovery returns a program.
LEMMA DiscoveredIsTyped ==
  ASSUME TypeOK
  PROVE  Discovered \in Programs /\ PackagedVersion \in Versions \cup {NoVersion}
BY DEF TypeOK, Discovered, PackagedVersion, Programs

\* The run's steps.
LEMMA RunKeeps ==
  ASSUME RunsAreSound, Run
  PROVE  RunsAreSound'
<1> USE PackagesAssumption DEF RunsAreSound
<1>1. CASE Fetch
  <2>1. TypeOK'
    BY <1>1, GotoMoves
       DEF Fetch, TypeOK, disk, memory, TaskPc, Ended, Awaiting
  <2>2. RunIsOurs'
    BY <1>1, GotoMoves
       DEF Fetch, TypeOK, RunIsOurs, disk, memory, Free, Up, TaskPc, Ended, Awaiting,
           Op, Programs
  <2>3. ListIsKept'
    BY <1>1, GotoMoves
       DEF Fetch, TypeOK, RunIsOurs, ListIsKept, disk, memory, Free, Up, Discovered,
           PackagedVersion, TaskPc, Ended, Awaiting, Op, Programs
  <2>4. SelectedIsWhole' /\ EndedRunIsAlone'
    BY <1>1, GotoMoves
       DEF Fetch, TypeOK, RunIsOurs, SelectedIsWhole, EndedRunIsAlone, disk, memory,
           Free, Up, TaskPc, Ended, Awaiting, Op, Programs
  <2> QED BY <2>1, <2>2, <2>3, <2>4
<1>2. CASE Promote
  <2>1. TypeOK'
    BY <1>2, GotoMoves
       DEF Promote, RunIsOurs, TypeOK, disk, memory, TaskPc, Ended, TreeState
  <2>2. RunIsOurs'
    BY <1>2, GotoMoves
       DEF Promote, TypeOK, RunIsOurs, disk, memory, Free, Up, TaskPc, Ended, Awaiting
  <2>3. ListIsKept'
    BY <1>2, GotoMoves
       DEF Promote, TypeOK, RunIsOurs, ListIsKept, disk, memory, Free, Up, Discovered,
           PackagedVersion, TaskPc, Ended, Awaiting
  <2>4. SelectedIsWhole' /\ EndedRunIsAlone'
    BY <1>2, GotoMoves
       DEF Promote, TypeOK, RunIsOurs, SelectedIsWhole, EndedRunIsAlone, disk, memory,
           Free, Up, TaskPc, Ended, Awaiting
  <2> QED BY <2>1, <2>2, <2>3, <2>4
<1>3. CASE Link
  <2>1. TypeOK'
    BY <1>3, GotoMoves
       DEF Link, RunIsOurs, TypeOK, disk, memory, TaskPc, Ended, Awaiting
  <2>2. RunIsOurs'
    BY <1>3, GotoMoves
       DEF Link, TypeOK, RunIsOurs, disk, memory, Free, Up, TaskPc, Ended, Awaiting
  <2>3. ListIsKept'
    BY <1>3, GotoMoves
       DEF Link, TypeOK, RunIsOurs, ListIsKept, disk, memory, Free, Up, Discovered,
           PackagedVersion, TaskPc, Ended, Awaiting
  <2>4. SelectedIsWhole' /\ EndedRunIsAlone'
    BY <1>3, GotoMoves
       DEF Link, TypeOK, RunIsOurs, SelectedIsWhole, EndedRunIsAlone, disk, memory,
           Free, Up, TaskPc, Ended, Awaiting
  <2> QED BY <2>1, <2>2, <2>3, <2>4
<1>4. CASE Record
  <2>1. TypeOK'
    BY <1>4, GotoMoves
       DEF Record, RunIsOurs, TypeOK, disk, memory, TaskPc, Ended
  <2>2. RunIsOurs'
    BY <1>4, GotoMoves
       DEF Record, TypeOK, RunIsOurs, disk, memory, Free, Up, TaskPc, Ended, Awaiting
  <2>3. ListIsKept'
    BY <1>4, GotoMoves
       DEF Record, TypeOK, RunIsOurs, ListIsKept, disk, memory, Free, Up, Discovered,
           PackagedVersion, TaskPc, Ended, Awaiting
  <2>4. SelectedIsWhole' /\ EndedRunIsAlone'
    BY <1>4, GotoMoves
       DEF Record, TypeOK, RunIsOurs, SelectedIsWhole, EndedRunIsAlone, disk, memory,
           Free, Up, TaskPc, Ended, Awaiting
  <2> QED BY <2>1, <2>2, <2>3, <2>4
<1>5. CASE BrewSpawn
  <2>1. TypeOK'
    BY <1>5, GotoMoves
       DEF BrewSpawn, TypeOK, disk, memory, TaskPc, Ended, Awaiting, Task
  <2>0. \/ task'.pc = "brewing"
        \/ task'.pc = "err"
    BY GotoMoves, <1>5 DEF BrewSpawn, TypeOK, Task, TaskPc, Ended
  <2>2. RunIsOurs'
    BY <1>5, GotoMoves, <2>0
       DEF BrewSpawn, TypeOK, RunIsOurs, disk, memory, Free, Up, TaskPc, Ended,
           Awaiting, Task
  <2>3. ListIsKept'
    BY <1>5, GotoMoves, <2>0
       DEF BrewSpawn, TypeOK, RunIsOurs, ListIsKept, disk, memory, Free, Up, Discovered,
           PackagedVersion, TaskPc, Ended, Awaiting, Task
  <2>4. SelectedIsWhole' /\ EndedRunIsAlone'
    BY <1>5, GotoMoves, <2>0
       DEF BrewSpawn, TypeOK, RunIsOurs, SelectedIsWhole, EndedRunIsAlone, disk, memory,
           Free, Up, TaskPc, Ended, Awaiting, Task
  <2> QED BY <2>1, <2>2, <2>3, <2>4
<1>6. CASE Drained
  <2>1. TypeOK'
    BY <1>6, GotoMoves
       DEF Drained, TypeOK, disk, memory, TaskPc, Ended
  <2>2. RunIsOurs'
    BY <1>6, GotoMoves
       DEF Drained, TypeOK, RunIsOurs, disk, memory, Free, Up, TaskPc, Ended, Awaiting
  <2>3. ListIsKept'
    BY <1>6, GotoMoves
       DEF Drained, TypeOK, RunIsOurs, ListIsKept, disk, memory, Free, Up, Discovered,
           PackagedVersion, TaskPc, Ended, Awaiting
  <2>4. SelectedIsWhole' /\ EndedRunIsAlone'
    BY <1>6, GotoMoves
       DEF Drained, TypeOK, RunIsOurs, SelectedIsWhole, EndedRunIsAlone, disk, memory,
           Free, Up, TaskPc, Ended, Awaiting
  <2> QED BY <2>1, <2>2, <2>3, <2>4
<1>7. CASE TakeAbort
  <2>1. TypeOK'
    BY <1>7
       DEF TakeAbort, Awaiting, TypeOK, disk, memory, TaskPc, Ended, Task
  <2>2. RunIsOurs'
    BY <1>7
       DEF TakeAbort, Awaiting, TypeOK, RunIsOurs, disk, memory, Free, Up, Task, Ended
  <2>3. ListIsKept'
    BY <1>7
       DEF TakeAbort, Awaiting, TypeOK, RunIsOurs, ListIsKept, disk, memory, Free, Up,
           Discovered, PackagedVersion, Task
  <2>4. SelectedIsWhole' /\ EndedRunIsAlone'
    BY <1>7
       DEF TakeAbort, Awaiting, TypeOK, RunIsOurs, SelectedIsWhole, EndedRunIsAlone,
           disk, memory, Free, Up, Task
  <2> QED BY <2>1, <2>2, <2>3, <2>4
<1> QED BY <1>1, <1>2, <1>3, <1>4, <1>5, <1>6, <1>7 DEF Run

\* The command's steps.
LEMMA CommandKeeps ==
  ASSUME RunsAreSound, Command
  PROVE  RunsAreSound'
<1> USE PackagesAssumption DEF RunsAreSound
<1>1. CASE SetRunning
  <2>1. TypeOK'
    BY <1>1, StepMoves
       DEF SetRunning, TypeOK, disk, memory, OpPc, Op
  <2>2. RunIsOurs'
    BY <1>1, StepMoves
       DEF SetRunning, TypeOK, RunIsOurs, disk, memory, Free, Up, OpPc, Op, Ended,
           Awaiting
  <2>3. ListIsKept'
    BY <1>1, StepMoves
       DEF SetRunning, TypeOK, RunIsOurs, ListIsKept, disk, memory, Free, Up,
           Discovered, PackagedVersion, OpPc, Op
  <2>4. SelectedIsWhole'
    BY <1>1, StepMoves
       DEF SetRunning, TypeOK, RunIsOurs, SelectedIsWhole, disk,
           memory, Free, Up, OpPc, Op
  <2>5. EndedRunIsAlone'
    BY <1>1, StepMoves
       DEF SetRunning, TypeOK, RunIsOurs, EndedRunIsAlone, disk,
           memory, Free, Up, OpPc, Op
  <2> QED BY <2>1, <2>2, <2>3, <2>4, <2>5
<1>2. CASE Wake
  <2>1. TypeOK'
    BY <1>2, StepMoves, NothingIsTyped
       DEF Wake, Finish, Ended, TypeOK, disk, memory, OpPc, Verbs
  <2>2. RunIsOurs'
    BY <1>2, StepMoves, NothingIsTyped
       DEF Wake, Finish, Ended, TypeOK, RunIsOurs, disk, memory, Free, Up, OpPc, Awaiting
  <2>3. ListIsKept'
    BY <1>2, StepMoves, NothingIsTyped
       DEF Wake, Finish, Ended, TypeOK, RunIsOurs, ListIsKept, disk, memory, Free, Up,
           Discovered, PackagedVersion, OpPc
  <2>4. SelectedIsWhole'
    BY <1>2, StepMoves, NothingIsTyped
       DEF Wake, Finish, Ended, TypeOK, RunIsOurs, SelectedIsWhole, EndedRunIsAlone,
           disk, memory, Free, Up, OpPc
  <2>5. EndedRunIsAlone'
    BY <1>2, StepMoves, NothingIsTyped
       DEF Wake, Finish, Ended, TypeOK, RunIsOurs, EndedRunIsAlone,
           disk, memory, Free, Up, OpPc
  <2> QED BY <2>1, <2>2, <2>3, <2>4, <2>5
<1>3. CASE Decide
  <2>1. TypeOK'
    <3>1. [NoTask EXCEPT !.pc = "checking"] \in Task
      BY DEF NoTask, Task, TaskPc, Awaiting
    <3>2. op' \in Op /\ task' \in Task /\ slot' \in Verbs
      BY <1>3, <3>1, StepMoves, NothingIsTyped DEF Decide, Finish, TypeOK, OpPc, Verbs
    <3> QED BY <1>3, <3>2 DEF Decide, TypeOK, disk, memory
  <2>0. \/ op'.pc = "idle" /\ task'.pc = "none" /\ slot' = "none"
        \/ /\ op'.pc = "spawned" /\ op.target = Keg /\ task'.pc = "checking"
           /\ op'.target = op.target /\ op'.verb = op.verb
        \/ op'.pc = "removing" /\ task' = task /\ op'.verb = op.verb
    BY StepMoves, NothingIsTyped, <1>3
       DEF Decide, Finish, TypeOK, Task, TaskPc, Awaiting, NoTask, OpPc
  <2>2. RunIsOurs'
    BY <1>3, StepMoves, NothingIsTyped, <2>0
       DEF Decide, Finish, TypeOK, RunIsOurs, disk, memory, Free, Up, OpPc, Task,
           NoTask, Ended, Awaiting
  <2>3. ListIsKept'
    BY <1>3, StepMoves, NothingIsTyped, <2>0
       DEF Decide, Finish, TypeOK, RunIsOurs, ListIsKept, disk, memory, Free, Up,
           Discovered, PackagedVersion, OpPc, Task, NoTask
  <2>4. SelectedIsWhole'
    BY <1>3, StepMoves, NothingIsTyped, <2>0
       DEF Decide, Finish, TypeOK, RunIsOurs, SelectedIsWhole, disk,
           memory, Free, Up, OpPc, Task, NoTask
  <2>5. EndedRunIsAlone'
    BY <1>3, StepMoves, NothingIsTyped, <2>0
       DEF Decide, Finish, TypeOK, RunIsOurs, EndedRunIsAlone, disk,
           memory, Free, Up, OpPc, Task, NoTask
  <2> QED BY <2>1, <2>2, <2>3, <2>4, <2>5
<1>4. CASE RemoveSome
  <2>1. TypeOK'
    BY <1>4
       DEF RemoveSome, Victims, TypeOK, disk, memory, TreeState
  <2>2. RunIsOurs'
    BY <1>4
       DEF RemoveSome, Victims, TypeOK, RunIsOurs, disk, memory, Free, Up, Ended,
           Awaiting
  <2>3. ListIsKept'
    BY <1>4
       DEF RemoveSome, Victims, TypeOK, RunIsOurs, ListIsKept, disk, memory, Free, Up,
           Discovered, PackagedVersion
  <2>4. SelectedIsWhole'
    BY <1>4
       DEF RemoveSome, Victims, TypeOK, RunIsOurs, SelectedIsWhole, EndedRunIsAlone,
           disk, memory, Free, Up
  <2>5. EndedRunIsAlone'
    BY <1>4
       DEF RemoveSome, Victims, TypeOK, RunIsOurs, EndedRunIsAlone,
           disk, memory, Free, Up
  <2> QED BY <2>1, <2>2, <2>3, <2>4, <2>5
<1>5. CASE Removed
  <2>0. /\ op' \in Op /\ op'.pc = "unlinking"
        /\ op'.verb = op.verb /\ op'.target = op.target /\ op'.found = op.found
    BY <1>5, StepMoves, ProblemMoves DEF Removed, OpPc
  <2>1. TypeOK'
    BY <1>5, <2>0
       DEF Removed, TypeOK, disk, memory
  <2>2. RunIsOurs'
    BY <1>5, <2>0
       DEF Removed, TypeOK, RunIsOurs, disk, memory, Free, Up, Ended, Awaiting
  <2>3. ListIsKept'
    BY <1>5, <2>0
       DEF Removed, TypeOK, RunIsOurs, ListIsKept, disk, memory, Free, Up, Discovered,
           PackagedVersion
  <2>4. SelectedIsWhole'
    BY <1>5, <2>0
       DEF Removed, TypeOK, RunIsOurs, SelectedIsWhole, disk, memory,
           Free, Up
  <2>5. EndedRunIsAlone'
    BY <1>5, <2>0
       DEF Removed, TypeOK, RunIsOurs, EndedRunIsAlone, disk, memory,
           Free, Up
  <2> QED BY <2>1, <2>2, <2>3, <2>4, <2>5
<1>6. CASE Unlink
  <2>0. /\ op' \in Op /\ op'.pc = "tidying"
        /\ op'.verb = op.verb /\ op'.target = op.target /\ op'.found = op.found
    BY <1>6, StepMoves, ProblemMoves DEF Unlink, OpPc
  <2>1. TypeOK'
    BY <1>6, <2>0
       DEF Unlink, TypeOK, disk, memory
  <2>2. RunIsOurs'
    BY <1>6, <2>0
       DEF Unlink, TypeOK, RunIsOurs, disk, memory, Free, Up, Ended, Awaiting
  <2>3. ListIsKept'
    BY <1>6, <2>0
       DEF Unlink, TypeOK, RunIsOurs, ListIsKept, disk, memory, Free, Up, Discovered,
           PackagedVersion
  <2>4. SelectedIsWhole'
    BY <1>6, <2>0
       DEF Unlink, TypeOK, RunIsOurs, SelectedIsWhole, disk, memory,
           Free, Up
  <2>5. EndedRunIsAlone'
    BY <1>6, <2>0
       DEF Unlink, TypeOK, RunIsOurs, EndedRunIsAlone, disk, memory,
           Free, Up
  <2> QED BY <2>1, <2>2, <2>3, <2>4, <2>5
<1>7. CASE Tidy
  <2>0. /\ op' \in Op /\ op'.pc = "forgetting"
        /\ op'.verb = op.verb /\ op'.target = op.target /\ op'.found = op.found
    BY <1>7, StepMoves, ProblemMoves DEF Tidy, OpPc
  <2>1. TypeOK'
    BY <1>7, <2>0
       DEF Tidy, TypeOK, disk, memory
  <2>2. RunIsOurs'
    BY <1>7, <2>0
       DEF Tidy, TypeOK, RunIsOurs, disk, memory, Free, Up, Ended, Awaiting
  <2>3. ListIsKept'
    BY <1>7, <2>0
       DEF Tidy, TypeOK, RunIsOurs, ListIsKept, disk, memory, Free, Up, Discovered,
           PackagedVersion
  <2>4. SelectedIsWhole'
    BY <1>7, <2>0
       DEF Tidy, TypeOK, RunIsOurs, SelectedIsWhole, disk, memory,
           Free, Up
  <2>5. EndedRunIsAlone'
    BY <1>7, <2>0
       DEF Tidy, TypeOK, RunIsOurs, EndedRunIsAlone, disk, memory,
           Free, Up
  <2> QED BY <2>1, <2>2, <2>3, <2>4, <2>5
<1>8. CASE Forget
  <2>0. /\ op' \in Op /\ op'.pc = "probing"
        /\ op'.verb = op.verb /\ op'.target = op.target /\ op'.found = op.found
    BY <1>8, StepMoves, ProblemMoves DEF Forget, OpPc
  <2>1. TypeOK'
    BY <1>8, <2>0, NothingIsTyped DEF Forget, TypeOK, disk
  <2>2. RunIsOurs'
    BY <1>8, <2>0, NothingIsTyped
       DEF Forget, TypeOK, RunIsOurs, disk, memory, Free, Up, Ended, Awaiting
  <2>3. ListIsKept'
    BY <1>8, <2>0, NothingIsTyped
       DEF Forget, TypeOK, RunIsOurs, ListIsKept, disk, memory, Free, Up, Discovered,
           PackagedVersion
  <2>4. SelectedIsWhole'
    BY <1>8, <2>0, NothingIsTyped
       DEF Forget, TypeOK, RunIsOurs, SelectedIsWhole, disk, memory,
           Free, Up
  <2>5. EndedRunIsAlone'
    BY <1>8, <2>0, NothingIsTyped
       DEF Forget, TypeOK, RunIsOurs, EndedRunIsAlone, disk, memory,
           Free, Up
  <2> QED BY <2>1, <2>2, <2>3, <2>4, <2>5
<1>9. CASE Probe
  <2>1. TypeOK'
    BY <1>9, DiscoveredIsTyped
       DEF Probe, TypeOK, disk, memory, OpPc, Op
  <2>2. RunIsOurs'
    BY <1>9, DiscoveredIsTyped
       DEF Probe, TypeOK, RunIsOurs, disk, memory, Free, Up, Op, Ended, Awaiting
  <2>3. ListIsKept'
    BY <1>9, DiscoveredIsTyped
       DEF Probe, TypeOK, RunIsOurs, ListIsKept, disk, memory, Free, Up, Discovered,
           PackagedVersion, Op
  <2>4. SelectedIsWhole'
    BY <1>9, DiscoveredIsTyped
       DEF Probe, TypeOK, RunIsOurs, SelectedIsWhole, disk, memory,
           Free, Up, Op
  <2>5. EndedRunIsAlone'
    BY <1>9, DiscoveredIsTyped
       DEF Probe, TypeOK, RunIsOurs, EndedRunIsAlone, disk, memory,
           Free, Up, Op
  <2> QED BY <2>1, <2>2, <2>3, <2>4, <2>5
<1>10. CASE Merge
  <2>1. TypeOK'
    BY <1>10
       DEF Merge, TypeOK, disk, memory, OpPc, Op
  <2>2. RunIsOurs'
    BY <1>10
       DEF Merge, TypeOK, RunIsOurs, disk, memory, Free, Up, Op, Ended, Awaiting
  <2>3. ListIsKept'
    BY <1>10
       DEF Merge, TypeOK, RunIsOurs, ListIsKept, disk, memory, Free, Up, Discovered,
           PackagedVersion, Op
  <2>4. SelectedIsWhole'
    BY <1>10
       DEF Merge, TypeOK, RunIsOurs, SelectedIsWhole, disk, memory,
           Free, Up, Op
  <2>5. EndedRunIsAlone'
    BY <1>10
       DEF Merge, TypeOK, RunIsOurs, EndedRunIsAlone, disk, memory,
           Free, Up, Op
  <2> QED BY <2>1, <2>2, <2>3, <2>4, <2>5
<1>11. CASE Register
  <2>1. TypeOK'
    BY <1>11, NothingIsTyped
       DEF Register, Finish, RowAfter, TypeOK, disk, memory, Verbs, Op, NoRow
  <2>2. RunIsOurs'
    BY <1>11, NothingIsTyped
       DEF Register, Finish, RowAfter, TypeOK, RunIsOurs, disk, memory, Free, Up, Ended,
           Awaiting
  <2>3. ListIsKept'
    BY <1>11, NothingIsTyped
       DEF Register, Finish, RowAfter, TypeOK, RunIsOurs, ListIsKept, disk, memory,
           Free, Up, Discovered, PackagedVersion
  <2>4. SelectedIsWhole'
    BY <1>11, NothingIsTyped
       DEF Register, Finish, RowAfter, TypeOK, RunIsOurs, SelectedIsWhole,
           disk, memory, Free, Up
  <2>5. EndedRunIsAlone'
    BY <1>11, NothingIsTyped
       DEF Register, Finish, RowAfter, TypeOK, RunIsOurs, SelectedIsWhole,
           EndedRunIsAlone, disk, memory, Free, Up
  <2> QED BY <2>1, <2>2, <2>3, <2>4, <2>5
<1> QED BY <1>1, <1>2, <1>3, <1>4, <1>5, <1>6, <1>7, <1>8, <1>9, <1>10, <1>11 DEF Command

\* Brew, the user, the quit and the crash.
LEMMA OthersKeep ==
  ASSUME RunsAreSound, \/ BrewActs \/ BrewExits \/ StartInstall \/ StartUninstall \/ StartRescan
         \/ Cancel \/ StartService \/ StopService \/ UserBrew \/ QuitAborts
         \/ QuitAborted \/ Exit \/ Crash \/ Launch
  PROVE  RunsAreSound'
<1> USE PackagesAssumption DEF RunsAreSound
<1>1. CASE BrewActs
  <2>1. TypeOK'
    BY <1>1
       DEF BrewActs, TypeOK, disk, memory
  <2>2. RunIsOurs'
    BY <1>1
       DEF BrewActs, TypeOK, RunIsOurs, disk, memory, Free, Up, Ended, Awaiting
  <2>3. ListIsKept'
    BY <1>1
       DEF BrewActs, TypeOK, RunIsOurs, ListIsKept, disk, memory, Free, Up, Discovered,
           PackagedVersion
  <2>4. SelectedIsWhole' /\ EndedRunIsAlone'
    BY <1>1
       DEF BrewActs, TypeOK, RunIsOurs, SelectedIsWhole, EndedRunIsAlone, disk, memory,
           Free, Up
  <2> QED BY <2>1, <2>2, <2>3, <2>4
<1>2. CASE BrewExits
  <2>1. TypeOK'
    BY <1>2
       DEF BrewExits, TypeOK, disk, memory, Task, TaskPc, Awaiting
  <2>2. RunIsOurs'
    BY <1>2
       DEF BrewExits, TypeOK, RunIsOurs, disk, memory, Free, Up, Task, Ended, Awaiting
  <2>3. ListIsKept'
    BY <1>2
       DEF BrewExits, TypeOK, RunIsOurs, ListIsKept, disk, memory, Free, Up, Discovered,
           PackagedVersion, Task
  <2>4. SelectedIsWhole' /\ EndedRunIsAlone'
    BY <1>2
       DEF BrewExits, TypeOK, RunIsOurs, SelectedIsWhole, EndedRunIsAlone, disk, memory,
           Free, Up, Task
  <2> QED BY <2>1, <2>2, <2>3, <2>4
<1>3. CASE StartInstall
  <2>a. Pinned[family][build] \in Versions \cup {NoVersion}
    BY PackagesAssumption DEF TypeOK
  <2>b. op' \in Op
    BY <2>a, <1>3, BeginMoves DEF StartInstall, PackageRoute, Programs, Verbs, OpPc
  <2>c. task' \in Task
    BY <1>3, NothingIsTyped DEF StartInstall, Task, TaskPc, Awaiting
  <2>1. TypeOK'
    BY <1>3, <2>b, <2>c DEF StartInstall, TypeOK, disk, memory
  <2>2. RunIsOurs'
    BY <1>3, NothingIsTyped, BeginMoves
       DEF StartInstall, PackageRoute, TypeOK, RunIsOurs, disk, memory, Free, Up, Task,
           OpPc, Verbs, Programs, Families, Ended, Awaiting
  <2>3. ListIsKept'
    BY <1>3, NothingIsTyped, BeginMoves
       DEF StartInstall, PackageRoute, TypeOK, RunIsOurs, ListIsKept, disk, memory,
           Free, Up, Discovered, PackagedVersion, Task, OpPc, Verbs, Programs, Families
  <2>4. SelectedIsWhole' /\ EndedRunIsAlone'
    BY <1>3, NothingIsTyped, BeginMoves
       DEF StartInstall, PackageRoute, TypeOK, RunIsOurs, SelectedIsWhole,
           EndedRunIsAlone, disk, memory, Free, Up, Task, OpPc, Verbs, Programs, Families
  <2> QED BY <2>1, <2>2, <2>3, <2>4
<1>4. CASE StartUninstall
  <2>1. TypeOK'
    BY <1>4, BeginMoves, DiscoveredIsTyped
       DEF StartUninstall, Target, TypeOK, disk, memory, OpPc, Verbs, Programs
  <2>2. RunIsOurs'
    BY <1>4, BeginMoves, DiscoveredIsTyped
       DEF StartUninstall, Target, TypeOK, RunIsOurs, disk, memory, Free, Up, OpPc,
           Verbs, Programs, Families, Ended, Awaiting
  <2>3. ListIsKept'
    BY <1>4, BeginMoves, DiscoveredIsTyped
       DEF StartUninstall, Target, TypeOK, RunIsOurs, ListIsKept, disk, memory, Free,
           Up, Discovered, PackagedVersion, OpPc, Verbs, Programs, Families
  <2>4. SelectedIsWhole' /\ EndedRunIsAlone'
    BY <1>4, BeginMoves, DiscoveredIsTyped
       DEF StartUninstall, Target, TypeOK, RunIsOurs, SelectedIsWhole, EndedRunIsAlone,
           disk, memory, Free, Up, OpPc, Verbs, Programs, Families
  <2> QED BY <2>1, <2>2, <2>3, <2>4
<1>5. CASE StartRescan
  <2>1. TypeOK'
    BY <1>5, BeginMoves
       DEF StartRescan, TypeOK, disk, memory, OpPc, Verbs, Programs
  <2>2. RunIsOurs'
    BY <1>5, BeginMoves
       DEF StartRescan, TypeOK, RunIsOurs, disk, memory, Free, Up, OpPc, Verbs,
           Programs, Families, Ended, Awaiting
  <2>3. ListIsKept'
    BY <1>5, BeginMoves
       DEF StartRescan, TypeOK, RunIsOurs, ListIsKept, disk, memory, Free, Up,
           Discovered, PackagedVersion, OpPc, Verbs, Programs, Families
  <2>4. SelectedIsWhole' /\ EndedRunIsAlone'
    BY <1>5, BeginMoves
       DEF StartRescan, TypeOK, RunIsOurs, SelectedIsWhole, EndedRunIsAlone, disk,
           memory, Free, Up, OpPc, Verbs, Programs, Families
  <2> QED BY <2>1, <2>2, <2>3, <2>4
<1>6. CASE Cancel
  <2>1. TypeOK'
    BY <1>6
       DEF Cancel, TypeOK, disk, memory, Task
  <2>2. RunIsOurs'
    BY <1>6
       DEF Cancel, TypeOK, RunIsOurs, disk, memory, Free, Up, Task, Ended, Awaiting
  <2>3. ListIsKept'
    BY <1>6
       DEF Cancel, TypeOK, RunIsOurs, ListIsKept, disk, memory, Free, Up, Discovered,
           PackagedVersion, Task
  <2>4. SelectedIsWhole' /\ EndedRunIsAlone'
    BY <1>6
       DEF Cancel, TypeOK, RunIsOurs, SelectedIsWhole, EndedRunIsAlone, disk, memory,
           Free, Up, Task
  <2> QED BY <2>1, <2>2, <2>3, <2>4
<1>7. CASE StartService
  <2>1. TypeOK'
    BY <1>7
       DEF StartService, TypeOK, disk, memory
  <2>2. RunIsOurs'
    BY <1>7
       DEF StartService, TypeOK, RunIsOurs, disk, memory, Free, Up, Ended, Awaiting
  <2>3. ListIsKept'
    BY <1>7
       DEF StartService, TypeOK, RunIsOurs, ListIsKept, disk, memory, Free, Up,
           Discovered, PackagedVersion
  <2>4. SelectedIsWhole' /\ EndedRunIsAlone'
    BY <1>7
       DEF StartService, TypeOK, RunIsOurs, SelectedIsWhole, EndedRunIsAlone, disk,
           memory, Free, Up
  <2> QED BY <2>1, <2>2, <2>3, <2>4
<1>8. CASE StopService
  <2>1. TypeOK'
    BY <1>8
       DEF StopService, TypeOK, disk, memory
  <2>2. RunIsOurs'
    BY <1>8
       DEF StopService, TypeOK, RunIsOurs, disk, memory, Free, Up, Ended, Awaiting
  <2>3. ListIsKept'
    BY <1>8
       DEF StopService, TypeOK, RunIsOurs, ListIsKept, disk, memory, Free, Up,
           Discovered, PackagedVersion
  <2>4. SelectedIsWhole' /\ EndedRunIsAlone'
    BY <1>8
       DEF StopService, TypeOK, RunIsOurs, SelectedIsWhole, EndedRunIsAlone, disk,
           memory, Free, Up
  <2> QED BY <2>1, <2>2, <2>3, <2>4
<1>9. CASE UserBrew
  <2>1. TypeOK'
    BY <1>9
       DEF UserBrew, TypeOK, disk, memory
  <2>2. RunIsOurs'
    BY <1>9
       DEF UserBrew, TypeOK, RunIsOurs, disk, memory, Free, Up, Ended, Awaiting
  <2>3. ListIsKept'
    BY <1>9
       DEF UserBrew, TypeOK, RunIsOurs, ListIsKept, disk, memory, Free, Up, Discovered,
           PackagedVersion
  <2>4. SelectedIsWhole' /\ EndedRunIsAlone'
    BY <1>9
       DEF UserBrew, TypeOK, RunIsOurs, SelectedIsWhole, EndedRunIsAlone, disk, memory,
           Free, Up
  <2> QED BY <2>1, <2>2, <2>3, <2>4
<1>10. CASE QuitAborts
  <2>1. TypeOK'
    BY <1>10
       DEF QuitAborts, TypeOK, disk, memory, Task
  <2>2. RunIsOurs'
    BY <1>10
       DEF QuitAborts, TypeOK, RunIsOurs, disk, memory, Free, Up, Task, Ended, Awaiting
  <2>3. ListIsKept'
    BY <1>10
       DEF QuitAborts, TypeOK, RunIsOurs, ListIsKept, disk, memory, Free, Up,
           Discovered, PackagedVersion, Task
  <2>4. SelectedIsWhole' /\ EndedRunIsAlone'
    BY <1>10
       DEF QuitAborts, TypeOK, RunIsOurs, SelectedIsWhole, EndedRunIsAlone, disk,
           memory, Free, Up, Task
  <2> QED BY <2>1, <2>2, <2>3, <2>4
<1>11. CASE QuitAborted
  <2>1. TypeOK'
    BY <1>11
       DEF QuitAborted, TypeOK, disk, memory
  <2>2. RunIsOurs'
    BY <1>11
       DEF QuitAborted, TypeOK, RunIsOurs, disk, memory, Free, Up, Ended, Awaiting
  <2>3. ListIsKept'
    BY <1>11
       DEF QuitAborted, TypeOK, RunIsOurs, ListIsKept, disk, memory, Free, Up,
           Discovered, PackagedVersion
  <2>4. SelectedIsWhole' /\ EndedRunIsAlone'
    BY <1>11
       DEF QuitAborted, TypeOK, RunIsOurs, SelectedIsWhole, EndedRunIsAlone, disk,
           memory, Free, Up
  <2> QED BY <2>1, <2>2, <2>3, <2>4
<1>12. CASE Exit
  <2>1. TypeOK'
    BY <1>12, NothingIsTyped
       DEF Exit, Dead, TypeOK, disk, memory, Verbs, Programs
  <2>2. RunIsOurs'
    BY <1>12, NothingIsTyped
       DEF Exit, Dead, TypeOK, RunIsOurs, disk, memory, Free, Up, Ended, Awaiting
  <2>3. ListIsKept'
    BY <1>12, NothingIsTyped
       DEF Exit, Dead, TypeOK, RunIsOurs, ListIsKept, disk, memory, Free, Up,
           Discovered, PackagedVersion
  <2>4. SelectedIsWhole' /\ EndedRunIsAlone'
    BY <1>12, NothingIsTyped
       DEF Exit, Dead, TypeOK, RunIsOurs, SelectedIsWhole, EndedRunIsAlone, disk,
           memory, Free, Up
  <2> QED BY <2>1, <2>2, <2>3, <2>4
<1>13. CASE Crash
  <2>1. TypeOK'
    BY <1>13, NothingIsTyped
       DEF Crash, Dead, TypeOK, disk, memory, Verbs, Programs
  <2>2. RunIsOurs'
    BY <1>13, NothingIsTyped
       DEF Crash, Dead, TypeOK, RunIsOurs, disk, memory, Free, Up, Ended, Awaiting
  <2>3. ListIsKept'
    BY <1>13, NothingIsTyped
       DEF Crash, Dead, TypeOK, RunIsOurs, ListIsKept, disk, memory, Free, Up,
           Discovered, PackagedVersion
  <2>4. SelectedIsWhole' /\ EndedRunIsAlone'
    BY <1>13, NothingIsTyped
       DEF Crash, Dead, TypeOK, RunIsOurs, SelectedIsWhole, EndedRunIsAlone, disk,
           memory, Free, Up
  <2> QED BY <2>1, <2>2, <2>3, <2>4
<1>14. CASE Launch
  <2>a. build' \in 1..LastBuild
    BY <1>14, PackagesAssumption DEF Launch, TypeOK
  <2>b. row' \in [program : Programs, up : BOOLEAN]
    BY <1>14, NothingIsTyped, DiscoveredIsTyped DEF Launch
  <2>c. past' \in [excused : BOOLEAN, maimed : BOOLEAN]
    BY <1>14 DEF Launch, TypeOK
  <2>1. TypeOK'
    BY <1>14, <2>a, <2>b, <2>c, DiscoveredIsTyped DEF Launch, TypeOK, disk
  <2>2. RunIsOurs'
    BY <1>14, NothingIsTyped, DiscoveredIsTyped
       DEF Launch, TypeOK, RunIsOurs, disk, memory, Free, Up, Ended, Awaiting
  <2>3. ListIsKept'
    BY <1>14, NothingIsTyped, DiscoveredIsTyped
       DEF Launch, TypeOK, RunIsOurs, ListIsKept, disk, memory, Free, Up, Discovered,
           PackagedVersion
  <2>4. SelectedIsWhole' /\ EndedRunIsAlone'
    BY <1>14, NothingIsTyped, DiscoveredIsTyped
       DEF Launch, TypeOK, RunIsOurs, SelectedIsWhole, EndedRunIsAlone, disk, memory,
           Free, Up
  <2> QED BY <2>1, <2>2, <2>3, <2>4
<1> QED BY <1>1, <1>2, <1>3, <1>4, <1>5, <1>6, <1>7, <1>8, <1>9, <1>10, <1>11, <1>12, <1>13, <1>14

\* Every step keeps the part of the invariant that is about runs and the list.
LEMMA RunsStaySound ==
  ASSUME RunsAreSound, [Next]_vars
  PROVE  RunsAreSound'
<1>1. CASE UNCHANGED vars
  BY <1>1 DEF vars, disk, memory, RunsAreSound, TypeOK, RunIsOurs, ListIsKept, SelectedIsWhole,
              EndedRunIsAlone, Up, Free, Discovered, PackagedVersion, PackageRoute
<1> QED BY <1>1, RunKeeps, CommandKeeps, OthersKeep DEF Next

\* It holds when the app has just discovered what there is.
LEMMA InitHolds == Init => RunsAreSound
<1> SUFFICES ASSUME Init PROVE RunsAreSound
  OBVIOUS
<1>1. TypeOK
  BY PackagesAssumption, NothingIsTyped
     DEF Init, TypeOK, Discovered, PackagedVersion, Programs, TreeState, Verbs, Families
<1>2. op.pc = "idle" /\ task.pc = "none" /\ ~task.child
  BY NothingIsTyped DEF Init
<1>3. RunIsOurs /\ EndedRunIsAlone
  BY <1>2 DEF Init, RunIsOurs, EndedRunIsAlone, Up, Free, Ended
<1>4. ListIsKept /\ SelectedIsWhole
  BY <1>2 DEF Init, ListIsKept, SelectedIsWhole, Up, Free
<1> QED BY <1>1, <1>3, <1>4 DEF RunsAreSound

-----------------------------------------------------------------------------

\* Steps that touch neither the command, the trees nor the link, and leave the
\* row alone or change it only if it has a program, keep what a removal has done.
LEMMA RemovalUntouched ==
  ASSUME RemovalIsTrue, UNCHANGED <<family, op, tree, cur>>, row = NoRow => row' = NoRow
  PROVE  RemovalIsTrue'
BY DEF RemovalIsTrue, Victims

\* A command that is no removal of our own tree has nothing to keep.
LEMMA NoRemoval ==
  ASSUME op'.verb # "uninstall" \/ op'.target = Keg
  PROVE  RemovalIsTrue'
BY DEF RemovalIsTrue

\* Every step keeps what a removal has done.
LEMMA RemovalKeeps ==
  ASSUME IInv, [Next]_vars
  PROVE  RemovalIsTrue'
<1> USE PackagesAssumption
<1>0. TypeOK /\ RunIsOurs /\ RemovalIsTrue
  BY DEF IInv, RunsAreSound
<1>1. ASSUME Run PROVE RemovalIsTrue'
  <2>1. CASE Promote \/ Link
    <3>1. op.verb = "install" /\ op' = op
      BY <1>0, <2>1 DEF Promote, Link, RunIsOurs, TypeOK, Ended
    <3> QED BY <3>1, NoRemoval
  <2>2. CASE Fetch \/ Record \/ BrewSpawn \/ Drained \/ TakeAbort
    BY <1>0, <2>2, RemovalUntouched
       DEF Fetch, Record, BrewSpawn, Drained, TakeAbort, disk, memory
  <2> QED BY <1>1, <2>1, <2>2 DEF Run
<1>2. ASSUME SetRunning \/ Wake PROVE RemovalIsTrue'
  <2>1. op.pc \in {"spawned", "waiting"} /\ (op.verb = "install" \/ op.target = Keg)
    BY <1>0, <1>2 DEF SetRunning, Wake, RunIsOurs
  <2>2. (op'.verb = op.verb /\ op'.target = op.target) \/ op' = NoOp
    BY <1>0, <1>2, StepMoves DEF SetRunning, Wake, Finish, OpPc
  <2> QED BY <2>1, <2>2, NoRemoval DEF NoOp
<1>3. ASSUME Decide PROVE RemovalIsTrue'
  <2>1. CASE op' = NoOp
    BY <2>1, NoRemoval DEF NoOp
  <2>2. CASE Step("removing")
    BY <1>0, <1>3, <2>2, StepMoves
       DEF Decide, RemovalIsTrue, Victims, disk, memory, OpPc
  <2>3. CASE op.target = Keg /\ Step("spawned")
    <3>1. op'.target = Keg
      BY <1>0, <2>3, StepMoves DEF OpPc
    <3> QED BY <3>1, NoRemoval
  <2> QED BY <1>3, <2>1, <2>2, <2>3 DEF Decide, Finish
<1>4. ASSUME RemoveSome PROVE RemovalIsTrue'
  BY <1>0, <1>4 DEF RemoveSome, RemovalIsTrue, Victims, memory
<1>5. ASSUME Removed PROVE RemovalIsTrue'
  <2>1. CASE Step("unlinking")
    BY <1>0, <1>5, <2>1, StepMoves
       DEF Removed, RemovalIsTrue, Victims, disk, memory, OpPc, Step, TypeOK, Op
  <2>2. CASE op' = [op EXCEPT !.pc = "unlinking", !.problem = TRUE]
    <3>1. op'.verb = op.verb /\ op'.target = op.target /\ op'.problem
      BY <1>0, <2>2 DEF TypeOK, Op
    <3>2. UNCHANGED <<family, cur>>
      BY <1>5 DEF Removed, disk
    <3> QED BY <1>0, <3>1, <3>2 DEF RemovalIsTrue
  <2> QED BY <1>5, <2>1, <2>2 DEF Removed
<1>6. ASSUME Unlink PROVE RemovalIsTrue'
  <2>1. op'.verb = op.verb /\ op'.target = op.target /\ op'.pc = "tidying"
        /\ (~op'.problem => ~op.problem)
    BY <1>0, <1>6 DEF Unlink, Step, TypeOK, Op
  <2>2. UNCHANGED <<family, tree>> /\ cur' \in {cur, NoVersion} /\ op.pc = "unlinking"
    BY <1>6 DEF Unlink
  <2>3. ASSUME op.verb = "uninstall", op.target # Keg, ~op'.problem PROVE cur' = NoVersion
    <3>1. cur # NoVersion => tree[cur] = "absent"
      BY <1>0, <2>1, <2>2, <2>3 DEF RemovalIsTrue, Victims
    <3>2. ~(op' = [op EXCEPT !.pc = "tidying", !.problem = TRUE])
      BY <1>0, <2>3 DEF TypeOK, Op
    <3> QED BY <1>6, <2>1, <3>1, <3>2 DEF Unlink
  <2> QED BY <1>0, <2>1, <2>2, <2>3 DEF RemovalIsTrue, Victims
<1>7. ASSUME Tidy PROVE RemovalIsTrue'
  <2>1. op'.verb = op.verb /\ op'.target = op.target /\ op'.pc = "forgetting"
        /\ (~op'.problem => ~op.problem) /\ op.pc = "tidying"
    BY <1>0, <1>7 DEF Tidy, Step, TypeOK, Op
  <2> QED BY <1>0, <1>7, <2>1 DEF Tidy, RemovalIsTrue, Victims, disk, memory
<1>8. ASSUME Forget PROVE RemovalIsTrue'
  <2>1. op'.verb = op.verb /\ op'.target = op.target /\ op'.pc = "probing"
        /\ (~op'.problem => ~op.problem /\ row' = NoRow) /\ op.pc = "forgetting"
    BY <1>0, <1>8 DEF Forget, Step, TypeOK, Op
  <2> QED BY <1>0, <1>8, <2>1 DEF Forget, RemovalIsTrue, Victims, disk
<1>9. ASSUME Probe PROVE RemovalIsTrue'
  <2>1. op'.verb = op.verb /\ op'.target = op.target /\ op'.pc = "merging"
        /\ op'.problem = op.problem /\ op'.found = Discovered /\ op.pc = "probing"
    BY <1>0, <1>9, DiscoveredIsTyped DEF Probe, TypeOK, Op
  <2>2. cur = NoVersion => Discovered \notin Versions
    BY DEF Discovered, PackagedVersion
  <2> QED BY <1>0, <1>9, <2>1, <2>2 DEF Probe, RemovalIsTrue, Victims, disk, memory
<1>10. ASSUME Merge PROVE RemovalIsTrue'
  <2>1. op'.verb = op.verb /\ op'.target = op.target /\ op'.pc = "registering"
        /\ op'.problem = op.problem /\ op'.found = op.found /\ op.pc = "merging"
    BY <1>0, <1>10 DEF Merge, TypeOK, Op
  <2> QED BY <1>0, <1>10, <2>1 DEF Merge, RemovalIsTrue, Victims, disk
<1>11. ASSUME Register PROVE RemovalIsTrue'
  BY <1>11, NoRemoval DEF Register, Finish, NoOp
<1>12. ASSUME StartInstall \/ StartRescan PROVE RemovalIsTrue'
  <2>1. op'.verb \in {"install", "rescan"}
    BY <1>12 DEF StartInstall, StartRescan, Begin, NoOp
  <2> QED BY <2>1, NoRemoval
<1>13. ASSUME StartUninstall PROVE RemovalIsTrue'
  <2>1. op'.pc = "deciding" /\ op'.target = Target /\ UNCHANGED <<family, cur>>
    BY <1>13 DEF StartUninstall, Begin, NoOp, disk
  <2>2. Target # Keg => /\ Target = NoVersion <=> family = "mariadb"
                        /\ Target # NoVersion => cur = Target
    BY DEF Target, PackagedVersion
  <2> QED BY <2>1, <2>2 DEF RemovalIsTrue
<1>14. ASSUME Exit \/ Crash PROVE RemovalIsTrue'
  BY <1>14, NoRemoval DEF Exit, Crash, Dead, NoOp
<1>15. ASSUME Launch PROVE RemovalIsTrue'
  BY <1>0, <1>15 DEF Launch, RunIsOurs, Free, RemovalIsTrue, Victims, disk
<1>16. ASSUME StartService \/ StopService PROVE RemovalIsTrue'
  <2>1. row = NoRow => FALSE
    BY <1>16 DEF StartService, StopService, Exists, NoRow
  <2> QED BY <1>0, <1>16, <2>1, RemovalUntouched DEF StartService, StopService, disk
<1>17. ASSUME BrewActs \/ BrewExits \/ Cancel \/ UserBrew \/ QuitAborts \/ QuitAborted
       PROVE  RemovalIsTrue'
  BY <1>0, <1>17, RemovalUntouched
     DEF BrewActs, BrewExits, Cancel, UserBrew, QuitAborts, QuitAborted, disk, memory
<1>18. ASSUME UNCHANGED vars PROVE RemovalIsTrue'
  BY <1>0, <1>18, RemovalUntouched DEF vars, disk, memory
<1> QED
  BY <1>1, <1>2, <1>3, <1>4, <1>5, <1>6, <1>7, <1>8, <1>9, <1>10, <1>11, <1>12,
     <1>13, <1>14, <1>15, <1>16, <1>17, <1>18 DEF Next, Command

-----------------------------------------------------------------------------

\* The invariant of the package operations holds: the run belongs to its
\* command, the list is kept, the selected version is whole (commands.rs,
\* openvhost-pkg/src/install.rs).
THEOREM PackagesInvariant == Spec => []IInv
<1>1. Init => IInv
  BY InitHolds DEF Init, NoOp, IInv, RemovalIsTrue
<1>2. IInv /\ [Next]_vars => IInv'
  BY RunsStaySound, RemovalKeeps DEF IInv
<1> QED BY <1>1, <1>2, PTL DEF Spec

\* Whenever the install lock is free the managed list is what discovery would
\* read from the disk (commands.rs, reconcile_php and its siblings).
THEOREM ListTrue == Spec => []ListIsTrue
<1>1. IInv => ListIsTrue
  BY DEF IInv, RunsAreSound, ListIsKept, ListIsTrue, Free, Up
<1> QED BY <1>1, PackagesInvariant, PTL

\* A current link names a complete version (layout.rs, install_dir before
\* update_current), outside an uninstall that stopped half-way.
THEOREM SelectionWhole == Spec => []SelectedIsWhole
<1>1. IInv => SelectedIsWhole
  BY DEF IInv, RunsAreSound
<1> QED BY <1>1, PackagesInvariant, PTL

\* A run that has ended has left no brew behind (task.rs, KillOnDrop).
THEOREM EndedAlone == Spec => []EndedRunIsAlone
<1>1. IInv => EndedRunIsAlone
  BY DEF IInv, RunsAreSound
<1> QED BY <1>1, PackagesInvariant, PTL

\* Only an uninstall takes away a version, or the version that runs: installs,
\* rescans, cancels, crashes and updates leave both (openvhost-pkg/src/layout.rs).
THEOREM OthersLeaveVersions == Spec => OnlyUninstallRemoves
<1> DEFINE Kept == /\ \A v \in Versions : tree[v] = "whole" => tree'[v] = "whole"
                   /\ PackagedVersion # NoVersion => PackagedVersion' # NoVersion
<1> USE DEF IInv, RunsAreSound
<1>1. ASSUME IInv, op.verb # "uninstall", Promote PROVE Kept
  BY <1>1, PackagesAssumption DEF Promote, TypeOK, RunIsOurs, PackagedVersion, Runnable, Goto
<1>2. ASSUME IInv, op.verb # "uninstall", Link PROVE Kept
  BY <1>2, PackagesAssumption DEF Link, TypeOK, RunIsOurs, PackagedVersion, Runnable, Goto
<1>3. ASSUME UNCHANGED <<tree, cur>> PROVE Kept
  BY <1>3 DEF PackagedVersion
<1>4. ASSUME IInv, op.verb # "uninstall", [Next]_vars PROVE Kept
  <2>1. CASE Run
    BY <1>1, <1>2, <1>3, <1>4, <2>1
       DEF Run, Fetch, Record, BrewSpawn, Drained, TakeAbort, disk, memory
  <2>2. CASE Command
    BY <1>3, <1>4, <2>2
       DEF Command, SetRunning, Wake, Decide, RemoveSome, Removed, Unlink, Tidy, Forget,
           Probe, Merge, Register, RunIsOurs, disk, memory
  <2>3. CASE Next /\ ~Run /\ ~Command
    BY <1>3, <2>3
       DEF Next, BrewActs, BrewExits, StartInstall, StartUninstall, StartRescan, Cancel,
           StartService, StopService, UserBrew, QuitAborts, QuitAborted, Exit, Crash, Dead,
           Launch, disk, memory
  <2>4. CASE UNCHANGED vars
    BY <1>3, <2>4 DEF vars, disk
  <2> QED BY <1>4, <2>1, <2>2, <2>3, <2>4
<1> QED BY <1>4, PackagesInvariant, PTL DEF Spec, OnlyUninstallRemoves

\* An uninstall that reports Done has left no version of its target, no link to
\* it and no row that could start it (uninstall/run.rs, perform_uninstall).
THEOREM DoneIsGone == Spec => DoneMeansGone
<1> DEFINE Gone == /\ cur' = NoVersion /\ row'.program \notin Versions
                   /\ \A v \in Victims : tree'[v] = "absent"
<1>1. ASSUME IInv, [Next]_vars, op.verb = "uninstall", op.pc = "registering",
             ~op.problem, Free', op.target # Keg, Up'
      PROVE  Gone
  <2>1. /\ cur = NoVersion /\ row = NoRow /\ op.found \notin Versions
        /\ \A v \in Victims : tree[v] = "absent"
    BY <1>1 DEF IInv, RemovalIsTrue
  <2>2. Register
    BY <1>1 DEF Next, vars, IInv, RunsAreSound, RunIsOurs, Free, Up, Run, Command,
       Fetch, Promote, Link, Record, BrewSpawn, Drained, TakeAbort, SetRunning, Wake,
       Decide, RemoveSome, Removed, Unlink, Tidy, Forget, Probe, Merge, BrewActs,
       BrewExits, StartInstall, StartUninstall, StartRescan, Cancel, StartService,
       StopService, UserBrew, QuitAborts, QuitAborted, Exit, Crash, Dead, Launch
  <2>3. row'.program \notin Versions
    BY <2>1, <2>2, PackagesAssumption DEF Register, RowAfter, NoRow
  <2> QED BY <2>1, <2>2, <2>3 DEF Register, disk
<1> QED BY <1>1, PackagesInvariant, PTL DEF Spec, DoneMeansGone

-----------------------------------------------------------------------------
(* Liveness of an operation: it only goes forward, its run while it waits for *)
(* the run, and whatever it waits for comes.                                  *)

RunRank(pc) ==
  CASE pc = "checking"                    -> 3
    [] pc \in {"downloading", "brewing"}  -> 4
    [] pc \in {"extracting", "draining"}  -> 5
    [] pc = "warming"                     -> 6
    [] pc = "linking"                     -> 7
    [] pc = "recording"                   -> 8
    [] OTHER                              -> 9

CommandRank(pc) ==
  CASE pc = "deciding"    -> 1
    [] pc = "spawned"     -> 2
    [] pc = "removing"    -> 10
    [] pc = "unlinking"   -> 11
    [] pc = "tidying"     -> 12
    [] pc = "forgetting"  -> 13
    [] pc = "probing"     -> 14
    [] pc = "merging"     -> 15
    [] pc = "registering" -> 16
    [] OTHER              -> 17

\* How far an operation is.
Rank == IF op.pc = "waiting" THEN RunRank(task.pc) ELSE CommandRank(op.pc)

\* An operation under way that waits for no brew, or was aborted.
Works == ~Free /\ (op.target # Keg \/ task.aborted)

StandsAt(k)   == Works /\ Rank = k
HasReached(k) == Works /\ Rank >= k
HasPassed(k)  == Free \/ (Works /\ Rank > k)

\* No run is aborted before there is one, and brew removes its own keg.
StartsUnaborted ==
  /\ op.pc \in {"idle", "deciding"} => slot = "none" /\ ~task.aborted
  /\ op.pc = "removing" => op.target # Keg

LEMMA Ranks ==
  ASSUME IInv
  PROVE  /\ Rank \in 1 .. 17
         /\ ~Free => Rank \in 1 .. 16
         /\ Rank \in 3 .. 8 <=> op.pc = "waiting" /\ task.pc \notin Ended
         /\ Rank = 9 <=> op.pc = "waiting" /\ task.pc \in Ended
         /\ Rank = 10 <=> op.pc = "removing"
<1> DEFINE p == op.pc
           q == task.pc
<1>1. p \in OpPc /\ q \in TaskPc
  BY DEF IInv, RunsAreSound, TypeOK, Op, Task
<1>2. p = "waiting" => q # "none"
  BY DEF IInv, RunsAreSound, RunIsOurs
<1> HIDE DEF p, q
<1>3. /\ RunRank(q) \in 3 .. 9
      /\ q # "none" => (RunRank(q) = 9 <=> q \in Ended)
  BY <1>1 DEF RunRank, TaskPc, Awaiting, Ended
<1>4. p # "waiting" => /\ CommandRank(p) \in 1 .. 17 /\ CommandRank(p) \notin 3 .. 9
                       /\ CommandRank(p) = 17 <=> p = "idle"
                       /\ CommandRank(p) = 10 <=> p = "removing"
  BY <1>1 DEF CommandRank, OpPc
<1>5. QED
  BY <1>2, <1>3, <1>4 DEF Rank, Free, p, q

LEMMA RanksLater ==
  ASSUME IInv'
  PROVE  Rank' \in 1 .. 17
<1>1. (op.pc)' \in OpPc /\ (task.pc)' \in TaskPc
  BY DEF IInv, RunsAreSound, TypeOK, Op, Task
<1>2. RunRank((task.pc)') \in 3 .. 9
  BY <1>1 DEF RunRank, TaskPc
<1>3. CommandRank((op.pc)') \in 1 .. 17
  BY <1>1 DEF CommandRank, OpPc
<1>4. QED
  BY <1>2, <1>3 DEF Rank

\* A step of the run takes it to a later point.
LEMMA RunGoesForward ==
  ASSUME IInv, Run
  PROVE  /\ op' = op /\ op.pc \in {"spawned", "waiting"}
         /\ task'.aborted = task.aborted
         /\ RunRank(task'.pc) > RunRank(task.pc)
<1> USE DEF IInv, RunsAreSound
<1>1. op' = op
  BY DEF Run, Fetch, Promote, Link, Record, BrewSpawn, Drained, TakeAbort
<1>2. op.pc \in {"spawned", "waiting"}
  BY DEF Run, Fetch, Promote, Link, Record, BrewSpawn, Drained, TakeAbort, RunIsOurs,
         Ended, Awaiting
<1>3. task'.aborted = task.aborted /\ RunRank(task'.pc) > RunRank(task.pc)
  <2>1. CASE Fetch
    BY <2>1, GotoMoves DEF Fetch, TaskPc, Ended, Awaiting, RunRank
  <2>2. CASE Promote \/ Link \/ Record
    BY <2>2, GotoMoves DEF Promote, Link, Record, TaskPc, Ended, Awaiting, RunRank
  <2>3. CASE BrewSpawn
    <3>1. task.pc = "checking"
      BY <2>3 DEF BrewSpawn
    <3>2. task'.pc \in {"brewing", "err"} /\ task'.aborted = task.aborted
      BY <2>3, GotoMoves DEF BrewSpawn, TypeOK, Task, TaskPc, Ended
    <3>3. QED
      BY <3>1, <3>2 DEF RunRank
  <2>4. CASE Drained
    BY <2>4, GotoMoves DEF Drained, TaskPc, Ended, Awaiting, RunRank
  <2>5. CASE TakeAbort
    <3>1. task.pc \in Awaiting
      BY <2>5 DEF TakeAbort
    <3>2. task'.pc = "cancelled" /\ task'.aborted = task.aborted
      BY <2>5 DEF TakeAbort, TypeOK, Task
    <3>3. QED
      BY <3>1, <3>2 DEF RunRank, Awaiting
  <2>6. QED
    BY <2>1, <2>2, <2>3, <2>4, <2>5 DEF Run
<1>4. QED
  BY <1>1, <1>2, <1>3

\* A command that turns to a later step goes on.
LEMMA TurnsTo ==
  ASSUME Works, NEW pc \in OpPc \ {"idle", "waiting"}, op'.pc = pc,
         op'.target = op.target, task' = task, CommandRank(pc) > Rank
  PROVE  Works' /\ Rank' > Rank
<1>1. Works'
  BY DEF Works, Free
<1>2. Rank' = CommandRank(pc)
  BY DEF Rank
<1>3. QED
  BY <1>1, <1>2

\* A step of the command takes the operation to a later point, or to its end.
LEMMA CommandGoesForward ==
  ASSUME IInv, StartsUnaborted, Command, Works, op.pc # "removing"
  PROVE  Free' \/ (Works' /\ Rank' > Rank)
<1>0. TypeOK
  BY DEF IInv, RunsAreSound
<1>1. ASSUME Finish PROVE Free'
  BY <1>1 DEF Finish, NoOp, Free
<1>2. CASE SetRunning
  <2>1. op'.pc = "waiting" /\ op'.target = op.target /\ task' = task /\ op.pc = "spawned"
    BY <1>0, <1>2, StepMoves DEF SetRunning, OpPc
  <2>2. RunRank(task.pc) \in 3 .. 9
    BY <1>0 DEF TypeOK, Task, TaskPc, RunRank
  <2>3. Works'
    BY <2>1 DEF Works, Free
  <2>4. Rank' = RunRank(task.pc) /\ Rank = 2
    BY <2>1 DEF Rank, CommandRank
  <2>5. QED
    BY <2>2, <2>3, <2>4
<1>3. CASE Wake
  <2>1. op.pc = "waiting" /\ task.pc \in Ended
    BY <1>3 DEF Wake
  <2>2. Rank = 9
    BY <2>1 DEF Rank, RunRank, Ended
  <2>3. CASE Step("probing") /\ UNCHANGED task
    <3>1. op'.pc = "probing" /\ op'.target = op.target
      BY <1>0, <2>3, StepMoves DEF OpPc
    <3>2. CommandRank("probing") > Rank
      BY <2>2 DEF CommandRank
    <3>3. QED
      BY <2>3, <3>1, <3>2, TurnsTo DEF OpPc
  <2>4. CASE Step("tidying") /\ UNCHANGED task
    <3>1. op'.pc = "tidying" /\ op'.target = op.target
      BY <1>0, <2>4, StepMoves DEF OpPc
    <3>2. CommandRank("tidying") > Rank
      BY <2>2 DEF CommandRank
    <3>3. QED
      BY <2>4, <3>1, <3>2, TurnsTo DEF OpPc
  <2>5. QED
    BY <1>1, <1>3, <2>3, <2>4 DEF Wake
<1>4. CASE Decide
  <2>1. op.target # Keg /\ Rank = 1
    BY <1>4 DEF Decide, StartsUnaborted, Works, Rank, CommandRank
  <2>2. CASE Step("removing") /\ UNCHANGED task
    <3>1. op'.pc = "removing" /\ op'.target = op.target
      BY <1>0, <2>2, StepMoves DEF OpPc
    <3>2. CommandRank("removing") > Rank
      BY <2>1 DEF CommandRank
    <3>3. QED
      BY <2>2, <3>1, <3>2, TurnsTo DEF OpPc
  <2>3. QED
    BY <1>1, <1>4, <2>1, <2>2 DEF Decide
<1>5. CASE Unlink
  <2>1. op'.pc = "tidying" /\ op'.target = op.target
    BY <1>0, <1>5, StepMoves, ProblemMoves DEF Unlink, OpPc
  <2>2. task' = task /\ CommandRank("tidying") > Rank
    BY <1>5 DEF Unlink, Rank, CommandRank
  <2>3. QED
    BY <2>1, <2>2, TurnsTo DEF OpPc
<1>6. CASE Tidy
  <2>1. op'.pc = "forgetting" /\ op'.target = op.target
    BY <1>0, <1>6, StepMoves, ProblemMoves DEF Tidy, OpPc
  <2>2. task' = task /\ CommandRank("forgetting") > Rank
    BY <1>6 DEF Tidy, Rank, CommandRank
  <2>3. QED
    BY <2>1, <2>2, TurnsTo DEF OpPc
<1>7. CASE Forget
  <2>1. op'.pc = "probing" /\ op'.target = op.target
    BY <1>0, <1>7, StepMoves, ProblemMoves DEF Forget, OpPc
  <2>2. task' = task /\ CommandRank("probing") > Rank
    BY <1>7 DEF Forget, Rank, CommandRank
  <2>3. QED
    BY <2>1, <2>2, TurnsTo DEF OpPc
<1>8. CASE Probe
  <2>1. op'.pc = "merging" /\ op'.target = op.target
    BY <1>0, <1>8 DEF Probe, TypeOK, Op
  <2>2. task' = task /\ CommandRank("merging") > Rank
    BY <1>8 DEF Probe, Rank, CommandRank
  <2>3. QED
    BY <2>1, <2>2, TurnsTo DEF OpPc
<1>9. CASE Merge
  <2>1. op'.pc = "registering" /\ op'.target = op.target
    BY <1>0, <1>9 DEF Merge, TypeOK, Op
  <2>2. task' = task /\ CommandRank("registering") > Rank
    BY <1>9 DEF Merge, Rank, CommandRank
  <2>3. QED
    BY <2>1, <2>2, TurnsTo DEF OpPc
<1>10. CASE Register
  BY <1>1, <1>10 DEF Register
<1>11. QED
  BY <1>2, <1>3, <1>4, <1>5, <1>6, <1>7, <1>8, <1>9, <1>10
     DEF Command, RemoveSome, Removed

\* So does a removal that has come to its end; before, it stays where it is.
LEMMA RemovalGoesForward ==
  ASSUME IInv, Command, Works, op.pc = "removing"
  PROVE  \/ RemoveSome /\ op' = op /\ task' = task
         \/ Works' /\ Rank' > Rank
<1>0. TypeOK
  BY DEF IInv, RunsAreSound
<1>1. CASE RemoveSome
  BY <1>1 DEF RemoveSome
<1>2. CASE Removed
  <2>1. op'.pc = "unlinking" /\ op'.target = op.target
    BY <1>0, <1>2, StepMoves, ProblemMoves DEF Removed, OpPc
  <2>2. task' = task /\ CommandRank("unlinking") > Rank
    BY <1>2 DEF Removed, Rank, CommandRank
  <2>3. QED
    BY <2>1, <2>2, TurnsTo DEF OpPc
<1>3. QED
  BY <1>1, <1>2
     DEF Command, SetRunning, Wake, Decide, Unlink, Tidy, Forget, Probe, Merge, Register

\* Neither cancel nor quit reaches an operation before its run.
LEMMA AbortsAStartedRun == Spec => []StartsUnaborted
<1>1. Init => StartsUnaborted
  BY DEF Init, NoOp, NoTask, StartsUnaborted
<1>2. IInv /\ StartsUnaborted /\ [Next]_vars => StartsUnaborted'
  <2> SUFFICES ASSUME IInv, StartsUnaborted, [Next]_vars PROVE StartsUnaborted'
    OBVIOUS
  <2>0. TypeOK
    BY DEF IInv, RunsAreSound
  <2>1. ASSUME op' = NoOp, task' = NoTask, slot' = "none" PROVE StartsUnaborted'
    BY <2>1 DEF StartsUnaborted, NoOp, NoTask
  <2>2. ASSUME op'.pc \in OpPc \ {"idle", "deciding", "removing"} PROVE StartsUnaborted'
    BY <2>2 DEF StartsUnaborted
  <2>3. CASE Run
    BY <2>2, <2>3, RunGoesForward DEF OpPc
  <2>4. CASE SetRunning \/ Wake
    <3>1. ASSUME NEW pc \in {"waiting", "probing", "tidying"}, Step(pc)
          PROVE  StartsUnaborted'
      <4>1. op'.pc = pc
        BY <2>0, <3>1, StepMoves DEF OpPc
      <4>2. QED
        BY <2>2, <4>1 DEF OpPc
    <3>2. QED
      BY <2>1, <2>4, <3>1 DEF SetRunning, Wake, Finish
  <2>5. CASE Decide
    <3>1. CASE op.target = Keg /\ Step("spawned")
      <4>1. op'.pc = "spawned"
        BY <2>0, <3>1, StepMoves DEF OpPc
      <4>2. QED
        BY <2>2, <4>1 DEF OpPc
    <3>2. CASE op.target # Keg /\ Step("removing")
      <4>1. op'.pc = "removing" /\ op'.target = op.target
        BY <2>0, <3>2, StepMoves DEF OpPc
      <4>2. QED
        BY <3>2, <4>1 DEF StartsUnaborted
    <3>3. QED
      BY <2>1, <2>5, <3>1, <3>2 DEF Decide, Finish
  <2>6. CASE RemoveSome
    BY <2>6 DEF RemoveSome, StartsUnaborted
  <2>7. CASE Removed \/ Unlink \/ Tidy \/ Forget
    <3>1. op'.pc \in {"unlinking", "tidying", "forgetting", "probing"}
      BY <2>0, <2>7, StepMoves, ProblemMoves DEF Removed, Unlink, Tidy, Forget, OpPc
    <3>2. QED
      BY <2>2, <3>1 DEF OpPc
  <2>8. CASE Probe \/ Merge
    <3>1. op'.pc \in {"merging", "registering"}
      BY <2>0, <2>8 DEF Probe, Merge, TypeOK, Op
    <3>2. QED
      BY <2>2, <3>1 DEF OpPc
  <2>9. CASE Register
    BY <2>1, <2>9 DEF Register, Finish
  <2>10. CASE StartInstall \/ StartRescan
    <3>1. op'.pc \in {"spawned", "probing"}
      BY <2>10 DEF StartInstall, StartRescan, Begin, NoOp
    <3>2. QED
      BY <2>2, <3>1 DEF OpPc
  <2>11. CASE StartUninstall
    <3>1. op'.pc = "deciding" /\ task' = task /\ slot' = slot /\ Free
      BY <2>11 DEF StartUninstall, Begin, NoOp
    <3>2. QED
      BY <3>1 DEF StartsUnaborted, Free
  <2>12. CASE BrewExits
    <3>1. op.pc \in {"spawned", "waiting"} /\ op' = op
      BY <2>12 DEF BrewExits, IInv, RunsAreSound, RunIsOurs, Ended
    <3>2. QED
      BY <2>2, <3>1 DEF OpPc
  <2>13. CASE Cancel \/ QuitAborts
    BY <2>13 DEF Cancel, QuitAborts, StartsUnaborted
  <2>14. CASE \/ BrewActs \/ StartService \/ StopService \/ UserBrew \/ QuitAborted
              \/ Launch
    BY <2>14 DEF BrewActs, StartService, StopService, UserBrew, QuitAborted, Launch,
                 StartsUnaborted
  <2>15. CASE Exit \/ Crash
    BY <2>1, <2>15 DEF Exit, Crash, Dead
  <2>16. CASE UNCHANGED vars
    BY <2>16 DEF vars, StartsUnaborted
  <2>17. QED
    BY <2>3, <2>4, <2>5, <2>6, <2>7, <2>8, <2>9, <2>10, <2>11, <2>12, <2>13, <2>14,
       <2>15, <2>16 DEF Next, Command
<1>3. QED
  BY <1>1, <1>2, PackagesInvariant, PTL DEF Spec

\* The rest of the system leaves an operation where it is, or ends it with the
\* process; brew's exit lets its run go on.
LEMMA OthersWait ==
  ASSUME IInv, [Next]_vars, Works, ~Run, ~Command
  PROVE  \/ Free'
         \/ /\ op' = op /\ Works'
            /\ \/ task'.pc = task.pc
               \/ task.pc = "brewing" /\ task'.pc = "draining"
<1>0. TypeOK
  BY DEF IInv, RunsAreSound
<1>1. CASE BrewExits
  BY <1>0, <1>1 DEF BrewExits, TypeOK, Task, Works, Free
<1>2. CASE Cancel \/ QuitAborts
  BY <1>0, <1>2 DEF Cancel, QuitAborts, TypeOK, Task, Works, Free
<1>3. CASE \/ BrewActs \/ StartService \/ StopService \/ UserBrew \/ QuitAborted
  BY <1>3 DEF BrewActs, StartService, StopService, UserBrew, QuitAborted, Works, Free
<1>4. CASE StartInstall \/ StartUninstall \/ StartRescan
  BY <1>4 DEF StartInstall, StartUninstall, StartRescan, Works
<1>5. CASE Exit \/ Crash
  BY <1>5 DEF Exit, Crash, Dead, NoOp, Free
<1>6. CASE Launch
  BY <1>6 DEF Launch, Works, IInv, RunsAreSound, RunIsOurs
<1>7. CASE UNCHANGED vars
  BY <1>7 DEF vars, Works, Free
<1>8. QED
  BY <1>1, <1>2, <1>3, <1>4, <1>5, <1>6, <1>7 DEF Next

\* Whatever happens to an operation under way, it stays where it is, goes on,
\* or ends.
LEMMA StaysOrPasses ==
  ASSUME IInv, StartsUnaborted, [Next]_vars, NEW k \in 1 .. 16, StandsAt(k)
  PROVE  StandsAt(k)' \/ HasPassed(k)'
<1>1. CASE Run
  <2>1. op' = op /\ op.pc \in {"spawned", "waiting"} /\ task'.aborted = task.aborted
        /\ RunRank(task'.pc) > RunRank(task.pc)
    BY <1>1, RunGoesForward
  <2>2. Works'
    BY <2>1 DEF StandsAt, Works, Free
  <2>3. CASE op.pc = "spawned"
    BY <2>1, <2>2, <2>3 DEF StandsAt, Rank
  <2>4. CASE op.pc = "waiting"
    <3>1. Rank' > Rank
      BY <2>1, <2>4 DEF Rank
    <3>2. QED
      BY <2>2, <3>1 DEF StandsAt, HasPassed
  <2>5. QED
    BY <2>1, <2>3, <2>4
<1>2. CASE Command /\ op.pc # "removing"
  BY <1>2, CommandGoesForward DEF StandsAt, HasPassed
<1>3. CASE Command /\ op.pc = "removing"
  <2>1. CASE op' = op /\ task' = task
    BY <2>1 DEF StandsAt, Works, Free, Rank
  <2>2. CASE Works' /\ Rank' > Rank
    BY <2>2 DEF StandsAt, HasPassed
  <2>3. QED
    BY <1>3, <2>1, <2>2, RemovalGoesForward DEF StandsAt
<1>4. CASE ~Run /\ ~Command
  <2>1. CASE Free'
    BY <2>1 DEF HasPassed
  <2>2. CASE op' = op /\ Works' /\ task'.pc = task.pc
    BY <2>2 DEF StandsAt, Rank
  <2>3. CASE op' = op /\ Works' /\ task.pc = "brewing" /\ task'.pc = "draining"
    <3>1. op.pc = "waiting" => Rank' > Rank
      BY <2>3 DEF Rank, RunRank
    <3>2. op.pc # "waiting" => Rank' = Rank
      BY <2>3 DEF Rank
    <3>3. QED
      BY <2>3, <3>1, <3>2 DEF StandsAt, HasPassed
  <2>4. QED
    BY <1>4, <2>1, <2>2, <2>3, OthersWait DEF StandsAt
<1>5. QED
  BY <1>1, <1>2, <1>3, <1>4

LEMMA StandsOrPassed ==
  ASSUME IInv, NEW k \in 1 .. 16, HasReached(k)
  PROVE  StandsAt(k) \/ HasPassed(k)
BY Ranks DEF HasReached, StandsAt, HasPassed

Passes(k) == HasReached(k) ~> HasPassed(k)
Scheduled == Spec /\ []GuardsSuffice

\* The command takes each of its own steps, and hears of the run's end.
LEMMA CommandPasses == Scheduled => \A k \in {1, 2, 9, 11, 12, 13, 14, 15, 16} : Passes(k)
<1> SUFFICES ASSUME NEW k \in {1, 2, 9, 11, 12, 13, 14, 15, 16}
             PROVE  Scheduled => Passes(k)
  OBVIOUS
<1>1. IInv /\ HasReached(k) => StandsAt(k) \/ HasPassed(k)
  BY StandsOrPassed
<1>2. IInv /\ StartsUnaborted /\ StandsAt(k) /\ [Next]_vars => StandsAt(k)' \/ HasPassed(k)'
  BY StaysOrPasses
<1>3. IInv /\ StartsUnaborted /\ StandsAt(k) /\ <<Command>>_vars => HasPassed(k)'
  <2> SUFFICES ASSUME IInv, StartsUnaborted, StandsAt(k), Command PROVE HasPassed(k)'
    OBVIOUS
  <2>1. op.pc # "removing"
    BY Ranks DEF StandsAt
  <2>2. QED
    BY <2>1, CommandGoesForward DEF StandsAt, HasPassed
<1>4. IInv /\ GuardsSuffice /\ StandsAt(k) => ENABLED <<Command>>_vars
  <2> SUFFICES ASSUME IInv, StandsAt(k) PROVE CommandIsDue
    BY DEF GuardsSuffice
  <2>1. Up
    BY DEF StandsAt, Works, IInv, RunsAreSound, RunIsOurs
  <2>2. op.pc = "waiting" => task.pc \in Ended
    BY Ranks DEF StandsAt
  <2>3. QED
    BY <2>1, <2>2 DEF StandsAt, Works, CommandIsDue
<1>5. QED
  BY <1>1, <1>2, <1>3, <1>4, PackagesInvariant, AbortsAStartedRun, PTL
     DEF Passes, Scheduled, Spec

\* The run it waits for goes on: where that is for brew's exit, it was aborted.
LEMMA RunPasses == Scheduled => \A k \in 3 .. 8 : Passes(k)
<1> SUFFICES ASSUME NEW k \in 3 .. 8 PROVE Scheduled => Passes(k)
  OBVIOUS
<1>1. IInv /\ HasReached(k) => StandsAt(k) \/ HasPassed(k)
  BY StandsOrPassed
<1>2. IInv /\ StartsUnaborted /\ StandsAt(k) /\ [Next]_vars => StandsAt(k)' \/ HasPassed(k)'
  BY StaysOrPasses
<1>3. IInv /\ StandsAt(k) /\ <<Run>>_vars => HasPassed(k)'
  <2> SUFFICES ASSUME IInv, StandsAt(k), Run PROVE HasPassed(k)'
    OBVIOUS
  <2>1. op.pc = "waiting"
    BY Ranks DEF StandsAt
  <2>2. op' = op /\ task'.aborted = task.aborted
        /\ RunRank(task'.pc) > RunRank(task.pc)
    BY RunGoesForward
  <2>3. Works' /\ Rank' > Rank
    BY <2>1, <2>2 DEF StandsAt, Works, Free, Rank
  <2>4. QED
    BY <2>3 DEF StandsAt, HasPassed
<1>4. IInv /\ GuardsSuffice /\ StandsAt(k) => ENABLED <<Run>>_vars
  <2> SUFFICES ASSUME IInv, StandsAt(k) PROVE RunIsDue
    BY DEF GuardsSuffice
  <2>1. op.pc = "waiting" /\ task.pc \notin Ended
    BY Ranks DEF StandsAt
  <2>2. Up /\ task.pc # "none" /\ (task.pc = "brewing" => op.target = Keg)
    BY <2>1 DEF StandsAt, Works, IInv, RunsAreSound, RunIsOurs
  <2>3. QED
    BY <2>1, <2>2 DEF StandsAt, Works, RunIsDue
<1>5. QED
  BY <1>1, <1>2, <1>3, <1>4, PackagesInvariant, AbortsAStartedRun, PTL
     DEF Passes, Scheduled, Spec

\* How much remove_dir_all has yet to take of a version.
Left(v) ==
  CASE tree[v] = "whole"   -> 3
    [] tree[v] = "damaged" -> 2
    [] tree[v] = "gutted"  -> 1
    [] OTHER               -> 0

\* PHP's removal takes one version's directory.
RemovesOne  == StandsAt(10) /\ family # "mariadb"
HasLeft(n)  == RemovesOne /\ Left(op.target) <= n
HasLess(n)  == RemovesOne /\ Left(op.target) < n

\* MariaDB's takes a whole directory of them: that remove_dir_all returns.
RemovalReturns == family = "mariadb" /\ op.pc = "removing" ~> op.pc # "removing"

\* A removal under way takes more of its target, or nothing happens to it.
LEMMA RemovalStep ==
  ASSUME IInv, StartsUnaborted, [Next]_vars, StandsAt(10), ~HasPassed(10)'
  PROVE  /\ StandsAt(10)' /\ op' = op /\ family' = family
         /\ RemoveSome \/ (tree' = tree /\ ~Command)
<1>1. op.pc = "removing"
  BY Ranks DEF StandsAt
<1>2. StandsAt(10)'
  BY StaysOrPasses
<1>3. ~Run
  BY <1>1, RunGoesForward
<1>4. CASE Command
  <2>1. RemoveSome /\ op' = op /\ task' = task
    BY <1>1, <1>4, RemovalGoesForward DEF StandsAt, HasPassed
  <2>2. QED
    BY <1>2, <2>1 DEF RemoveSome
<1>5. CASE ~Command
  <2>1. op' = op
    BY <1>3, <1>5, OthersWait DEF StandsAt, HasPassed
  <2>2. family' = family /\ tree' = tree
    BY <1>3, <1>5
       DEF Next, vars, BrewActs, BrewExits, StartInstall, StartUninstall, StartRescan,
           Cancel, StartService, StopService, UserBrew, QuitAborts, QuitAborted, Exit,
           Crash, Dead, Launch, disk
  <2>3. QED
    BY <1>2, <1>5, <2>1, <2>2
<1>6. QED
  BY <1>4, <1>5

\* What is left of the one version a removal takes is a number, and gets less.
LEMMA LeftShrinks ==
  ASSUME IInv, StartsUnaborted, StandsAt(10), family # "mariadb"
  PROVE  /\ Left(op.target) \in 0 .. 3
         /\ tree' = tree /\ op' = op => Left(op.target)' = Left(op.target)
         /\ RemoveSome => Left(op.target)' \in 0 .. 3 /\ Left(op.target)' < Left(op.target)
<1>1. op.pc = "removing" /\ op.target # Keg
  BY Ranks DEF StandsAt, StartsUnaborted
<1>2. op.verb = "uninstall"
  BY <1>1 DEF IInv, RunsAreSound, RunIsOurs
<1>3. op.target \in Versions
  BY <1>1, <1>2 DEF IInv, RemovalIsTrue, RunsAreSound, TypeOK, Op, Programs
<1>4. tree \in [Versions -> TreeState]
  BY DEF IInv, RunsAreSound, TypeOK
<1>5. Left(op.target) \in 0 .. 3
  BY DEF Left
<1>6. tree' = tree /\ op' = op => Left(op.target)' = Left(op.target)
  BY DEF Left
<1>7. ASSUME RemoveSome
      PROVE  Left(op.target)' \in 0 .. 3 /\ Left(op.target)' < Left(op.target)
  <2>1. op' = op
    BY <1>7 DEF RemoveSome
  <2>2. tree[op.target] # "absent"
        /\ tree' = [tree EXCEPT ![op.target] =
                      CASE @ = "whole" -> "damaged" [] @ = "damaged" -> "gutted"
                        [] OTHER -> "absent"]
    BY <1>7 DEF RemoveSome, Victims
  <2>3. CASE tree[op.target] = "whole"
    <3>1. tree'[op.target] = "damaged"
      BY <1>3, <1>4, <2>2, <2>3
    <3>2. QED
      BY <2>1, <2>3, <3>1 DEF Left
  <2>4. CASE tree[op.target] = "damaged"
    <3>1. tree'[op.target] = "gutted"
      BY <1>3, <1>4, <2>2, <2>4
    <3>2. QED
      BY <2>1, <2>4, <3>1 DEF Left
  <2>5. CASE tree[op.target] = "gutted"
    <3>1. tree'[op.target] = "absent"
      BY <1>3, <1>4, <2>2, <2>5
    <3>2. QED
      BY <2>1, <2>5, <3>1 DEF Left
  <2>6. QED
    BY <1>3, <1>4, <2>2, <2>3, <2>4, <2>5 DEF TreeState
<1>8. QED
  BY <1>5, <1>6, <1>7

\* A removal's next step leaves less of the target, or is its last.
RemovalShrinks(n) == HasLeft(n) ~> HasLess(n) \/ HasPassed(10)

LEMMA RemovalGetsOn == Scheduled => \A n \in 0 .. 3 : RemovalShrinks(n)
<1> SUFFICES ASSUME NEW n \in 0 .. 3 PROVE Scheduled => RemovalShrinks(n)
  OBVIOUS
<1>1. IInv /\ StartsUnaborted /\ HasLeft(n) /\ [Next]_vars
        => HasLeft(n)' \/ HasLess(n)' \/ HasPassed(10)'
  <2> SUFFICES ASSUME IInv, StartsUnaborted, HasLeft(n), [Next]_vars, ~HasPassed(10)'
               PROVE  HasLeft(n)'
    OBVIOUS
  <2>1. /\ StandsAt(10)' /\ op' = op /\ family' = family
        /\ RemoveSome \/ (tree' = tree /\ ~Command)
    BY RemovalStep DEF HasLeft, RemovesOne
  <2>2. CASE RemoveSome
    <3>1. Left(op.target)' < Left(op.target) /\ Left(op.target)' \in 0 .. 3
          /\ Left(op.target) \in 0 .. 3
      BY <2>2, LeftShrinks DEF HasLeft, RemovesOne
    <3>2. QED
      BY <2>1, <3>1 DEF HasLeft, RemovesOne
  <2>3. CASE tree' = tree
    <3>1. Left(op.target)' = Left(op.target)
      BY <2>1, <2>3, LeftShrinks DEF HasLeft, RemovesOne
    <3>2. QED
      BY <2>1, <3>1 DEF HasLeft, RemovesOne
  <2>4. QED
    BY <2>1, <2>2, <2>3
<1>2. IInv /\ StartsUnaborted /\ HasLeft(n) /\ <<Command>>_vars
        => HasLess(n)' \/ HasPassed(10)'
  <2> SUFFICES ASSUME IInv, StartsUnaborted, HasLeft(n), Command, ~HasPassed(10)'
               PROVE  HasLess(n)'
    OBVIOUS
  <2>1. StandsAt(10)' /\ op' = op /\ family' = family /\ RemoveSome
    BY RemovalStep DEF HasLeft, RemovesOne, Next
  <2>2. Left(op.target)' < Left(op.target) /\ Left(op.target)' \in 0 .. 3
        /\ Left(op.target) \in 0 .. 3
    BY <2>1, LeftShrinks DEF HasLeft, RemovesOne
  <2>3. QED
    BY <2>1, <2>2 DEF HasLeft, HasLess, RemovesOne
<1>3. IInv /\ GuardsSuffice /\ HasLeft(n) => ENABLED <<Command>>_vars
  <2> SUFFICES ASSUME IInv, StandsAt(10) PROVE CommandIsDue
    BY DEF GuardsSuffice, HasLeft, RemovesOne
  <2>1. op.pc = "removing"
    BY Ranks DEF StandsAt
  <2>2. QED
    BY <2>1 DEF CommandIsDue, Free, IInv, RunsAreSound, RunIsOurs
<1>4. QED
  BY <1>1, <1>2, <1>3, PackagesInvariant, AbortsAStartedRun, PTL
     DEF RemovalShrinks, Scheduled, Spec

LEMMA RemovalPasses == Scheduled /\ RemovalReturns => Passes(10)
<1>1. IInv /\ StartsUnaborted /\ HasReached(10) =>
        HasPassed(10) \/ HasLeft(3)
        \/ (StandsAt(10) /\ family = "mariadb" /\ op.pc = "removing")
  BY StandsOrPassed, LeftShrinks, Ranks DEF HasLeft, RemovesOne, StandsAt
<1>2. IInv /\ StartsUnaborted =>
        /\ HasLess(3) => HasLeft(2)
        /\ HasLess(2) => HasLeft(1)
        /\ HasLess(1) => HasLeft(0)
        /\ ~HasLess(0)
  BY LeftShrinks DEF HasLess, HasLeft, RemovesOne
<1>3. IInv /\ StartsUnaborted /\ StandsAt(10) /\ [Next]_vars
        => StandsAt(10)' \/ HasPassed(10)'
  BY StaysOrPasses
<1>4. IInv /\ op.pc # "removing" => ~StandsAt(10)
  BY Ranks DEF StandsAt
<1>5. Scheduled => /\ RemovalShrinks(3) /\ RemovalShrinks(2)
                   /\ RemovalShrinks(1) /\ RemovalShrinks(0)
  BY RemovalGetsOn
<1>6. QED
  BY <1>1, <1>2, <1>3, <1>4, <1>5, PackagesInvariant, AbortsAStartedRun, PTL
     DEF Passes, RemovalShrinks, RemovalReturns, Scheduled, Spec

\* A package operation ends and frees the install lock (commands.rs, task.rs,
\* uninstall/run.rs), however its downloads, its run, its removal and its
\* rescan go, and wherever it was aborted.
THEOREM OperationsEnd == Scheduled /\ RemovalReturns => OperationEnds
<1>1. Scheduled => /\ Passes(1) /\ Passes(2) /\ Passes(9) /\ Passes(11) /\ Passes(12)
                   /\ Passes(13) /\ Passes(14) /\ Passes(15) /\ Passes(16)
  BY CommandPasses
<1>2. Scheduled => /\ Passes(3) /\ Passes(4) /\ Passes(5) /\ Passes(6) /\ Passes(7)
                   /\ Passes(8)
  BY RunPasses
<1>3. Scheduled /\ RemovalReturns => Passes(10)
  BY RemovalPasses
<1>4. IInv => /\ HasPassed(1) => Free \/ HasReached(2)
              /\ HasPassed(2) => Free \/ HasReached(3)
              /\ HasPassed(3) => Free \/ HasReached(4)
              /\ HasPassed(4) => Free \/ HasReached(5)
              /\ HasPassed(5) => Free \/ HasReached(6)
              /\ HasPassed(6) => Free \/ HasReached(7)
              /\ HasPassed(7) => Free \/ HasReached(8)
              /\ HasPassed(8) => Free \/ HasReached(9)
  BY Ranks DEF HasPassed, HasReached
<1>5. IInv => /\ HasPassed(9) => Free \/ HasReached(10)
              /\ HasPassed(10) => Free \/ HasReached(11)
              /\ HasPassed(11) => Free \/ HasReached(12)
              /\ HasPassed(12) => Free \/ HasReached(13)
              /\ HasPassed(13) => Free \/ HasReached(14)
              /\ HasPassed(14) => Free \/ HasReached(15)
              /\ HasPassed(15) => Free \/ HasReached(16)
              /\ HasPassed(16) => Free
  BY Ranks DEF HasPassed, HasReached, Works
<1>6. IInv /\ ~Free /\ (op.target # Keg \/ task.aborted) => HasReached(1)
  BY Ranks DEF HasReached, Works
<1>7. QED
  BY <1>1, <1>2, <1>3, <1>4, <1>5, <1>6, PackagesInvariant, PTL
     DEF Passes, Scheduled, Spec, OperationEnds

=============================================================================
