--------------------------- MODULE OrphanReapProofs ---------------------------
(***************************************************************************)
(* Proofs about OrphanReap for any sets of instances, services, pids and   *)
(* start times: a reap never signals a process that is not an orphan, and  *)
(* the record of a live orphan goes only once it has been sent its signal. *)
(***************************************************************************)
EXTENDS OrphanReap, TLAPS

\* The empty registry is well formed.
LEMMA NoRecordsType == NoRecords \in Records
BY DEF NoRecords, Records

\* What a load returns is well formed and adds no record.
LEMMA LoadedType ==
  ASSUME TypeOK
  PROVE  /\ Loaded \in Records
         /\ \A s \in Services : Loaded[s] # None => Loaded[s] = file[s]
BY NoRecordsType DEF TypeOK, Loaded, NoRecords

\* Loading, and removing a record or failing to, keep the file well formed.
LEMMA ForgetType ==
  ASSUME TypeOK, NEW s \in Services, Forget(s)
  PROVE  file' \in Records /\ stale' \in BOOLEAN /\ left' \in SUBSET Services
BY NoRecordsType DEF TypeOK, Forget, Drop, Loaded, Records

\* Removing a record, or failing to, never adds one.
LEMMA ForgetShrinks ==
  ASSUME TypeOK, NEW s \in Services, Forget(s),
         NEW q \in Services, file'[q] # None
  PROVE  file'[q] = file[q]
BY DEF TypeOK, Forget, Drop, Loaded, Records, NoRecords

\* A task moves its child to the next stage.
Moves(i, s, stage) == mine[i][s] # None /\ mine' = [mine EXCEPT ![i][s].stage = stage]

\* That child is the only one that moves.
LEMMA StageMoves ==
  ASSUME TypeOK, NEW i \in Instances, NEW s \in Services,
         NEW stage \in {"recorded", "ended"}, Moves(i, s, stage)
  PROVE  /\ mine[i][s] \in Child /\ mine'[i][s] \in Child
         /\ mine'[i][s].pid = mine[i][s].pid /\ mine'[i][s].stage = stage
         /\ \A j \in Instances, q \in Services :
              j # i \/ q # s => mine'[j][q] = mine[j][q]
<1>1. mine \in [Instances -> [Services -> Child \union {None}]]
  BY DEF TypeOK
<1>2. mine[i][s] \in Child
  BY <1>1 DEF Moves
<1>3. mine' = [mine EXCEPT ![i] = [mine[i] EXCEPT ![s] = [mine[i][s] EXCEPT !.stage = stage]]]
  BY DEF Moves
<1>4. mine'[i] = [mine[i] EXCEPT ![s] = [mine[i][s] EXCEPT !.stage = stage]]
  BY <1>1, <1>3
<1>5. mine'[i][s] = [mine[i][s] EXCEPT !.stage = stage]
  BY <1>1, <1>4
<1>6. \A j \in Instances, q \in Services : j # i \/ q # s => mine'[j][q] = mine[j][q]
  BY <1>1, <1>3
<1> QED BY <1>2, <1>5, <1>6 DEF Child

\* What a reap does to the process of a record: nothing, or what its signal did.
LEMMA ReapProc ==
  ASSUME TypeOK, NEW i \in Instances, NEW s \in Services, Reap(i, s)
  PROVE  /\ proc' \in [Pids -> Process \union {None}]
         /\ \A p \in Pids : proc'[p] # None =>
              /\ proc[p] # None
              /\ proc'[p].ours = proc[p].ours /\ proc'[p].start = proc[p].start
              /\ proc'[p].leader => proc[p].leader
         /\ \A p \in Pids : p # todo[i][s].pid => proc'[p] = proc[p]
<1> DEFINE q == todo[i][s].pid
<1>1. todo[i][s] \in Record /\ q \in Pids
  BY DEF TypeOK, Reap, Records, Record
<1>2. CASE UNCHANGED proc
  BY <1>2 DEF TypeOK
<1>3. CASE SameProcess(todo[i][s]) /\ (Kill(q) \/ KillFails(q))
  <2>1. proc[q] \in Process /\ proc[q] # None
    BY <1>1, <1>3 DEF TypeOK, SameProcess, LeaderAlive
  <2>2. /\ [proc[q] EXCEPT !.leader = FALSE] \in Process
        /\ [proc[q] EXCEPT !.spared = TRUE] \in Process
    BY <2>1 DEF Process
  <2>3. /\ proc'[q] \in {None, [proc[q] EXCEPT !.leader = FALSE],
                            [proc[q] EXCEPT !.spared = TRUE]}
        /\ \A p \in Pids : p # q => proc'[p] = proc[p]
        /\ proc' \in [Pids -> Process \union {None}]
    BY <1>1, <1>3, <2>2 DEF TypeOK, Kill, KillFails
  <2>4. proc'[q] # None =>
          /\ proc'[q].ours = proc[q].ours /\ proc'[q].start = proc[q].start
          /\ proc'[q].leader => proc[q].leader
    BY <2>1, <2>3 DEF Process
  <2> QED BY <2>1, <2>3, <2>4
<1> QED BY <1>2, <1>3 DEF Reap

\* What a reap does to the file and the history.
LEMMA ReapFile ==
  ASSUME NEW i \in Instances, NEW s \in Services, Reap(i, s)
  PROVE  Forget(s) \/ Leave(s)
BY DEF Reap, Forget

\* Every step of the launch, the tasks and the system keeps the types.
LEMMA TypeStep == TypeOK /\ [Next]_vars => TypeOK'
<1> SUFFICES ASSUME TypeOK, [Next]_vars PROVE TypeOK'
  OBVIOUS
<1> USE OrphanAssumption, NoRecordsType
<1>1. ASSUME NEW i \in Instances, TakeLock(i) PROVE TypeOK'
  BY <1>1 DEF TypeOK, TakeLock
<1>2. ASSUME NEW i \in Instances, ListRecords(i) PROVE TypeOK'
  <2>1. todo' \in [Instances -> Records] /\ file' \in Records
    BY <1>2, LoadedType DEF TypeOK, ListRecords
  <2>2. stale' \in BOOLEAN /\ left' \in SUBSET Services
    BY <1>2 DEF TypeOK, ListRecords
  <2> QED BY <1>2, <2>1, <2>2 DEF TypeOK, ListRecords
<1>3. ASSUME NEW i \in Instances, BecomeReady(i) PROVE TypeOK'
  BY <1>3 DEF TypeOK, BecomeReady
<1>4. ASSUME NEW i \in Instances, Crash(i) PROVE TypeOK'
  <2>1. NoRecords \in [Services -> Child \union {None}]
    BY DEF NoRecords
  <2> QED BY <1>4, <2>1 DEF TypeOK, Crash
<1>5. ASSUME NEW i \in Instances, NEW s \in Services, Reap(i, s) PROVE TypeOK'
  <2>1. todo' \in [Instances -> Records] /\ UNCHANGED <<lock, phase, mine>>
    BY <1>5 DEF TypeOK, Reap, Records
  <2>2. proc' \in [Pids -> Process \union {None}]
    BY <1>5, ReapProc
  <2>3. file' \in Records /\ stale' \in BOOLEAN /\ left' \in SUBSET Services
    BY <1>5, ReapFile, ForgetType DEF TypeOK, Leave
  <2> QED BY <2>1, <2>2, <2>3 DEF TypeOK
<1>6. ASSUME NEW i \in Instances, NEW s \in Services, RecordRunning(i, s)
      PROVE  TypeOK'
  <2>1. mine' \in [Instances -> [Services -> Child \union {None}]]
    BY <1>6 DEF TypeOK, RecordRunning, Child
  <2>2. file' \in Records /\ stale' \in BOOLEAN /\ left' \in SUBSET Services
    <3>1. mine[i][s].pid \in Pids
      BY <1>6 DEF TypeOK, RecordRunning, Child
    <3>2. LeaderAlive(mine[i][s].pid) => proc[mine[i][s].pid].start \in Starts
      BY <3>1 DEF TypeOK, LeaderAlive, Process
    <3>3. CASE UNCHANGED <<file, stale, left>>
      BY <3>3 DEF TypeOK
    <3>4. CASE /\ LeaderAlive(mine[i][s].pid)
               /\ file' = [Loaded EXCEPT ![s] =
                    [pid |-> mine[i][s].pid, start |-> proc[mine[i][s].pid].start]]
               /\ stale' = FALSE
               /\ left' = left \ {s}
      <4>1. [pid |-> mine[i][s].pid, start |-> proc[mine[i][s].pid].start] \in Record
        BY <3>1, <3>2, <3>4 DEF Record
      <4> QED BY <3>4, <4>1, LoadedType DEF TypeOK, Records
    <3> QED BY <1>6, <3>3, <3>4 DEF RecordRunning
  <2> QED BY <1>6, <2>1, <2>2 DEF TypeOK, RecordRunning
<1>7. ASSUME NEW i \in Instances, NEW s \in Services, ChildWaited(i, s)
      PROVE  TypeOK'
  BY <1>7 DEF TypeOK, ChildWaited, Child
<1>8. ASSUME NEW i \in Instances, NEW s \in Services, FinishRun(i, s)
      PROVE  TypeOK'
  <2>1. file' \in Records /\ stale' \in BOOLEAN /\ left' \in SUBSET Services
    BY <1>8, ForgetType DEF FinishRun
  <2> QED BY <1>8, <2>1 DEF TypeOK, FinishRun
<1>9. ASSUME NEW i \in Instances, NEW s \in Services, NEW p \in Pids,
             NEW t \in Starts, Spawn(i, s, p, t)
      PROVE  TypeOK'
  BY <1>9 DEF TypeOK, Spawn, Child, Process
<1>10. ASSUME NEW p \in Pids, LeaderExits(p) PROVE TypeOK'
  <2>1. proc[p] \in Process
    BY <1>10 DEF TypeOK, LeaderExits, LeaderAlive
  <2>2. [proc[p] EXCEPT !.leader = FALSE] \in Process
    BY <2>1 DEF Process
  <2>3. proc' \in [Pids -> Process \union {None}]
    BY <1>10, <2>2 DEF TypeOK, LeaderExits
  <2> QED BY <1>10, <2>3 DEF TypeOK, LeaderExits
<1>11. ASSUME NEW p \in Pids, GroupEnds(p) PROVE TypeOK'
  BY <1>11 DEF TypeOK, GroupEnds
<1>12. ASSUME NEW p \in Pids, NEW t \in Starts, OtherStarts(p, t) PROVE TypeOK'
  BY <1>12 DEF TypeOK, OtherStarts, Process
<1>13. CASE Reboot
  <2>1. NoRecords \in [Services -> Child \union {None}]
    BY DEF NoRecords
  <2> QED BY <1>13, <2>1 DEF TypeOK, Reboot
<1>14. CASE ClockStep
  BY <1>14 DEF TypeOK, ClockStep
<1>15. CASE UNCHANGED vars
  BY <1>15 DEF TypeOK, vars
<1> QED
  BY <1>1, <1>2, <1>3, <1>4, <1>5, <1>6, <1>7, <1>8, <1>9, <1>10, <1>11,
     <1>12, <1>13, <1>14, <1>15 DEF Next

\* Ties, with the process table as a parameter: rec describes a process of pr
\* only if that process is ours, and a child that has not ended is ours.
Describes(pr, rec) ==
  pr[rec.pid] # None /\ pr[rec.pid].leader /\ pr[rec.pid].start = rec.start
RecordOurs(pr, rec) == rec # None /\ Describes(pr, rec) => pr[rec.pid].ours
ChildOurs(pr, c) ==
  c # None /\ c.stage # "ended" /\ pr[c.pid] # None => pr[c.pid].ours

\* What Ties says of this state.
LEMMA TiesNow ==
  ASSUME Ties
  PROVE  /\ \A i \in Instances : Holder(i) => lock = i
         /\ \A i \in Instances, s \in Services :
              /\ mine[i][s] # None => phase[i] = "ready"
              /\ ChildOurs(proc, mine[i][s])
              /\ RecordOurs(proc, file[s])
              /\ RecordOurs(proc, todo[i][s])
         /\ \A s \in Services : RecordOurs(proc, file[s])
BY DEF Ties, SameProcess, LeaderAlive, Describes, RecordOurs, ChildOurs

\* What has to be shown for Ties to hold in the next state.
LEMMA TiesNext ==
  ASSUME \A i \in Instances : Holder(i)' => lock' = i,
         \A i \in Instances, s \in Services : mine'[i][s] # None => phase'[i] = "ready",
         \A i \in Instances, s \in Services : ChildOurs(proc', mine'[i][s]),
         \A s \in Services : RecordOurs(proc', file'[s]),
         \A i \in Instances, s \in Services : RecordOurs(proc', todo'[i][s])
  PROVE  Ties'
BY DEF Ties, SameProcess, LeaderAlive, Describes, RecordOurs, ChildOurs

\* Steps that leave the launch protocol and the process table alone keep Ties
\* when they add no child and no record.
LEMMA TiesShrink ==
  ASSUME Ties, UNCHANGED <<lock, phase, proc>>,
         \A i \in Instances, s \in Services :
           mine'[i][s] # None =>
             mine[i][s] # None /\ (mine'[i][s] = mine[i][s] \/ mine'[i][s].stage = "ended"),
         \A s \in Services : file'[s] # None => file'[s] = file[s],
         \A i \in Instances, s \in Services :
           todo'[i][s] # None => todo'[i][s] = todo[i][s]
  PROVE  Ties'
<1>1. \A i \in Instances : Holder(i)' => lock' = i
  BY TiesNow DEF Holder
<1>2. \A i \in Instances, s \in Services : mine'[i][s] # None => phase'[i] = "ready"
  BY TiesNow
<1>3. \A i \in Instances, s \in Services : ChildOurs(proc', mine'[i][s])
  BY TiesNow DEF ChildOurs
<1>4. \A s \in Services : RecordOurs(proc', file'[s])
  BY TiesNow DEF RecordOurs
<1>5. \A i \in Instances, s \in Services : RecordOurs(proc', todo'[i][s])
  BY TiesNow DEF RecordOurs
<1> QED BY <1>1, <1>2, <1>3, <1>4, <1>5, TiesNext

\* Steps that only end processes, or leave their group without a leader, keep
\* Ties when they add no record.
LEMMA TiesEnd ==
  ASSUME TypeOK, Ties, UNCHANGED <<lock, phase, mine>>,
         \A p \in Pids : proc'[p] # None =>
           /\ proc[p] # None
           /\ proc'[p].ours = proc[p].ours /\ proc'[p].start = proc[p].start
           /\ proc'[p].leader => proc[p].leader,
         \A s \in Services : file'[s] # None => file'[s] = file[s],
         \A i \in Instances, s \in Services :
           todo'[i][s] # None => todo'[i][s] = todo[i][s]
  PROVE  Ties'
<1>1. \A i \in Instances : Holder(i)' => lock' = i
  BY TiesNow DEF Holder
<1>2. \A i \in Instances, s \in Services : mine'[i][s] # None => phase'[i] = "ready"
  BY TiesNow
<1>3. \A i \in Instances, s \in Services : ChildOurs(proc', mine'[i][s])
  <2>1. \A i \in Instances, s \in Services :
          mine[i][s] # None => mine[i][s].pid \in Pids
    BY DEF TypeOK, Child
  <2> QED BY <2>1, TiesNow DEF ChildOurs
<1>4. \A rec \in Record : RecordOurs(proc, rec) => RecordOurs(proc', rec)
  BY DEF RecordOurs, Describes, Record
<1>5. \A i \in Instances, s \in Services :
        /\ file[s] \in Record \union {None}
        /\ todo[i][s] \in Record \union {None}
  BY DEF TypeOK, Records
<1>6. \A s \in Services : file[s] \in Record \union {None}
  BY DEF TypeOK, Records
<1>7. \A s \in Services : RecordOurs(proc', file'[s])
  BY <1>4, <1>6, TiesNow DEF RecordOurs
<1>8. \A i \in Instances, s \in Services : RecordOurs(proc', todo'[i][s])
  BY <1>4, <1>5, TiesNow DEF RecordOurs
<1> QED BY <1>1, <1>2, <1>3, <1>7, <1>8, TiesNext

\* A free pid given to a process with a fresh start time keeps every record
\* and every child that was ours ours.
LEMMA TiesBirth ==
  ASSUME TypeOK, Ties, NEW p \in Pids, NEW t \in Starts,
         Free(p), FreshStart(p, t),
         proc'[p].start = t, \A q \in Pids \ {p} : proc'[q] = proc[q]
  PROVE  /\ \A s \in Services : RecordOurs(proc', file[s])
         /\ \A i \in Instances, s \in Services :
              RecordOurs(proc', todo[i][s]) /\ ChildOurs(proc', mine[i][s])
<1>1. \A rec \in Record : rec # [pid |-> p, start |-> t] /\ RecordOurs(proc, rec)
        => RecordOurs(proc', rec)
  BY DEF RecordOurs, Describes, Record
<1>2. \A s \in Services :
        file[s] \in Record \union {None} /\ file[s] # [pid |-> p, start |-> t]
  BY DEF TypeOK, Records, FreshStart
<1>3. \A i \in Instances, s \in Services :
        /\ todo[i][s] \in Record \union {None}
        /\ todo[i][s] # [pid |-> p, start |-> t]
  BY DEF TypeOK, Records, FreshStart
<1>4. \A s \in Services : RecordOurs(proc', file[s])
  BY <1>1, <1>2, TiesNow DEF RecordOurs
<1>5. \A i \in Instances, s \in Services : RecordOurs(proc', todo[i][s])
  BY <1>1, <1>3, TiesNow DEF RecordOurs
<1>6. \A i \in Instances, s \in Services :
        mine[i][s] # None /\ mine[i][s].stage # "ended"
          => mine[i][s].pid \in Pids \ {p}
  BY DEF TypeOK, Child, Free, Held
<1>7. \A i \in Instances, s \in Services : ChildOurs(proc', mine[i][s])
  BY <1>6, TiesNow DEF ChildOurs
<1> QED BY <1>4, <1>5, <1>7

\* Every step of the launch, the tasks and the system keeps Ties.
LEMMA TiesStep == IInv /\ [Next]_vars => Ties'
<1> SUFFICES ASSUME IInv, [Next]_vars PROVE Ties'
  OBVIOUS
<1> USE OrphanAssumption
<1>0. TypeOK /\ Ties
  BY DEF IInv
<1>1. ASSUME NEW i \in Instances, TakeLock(i) PROVE Ties'
  <2>1. UNCHANGED <<todo, mine, file, proc>>
    BY <1>1 DEF TakeLock
  <2>2. \A j \in Instances : Holder(j)' => lock' = j
    BY <1>0, <1>1, TiesNow DEF TypeOK, TakeLock, LockIsFree, Holder
  <2>3. \A j \in Instances : phase[j] = "ready" => phase'[j] = "ready"
    BY <1>0, <1>1 DEF TypeOK, TakeLock
  <2> QED BY <1>0, <2>1, <2>2, <2>3, TiesNow, TiesNext
<1>2. ASSUME NEW i \in Instances, ListRecords(i) PROVE Ties'
  <2>1. \A q \in Services : file'[q] # None => file'[q] = file[q]
    BY <1>0, <1>2, LoadedType DEF ListRecords
  <2>2. \A j \in Instances, q \in Services :
          todo'[j][q] # None => todo'[j][q] \in {todo[j][q], file[q]}
    BY <1>0, <1>2, LoadedType DEF ListRecords, TypeOK
  <2>3. \A j \in Instances : Holder(j)' => lock' = j
    BY <1>0, <1>2, TiesNow DEF ListRecords, TypeOK, Holder
  <2>4. \A j \in Instances : phase[j] = "ready" => phase'[j] = "ready"
    BY <1>0, <1>2 DEF ListRecords, TypeOK
  <2>5. UNCHANGED <<mine, proc>>
    BY <1>2 DEF ListRecords
  <2>6. \A q \in Services : RecordOurs(proc', file'[q])
    BY <1>0, <2>1, <2>5, TiesNow DEF RecordOurs
  <2>7. \A j \in Instances, q \in Services : RecordOurs(proc', todo'[j][q])
    BY <1>0, <2>2, <2>5, TiesNow DEF RecordOurs
  <2> QED BY <1>0, <2>3, <2>4, <2>5, <2>6, <2>7, TiesNow, TiesNext
<1>3. ASSUME NEW i \in Instances, BecomeReady(i) PROVE Ties'
  <2>1. UNCHANGED <<todo, mine, file, proc>>
    BY <1>3 DEF BecomeReady
  <2>2. \A j \in Instances : Holder(j)' => lock' = j
    BY <1>0, <1>3, TiesNow DEF TypeOK, BecomeReady, ReapIsOver, Holder
  <2>3. \A j \in Instances : phase[j] = "ready" => phase'[j] = "ready"
    BY <1>0, <1>3 DEF TypeOK, BecomeReady
  <2> QED BY <1>0, <2>1, <2>2, <2>3, TiesNow, TiesNext
<1>4. ASSUME NEW i \in Instances, Crash(i) PROVE Ties'
  <2>1. UNCHANGED <<file, proc>>
    BY <1>4 DEF Crash
  <2>2. \A j \in Instances, q \in Services :
          /\ mine'[j][q] # None => j # i /\ mine'[j][q] = mine[j][q]
          /\ todo'[j][q] # None => todo'[j][q] = todo[j][q]
    BY <1>0, <1>4 DEF TypeOK, Crash, NoRecords
  <2>3. \A j \in Instances : Holder(j)' => lock' = j
    BY <1>0, <1>4, TiesNow DEF TypeOK, Crash, Holder
  <2>4. \A j \in Instances : j # i => phase'[j] = phase[j]
    BY <1>0, <1>4 DEF TypeOK, Crash
  <2>5. \A j \in Instances, q \in Services : ChildOurs(proc', mine'[j][q])
    BY <1>0, <2>1, <2>2, TiesNow DEF ChildOurs
  <2>6. \A j \in Instances, q \in Services : RecordOurs(proc', todo'[j][q])
    BY <1>0, <2>1, <2>2, TiesNow DEF RecordOurs
  <2>7. \A j \in Instances, q \in Services : mine'[j][q] # None => phase'[j] = "ready"
    BY <1>0, <2>2, <2>4, TiesNow
  <2> QED BY <1>0, <2>1, <2>3, <2>5, <2>6, <2>7, TiesNow, TiesNext
<1>5. ASSUME NEW i \in Instances, NEW s \in Services, Reap(i, s) PROVE Ties'
  <2>1. \A q \in Services : file'[q] # None => file'[q] = file[q]
    BY <1>0, <1>5, ReapFile, ForgetShrinks DEF Leave
  <2>2. \A p \in Pids : proc'[p] # None =>
          /\ proc[p] # None
          /\ proc'[p].ours = proc[p].ours /\ proc'[p].start = proc[p].start
          /\ proc'[p].leader => proc[p].leader
    BY <1>0, <1>5, ReapProc
  <2>3. \A j \in Instances, q \in Services :
          todo'[j][q] # None => todo'[j][q] = todo[j][q]
    BY <1>0, <1>5 DEF TypeOK, Reap, Records
  <2>4. UNCHANGED <<lock, phase, mine>>
    BY <1>5 DEF Reap
  <2> QED BY <1>0, <2>1, <2>2, <2>3, <2>4, TiesEnd
<1>6. ASSUME NEW i \in Instances, NEW s \in Services, RecordRunning(i, s)
      PROVE  Ties'
  <2> DEFINE p == mine[i][s].pid
  <2>1. /\ mine[i][s] \in Child /\ mine[i][s].stage = "spawned"
        /\ mine'[i][s].pid = p /\ mine'[i][s].stage = "recorded"
        /\ \A j \in Instances, q \in Services :
             j # i \/ q # s => mine'[j][q] = mine[j][q]
    <3>1. Moves(i, s, "recorded")
      BY <1>6 DEF RecordRunning, Moves
    <3>2. /\ mine[i][s] # None
          /\ mine[i][s].stage = "spawned"
      BY <1>6 DEF RecordRunning
    <3> QED BY <1>0, <3>1, <3>2, StageMoves, OrphanAssumption
  <2>2. UNCHANGED <<lock, phase, todo, proc>>
    BY <1>6 DEF RecordRunning
  <2>3. ChildOurs(proc, mine[i][s]) /\ mine[i][s] # None
    BY <1>0, <1>6, TiesNow DEF RecordRunning
  <2>4. proc[p] # None => proc[p].ours
    BY <2>1, <2>3 DEF ChildOurs
  <2>5. mine'[i][s].pid = p
    BY <2>1
  <2>6. ChildOurs(proc', mine'[i][s])
    BY <2>2, <2>4, <2>5 DEF ChildOurs
  <2>7. \A q \in Services : RecordOurs(proc', file'[q])
    <3>1. CASE UNCHANGED file
      BY <1>0, <2>2, <3>1, TiesNow
    <3>2. CASE /\ LeaderAlive(p)
               /\ file' = [Loaded EXCEPT ![s] = [pid |-> p, start |-> proc[p].start]]
      <4>1. RecordOurs(proc', [pid |-> p, start |-> proc[p].start])
        BY <2>2, <2>4, <3>2 DEF RecordOurs, LeaderAlive
      <4>2. file'[s] = [pid |-> p, start |-> proc[p].start]
        BY <1>0, <3>2, LoadedType DEF Records
      <4>3. \A q \in Services \ {s} : file'[q] # None => file'[q] = file[q]
        BY <1>0, <3>2, LoadedType DEF Records
      <4>4. \A q \in Services \ {s} : RecordOurs(proc', file'[q])
        BY <1>0, <2>2, <4>3, TiesNow DEF RecordOurs
      <4> QED BY <4>1, <4>2, <4>4
    <3> QED BY <1>6, <3>1, <3>2 DEF RecordRunning
  <2>8. \A j \in Instances, q \in Services : ChildOurs(proc', mine'[j][q])
    BY <1>0, <2>1, <2>2, <2>6, TiesNow
  <2>9. \A j \in Instances, q \in Services : mine'[j][q] # None => phase'[j] = "ready"
    BY <1>0, <2>1, <2>2, <2>3, TiesNow
  <2>10. \A j \in Instances : Holder(j)' => lock' = j
    BY <1>0, <2>2, TiesNow DEF Holder
  <2> QED BY <1>0, <2>2, <2>7, <2>8, <2>9, <2>10, TiesNow, TiesNext
<1>7. ASSUME NEW i \in Instances, NEW s \in Services, ChildWaited(i, s)
      PROVE  Ties'
  <2>1. /\ mine[i][s] # None /\ mine'[i][s].stage = "ended"
        /\ \A j \in Instances, q \in Services :
             j # i \/ q # s => mine'[j][q] = mine[j][q]
    <3>1. Moves(i, s, "ended")
      BY <1>7 DEF ChildWaited, Moves
    <3>2. /\ mine[i][s] # None
          /\ ~LeaderAlive(mine[i][s].pid)
      BY <1>7 DEF ChildWaited
    <3> QED BY <1>0, <3>1, <3>2, StageMoves, OrphanAssumption
  <2>2. mine'[i][s].stage = "ended"
    BY <2>1 DEF Child
  <2>3. UNCHANGED <<lock, phase, todo, file, proc>>
    BY <1>7 DEF ChildWaited
  <2>4. \A j \in Instances, q \in Services : mine'[j][q] # None =>
          /\ mine[j][q] # None
          /\ mine'[j][q] = mine[j][q] \/ mine'[j][q].stage = "ended"
    BY <2>1, <2>2
  <2> QED BY <1>0, <2>3, <2>4, TiesShrink
<1>8. ASSUME NEW i \in Instances, NEW s \in Services, FinishRun(i, s)
      PROVE  Ties'
  <2>1. \A q \in Services : file'[q] # None => file'[q] = file[q]
    BY <1>0, <1>8, ForgetShrinks DEF FinishRun
  <2>2. \A j \in Instances, q \in Services :
          mine'[j][q] # None => mine'[j][q] = mine[j][q]
    BY <1>0, <1>8 DEF TypeOK, FinishRun
  <2>3. UNCHANGED <<lock, phase, todo, proc>>
    BY <1>8 DEF FinishRun
  <2> QED BY <1>0, <2>1, <2>2, <2>3, TiesShrink
<1>9. ASSUME NEW i \in Instances, NEW s \in Services, NEW p \in Pids,
             NEW t \in Starts, Spawn(i, s, p, t)
      PROVE  Ties'
  <2>1. /\ Free(p) /\ FreshStart(p, t)
        /\ proc'[p] = [ours |-> TRUE, start |-> t,
                       leader |-> TRUE, spared |-> FALSE]
        /\ \A q \in Pids \ {p} : proc'[q] = proc[q]
    BY <1>0, <1>9 DEF TypeOK, Spawn
  <2>2. /\ mine'[i][s] = [pid |-> p, stage |-> "spawned"]
        /\ phase[i] = "ready"
        /\ \A j \in Instances, q \in Services :
             j # i \/ q # s => mine'[j][q] = mine[j][q]
    BY <1>0, <1>9 DEF TypeOK, Spawn
  <2>3. UNCHANGED <<lock, phase, todo, file>>
    BY <1>9 DEF Spawn
  <2>4. /\ \A q \in Services : RecordOurs(proc', file[q])
        /\ \A j \in Instances, q \in Services :
             RecordOurs(proc', todo[j][q]) /\ ChildOurs(proc', mine[j][q])
    BY <1>0, <2>1, TiesBirth
  <2>5. ChildOurs(proc', mine'[i][s])
    BY <2>1, <2>2 DEF ChildOurs
  <2>6. \A j \in Instances, q \in Services :
          ChildOurs(proc', mine'[j][q]) /\ (mine'[j][q] # None => phase'[j] = "ready")
    BY <1>0, <2>2, <2>3, <2>4, <2>5, TiesNow
  <2>7. \A j \in Instances : Holder(j)' => lock' = j
    BY <1>0, <2>3, TiesNow DEF Holder
  <2> QED BY <2>3, <2>4, <2>6, <2>7, TiesNext
<1>10. ASSUME NEW p \in Pids, LeaderExits(p) PROVE Ties'
  <2>1. proc[p] \in Process
    BY <1>0, <1>10 DEF TypeOK, LeaderExits, LeaderAlive
  <2>2. \A q \in Pids : proc'[q] # None =>
          /\ proc[q] # None
          /\ proc'[q].ours = proc[q].ours /\ proc'[q].start = proc[q].start
          /\ proc'[q].leader => proc[q].leader
    BY <1>0, <1>10, <2>1 DEF TypeOK, LeaderExits, LeaderAlive, Process
  <2>3. UNCHANGED <<lock, phase, todo, mine, file>>
    BY <1>10 DEF LeaderExits
  <2> QED BY <1>0, <2>2, <2>3, TiesEnd
<1>11. ASSUME NEW p \in Pids, GroupEnds(p) PROVE Ties'
  <2>1. \A q \in Pids : proc'[q] # None => proc'[q] = proc[q]
    BY <1>0, <1>11 DEF TypeOK, GroupEnds
  <2>2. UNCHANGED <<lock, phase, todo, mine, file>>
    BY <1>11 DEF GroupEnds
  <2> QED BY <1>0, <2>1, <2>2, TiesEnd
<1>12. ASSUME NEW p \in Pids, NEW t \in Starts, OtherStarts(p, t) PROVE Ties'
  <2>1. /\ Free(p) /\ FreshStart(p, t)
        /\ proc'[p].start = t
        /\ \A q \in Pids \ {p} : proc'[q] = proc[q]
    BY <1>0, <1>12 DEF TypeOK, OtherStarts
  <2>2. UNCHANGED <<lock, phase, todo, mine, file>>
    BY <1>12 DEF OtherStarts
  <2>3. \A j \in Instances : Holder(j)' => lock' = j
    BY <1>0, <2>2, TiesNow DEF Holder
  <2> QED BY <1>0, <2>1, <2>2, <2>3, TiesBirth, TiesNow, TiesNext
<1>13. CASE Reboot
  <2>1. \A j \in Instances, q \in Services : mine'[j][q] = None /\ todo'[j][q] = None
    BY <1>13 DEF Reboot, NoRecords
  <2>2. \A q \in Services : RecordOurs(proc', file'[q])
    <3>1. \A q \in Services : file'[q] \in Record \union {None}
      BY <1>0, <1>13 DEF Reboot, TypeOK, Records
    <3> QED BY <1>13, <3>1 DEF Reboot, RecordOurs, Describes, Record
  <2>3. \A j \in Instances : ~Holder(j)'
    BY <1>13 DEF Reboot, Holder
  <2>4. \A j \in Instances, q \in Services :
          ChildOurs(proc', mine'[j][q]) /\ RecordOurs(proc', todo'[j][q])
    BY <2>1 DEF ChildOurs, RecordOurs
  <2> QED BY <2>1, <2>2, <2>3, <2>4, TiesNext
<1>14. CASE ClockStep
  BY <1>0, <1>14, TiesShrink DEF ClockStep
<1>15. CASE UNCHANGED vars
  BY <1>0, <1>15, TiesShrink DEF vars
<1> QED
  BY <1>1, <1>2, <1>3, <1>4, <1>5, <1>6, <1>7, <1>8, <1>9, <1>10, <1>11,
     <1>12, <1>13, <1>14, <1>15 DEF Next

\* A record that describes a live process describes it in the process table.
LEMMA LiveMeans ==
  ASSUME NEW s \in Services
  PROVE  /\ LiveRecord(s) <=> /\ ~stale /\ file[s] # None /\ s \notin left
                              /\ Describes(proc, file[s])
         /\ LiveRecord(s)' <=> /\ ~stale' /\ file'[s] # None /\ s \notin left'
                               /\ Describes(proc', file'[s])
BY DEF LiveRecord, SameProcess, LeaderAlive, Describes

\* A table in which processes only end describes no more than before.
LEMMA EndDescribes ==
  ASSUME \A p \in Pids : proc'[p] # None =>
           /\ proc[p] # None /\ proc'[p].start = proc[p].start
           /\ proc'[p].leader => proc[p].leader,
         NEW rec \in Record, Describes(proc', rec)
  PROVE  Describes(proc, rec)
BY DEF Describes, Record

\* Removing a record, or failing to, makes none describe a live process.
LEMMA ForgetLive ==
  ASSUME TypeOK, NEW s \in Services, Forget(s),
         \A p \in Pids : proc'[p] # None =>
           /\ proc[p] # None /\ proc'[p].start = proc[p].start
           /\ proc'[p].leader => proc[p].leader,
         NEW q \in Services, LiveRecord(q)'
  PROVE  LiveRecord(q) /\ file'[q] = file[q]
<1>1. file'[q] # None /\ ~stale' /\ q \notin left' /\ Describes(proc', file'[q])
  BY LiveMeans
<1>2. file'[q] = file[q]
  BY <1>1, ForgetShrinks
<1>3. ~stale /\ q \notin left
  BY <1>1 DEF Forget, Drop, Loaded, NoRecords, TypeOK, Records
<1>4. file[q] \in Record
  BY <1>1, <1>2 DEF TypeOK, Records
<1>5. Describes(proc, file[q])
  BY <1>1, <1>2, <1>4, EndDescribes
<1> QED BY <1>1, <1>2, <1>3, <1>5, LiveMeans

\* A new process is described by no record: its start time is fresh.
LEMMA BirthLive ==
  ASSUME TypeOK, NEW p \in Pids, NEW t \in Starts, FreshStart(p, t),
         proc'[p].start = t, \A q \in Pids \ {p} : proc'[q] = proc[q],
         UNCHANGED <<file, stale, left>>,
         NEW s \in Services, LiveRecord(s)'
  PROVE  LiveRecord(s)
<1>1. file[s] # None /\ ~stale /\ s \notin left /\ Describes(proc', file[s])
  BY LiveMeans
<1>2. file[s] \in Record /\ file[s] # [pid |-> p, start |-> t]
  BY <1>1 DEF TypeOK, Records, FreshStart
<1>3. file[s].pid # p
  BY <1>1, <1>2 DEF Describes, Record
<1>4. Describes(proc, file[s])
  BY <1>1, <1>2, <1>3 DEF Describes, Record
<1> QED BY <1>1, <1>4, LiveMeans

\* What has to be shown for Accounts to hold in the next state, of the records
\* a step lets live.
LEMMA AccountsNext ==
  ASSUME TypeOK, Accounts,
         \A s \in Services : LiveRecord(s)' => LiveRecord(s) /\ file'[s] = file[s],
         \A j \in Instances, s \in Services : LiveRecord(s)' =>
           /\ phase'[j] = "reaping" =>
                phase[j] = "reaping" /\ todo'[j][s] = todo[j][s]
           /\ phase'[j] = "ready" =>
                phase[j] = "ready" /\ mine'[j][s] = mine[j][s]
  PROVE  Accounts'
BY DEF Accounts

\* Every step of the launch, the tasks and the system keeps Accounts.
LEMMA AccountsStep == IInv /\ [Next]_vars => Accounts'
<1> SUFFICES ASSUME IInv, [Next]_vars PROVE Accounts'
  OBVIOUS
<1> USE OrphanAssumption
<1>0. TypeOK /\ Ties /\ Accounts
  BY DEF IInv
<1>a. ASSUME UNCHANGED <<file, stale, left>>,
             \A p \in Pids : proc'[p] # None =>
               /\ proc[p] # None /\ proc'[p].start = proc[p].start
               /\ proc'[p].leader => proc[p].leader
      PROVE  \A s \in Services : LiveRecord(s)' => LiveRecord(s) /\ file'[s] = file[s]
  <2> SUFFICES ASSUME NEW s \in Services, LiveRecord(s)'
               PROVE  LiveRecord(s) /\ file'[s] = file[s]
    OBVIOUS
  <2>1. file[s] \in Record
    BY <1>0, <1>a, LiveMeans DEF TypeOK, Records
  <2>2. Describes(proc, file[s])
    BY <1>a, <2>1, LiveMeans, EndDescribes
  <2> QED BY <1>a, <2>2, LiveMeans
<1>1. ASSUME NEW i \in Instances, TakeLock(i) PROVE Accounts'
  <2>1. UNCHANGED <<todo, mine, file, stale, proc, left>>
    BY <1>1 DEF TakeLock
  <2>2. \A j \in Instances : phase'[j] \in {"reaping", "ready"} => phase'[j] = phase[j]
    BY <1>0, <1>1 DEF TypeOK, TakeLock
  <2> QED BY <1>0, <1>a, <2>1, <2>2, AccountsNext
<1>2. ASSUME NEW i \in Instances, ListRecords(i) PROVE Accounts'
  <2>1. \A j \in Instances : phase'[j] \in {"reaping", "ready"} => j = i
    BY <1>0, <1>2, TiesNow DEF TypeOK, ListRecords, Holder
  <2>2. phase'[i] = "reaping"
    BY <1>0, <1>2 DEF TypeOK, ListRecords
  <2>3. ASSUME NEW s \in Services, LiveRecord(s)' PROVE todo'[i][s] = file'[s]
    <3>1. CASE todo' = [todo EXCEPT ![i] = Loaded] /\ file' = Loaded
      BY <1>0, <3>1 DEF TypeOK
    <3>2. CASE left' = {q \in Services : file[q] # None} /\ UNCHANGED file
      BY <2>3, <3>2, LiveMeans
    <3> QED BY <1>2, <3>1, <3>2 DEF ListRecords
  <2> QED BY <2>1, <2>2, <2>3 DEF Accounts
<1>3. ASSUME NEW i \in Instances, BecomeReady(i) PROVE Accounts'
  <2>1. \A s \in Services : ~LiveRecord(s)
    BY <1>0, <1>3, LiveMeans DEF Accounts, BecomeReady, ReapIsOver, NoRecords
  <2>2. UNCHANGED <<file, stale, proc, left>>
    BY <1>3 DEF BecomeReady
  <2>3. \A s \in Services : ~LiveRecord(s)'
    BY <2>1, <2>2, LiveMeans
  <2> QED BY <2>3 DEF Accounts
<1>4. ASSUME NEW i \in Instances, Crash(i) PROVE Accounts'
  <2>1. UNCHANGED <<file, stale, proc, left>>
    BY <1>4 DEF Crash
  <2>2. \A j \in Instances : phase'[j] \in {"reaping", "ready"} =>
          phase'[j] = phase[j] /\ todo'[j] = todo[j] /\ mine'[j] = mine[j]
    BY <1>0, <1>4 DEF TypeOK, Crash
  <2> QED BY <1>0, <1>a, <2>1, <2>2, AccountsNext
<1>5. ASSUME NEW i \in Instances, NEW s \in Services, Reap(i, s) PROVE Accounts'
  <2> DEFINE rec == todo[i][s]
  <2>1. rec \in Record /\ phase[i] = "reaping" /\ UNCHANGED <<phase, mine>>
    BY <1>0, <1>5 DEF TypeOK, Records, Reap
  <2>2. \A p \in Pids : proc'[p] # None =>
          /\ proc[p] # None /\ proc'[p].start = proc[p].start
          /\ proc'[p].leader => proc[p].leader
    BY <1>0, <1>5, ReapProc
  <2>3. \A q \in Services : LiveRecord(q)' => LiveRecord(q) /\ file'[q] = file[q]
    <3>1. CASE Leave(s)
      <4> SUFFICES ASSUME NEW q \in Services, LiveRecord(q)'
                   PROVE  LiveRecord(q) /\ file'[q] = file[q]
        OBVIOUS
      <4>1. UNCHANGED <<file, stale>> /\ q \notin left /\ file[q] # None /\ ~stale
        BY <3>1, LiveMeans DEF Leave
      <4>2. file[q] \in Record
        BY <1>0, <4>1 DEF TypeOK, Records
      <4>3. Describes(proc, file[q])
        BY <2>2, <4>1, <4>2, LiveMeans, EndDescribes
      <4> QED BY <4>1, <4>3, LiveMeans
    <3>2. CASE Forget(s)
      BY <1>0, <2>2, <3>2, ForgetLive
    <3> QED BY <1>5, <3>1, <3>2, ReapFile
  <2>4. ~LiveRecord(s)'
    <3>1. CASE Leave(s)
      BY <3>1, LiveMeans DEF Leave
    <3>2. CASE ~SameProcess(rec)
      <4>1. LiveRecord(s) => file[s] = rec
        BY <1>0, <2>1 DEF Accounts
      <4>2. LiveRecord(s) => SameProcess(file[s])
        BY DEF LiveRecord
      <4> QED BY <2>3, <3>2, <4>1, <4>2
    <3>3. CASE SameProcess(rec) /\ Kill(rec.pid)
      <4>1. LiveRecord(s)' => file'[s] = rec
        BY <1>0, <2>1, <2>3 DEF Accounts
      <4>2. proc'[rec.pid] = None \/ ~proc'[rec.pid].leader
        <5>1. rec.pid \in Pids /\ proc[rec.pid] \in Process
          BY <1>0, <2>1, <3>3 DEF TypeOK, Record, SameProcess, LeaderAlive
        <5> QED BY <1>0, <3>3, <5>1 DEF TypeOK, Kill, Process
      <4> QED BY <4>1, <4>2, LiveMeans DEF Describes
    <3>4. CASE Drop(s)
      <4>1. file'[s] = None
        BY <1>0, <3>4, LoadedType DEF Drop, Records
      <4> QED BY <4>1, LiveMeans
    <3> QED BY <1>5, <3>1, <3>2, <3>3, <3>4 DEF Reap
  <2>5. \A j \in Instances, q \in Services : q # s => todo'[j][q] = todo[j][q]
    BY <1>0, <1>5 DEF TypeOK, Reap, Records
  <2> QED BY <1>0, <2>1, <2>3, <2>4, <2>5, AccountsNext
<1>6. ASSUME NEW i \in Instances, NEW s \in Services, RecordRunning(i, s)
      PROVE  Accounts'
  <2>1. /\ mine[i][s].stage = "spawned" /\ mine[i][s] # None /\ mine'[i][s] # None
        /\ mine'[i][s].pid = mine[i][s].pid /\ mine'[i][s].stage = "recorded"
        /\ \A j \in Instances, q \in Services :
             j # i \/ q # s => mine'[j][q] = mine[j][q]
    <3>1. Moves(i, s, "recorded")
      BY <1>6 DEF RecordRunning, Moves
    <3>2. /\ mine[i][s] # None
          /\ mine[i][s].stage = "spawned"
      BY <1>6 DEF RecordRunning
    <3> QED BY <1>0, <3>1, <3>2, StageMoves, OrphanAssumption
  <2>2. /\ mine'[i][s] # None /\ mine'[i][s].pid = mine[i][s].pid
        /\ mine'[i][s].stage # "ended" /\ mine[i][s].stage # "ended"
    BY <1>6, <2>1 DEF Child, RecordRunning
  <2>3. UNCHANGED <<phase, todo, proc>>
    BY <1>6 DEF RecordRunning
  <2>4. \A j \in Instances : phase[j] \in {"reaping", "ready"} => j = i /\ phase[j] = "ready"
    BY <1>0, <2>1, TiesNow DEF Holder
  <2>5. ASSUME NEW q \in Services \ {s}, LiveRecord(q)'
        PROVE  LiveRecord(q) /\ file'[q] = file[q]
    <3>1. CASE UNCHANGED <<file, stale, left>>
      BY <2>3, <2>5, <3>1, LiveMeans
    <3>2. CASE /\ file' = [Loaded EXCEPT ![s] =
                    [pid |-> mine[i][s].pid, start |-> proc[mine[i][s].pid].start]]
               /\ stale' = FALSE /\ left' = left \ {s}
      <4>1. file'[q] = Loaded[q]
        BY <1>0, <3>2, LoadedType DEF Records
      <4>2. ~stale /\ file'[q] = file[q]
        BY <2>5, <4>1, LiveMeans DEF Loaded, NoRecords
      <4> QED BY <2>3, <2>5, <3>2, <4>2, LiveMeans
    <3> QED BY <1>6, <3>1, <3>2 DEF RecordRunning
  <2>6. ASSUME LiveRecord(s)' PROVE mine'[i][s].pid = file'[s].pid
    <3>1. CASE UNCHANGED <<file, stale, left>>
      BY <1>0, <2>1, <2>2, <2>3, <2>6, <3>1, LiveMeans, TiesNow DEF Accounts
    <3>2. CASE file' = [Loaded EXCEPT ![s] =
                 [pid |-> mine[i][s].pid, start |-> proc[mine[i][s].pid].start]]
      BY <1>0, <2>2, <3>2, LoadedType DEF Records
    <3> QED BY <1>6, <3>1, <3>2 DEF RecordRunning
  <2>7. ASSUME NEW q \in Services \ {s}, LiveRecord(q)'
        PROVE  /\ mine'[i][q] # None /\ mine'[i][q].pid = file'[q].pid
               /\ mine'[i][q].stage # "ended"
    BY <1>0, <2>1, <2>5, <2>7, TiesNow DEF Accounts
  <2> QED BY <2>2, <2>3, <2>4, <2>6, <2>7 DEF Accounts
<1>7. ASSUME NEW i \in Instances, NEW s \in Services, ChildWaited(i, s)
      PROVE  Accounts'
  <2>1. /\ mine[i][s] # None /\ ~LeaderAlive(mine[i][s].pid)
        /\ \A j \in Instances, q \in Services :
             j # i \/ q # s => mine'[j][q] = mine[j][q]
    <3>1. Moves(i, s, "ended")
      BY <1>7 DEF ChildWaited, Moves
    <3>2. /\ mine[i][s] # None
          /\ ~LeaderAlive(mine[i][s].pid)
      BY <1>7 DEF ChildWaited
    <3> QED BY <1>0, <3>1, <3>2, StageMoves, OrphanAssumption
  <2>2. UNCHANGED <<phase, todo, file, stale, proc, left>>
    BY <1>7 DEF ChildWaited
  <2>3. ~LiveRecord(s)
    BY <1>0, <2>1, TiesNow DEF Accounts, LiveRecord, SameProcess
  <2>4. \A q \in Services : LiveRecord(q)' => q # s /\ LiveRecord(q)
    BY <2>2, <2>3, LiveMeans
  <2> QED BY <1>0, <2>1, <2>2, <2>4, AccountsNext
<1>8. ASSUME NEW i \in Instances, NEW s \in Services, FinishRun(i, s)
      PROVE  Accounts'
  <2>1. /\ mine[i][s] # None /\ mine[i][s].stage = "ended" /\ Forget(s)
        /\ \A j \in Instances, q \in Services :
             j # i \/ q # s => mine'[j][q] = mine[j][q]
    BY <1>0, <1>8 DEF TypeOK, FinishRun
  <2>2. UNCHANGED <<phase, todo, proc>>
    BY <1>8 DEF FinishRun
  <2>3. ~LiveRecord(s)
    BY <1>0, <2>1, TiesNow DEF Accounts
  <2>4. \A q \in Services : LiveRecord(q)' => LiveRecord(q) /\ file'[q] = file[q]
    BY <1>0, <2>1, <2>2, ForgetLive
  <2> QED BY <1>0, <2>1, <2>2, <2>3, <2>4, AccountsNext
<1>9. ASSUME NEW i \in Instances, NEW s \in Services, NEW p \in Pids,
             NEW t \in Starts, Spawn(i, s, p, t)
      PROVE  Accounts'
  <2>1. /\ FreshStart(p, t) /\ proc'[p].start = t
        /\ \A q \in Pids \ {p} : proc'[q] = proc[q]
        /\ phase[i] = "ready" /\ mine[i][s] = None
        /\ \A j \in Instances, q \in Services :
             j # i \/ q # s => mine'[j][q] = mine[j][q]
    BY <1>0, <1>9 DEF TypeOK, Spawn
  <2>2. UNCHANGED <<phase, todo, file, stale, left>>
    BY <1>9 DEF Spawn
  <2>3. ~LiveRecord(s)
    BY <1>0, <2>1 DEF Accounts
  <2>4. \A q \in Services : LiveRecord(q)' => LiveRecord(q)
    BY <1>0, <2>1, <2>2, BirthLive
  <2> QED BY <1>0, <2>1, <2>2, <2>3, <2>4, AccountsNext
<1>10. ASSUME NEW p \in Pids, LeaderExits(p) PROVE Accounts'
  <2>1. proc[p] \in Process
    BY <1>0, <1>10 DEF TypeOK, LeaderExits, LeaderAlive
  <2>2. \A q \in Pids : proc'[q] # None =>
          /\ proc[q] # None /\ proc'[q].start = proc[q].start
          /\ proc'[q].leader => proc[q].leader
    BY <1>0, <1>10, <2>1 DEF TypeOK, LeaderExits, LeaderAlive, Process
  <2>3. UNCHANGED <<phase, todo, mine, file, stale, left>>
    BY <1>10 DEF LeaderExits
  <2> QED BY <1>0, <1>a, <2>2, <2>3, AccountsNext
<1>11. ASSUME NEW p \in Pids, GroupEnds(p) PROVE Accounts'
  <2>1. \A q \in Pids : proc'[q] # None => proc'[q] = proc[q]
    BY <1>0, <1>11 DEF TypeOK, GroupEnds
  <2>2. UNCHANGED <<phase, todo, mine, file, stale, left>>
    BY <1>11 DEF GroupEnds
  <2> QED BY <1>0, <1>a, <2>1, <2>2, AccountsNext
<1>12. ASSUME NEW p \in Pids, NEW t \in Starts, OtherStarts(p, t) PROVE Accounts'
  <2>1. /\ FreshStart(p, t) /\ proc'[p].start = t
        /\ \A q \in Pids \ {p} : proc'[q] = proc[q]
    BY <1>0, <1>12 DEF TypeOK, OtherStarts
  <2>2. UNCHANGED <<phase, todo, mine, file, stale, left>>
    BY <1>12 DEF OtherStarts
  <2>3. \A q \in Services : LiveRecord(q)' => LiveRecord(q)
    BY <1>0, <2>1, <2>2, BirthLive
  <2> QED BY <1>0, <2>2, <2>3, AccountsNext
<1>13. CASE Reboot
  BY <1>13 DEF Reboot, Accounts
<1>14. CASE ClockStep
  <2>1. \A s \in Services : ~LiveRecord(s)'
    BY <1>14, LiveMeans DEF ClockStep
  <2> QED BY <2>1 DEF Accounts
<1>15. CASE UNCHANGED vars
  BY <1>0, <1>15, <1>a, AccountsNext DEF vars
<1> QED
  BY <1>1, <1>2, <1>3, <1>4, <1>5, <1>6, <1>7, <1>8, <1>9, <1>10, <1>11,
     <1>12, <1>13, <1>14, <1>15 DEF Next

\* The launch protocol and the records are consistent in every reachable state.
THEOREM RecordsConsistent == Spec => []IInv
<1>1. Init => IInv
  <2> SUFFICES ASSUME Init PROVE IInv
    OBVIOUS
  <2>1. TypeOK
    <3>1. /\ lock \in Instances \union {None} /\ file \in Records
          /\ stale \in BOOLEAN /\ left \in SUBSET Services
      BY NoRecordsType DEF Init
    <3>2. phase \in [Instances -> {"off", "retrying", "refused", "locked",
                                  "reaping", "ready"}]
      BY DEF Init
    <3>3. todo \in [Instances -> Records] /\ proc \in [Pids -> Process \union {None}]
      BY NoRecordsType DEF Init
    <3>4. mine \in [Instances -> [Services -> Child \union {None}]]
      <4>1. NoRecords \in [Services -> Child \union {None}]
        BY DEF NoRecords
      <4>2. QED
        BY <4>1 DEF Init
    <3>5. QED
      BY <3>1, <3>2, <3>3, <3>4 DEF TypeOK
  <2>2. Ties
    BY OrphanAssumption, NoRecordsType DEF Init, Ties, Holder, LiveRecord, NoRecords, Records
  <2>3. Accounts
    BY OrphanAssumption, NoRecordsType DEF Init, Accounts, LiveRecord, NoRecords, Records
  <2> QED BY <2>1, <2>2, <2>3 DEF IInv
<1>2. IInv /\ [Next]_vars => IInv'
  BY TypeStep, TiesStep, AccountsStep DEF IInv
<1> QED
  BY <1>1, <1>2, PTL DEF Spec

\* One step from a consistent state signals nothing but orphans.
LEMMA ReapStep ==
  ASSUME IInv, [Next]_vars,
         NEW p \in Pids, proc'[p] # proc[p],
         NEW i \in Instances, phase[i] = "reaping", todo'[i] # todo[i],
         phase'[i] = "reaping"
  PROVE  Orphan(p)
<1> USE OrphanAssumption
<1>1. TypeOK /\ Ties
  BY DEF IInv
<1>2. PICK j \in Instances, s \in Services : Reap(j, s)
  BY <1>1 DEF Next, vars, TypeOK, TakeLock, ListRecords, BecomeReady, Crash,
              RecordRunning, ChildWaited, FinishRun, Spawn, LeaderExits,
              GroupEnds, OtherStarts, Reboot, ClockStep
<1>3. todo[j][s] # None /\ SameProcess(todo[j][s]) /\ p = todo[j][s].pid
  <2>1. p = todo[j][s].pid
    BY <1>1, <1>2, ReapProc
  <2>2. todo[j][s] # None /\ (UNCHANGED proc \/ SameProcess(todo[j][s]))
    BY <1>2 DEF Reap
  <2> QED BY <2>1, <2>2
<1>4. proc[p] # None /\ proc[p].ours
  BY <1>1, <1>3 DEF Ties, SameProcess, LeaderAlive
<1>5. ~Held(p)
  BY <1>1, <1>2 DEF Held, Ties, Reap, Holder
<1> QED
  BY <1>4, <1>5 DEF Orphan

\* A reap never signals anything but an orphan, for any number of instances,
\* services and pids, whatever crashes and pid reuse precede it.
THEOREM OnlyOrphansAreReaped == Spec => ReapsOnlyOrphans
<1>1. IInv /\ [Next]_vars =>
        [\A p \in Pids : proc'[p] # proc[p]
           /\ (\E i \in Instances : phase[i] = "reaping" /\ todo'[i] # todo[i]
                                      /\ phase'[i] = "reaping")
           => Orphan(p)]_vars
  BY ReapStep
<1> QED
  BY <1>1, RecordsConsistent, PTL DEF Spec, ReapsOnlyOrphans

\* A running instance answers for every record that still describes a live
\* process, except those its launch had to leave behind, unread or with neither
\* the kill nor the removal of the record successful: for any number of services
\* and any crashes, reboots, refused kills and reused pids before it.
THEOREM ReadyHasReaped == Spec => []RecordsAreOurs
<1>1. IInv => RecordsAreOurs
  BY DEF IInv, Accounts, RecordsAreOurs
<1> QED
  BY <1>1, RecordsConsistent, PTL

\* One step from a consistent state gives up the record of a live orphan only
\* once it has been sent its signal.
LEMMA OrphanStep ==
  ASSUME IInv, [Next]_vars, NEW s \in Services,
         LiveRecord(s), Orphan(file[s].pid), file'[s] # file[s]
  PROVE  \/ proc'[file[s].pid] = None
         \/ ~proc'[file[s].pid].leader
         \/ proc'[file[s].pid].spared
<1> USE OrphanAssumption
<1>1. TypeOK /\ Ties /\ Accounts
  BY DEF IInv
<1>2. /\ ~stale /\ Loaded = file /\ file[s] \in Record /\ SameProcess(file[s])
      /\ ~Held(file[s].pid)
  BY <1>1 DEF LiveRecord, Loaded, TypeOK, Records, Orphan
<1>3. ~\E i \in Instances : mine[i][s] # None /\ phase[i] = "ready"
  BY <1>1, <1>2 DEF Accounts, Held
<1>4. ASSUME NEW i \in Instances, NEW q \in Services, Reap(i, q)
      PROVE  \/ proc'[file[s].pid] = None
             \/ ~proc'[file[s].pid].leader
             \/ proc'[file[s].pid].spared
  <2>1. q = s
    BY <1>1, <1>2, <1>4, ReapFile DEF Leave, Forget, Drop, TypeOK, Records
  <2>2. todo[i][s] = file[s]
    BY <1>1, <1>4, <2>1 DEF Accounts, Reap
  <2>3. Kill(file[s].pid) \/ KillFails(file[s].pid)
    BY <1>2, <1>4, <2>1, <2>2 DEF Reap, Leave
  <2>4. file[s].pid \in Pids /\ proc[file[s].pid] \in Process
    BY <1>1, <1>2 DEF TypeOK, Record, SameProcess, LeaderAlive
  <2> QED BY <1>1, <2>3, <2>4 DEF TypeOK, Kill, KillFails, Process
<1>5. ASSUME NEW i \in Instances, NEW q \in Services,
             RecordRunning(i, q) \/ FinishRun(i, q)
      PROVE  FALSE
  <2>1. q = s
    BY <1>1, <1>2, <1>5 DEF RecordRunning, FinishRun, Forget, Drop, TypeOK, Records
  <2> QED BY <1>1, <1>3, <1>5, <2>1, TiesNow DEF RecordRunning, FinishRun
<1> QED
  BY <1>2, <1>4, <1>5 DEF Next, vars, TakeLock, ListRecords, BecomeReady, Crash,
     ChildWaited, Spawn, LeaderExits, GroupEnds, OtherStarts, Reboot, ClockStep

\* The record of a live orphan goes only in a reap that has sent the orphan its
\* signal, whether the system let it through or not; on any doubt, and whatever
\* crashes, exits and pid reuse come in between, it stays for a later launch.
THEOREM OrphansStayRecorded == Spec => OrphanKeepsRecord
<1>1. IInv /\ [Next]_vars =>
        [\A s \in Services :
           LiveRecord(s) /\ Orphan(file[s].pid) /\ file'[s] # file[s]
             => LET p == file[s].pid IN
                  proc'[p] = None \/ ~proc'[p].leader \/ proc'[p].spared]_vars
  BY OrphanStep
<1> QED
  BY <1>1, RecordsConsistent, PTL DEF Spec, OrphanKeepsRecord
=============================================================================
