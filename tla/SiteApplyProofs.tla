---------------------------- MODULE SiteApplyProofs ----------------------------
(***************************************************************************)
(* Proofs about apply_config, for any files, texts, services and number of *)
(* concurrent calls: a failed Apply leaves nothing of its own behind but   *)
(* what it reports, services are only restarted on a complete config set   *)
(* that nginx -t has accepted, and what is reported as restarted serves it.*)
(***************************************************************************)
EXTENDS SiteApply, StopSweepProofs, TLAPS

\* ApplyLock: while one call is past the lock, no other is.
LEMMA OthersWait ==
  ASSUME CommitIInv, NEW a \in Applies, lock = a, NEW b \in Applies, b # a
  PROVE  apply[b].phase \in {"idle", "queued"}
BY DEF CommitIInv, Holding

\* It is enough to look at the holder of the lock.
LEMMA HolderStep ==
  ASSUME CommitIInv, CommitTypeOK', NEW a \in Applies, lock = a,
         \A b \in Applies : b # a => apply'[b] = apply[b],
         lock' = a \/ apply'[a].phase \in {"idle", "queued"},
         (apply[a].phase \in {"restarting", "applied"} => Accepts(disk))',
         \A f \in Files : Standing(a, f)'
  PROVE  CommitIInv'
<1>1. ASSUME NEW b \in Applies, b # a
      PROVE  apply'[b].phase \in {"idle", "queued"}
  BY <1>1, OthersWait
<1>2. ASSUME NEW b \in Applies PROVE Holding(b)'
  BY <1>1, <1>2 DEF Holding
<1>3. ASSUME NEW b \in Applies
      PROVE  (apply[b].phase \in {"restarting", "applied"} => Accepts(disk))'
  BY <1>1, <1>3
<1>4. ASSUME NEW b \in Applies, NEW f \in Files PROVE Standing(b, f)'
  BY <1>1, <1>4 DEF Standing
<1> QED BY <1>2, <1>3, <1>4 DEF CommitIInv

\* A step that leaves the files and the lock alone, and moves the holder on.
LEMMA EnterKeepsType ==
  ASSUME CommitTypeOK, NEW a \in Applies, NEW phase \in Phases,
         NEW todo \in SUBSET Files, Enter(a, phase, todo)
  PROVE  /\ apply' \in [Applies -> Apply]
         /\ apply'[a].phase = phase /\ apply'[a].todo = todo
         /\ apply'[a].before = apply[a].before /\ apply'[a].after = apply[a].after
         /\ apply'[a].stranded = apply[a].stranded
         /\ \A b \in Applies : b # a => apply'[b] = apply[b]
BY DEF CommitTypeOK, Enter, Apply

-----------------------------------------------------------------------------
(* One lemma per step. *)

\* What stands for no call is well formed.
LEMMA IdleIsTyped == Idle \in Apply
BY DEF Idle, Apply, Phases, Nowhere, Config

\* An edit of the store keeps the invariant of the calls.
LEMMA EditKeeps ==
  ASSUME CommitIInv, NEW f \in Files, NEW text, Edit(f, text)
  PROVE  CommitIInv'
<1>1. db' \in Rendered
  <2>1. db \in Config /\ \A g \in Always : db[g] # Absent
    BY DEF CommitIInv, CommitTypeOK, Rendered
  <2>2. db' = [db EXCEPT ![f] = text] /\ text \in Contents \union {Absent}
    BY DEF Edit
  <2>3. db' \in Config
    BY <2>1, <2>2 DEF Config
  <2>4. ASSUME NEW g \in Always PROVE db'[g] # Absent
    BY <2>1, <2>2, CommitAssumption DEF Edit, Config
  <2> QED BY <2>3, <2>4 DEF Rendered
<1>2. CommitTypeOK'
  BY <1>1 DEF Edit, CommitIInv, CommitTypeOK
<1>3. ASSUME NEW a \in Applies
      PROVE  /\ Holding(a)'
             /\ (apply[a].phase \in {"restarting", "applied"} => Accepts(disk))'
             /\ \A g \in Files : Standing(a, g)'
  BY DEF Edit, CommitIInv, Holding, Accepts, Standing, Between
<1> QED BY <1>2, <1>3 DEF CommitIInv

\* A click on Apply keeps it.
LEMMA ClickKeeps ==
  ASSUME CommitIInv, NEW a \in Applies, Click(a)
  PROVE  CommitIInv'
<1>1. /\ apply' \in [Applies -> Apply] /\ apply'[a].phase = "queued"
      /\ \A b \in Applies : b # a => apply'[b] = apply[b]
  BY EnterKeepsType DEF Click, CommitIInv, Phases
<1> QED BY <1>1 DEF Click, CommitIInv, CommitTypeOK, Holding, Accepts, Standing, Between

\* Taking the lock keeps it.
LEMMA TakeLockKeeps ==
  ASSUME CommitIInv, NEW a \in Applies, TakeLock(a)
  PROVE  CommitIInv'
<1>1. /\ apply' \in [Applies -> Apply] /\ apply'[a].phase = "reading"
      /\ \A b \in Applies : b # a => apply'[b] = apply[b]
  BY EnterKeepsType DEF TakeLock, CommitIInv, Phases
<1>2. CommitTypeOK'
  BY <1>1 DEF TakeLock, CommitIInv, CommitTypeOK
<1>3. ASSUME NEW b \in Applies
      PROVE  /\ Holding(b)'
             /\ (apply[b].phase \in {"restarting", "applied"} => Accepts(disk))'
             /\ \A f \in Files : Standing(b, f)'
  <2>1. CASE b = a
    BY <1>1, <2>1 DEF TakeLock, Holding, Standing
  <2>2. CASE b # a
    <3>1. apply[b].phase \in {"idle", "queued"}
      BY CommitAssumption DEF TakeLock, LockIsFree, CommitIInv, Holding
    <3> QED BY <1>1, <2>2, <3>1 DEF Holding, Standing
  <2> QED BY <2>1, <2>2
<1> QED BY <1>2, <1>3 DEF CommitIInv

\* Reading the store keeps it.
LEMMA ReadKeeps ==
  ASSUME CommitIInv, NEW a \in Applies, NEW f \in Files, Read(a, f)
  PROVE  CommitIInv'
<1>1. db[f] \in Contents \union {Absent}
  BY DEF CommitIInv, CommitTypeOK, Rendered, Config
<1>2. PICK after \in Config, todo \in SUBSET Files :
        apply' = [apply EXCEPT ![a] = [@ EXCEPT !.after = after, !.todo = todo]]
  <2>1. apply[a] \in Apply
    BY DEF CommitIInv, CommitTypeOK
  <2>2. [apply[a].after EXCEPT ![f] = db[f]] \in Config
    BY <1>1, <2>1 DEF Apply, Config
  <2> QED BY <2>1, <2>2 DEF Read, Apply
<1>3. /\ apply' \in [Applies -> Apply] /\ apply'[a].phase = "reading"
      /\ \A b \in Applies : b # a => apply'[b] = apply[b]
  BY <1>2 DEF Read, CommitIInv, CommitTypeOK, Apply
<1>4. lock = a /\ lock' = a
  BY DEF Read, CommitIInv, Holding
<1>5. CommitTypeOK'
  BY <1>3 DEF Read, CommitIInv, CommitTypeOK
<1>6. \A g \in Files : Standing(a, g)'
  BY <1>3 DEF Standing
<1> QED BY <1>3, <1>4, <1>5, <1>6, HolderStep

\* Planning keeps it.
LEMMA PlanKeeps ==
  ASSUME CommitIInv, NEW a \in Applies, Plan(a)
  PROVE  CommitIInv'
<1> DEFINE changes == {f \in Files : disk[f] # apply[a].after[f]}
<1>1. PICK phase \in {"unchanged", "failed", "committing"}, todo \in {changes, {}} :
        /\ apply' = [apply EXCEPT ![a].phase = phase, ![a].todo = todo,
                                  ![a].before = disk]
        /\ phase = "committing" => todo = changes
  <2>1. PICK p \in {"committing", "failed"} :
          apply' = [apply EXCEPT ![a].phase = IF changes = {} THEN "unchanged" ELSE p,
                                 ![a].todo = IF p = "committing" THEN changes ELSE {},
                                 ![a].before = disk]
    BY Zenon DEF Plan
  <2>2. CASE changes = {}
    BY <2>1, <2>2
  <2>3. CASE changes # {}
    BY <2>1, <2>3
  <2> QED BY <2>2, <2>3
<1>2. /\ apply' \in [Applies -> Apply]
      /\ apply'[a].phase = phase /\ apply'[a].todo = todo
      /\ apply'[a].before = disk /\ apply'[a].after = apply[a].after
      /\ \A b \in Applies : b # a => apply'[b] = apply[b]
  <2>1. apply[a] \in Apply /\ changes \in SUBSET Files /\ disk \in Config
    BY DEF CommitIInv, CommitTypeOK
  <2>2. phase \in Phases /\ todo \in SUBSET Files
    BY <2>1 DEF Phases, Ends
  <2>3. [apply[a] EXCEPT !.phase = phase, !.todo = todo, !.before = disk] \in Apply
    BY <2>1, <2>2 DEF Apply
  <2>4. apply' = [apply EXCEPT ![a] = [apply[a] EXCEPT !.phase = phase, !.todo = todo,
                                                       !.before = disk]]
    BY <1>1
  <2>5. /\ apply'[a] = [apply[a] EXCEPT !.phase = phase, !.todo = todo, !.before = disk]
        /\ apply' \in [Applies -> Apply]
        /\ \A b \in Applies : b # a => apply'[b] = apply[b]
    BY <2>3, <2>4 DEF CommitIInv, CommitTypeOK
  <2> QED BY <2>1, <2>5 DEF Apply
<1>3. lock = a /\ lock' = a /\ disk' = disk
  BY DEF Plan, CommitIInv, Holding
<1>4. CommitTypeOK'
  BY <1>2 DEF Plan, CommitIInv, CommitTypeOK
<1>5. ASSUME NEW f \in Files PROVE Standing(a, f)'
  BY <1>1, <1>2, <1>3, <1>5 DEF Standing
<1> QED BY <1>2, <1>3, <1>4, <1>5, HolderStep

\* Writing or removing one file keeps it.
LEMMA CommitKeeps ==
  ASSUME CommitIInv, NEW a \in Applies, NEW f \in Files, Commit(a, f)
  PROVE  CommitIInv'
<1>1. /\ apply' \in [Applies -> Apply] /\ apply'[a].phase = "committing"
      /\ apply'[a].todo = apply[a].todo \ {f}
      /\ apply'[a].before = apply[a].before /\ apply'[a].after = apply[a].after
      /\ \A b \in Applies : b # a => apply'[b] = apply[b]
  <2>1. apply[a].todo \ {f} \in SUBSET Files /\ "committing" \in Phases
    BY DEF CommitIInv, CommitTypeOK, Apply, Phases
  <2> QED BY <2>1, EnterKeepsType DEF Commit, CommitIInv
<1>2. lock = a /\ lock' = a
  BY DEF Commit, CommitIInv, Holding
<1>3. disk' \in Config /\ disk' = [disk EXCEPT ![f] = apply[a].after[f]]
  BY DEF Commit, CommitIInv, CommitTypeOK, Apply, Config
<1>4. CommitTypeOK'
  BY <1>1, <1>3 DEF Commit, CommitIInv, CommitTypeOK
<1>5. ASSUME NEW g \in Files PROVE Standing(a, g)'
  BY <1>1, <1>3 DEF Commit, CommitIInv, CommitTypeOK, Config, Standing
<1> QED BY <1>1, <1>2, <1>4, <1>5, HolderStep

\* A failed write and a rejected config both end in a rollback.
LEMMA FailureKeeps ==
  ASSUME CommitIInv, NEW a \in Applies, apply[a].phase = "committing",
         Enter(a, "undoing", Changes(a)), UNCHANGED <<db, disk, lock>>
  PROVE  CommitIInv'
<1>1. /\ apply' \in [Applies -> Apply] /\ apply'[a].phase = "undoing"
      /\ apply'[a].todo = Changes(a)
      /\ apply'[a].before = apply[a].before /\ apply'[a].after = apply[a].after
      /\ \A b \in Applies : b # a => apply'[b] = apply[b]
  BY EnterKeepsType DEF CommitIInv, Phases, Changes
<1>2. lock = a
  BY DEF CommitIInv, Holding
<1>3. CommitTypeOK'
  BY <1>1 DEF CommitIInv, CommitTypeOK
<1>4. ASSUME NEW f \in Files PROVE Standing(a, f)'
  BY <1>1 DEF CommitIInv, Standing, Between, Changes
<1> QED BY <1>1, <1>2, <1>3, <1>4, HolderStep

\* The verdict of nginx -t keeps it.
LEMMA ValidateKeeps ==
  ASSUME CommitIInv, NEW a \in Applies, Validate(a)
  PROVE  CommitIInv'
<1>1. CASE Accepts(disk) /\ Enter(a, "restarting", {})
  <2>1. /\ apply' \in [Applies -> Apply] /\ apply'[a].phase = "restarting"
        /\ apply'[a].before = apply[a].before /\ apply'[a].after = apply[a].after
        /\ \A b \in Applies : b # a => apply'[b] = apply[b]
    BY <1>1, EnterKeepsType DEF CommitIInv, Phases
  <2>2. lock = a /\ lock' = a /\ disk' = disk
    BY DEF Validate, CommitIInv, Holding
  <2>3. CommitTypeOK'
    BY <2>1 DEF Validate, CommitIInv, CommitTypeOK
  <2>4. Accepts(disk)'
    BY <1>1, <2>2 DEF Accepts
  <2>5. ASSUME NEW f \in Files PROVE Standing(a, f)'
    BY <2>1, <2>2 DEF Validate, CommitIInv, Standing
  <2> QED BY <2>1, <2>2, <2>3, <2>4, <2>5, HolderStep
<1>2. CASE Enter(a, "undoing", Changes(a))
  BY <1>2, FailureKeeps DEF Validate
<1> QED BY <1>1, <1>2 DEF Validate

\* Restoring one file keeps it.
LEMMA UndoKeeps ==
  ASSUME CommitIInv, NEW a \in Applies, NEW f \in Files, Undo(a, f)
  PROVE  CommitIInv'
<1>1. /\ apply' \in [Applies -> Apply] /\ apply'[a].phase = "undoing"
      /\ apply'[a].todo = apply[a].todo \ {f}
      /\ apply'[a].before = apply[a].before /\ apply'[a].after = apply[a].after
      /\ apply'[a].stranded = apply[a].stranded
      /\ \A b \in Applies : b # a => apply'[b] = apply[b]
  <2>1. apply[a].todo \ {f} \in SUBSET Files /\ "undoing" \in Phases
    BY DEF CommitIInv, CommitTypeOK, Apply, Phases
  <2> QED BY <2>1, EnterKeepsType DEF Undo, CommitIInv
<1>2. lock = a /\ lock' = a
  BY DEF Undo, CommitIInv, Holding
<1>3. disk' \in Config /\ disk' = [disk EXCEPT ![f] = apply[a].before[f]]
  BY DEF Undo, CommitIInv, CommitTypeOK, Apply, Config
<1>4. CommitTypeOK'
  BY <1>1, <1>3 DEF Undo, CommitIInv, CommitTypeOK
<1>5. ASSUME NEW g \in Files PROVE Standing(a, g)'
  BY <1>1, <1>3 DEF Undo, CommitIInv, CommitTypeOK, Config, Standing, Between
<1> QED BY <1>1, <1>2, <1>4, <1>5, HolderStep

\* Failing to restore one file keeps it.
LEMMA UndoFailsKeeps ==
  ASSUME CommitIInv, NEW a \in Applies, NEW f \in Files, UndoFails(a, f)
  PROVE  CommitIInv'
<1>1. /\ apply' \in [Applies -> Apply] /\ apply'[a].phase = "undoing"
      /\ apply'[a].todo = apply[a].todo \ {f}
      /\ apply'[a].before = apply[a].before /\ apply'[a].after = apply[a].after
      /\ apply'[a].stranded = apply[a].stranded \union {f}
      /\ \A b \in Applies : b # a => apply'[b] = apply[b]
  BY DEF UndoFails, CommitIInv, CommitTypeOK, Apply
<1>2. lock = a /\ lock' = a
  BY DEF UndoFails, CommitIInv, Holding
<1>3. CommitTypeOK'
  BY <1>1 DEF UndoFails, CommitIInv, CommitTypeOK
<1>4. ASSUME NEW g \in Files PROVE Standing(a, g)'
  BY <1>1 DEF UndoFails, CommitIInv, Standing, Between
<1> QED BY <1>1, <1>2, <1>3, <1>4, HolderStep

\* The end of the rollback keeps it.
LEMMA RolledBackKeeps ==
  ASSUME CommitIInv, NEW a \in Applies, RolledBack(a)
  PROVE  CommitIInv'
<1>1. /\ apply' \in [Applies -> Apply] /\ apply'[a].phase = "failed"
      /\ apply'[a].before = apply[a].before
      /\ apply'[a].stranded = apply[a].stranded
      /\ \A b \in Applies : b # a => apply'[b] = apply[b]
  BY EnterKeepsType DEF RolledBack, CommitIInv, Phases, Ends
<1>2. lock = a /\ lock' = a
  BY DEF RolledBack, CommitIInv, Holding
<1>3. CommitTypeOK'
  BY <1>1 DEF RolledBack, CommitIInv, CommitTypeOK
<1>4. ASSUME NEW f \in Files PROVE Standing(a, f)'
  BY <1>1 DEF RolledBack, CommitIInv, Standing
<1> QED BY <1>1, <1>2, <1>3, <1>4, HolderStep

\* A call's return keeps it.
LEMMA ReturnKeeps ==
  ASSUME CommitIInv, NEW a \in Applies, Return(a)
  PROVE  CommitIInv'
<1>1. /\ apply' \in [Applies -> Apply] /\ apply'[a].phase = "idle"
      /\ \A b \in Applies : b # a => apply'[b] = apply[b]
  BY IdleIsTyped DEF Return, CommitIInv, CommitTypeOK, Idle
<1>2. lock = a
  BY DEF Return, CommitIInv, Holding, Ends
<1>3. CommitTypeOK'
  BY <1>1 DEF Return, CommitIInv, CommitTypeOK
<1>4. ASSUME NEW f \in Files PROVE Standing(a, f)'
  BY <1>1 DEF Standing
<1> QED BY <1>1, <1>2, <1>3, <1>4, HolderStep

\* A crash keeps it.
LEMMA CrashKeeps ==
  ASSUME CommitIInv, CommitCrash
  PROVE  CommitIInv'
<1>1. apply' \in [Applies -> Apply] /\ \A a \in Applies : apply'[a].phase = "idle"
  BY IdleIsTyped DEF CommitCrash, Idle
<1>2. CommitTypeOK'
  BY <1>1 DEF CommitCrash, CommitIInv, CommitTypeOK
<1> QED BY <1>1, <1>2 DEF CommitIInv, Holding, Standing

\* The end of the restart keeps it.
LEMMA AppliedKeeps ==
  ASSUME CommitIInv, NEW a \in Applies, Applied(a)
  PROVE  CommitIInv'
<1>1. /\ apply' \in [Applies -> Apply] /\ apply'[a].phase = "applied"
      /\ apply'[a].after = apply[a].after
      /\ \A b \in Applies : b # a => apply'[b] = apply[b]
  BY EnterKeepsType DEF Applied, CommitIInv, Phases, Ends
<1>2. lock = a /\ lock' = a /\ disk' = disk /\ Accepts(disk)
  BY DEF Applied, CommitIInv, Holding
<1>3. CommitTypeOK'
  BY <1>1 DEF Applied, CommitIInv, CommitTypeOK
<1>4. Accepts(disk)'
  BY <1>2 DEF Accepts
<1>5. ASSUME NEW f \in Files PROVE Standing(a, f)'
  BY <1>1, <1>2 DEF Applied, CommitIInv, Standing
<1> QED BY <1>1, <1>2, <1>3, <1>4, <1>5, HolderStep

\* Whatever touches none of it keeps it.
LEMMA UntouchedKeeps ==
  ASSUME CommitIInv, UNCHANGED commitVars
  PROVE  CommitIInv'
BY DEF commitVars, CommitIInv, CommitTypeOK, Holding, Accepts, Standing, Between

-----------------------------------------------------------------------------
(* The theorems. *)

\* The invariant holds initially.
LEMMA CommitStarts ==
  ASSUME CommitInit
  PROVE  CommitIInv
<1>1. Nowhere \in Config
  BY DEF Nowhere, Config
<1>2. CommitTypeOK
  BY <1>1, IdleIsTyped DEF CommitInit, CommitTypeOK, Rendered
<1>3. \A a \in Applies : apply[a].phase = "idle"
  BY DEF CommitInit, Idle
<1> QED BY <1>2, <1>3 DEF CommitIInv, Holding, Standing

\* Every step of a call keeps it.
LEMMA PipelineKeeps ==
  ASSUME CommitIInv, NEW a \in Applies, PipelineStep(a)
  PROVE  CommitIInv'
<1>1. CASE TakeLock(a)
  BY <1>1, TakeLockKeeps
<1>2. CASE Plan(a)
  BY <1>2, PlanKeeps
<1>3. CASE CommitFails(a)
  BY <1>3, FailureKeeps DEF CommitFails
<1>4. CASE Validate(a)
  BY <1>4, ValidateKeeps
<1>5. CASE RolledBack(a)
  BY <1>5, RolledBackKeeps
<1>6. CASE Return(a)
  BY <1>6, ReturnKeeps
<1>7. ASSUME NEW f \in Files, Read(a, f) \/ Commit(a, f) \/ Undo(a, f) \/ UndoFails(a, f)
      PROVE  CommitIInv'
  BY <1>7, ReadKeeps, CommitKeeps, UndoKeeps, UndoFailsKeeps
<1> QED BY <1>1, <1>2, <1>3, <1>4, <1>5, <1>6, <1>7 DEF PipelineStep

\* Every step of the system keeps it.
LEMMA CommitNext ==
  ASSUME CommitIInv, [Next]_vars
  PROVE  CommitIInv'
<1>1. ASSUME NEW a \in Applies, Pipeline(a) PROVE CommitIInv'
  BY <1>1, ClickKeeps, PipelineKeeps DEF Pipeline
<1>2. ASSUME NEW a \in Applies, TakeSnapshot(a) \/ StopLoop(a) PROVE CommitIInv'
  BY <1>2, UntouchedKeeps DEF TakeSnapshot, StopLoop
<1>3. ASSUME NEW a \in Applies, Applied(a) PROVE CommitIInv'
  BY <1>3, AppliedKeeps
<1>4. ASSUME NEW a \in Applies, NEW s \in Services, Restart(a, s) \/ RestartFails(a, s)
      PROVE  CommitIInv'
  BY <1>4, UntouchedKeeps DEF Restart, RestartFails
<1>5. ASSUME NEW s \in Services, ReadsConfig(s) \/ Serves(s) \/ UserClicks(s)
      PROVE  CommitIInv'
  BY <1>5, UntouchedKeeps DEF ReadsConfig, Serves, UserClicks
<1>6. CASE Saves
  BY <1>6, EditKeeps DEF Saves
<1>7. CASE TimePasses
  BY <1>7, UntouchedKeeps DEF TimePasses
<1>8. CASE Crash
  BY <1>8, CrashKeeps DEF Crash
<1>9. CASE UNCHANGED vars
  BY <1>9, UntouchedKeeps DEF vars
<1> QED
  BY <1>1, <1>2, <1>3, <1>4, <1>5, <1>6, <1>7, <1>8, <1>9 DEF Next

\* What is on disk is what the holder of ApplyLock takes it to be, through every
\* failure, crash and edit (CommitIInv).
THEOREM CommitInductive == Spec => []CommitIInv
<1>1. Init => CommitIInv
  BY CommitStarts DEF Init
<1> QED BY <1>1, CommitNext, PTL DEF Spec

\* RollbackRestores: after a failed Apply every file is as it was before the call,
\* but those it reports as stranded.
THEOREM RollbackIsComplete == Spec => []RollbackRestores
<1>1. CommitIInv => RollbackRestores
  BY DEF CommitIInv, Standing, RollbackRestores
<1> QED BY <1>1, CommitInductive, PTL

\* While a call restarts services, the disk is what it has written.
LEMMA AcceptedIsThere ==
  ASSUME CommitIInv, NEW a \in Applies, apply[a].phase \in {"restarting", "applied"}
  PROVE  disk = apply[a].after /\ Accepts(disk)
<1>1. disk \in Config /\ apply[a].after \in Config
  BY DEF CommitIInv, CommitTypeOK, Apply
<1>2. \A f \in Files : disk[f] = apply[a].after[f]
  BY DEF CommitIInv, Standing
<1> QED BY <1>1, <1>2 DEF Config, CommitIInv

\* AcceptedIsOnDisk: services are restarted on the config set that was rendered,
\* whole, and accepted by nginx -t.
THEOREM RestartsOnAccepted == Spec => []AcceptedIsOnDisk
<1>1. CommitIInv => AcceptedIsOnDisk
  BY AcceptedIsThere DEF AcceptedIsOnDisk
<1> QED BY <1>1, CommitInductive, PTL

-----------------------------------------------------------------------------
(* The restart: the services and the stop loop. *)

\* Every step of the system keeps what the stop loops rely on.
LEMMA SweepNext ==
  ASSUME TypeOK, SweepIInv, [Next]_vars
  PROVE  SweepIInv'
<1>1. ASSUME NEW a \in Applies, Pipeline(a) PROVE SweepIInv'
  BY <1>1, SweepUntouched DEF Pipeline
<1>2. ASSUME NEW a \in Applies, TakeSnapshot(a) PROVE SweepIInv'
  <2>1. [Off EXCEPT !.phase = "looking", !.watched = running] \in Loop
    BY DEF TypeOK, Off, Loop
  <2>2. /\ a \in Loops /\ UNCHANGED svc
        /\ loop' = [loop EXCEPT ![a] = [Off EXCEPT !.phase = "looking", !.watched = running]]
    BY <1>2, ApplyAssumption DEF TakeSnapshot, Begin
  <2> QED BY <2>1, <2>2, ResetKeeps DEF Off
<1>3. ASSUME NEW a \in Applies, StopLoop(a) PROVE SweepIInv'
  BY <1>3, ApplyAssumption, LookKeeps, AskKeeps, SleepKeeps DEF StopLoop, LoopStep
<1>4. ASSUME NEW a \in Applies, Applied(a) PROVE SweepIInv'
  <2>1. Off \in Loop
    BY DEF Off, Loop
  <2> QED BY <1>4, <2>1, ApplyAssumption, ResetKeeps DEF Applied, Off
<1>5. ASSUME NEW a \in Applies, NEW s \in Services, Restart(a, s) PROVE SweepIInv'
  BY <1>5, StartKeeps DEF Restart
<1>6. ASSUME NEW a \in Applies, NEW s \in Services, RestartFails(a, s) PROVE SweepIInv'
  BY <1>6, SweepUntouched DEF RestartFails
<1>7. ASSUME NEW s \in Services, ReadsConfig(s) PROVE SweepIInv'
  BY <1>7, SweepUntouched DEF ReadsConfig
<1>8. ASSUME NEW s \in Services, Serves(s) PROVE SweepIInv'
  BY <1>8, ServiceKeeps DEF Serves
<1>9. ASSUME NEW s \in Services, UserClicks(s) PROVE SweepIInv'
  BY <1>9, StartKeeps, AskedKeeps DEF UserClicks, UserStarts, UserStops
<1>10. CASE TimePasses
  BY <1>10, TickKeeps DEF TimePasses
<1>11. CASE Saves
  BY <1>11, SweepUntouched DEF Saves
<1>12. CASE Crash
  BY <1>12, AllDownHolds DEF Crash
<1>13. CASE UNCHANGED vars
  BY <1>13, SweepUntouched DEF vars
<1> QED
  BY <1>1, <1>2, <1>3, <1>4, <1>5, <1>6, <1>7, <1>8, <1>9, <1>10, <1>11, <1>12,
     <1>13 DEF Next

\* Every step keeps the types, those of the sweep and of the pipeline apart.
LEMMA TypesNext ==
  ASSUME TypeOK, SweepTypeOK', CommitTypeOK', [Next]_vars
  PROVE  TypeOK'
<1> DEFINE Served == running' \in SUBSET Services /\ loaded' \in [Services -> Config \union {None}]
           Noted  == /\ snapshot' \in [Applies -> SUBSET Services]
                     /\ restarted' \in [Applies -> SUBSET Services]
<1>1. Served
  <2>1. CASE Shown /\ Forgets
    BY <2>1 DEF TypeOK, Shown, Forgets
  <2>2. CASE UNCHANGED <<running, loaded>>
    BY <2>2 DEF TypeOK
  <2>3. ASSUME NEW s \in Services, ReadsConfig(s) PROVE Served
    BY <2>3 DEF ReadsConfig, TypeOK, CommitTypeOK
  <2>4. CASE Crash
    BY <2>4 DEF Crash
  <2>5. ASSUME NEW a \in Applies,
               Pipeline(a) \/ TakeSnapshot(a) \/ StopLoop(a) \/ Applied(a)
        PROVE  Served
    BY <2>1, <2>2, <2>5 DEF Pipeline, TakeSnapshot, StopLoop, Applied
  <2>6. ASSUME NEW a \in Applies, NEW s \in Services, Restart(a, s) \/ RestartFails(a, s)
        PROVE  Served
    BY <2>1, <2>2, <2>6 DEF Restart, RestartFails
  <2>7. ASSUME NEW s \in Services, Serves(s) \/ UserClicks(s)
        PROVE  Served
    BY <2>1, <2>7 DEF Serves, UserClicks
  <2>8. CASE Saves \/ TimePasses \/ UNCHANGED vars
    BY <2>1, <2>2, <2>8 DEF Saves, TimePasses, vars
  <2> QED
    BY <2>3, <2>4, <2>5, <2>6, <2>7, <2>8 DEF Next
<1>2. Noted
  <2>1. ASSUME NEW a \in Applies, Pipeline(a) PROVE Noted
    BY <2>1 DEF Pipeline, restartVars, TypeOK
  <2>2. ASSUME NEW a \in Applies, TakeSnapshot(a) PROVE Noted
    BY <2>2 DEF TakeSnapshot, TypeOK
  <2>3. ASSUME NEW a \in Applies, NEW s \in Services, Restart(a, s) \/ RestartFails(a, s)
        PROVE  Noted
    BY <2>3 DEF Restart, RestartFails, TypeOK
  <2>4. CASE Crash
    BY <2>4 DEF Crash
  <2>5. CASE UNCHANGED restartVars
    BY <2>5 DEF restartVars, TypeOK
  <2>6. ASSUME NEW a \in Applies, StopLoop(a) \/ Applied(a) PROVE Noted
    BY <2>5, <2>6 DEF StopLoop, Applied
  <2>7. ASSUME NEW s \in Services, ReadsConfig(s) \/ Serves(s) \/ UserClicks(s)
        PROVE  Noted
    BY <2>5, <2>7 DEF ReadsConfig, Serves, UserClicks
  <2>8. CASE Saves \/ TimePasses \/ UNCHANGED vars
    BY <2>5, <2>8 DEF Saves, TimePasses, vars, restartVars
  <2> QED
    BY <2>1, <2>2, <2>3, <2>4, <2>6, <2>7, <2>8 DEF Next
<1>3. clicks' \in 0..MaxClicks
  BY ApplyAssumption DEF TypeOK, Next, vars, Pipeline, TakeSnapshot, StopLoop, Applied,
     Restart, RestartFails, ReadsConfig, Serves, UserClicks, Saves, TimePasses, Crash
<1> QED BY <1>1, <1>2, <1>3 DEF TypeOK

\* While a call restarts services nobody else writes files, so a service that
\* comes up then serves what the call has written.
LEMMA FreshStays ==
  ASSUME CommitIInv, NEW a \in Applies, apply[a].phase \in {"restarting", "applied"},
         apply'[a].after = apply[a].after,
         NEW s \in Services, Fresh(a, s), loaded'[s] \in {loaded[s], None, disk}
  PROVE  Fresh(a, s)'
BY AcceptedIsThere DEF Fresh

\* What a service serves only ever changes to nothing, or to what is on disk.
LEMMA LoadedChanges ==
  ASSUME TypeOK, [Next]_vars, NEW s \in Services
  PROVE  loaded'[s] \in {loaded[s], None, disk}
<1>1. CASE Forgets
  BY <1>1 DEF Forgets
<1>2. CASE UNCHANGED loaded
  BY <1>2
<1>3. ASSUME NEW r \in Services, ReadsConfig(r) PROVE loaded'[s] \in {loaded[s], None, disk}
  BY <1>3 DEF ReadsConfig, TypeOK
<1>4. CASE Crash
  BY <1>4 DEF Crash
<1>5. ASSUME NEW a \in Applies, Pipeline(a) \/ TakeSnapshot(a) \/ StopLoop(a) \/ Applied(a)
      PROVE  loaded'[s] \in {loaded[s], None, disk}
  BY <1>1, <1>2, <1>5 DEF Pipeline, TakeSnapshot, StopLoop, Applied
<1>6. ASSUME NEW a \in Applies, NEW r \in Services, Restart(a, r) \/ RestartFails(a, r)
      PROVE  loaded'[s] \in {loaded[s], None, disk}
  BY <1>1, <1>2, <1>6 DEF Restart, RestartFails
<1>7. ASSUME NEW r \in Services, Serves(r) \/ UserClicks(r)
      PROVE  loaded'[s] \in {loaded[s], None, disk}
  BY <1>1, <1>7 DEF Serves, UserClicks
<1>8. CASE Saves \/ TimePasses \/ UNCHANGED vars
  BY <1>1, <1>2, <1>8 DEF Saves, TimePasses, vars
<1> QED BY <1>3, <1>4, <1>5, <1>6, <1>7, <1>8 DEF Next

\* A service that is down serves nothing.
LEMMA DownServesNothing ==
  ASSUME TypeOK, [Next]_vars, \A r \in Services : ~Pending(r) => loaded[r] = None,
         NEW s \in Services, ~Pending(s)'
  PROVE  loaded'[s] = None
<1>1. CASE Forgets
  BY <1>1 DEF Forgets, Pending
<1>2. CASE UNCHANGED <<svc, loaded>>
  BY <1>2 DEF Pending
<1>3. ASSUME NEW r \in Services, ReadsConfig(r) PROVE loaded'[s] = None
  BY <1>3 DEF ReadsConfig, sweepVars, TypeOK, Pending
<1>4. CASE Crash
  BY <1>4 DEF Crash
<1>5. ASSUME NEW a \in Applies, Pipeline(a) \/ TakeSnapshot(a) \/ StopLoop(a) \/ Applied(a)
      PROVE  loaded'[s] = None
  BY <1>1, <1>2, <1>5 DEF Pipeline, TakeSnapshot, StopLoop, Applied, sweepVars
<1>6. ASSUME NEW a \in Applies, NEW r \in Services, Restart(a, r) \/ RestartFails(a, r)
      PROVE  loaded'[s] = None
  BY <1>1, <1>2, <1>6 DEF Restart, RestartFails, sweepVars
<1>7. ASSUME NEW r \in Services, Serves(r) \/ UserClicks(r)
      PROVE  loaded'[s] = None
  BY <1>1, <1>7 DEF Serves, UserClicks
<1>8. CASE Saves \/ TimePasses \/ UNCHANGED vars
  BY <1>1, <1>2, <1>8 DEF Saves, TimePasses, vars, sweepVars
<1> QED BY <1>3, <1>4, <1>5, <1>6, <1>7, <1>8 DEF Next

\* A step that leaves a call where it is, and its stop loop on the same side of
\* its return, keeps what is known of its restarts.
LEMMA SoundStays ==
  ASSUME IInv, [Next]_vars, NEW a \in Applies, apply'[a] = apply[a],
         loop'[a].phase = "off" <=> loop[a].phase = "off",
         loop'[a].phase = "over" <=> loop[a].phase = "over",
         loop'[a].watched = loop[a].watched,
         loop'[a].stragglers = loop[a].stragglers,
         snapshot'[a] = snapshot[a], restarted'[a] = restarted[a]
  PROVE  RestartIsSound(a)'
<1>1. RestartIsSound(a) /\ TypeOK /\ CommitIInv
  BY DEF IInv
<1>2. ASSUME NEW s \in Services, Fresh(a, s), apply[a].phase \in {"restarting", "applied"}
      PROVE  Fresh(a, s)'
  BY <1>1, <1>2, LoadedChanges, FreshStays
<1>3. snapshot[a] \in SUBSET Services /\ restarted[a] \in SUBSET Services
  BY <1>1 DEF TypeOK
<1> QED BY <1>1, <1>2, <1>3 DEF RestartIsSound

\* Starting a service touches only the histories of the loops.
LEMMA StartLeavesLoops ==
  ASSUME SweepTypeOK, NEW s \in Services, Start(s), NEW a \in Loops
  PROVE  /\ loop'[a].phase = loop[a].phase /\ loop'[a].watched = loop[a].watched
         /\ loop'[a].stragglers = loop[a].stragglers
<1>1. CASE Pending(s)
  BY <1>1 DEF Start, sweepVars
<1>2. CASE ~Pending(s)
  <2>1. loop'[a] = [loop[a] EXCEPT !.kept = @ \ {s}, !.settled = @ \ {s}, !.early = @ \ {s}]
    BY <1>2 DEF Start
  <2>2. loop[a] \in Loop
    BY DEF SweepTypeOK
  <2> QED BY <2>1, <2>2 DEF Loop
<1> QED BY <1>1, <1>2

\* The steps of the pipeline, none of which belongs to a call that restarts.
LEMMA PipelineMovesOne ==
  ASSUME CommitTypeOK, NEW a \in Applies, Click(a) \/ PipelineStep(a)
  PROVE  /\ apply[a].phase # "restarting"
         /\ apply[a].phase = "applied" => apply'[a].phase = "idle"
         /\ \A b \in Applies : b # a => apply'[b] = apply[b]
<1> USE DEF CommitTypeOK
<1>1. CASE Click(a) \/ TakeLock(a) \/ CommitFails(a) \/ Validate(a) \/ RolledBack(a)
  BY <1>1 DEF Click, TakeLock, CommitFails, Validate, RolledBack, Enter
<1>2. CASE Plan(a)
  BY <1>2 DEF Plan
<1>3. CASE Return(a)
  BY <1>3 DEF Return, Idle, Ends
<1>4. ASSUME NEW f \in Files, Read(a, f) \/ UndoFails(a, f)
      PROVE  /\ apply[a].phase \in {"reading", "undoing"}
             /\ \A b \in Applies : b # a => apply'[b] = apply[b]
  BY <1>4 DEF Read, UndoFails
<1>5. ASSUME NEW f \in Files, Commit(a, f) \/ Undo(a, f)
      PROVE  /\ apply[a].phase \in {"committing", "undoing"}
             /\ \A b \in Applies : b # a => apply'[b] = apply[b]
  BY <1>5 DEF Commit, Undo, Enter
<1> QED BY <1>1, <1>2, <1>3, <1>4, <1>5 DEF PipelineStep

\* The pipeline runs before the restart and after it.
LEMMA PipelineSound ==
  ASSUME IInv, NEW a \in Applies, Pipeline(a), NEW b \in Applies
  PROVE  RestartIsSound(b)'
<1>1. /\ RestartIsSound(a) /\ TypeOK /\ UNCHANGED <<loop, loaded>>
      /\ apply[a].phase # "restarting"
      /\ apply[a].phase = "applied" => apply'[a].phase = "idle"
      /\ \A c \in Applies : c # a => apply'[c] = apply[c]
  BY PipelineMovesOne DEF IInv, TypeOK, Pipeline, sweepVars
<1>2. CASE b = a
  <2>1. restarted'[a] = {}
    BY <1>1 DEF Pipeline, RestartIsSound, restartVars, TypeOK
  <2> QED BY <1>1, <1>2, <2>1 DEF RestartIsSound
<1>3. CASE b # a
  <2>1. snapshot'[b] = snapshot[b] /\ restarted'[b] = restarted[b]
    BY <1>3 DEF Pipeline, restartVars, TypeOK, IInv
  <2> QED BY <1>1, <1>3, <2>1, SoundStays DEF Next
<1> QED BY <1>2, <1>3

\* The last look of a stop loop: what it does not report is down, and a service
\* that is down serves nothing.
LEMMA StopLoopSound ==
  ASSUME IInv, NEW a \in Applies, StopLoop(a), NEW b \in Applies
  PROVE  RestartIsSound(b)'
<1>1. /\ RestartIsSound(a) /\ TypeOK /\ SweepTypeOK /\ a \in Loops /\ b \in Loops
      /\ UNCHANGED <<apply, snapshot, restarted>>
  BY ApplyAssumption DEF IInv, TypeOK, StopLoop, commitVars, restartVars
<1>2. CASE b # a
  <2>1. loop'[b] = loop[b]
    BY <1>1, <1>2 DEF StopLoop, LoopStep, Look, Ask, Sleep, SweepTypeOK
  <2> QED BY <1>1, <2>1, SoundStays DEF Next
<1>3. CASE b = a /\ ~(Look(a) /\ loop'[a].phase = "over")
  <2>1. /\ loop[a].phase \in {"looking", "asking"}
        /\ loop'[a].phase \in {"asking", "sleeping"}
        /\ loop'[a].watched = loop[a].watched
        /\ loop'[a].stragglers = loop[a].stragglers
    <3>1. loop[a] \in Loop
      BY <1>1 DEF SweepTypeOK
    <3>2. CASE Look(a)
      <4>1. loop'[a] = Observed(a)
        BY <1>1, <1>3, <3>1, <3>2 DEF Look, SweepTypeOK, Finish, Loop
      <4>2. loop[a].phase = "looking"
        BY <3>2 DEF Look
      <4>3. /\ loop'[a].phase = "asking" /\ loop'[a].watched = loop[a].watched
            /\ loop'[a].stragglers = loop[a].stragglers
        BY <3>1, <4>1 DEF Observed, Loop
      <4> QED BY <4>2, <4>3
    <3>3. CASE Sleep(a)
      BY <1>1, <3>1, <3>3 DEF Sleep, SweepTypeOK, Loop
    <3>4. ASSUME NEW s \in Services, Ask(a, s)
          PROVE  /\ loop[a].phase = "asking" /\ loop'[a].phase = "asking"
                 /\ loop'[a].watched = loop[a].watched
                 /\ loop'[a].stragglers = loop[a].stragglers
      BY <1>1, <3>1, <3>4 DEF Ask, SweepTypeOK, Loop
    <3> QED BY <1>3, <3>2, <3>3, <3>4 DEF StopLoop, LoopStep
  <2> QED BY <1>1, <1>3, <2>1, SoundStays DEF Next
<1>4. CASE b = a /\ Look(a) /\ loop'[a].phase = "over"
  <2>1. /\ loop[a].phase = "looking" /\ loop'[a].watched = loop[a].watched
        /\ loop'[a].stragglers = PendingFor(a) /\ UNCHANGED svc
    BY <1>1, <1>4 DEF Look, SweepTypeOK, Loop, Finish, Observed
  <2>2. apply[a].phase = "restarting" /\ restarted[a] = {} /\ snapshot[a] \subseteq loop[a].watched
    BY <1>1, <2>1 DEF RestartIsSound
  <2>3. ASSUME NEW s \in snapshot[a] \ loop'[a].stragglers PROVE Fresh(a, s)'
    <3>1. s \in Services /\ ~Pending(s)'
      BY <1>1, <2>1, <2>2, <2>3 DEF PendingFor, TypeOK, Pending
    <3>2. loaded'[s] = None
      BY <3>1, DownServesNothing DEF IInv, Next
    <3> QED BY <3>2 DEF Fresh
  <2> QED BY <1>1, <1>4, <2>1, <2>2, <2>3 DEF RestartIsSound
<1> QED BY <1>2, <1>3, <1>4

\* The snapshot, the restarts and the end of the restart.
LEMMA RestartSound ==
  ASSUME IInv, NEW a \in Applies, NEW b \in Applies,
         \/ TakeSnapshot(a) \/ Applied(a)
         \/ \E s \in Services : Restart(a, s) \/ RestartFails(a, s)
  PROVE  RestartIsSound(b)'
<1>1. /\ RestartIsSound(a) /\ TypeOK /\ SweepTypeOK /\ CommitTypeOK /\ CommitIInv
      /\ a \in Loops /\ b \in Loops /\ [Next]_vars
      /\ snapshot[a] \in SUBSET Services /\ restarted[a] \in SUBSET Services
      /\ apply[a].phase = "restarting"
  BY ApplyAssumption DEF IInv, TypeOK, Next, TakeSnapshot, Applied, Restart, RestartFails
<1>2. ASSUME NEW s \in Services, Fresh(a, s), apply'[a].after = apply[a].after
      PROVE  Fresh(a, s)'
  BY <1>1, <1>2, LoadedChanges, FreshStays
<1>3. CASE TakeSnapshot(a)
  <2>1. CASE b = a
    <3>1. /\ loop'[a].phase = "looking" /\ loop'[a].watched = running
          /\ snapshot'[a] = running /\ restarted'[a] = {} /\ apply'[a].phase = "restarting"
      BY <1>1, <1>3 DEF TakeSnapshot, Begin, Off, SweepTypeOK, TypeOK, commitVars,
         RestartIsSound
    <3> QED BY <2>1, <3>1 DEF RestartIsSound
  <2>2. CASE b # a
    BY <1>1, <1>3, <2>2, SoundStays DEF TakeSnapshot, Begin, SweepTypeOK, TypeOK, commitVars
  <2> QED BY <2>1, <2>2
<1>4. CASE Applied(a)
  <2>1. CASE b = a
    <3>1. /\ loop'[a].phase = "off" /\ restarted' = restarted
          /\ apply'[a].phase = "applied" /\ apply'[a].after = apply[a].after
          /\ loop[a].phase = "over"
      BY <1>1, <1>4 DEF Applied, Stopped, Enter, Off, SweepTypeOK, CommitTypeOK, Apply,
         restartVars
    <3>2. \A s \in restarted[a] : s \in Services /\ Fresh(a, s)
      BY <1>1, <3>1 DEF RestartIsSound
    <3> QED BY <1>2, <2>1, <3>1, <3>2 DEF RestartIsSound
  <2>2. CASE b # a
    BY <1>1, <1>4, <2>2, SoundStays DEF Applied, Enter, SweepTypeOK, CommitTypeOK,
       restartVars
  <2> QED BY <2>1, <2>2
<1>5. ASSUME NEW s \in Services, Restart(a, s) PROVE RestartIsSound(b)'
  <2>1. /\ loop'[b].phase = loop[b].phase /\ loop'[b].watched = loop[b].watched
        /\ loop'[b].stragglers = loop[b].stragglers
        /\ apply' = apply /\ snapshot' = snapshot
    BY <1>1, <1>5, StartLeavesLoops DEF Restart, commitVars
  <2>2. CASE b = a
    <3>1. /\ loop[a].phase = "over" /\ restarted'[a] = restarted[a] \union {s}
          /\ s \in snapshot[a] \ loop[a].stragglers
      BY <1>1, <1>5 DEF Restart, Stopped, Due, TypeOK
    <3> QED BY <1>1, <1>2, <2>1, <2>2, <3>1 DEF RestartIsSound
  <2>3. CASE b # a
    <3>1. restarted'[b] = restarted[b]
      BY <1>1, <1>5, <2>3 DEF Restart, TypeOK
    <3> QED BY <1>1, <2>1, <3>1, SoundStays
  <2> QED BY <2>2, <2>3
<1>6. ASSUME NEW s \in Services, RestartFails(a, s) PROVE RestartIsSound(b)'
  <2>1. /\ loop' = loop /\ apply' = apply /\ restarted' = restarted
        /\ loop[a].phase = "over" /\ s \notin restarted[a]
        /\ snapshot'[a] = snapshot[a] \ {s}
        /\ b # a => snapshot'[b] = snapshot[b]
    BY <1>1, <1>6 DEF RestartFails, Stopped, Due, sweepVars, commitVars, TypeOK
  <2>2. CASE b = a
    BY <1>1, <1>2, <2>1, <2>2 DEF RestartIsSound
  <2>3. CASE b # a
    BY <1>1, <2>1, <2>3, SoundStays
  <2> QED BY <2>2, <2>3
<1> QED BY <1>3, <1>4, <1>5, <1>6

\* Every step of the system keeps what is known of the restarts.
LEMMA SoundNext ==
  ASSUME IInv, [Next]_vars, NEW b \in Applies
  PROVE  RestartIsSound(b)'
<1>1. TypeOK /\ SweepTypeOK /\ b \in Loops
  BY ApplyAssumption DEF IInv, TypeOK
<1>2. ASSUME NEW a \in Applies, Pipeline(a) PROVE RestartIsSound(b)'
  BY <1>2, PipelineSound
<1>3. ASSUME NEW a \in Applies, StopLoop(a) PROVE RestartIsSound(b)'
  BY <1>3, StopLoopSound
<1>4. ASSUME NEW a \in Applies,
             \/ TakeSnapshot(a) \/ Applied(a)
             \/ \E s \in Services : Restart(a, s) \/ RestartFails(a, s)
      PROVE  RestartIsSound(b)'
  BY <1>4, RestartSound
<1>5. ASSUME NEW s \in Services, Serves(s) PROVE RestartIsSound(b)'
  <2>1. UNCHANGED <<loop, apply, snapshot, restarted>>
    BY <1>5 DEF Serves, ServiceStep, BecomesReady, ProbeDeadline, ReceivesStop,
       ChildEnds, RunEnds, Moves, commitVars, restartVars
  <2> QED BY <2>1, SoundStays
<1>6. ASSUME NEW s \in Services, UserClicks(s) PROVE RestartIsSound(b)'
  <2>1. UNCHANGED <<apply, snapshot, restarted>>
    BY <1>6 DEF UserClicks, commitVars, restartVars
  <2>2. /\ loop'[b].phase = loop[b].phase /\ loop'[b].watched = loop[b].watched
        /\ loop'[b].stragglers = loop[b].stragglers
    BY <1>1, <1>6, StartLeavesLoops DEF UserClicks, UserStarts, UserStops
  <2> QED BY <2>1, <2>2, SoundStays
<1>7. CASE TimePasses
  <2>1. UNCHANGED <<apply, snapshot, restarted>>
    BY <1>7 DEF TimePasses, commitVars, restartVars
  <2>2. /\ loop'[b].phase = "off" <=> loop[b].phase = "off"
        /\ loop'[b].phase = "over" <=> loop[b].phase = "over"
        /\ loop'[b].watched = loop[b].watched
        /\ loop'[b].stragglers = loop[b].stragglers
    BY <1>1, <1>7 DEF TimePasses, Tick, SweepTypeOK, Loop
  <2> QED BY <2>1, <2>2, SoundStays
<1>8. ASSUME NEW s \in Services, ReadsConfig(s) PROVE RestartIsSound(b)'
  BY <1>8, SoundStays DEF ReadsConfig, sweepVars, commitVars, restartVars
<1>9. CASE Saves
  BY <1>9, SoundStays DEF Saves, Edit, sweepVars, restartVars
<1>10. CASE Crash
  BY <1>1, <1>10 DEF Crash, CommitCrash, Idle, Off, RestartIsSound
<1>11. CASE UNCHANGED vars
  BY <1>11, SoundStays DEF vars, sweepVars, commitVars, restartVars
<1> QED
  BY <1>2, <1>3, <1>4, <1>5, <1>6, <1>7, <1>8, <1>9, <1>10, <1>11 DEF Next

\* Every step keeps the invariant of an Apply.
LEMMA ApplyNext == IInv /\ [Next]_vars => IInv'
<1> SUFFICES ASSUME IInv, [Next]_vars PROVE IInv'
  OBVIOUS
<1>1. CommitIInv' /\ SweepIInv'
  BY CommitNext, SweepNext DEF IInv
<1>2. TypeOK'
  BY <1>1, TypesNext DEF IInv, SweepIInv, CommitIInv
<1>3. ASSUME NEW s \in Services, ~Pending(s)' PROVE loaded'[s] = None
  BY <1>3, DownServesNothing DEF IInv
<1>4. ASSUME NEW a \in Applies PROVE RestartIsSound(a)'
  BY SoundNext
<1> QED BY <1>1, <1>2, <1>3, <1>4 DEF IInv

\* It holds when the app has started.
LEMMA ApplyStarts == Init => IInv
<1> SUFFICES ASSUME Init PROVE IInv
  OBVIOUS
<1>1. SweepIInv /\ CommitIInv
  BY NoLoopHolds, CommitStarts DEF Init, SweepInit
<1>2. TypeOK
  BY <1>1, ApplyAssumption DEF Init, SweepIInv, CommitIInv, CommitTypeOK, TypeOK
<1>3. ASSUME NEW a \in Applies PROVE RestartIsSound(a)
  BY ApplyAssumption DEF Init, SweepInit, CommitInit, Idle, Off, RestartIsSound
<1> QED BY <1>1, <1>2, <1>3 DEF Init, IInv

\* The types, the loops, the files and the services of an Apply are consistent
\* in every reachable state.
THEOREM ApplyInductive == Spec => []IInv
BY ApplyStarts, ApplyNext, PTL DEF Spec

\* RestartedServesApplied: a service that an Apply reports as restarted serves the
\* config set it has put on disk, or nothing yet, whoever else starts and stops
\* services meanwhile.
THEOREM RestartedServes == Spec => []RestartedServesApplied
<1>1. IInv => RestartedServesApplied
  <2> SUFFICES ASSUME IInv, NEW a \in Applies,
                      apply[a].phase \in {"restarting", "applied"},
                      NEW s \in restarted[a]
               PROVE  Fresh(a, s)
    BY DEF RestartedServesApplied, Fresh
  <2> QED BY DEF IInv, RestartIsSound
<1> QED BY <1>1, ApplyInductive, PTL
=============================================================================
