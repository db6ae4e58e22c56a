------------------------------ MODULE TrayProofs ------------------------------
(***************************************************************************)
(* Proofs about Tray, for any services, endpoints, dispatchers and bounds: *)
(* that bulk actions keep apart from each other and from an Apply, that    *)
(* Start all never brings up two services of one endpoint, that the menu   *)
(* comes to show what is, and that a failure raises the dialog exactly if  *)
(* it ends a start attempt of the tray.                                    *)
(***************************************************************************)
EXTENDS Tray, SequenceTheorems, TLAPS

(* The type invariant by groups of variables. *)

ServiceTypes ==
  /\ status \in Snapshots
  /\ origin \in [Services -> Origins]
  /\ asked \in [Services -> BOOLEAN]
  /\ unsent \in [Services -> SUBSET News]

ReceiverTypes ==
  channel \in Seq(Event) /\ Len(channel) <= Capacity /\ lagged \in BOOLEAN

MarkTypes == marked \subseteq Services /\ stray \subseteq Services

DeskTypes ==
  /\ click \in {None} \union Services
  /\ tasks \subseteq {"start", "stop"} \X Services
  /\ loop \in {"receiving", "refreshing"}

MenuTypes ==
  /\ posted \in Seq(Snapshots) /\ Len(posted) <= MaxPosted
  /\ shown \in [rows : Snapshots, startAll : BOOLEAN, stopAll : BOOLEAN]
  /\ overtaken \in BOOLEAN

BulkTypes ==
  bulk \in [Dispatchers ->
       [stage : Stages, kind : AllKinds,
        snapshot : Snapshots \union {None}, todo : SUBSET Services]]

LockTypes ==
  /\ bulkLock \in Dispatchers \union {None}
  /\ applyLock \in Dispatchers \union {None, "apply"}
  /\ restarting \in Services \union {None, "done"}

CountTypes == acts \in 0..MaxActs /\ silent \subseteq {"refused", "control"}

\* The groups together are the type invariant; so they are of the next state.
LEMMA TypeParts ==
  TrayTypeOK <=>
    /\ ServiceTypes /\ ReceiverTypes /\ MarkTypes /\ DeskTypes /\ MenuTypes
    /\ BulkTypes /\ LockTypes /\ CountTypes
BY DEF TrayTypeOK, ServiceTypes, ReceiverTypes, MarkTypes, DeskTypes, MenuTypes,
       BulkTypes, LockTypes, CountTypes

\* The same of the next state.
LEMMA TypePartsNext ==
  /\ ServiceTypes' /\ ReceiverTypes' /\ MarkTypes' /\ DeskTypes' /\ MenuTypes'
  /\ BulkTypes' /\ LockTypes' /\ CountTypes'
  => TrayTypeOK'
BY DEF TrayTypeOK, ServiceTypes, ReceiverTypes, MarkTypes, DeskTypes, MenuTypes,
       BulkTypes, LockTypes, CountTypes

-----------------------------------------------------------------------------
(* What the helpers of the actions keep. *)

\* tray_model returns a menu.
LEMMA ModelType ==
  ASSUME NEW snapshot \in Snapshots, NEW busy \in BOOLEAN
  PROVE  TrayModel(snapshot, busy) \in [rows : Snapshots, startAll : BOOLEAN, stopAll : BOOLEAN]
BY DEF TrayModel

\* bulk_start_ids returns services.
LEMMA SelectionType == ASSUME NEW snapshot PROVE BulkStartIds(snapshot) \subseteq Services
BY DEF BulkStartIds

\* Inner::set_state writes a state.
LEMMA WriteType ==
  ASSUME ServiceTypes, NEW s \in Services, NEW state \in States, Write(s, state)
  PROVE  status' \in Snapshots
BY DEF ServiceTypes, Write, Snapshots

\* Inner::emit_state broadcasts news.
LEMMA TellType ==
  ASSUME ServiceTypes, NEW s \in Services, NEW state \in States \union {"Registered"},
         NEW owed \in BOOLEAN, Tell(s, state, owed)
  PROVE  unsent' \in [Services -> SUBSET News]
BY DEF ServiceTypes, Tell, News

\* Supervisor::start keeps the types of the services.
LEMMA BeginType ==
  ASSUME ServiceTypes, NEW s \in Services, NEW who \in Origins, Begin(s, who)
  PROVE  ServiceTypes'
BY WriteType, TellType DEF ServiceTypes, Begin, States

\* Supervisor::stop, of any services, keeps them.
LEMMA StopAllType ==
  ASSUME ServiceTypes, NEW S, StopAll(S)
  PROVE  ServiceTypes'
BY DEF ServiceTypes, StopAll

\* The end of a run keeps them.
LEMMA EndsType ==
  ASSUME ServiceTypes, NEW s \in Services, NEW outcome \in Idle, Ends(s, outcome)
  PROVE  ServiceTypes'
<1>1. OwesDialog(s, outcome) \in BOOLEAN
  BY DEF OwesDialog
<1>. QED
  BY <1>1, WriteType, TellType DEF ServiceTypes, Ends, States, Idle, Origins

\* Posting a refresh keeps the types of the menu.
LEMMA PostType ==
  ASSUME MenuTypes, NEW snapshot \in Snapshots, Post(snapshot), overtaken' \in BOOLEAN
  PROVE  MenuTypes'
BY TrayAssumption DEF MenuTypes, Post

-----------------------------------------------------------------------------
(* Every step keeps the types. *)

\* A start by somebody else keeps the types of services and marks.
LEMMA OtherStartsType ==
  ASSUME ServiceTypes, MarkTypes, NEW s \in Services, OtherStarts(s)
  PROVE  ServiceTypes' /\ MarkTypes'
<1>1. Begin(s, "other") BY DEF OtherStarts
<1>2. ServiceTypes' BY <1>1, BeginType DEF Origins
<1>3. MarkTypes' BY DEF OtherStarts, MarkTypes
<1>. QED BY <1>2, <1>3

\* What counts against MaxActs stays within it.
LEMMA ActType ==
  ASSUME CountTypes, Act, silent' \subseteq {"refused", "control"}
  PROVE  CountTypes'
BY TrayAssumption DEF CountTypes, Act

\* Every step of a service and of the channel keeps the types.
LEMMA ServiceStepTypes ==
  ASSUME TrayTypeOK, ServiceStep
  PROVE  TrayTypeOK'
<1>. USE TypeParts, TypePartsNext
<1>1. DeskTypes' /\ MenuTypes' /\ BulkTypes' /\ LockTypes' /\ silent' = silent
  BY DEF ServiceStep, DeskTypes, MenuTypes, BulkTypes, LockTypes, menuVars, lockVars
<1>2. silent' \subseteq {"refused", "control"}
  BY <1>1 DEF CountTypes
<1>3. PICK s \in Services :
       \/ /\ BecomesReady(s) \/ \E outcome \in Idle : Ends(s, outcome)
          /\ UNCHANGED <<receiverVars, markVars, acts>>
       \/ /\ Unregister(s) \/ Register(s) \/ OtherStops(s)
          /\ Act
          /\ UNCHANGED <<receiverVars, markVars>>
       \/ (\E news \in unsent[s] : Broadcast(s, news)) /\ UNCHANGED acts
       \/ OtherStarts(s) /\ Act
       \/ Overrun /\ Act
  BY DEF ServiceStep
<1>4. CASE /\ BecomesReady(s) \/ \E outcome \in Idle : Ends(s, outcome)
           /\ UNCHANGED <<receiverVars, markVars, acts>>
  <2>1. ServiceTypes'
    <3>1. CASE BecomesReady(s)
      BY <3>1, WriteType, TellType DEF BecomesReady, ServiceTypes, States
    <3>2. CASE \E outcome \in Idle : Ends(s, outcome)
      BY <3>2, EndsType
    <3>. QED BY <1>4, <3>1, <3>2
  <2>. QED
    BY <1>1, <1>4, <2>1 DEF ReceiverTypes, MarkTypes, CountTypes, receiverVars, markVars
<1>5. CASE /\ Unregister(s) \/ Register(s) \/ OtherStops(s)
           /\ Act
           /\ UNCHANGED <<receiverVars, markVars>>
  <2>1. ServiceTypes'
    <3>1. CASE Unregister(s)
      BY <3>1, WriteType, TellType DEF Unregister, ServiceTypes, States
    <3>2. CASE Register(s)
      BY <3>2, WriteType, TellType DEF Register, ServiceTypes, States
    <3>3. CASE OtherStops(s)
      BY <3>3, StopAllType DEF OtherStops
    <3>. QED BY <1>5, <3>1, <3>2, <3>3
  <2>. QED
    BY <1>1, <1>2, <1>5, <2>1, ActType DEF ReceiverTypes, MarkTypes, receiverVars, markVars
<1>6. CASE (\E news \in unsent[s] : Broadcast(s, news)) /\ UNCHANGED acts
  <2>1. PICK news \in unsent[s] : Broadcast(s, news)
    BY <1>6
  <2>2. news \in News
    BY <2>1 DEF ServiceTypes
  <2>3. ServiceTypes'
    BY <2>1 DEF Broadcast, ServiceTypes
  <2>4. ReceiverTypes'
    BY <2>1, <2>2, TrayAssumption DEF Broadcast, ReceiverTypes, Event
  <2>. QED
    BY <1>1, <1>2, <1>6, <2>1, <2>3, <2>4 DEF Broadcast, MarkTypes, CountTypes, markVars
<1>7. CASE OtherStarts(s) /\ Act
  BY <1>1, <1>2, <1>7, OtherStartsType, ActType DEF OtherStarts, ReceiverTypes, receiverVars
<1>8. CASE Overrun /\ Act
  <2>1. ReceiverTypes'
    BY <1>8, TrayAssumption DEF Overrun, ReceiverTypes
  <2>2. ServiceTypes' /\ MarkTypes'
    BY <1>8 DEF Overrun, ServiceTypes, MarkTypes, serviceVars
  <2>. QED BY <1>1, <1>2, <1>8, <2>1, <2>2, ActType
<1>. QED
  BY <1>3, <1>4, <1>5, <1>6, <1>7, <1>8

\* TrayInitiated::mark holds services.
LEMMA MarkType ==
  ASSUME MarkTypes, NEW s \in Services, Mark(s)
  PROVE  MarkTypes'
BY DEF MarkTypes, Mark

\* The start of a marked service keeps the types of services and marks.
LEMMA StartMarkedType ==
  ASSUME ServiceTypes, MarkTypes, NEW s \in Services, NEW who \in Origins, StartMarked(s, who)
  PROVE  ServiceTypes' /\ MarkTypes'
<1>1. ServiceTypes'
  <2>1. CASE Begin(s, who) BY <2>1, BeginType
  <2>2. CASE UNCHANGED serviceVars BY <2>2 DEF ServiceTypes, serviceVars
  <2>. QED BY <2>1, <2>2 DEF StartMarked, Start
<1>2. MarkTypes'
  BY DEF StartMarked, MarkTypes
<1>. QED BY <1>1, <1>2

\* handle_tray_menu_id keeps the types.
LEMMA ClickStepTypes ==
  ASSUME TrayTypeOK, ClickStep
  PROVE  TrayTypeOK'
<1>. USE TypeParts, TypePartsNext
<1>1. ReceiverTypes' /\ MenuTypes' /\ BulkTypes' /\ LockTypes'
  BY DEF ClickStep, ClickStarts, ClickStops, MarkClicked, RunTask, ReceiverTypes, MenuTypes,
         BulkTypes, LockTypes, receiverVars, menuVars, lockVars
<1>2. silent' = silent
  BY DEF ClickStep, ClickStarts, ClickStops, MarkClicked, RunTask
<1>3. silent' \subseteq {"refused", "control"}
  BY <1>2 DEF CountTypes
<1>4. ASSUME NEW s \in Services, ClickStarts(s) PROVE TrayTypeOK'
  BY <1>1, <1>3, <1>4, ActType
     DEF ClickStarts, ServiceTypes, MarkTypes, DeskTypes, serviceVars, markVars
<1>5. ASSUME NEW s \in Services, ClickStops(s) PROVE TrayTypeOK'
  BY <1>1, <1>3, <1>5, ActType
     DEF ClickStops, ServiceTypes, MarkTypes, DeskTypes, serviceVars, markVars
<1>6. CASE MarkClicked
  <2>1. click \in Services
    BY <1>6 DEF MarkClicked, DeskTypes
  <2>2. MarkTypes' BY <1>6, <2>1, MarkType DEF MarkClicked
  <2>3. DeskTypes' BY <1>6, <2>1 DEF MarkClicked, DeskTypes
  <2>. QED
    BY <1>1, <1>2, <1>6, <2>2, <2>3 DEF MarkClicked, ServiceTypes, CountTypes, serviceVars
<1>7. ASSUME NEW task \in tasks, RunTask(task) PROVE TrayTypeOK'
  <2>1. task[2] \in Services
    BY <1>7 DEF DeskTypes
  <2>2. ServiceTypes' /\ MarkTypes'
    <3>1. CASE task[1] = "start"
      BY <1>7, <2>1, <3>1, StartMarkedType DEF RunTask, Origins
    <3>2. CASE task[1] # "start"
      BY <1>7, <3>2, StopAllType DEF RunTask, MarkTypes, markVars
    <3>. QED BY <3>1, <3>2
  <2>3. DeskTypes' BY <1>7 DEF RunTask, DeskTypes
  <2>. QED BY <1>1, <1>2, <1>7, <2>2, <2>3 DEF RunTask, CountTypes
<1>. QED
  BY <1>4, <1>5, <1>6, <1>7 DEF ClickStep

\* The subscriber loop and the refreshes it posts keep the types.
LEMMA LoopStepTypes ==
  ASSUME TrayTypeOK, LoopStep \/ RunRefresh
  PROVE  TrayTypeOK'
<1>. USE TypeParts, TypePartsNext
<1>1. ServiceTypes' /\ BulkTypes' /\ LockTypes'
  BY DEF LoopStep, Hear, HearLag, Refresh, RunRefresh, ServiceTypes, BulkTypes, LockTypes,
         serviceVars, lockVars
<1>2. CountTypes'
  BY DEF LoopStep, Hear, HearLag, Refresh, RunRefresh, CountTypes
<1>3. CASE Hear
  <2>1. ReceiverTypes'
    BY <1>3, TrayAssumption DEF Hear, ReceiverTypes
  <2>2. MarkTypes'
    BY <1>3 DEF Hear, Resolve, MarkTypes
  <2>. QED
    BY <1>1, <1>2, <1>3, <2>1, <2>2 DEF Hear, DeskTypes, MenuTypes, menuVars
<1>4. CASE HearLag
  BY <1>1, <1>2, <1>4
     DEF HearLag, AfterLag, ReceiverTypes, MarkTypes, DeskTypes, MenuTypes, markVars, menuVars
<1>5. CASE Refresh
  <2>1. MenuTypes'
    BY <1>5, PostType DEF Refresh, ServiceTypes
  <2>. QED
    BY <1>1, <1>2, <1>5, <2>1
       DEF Refresh, ReceiverTypes, MarkTypes, DeskTypes, receiverVars, markVars
<1>6. CASE RunRefresh
  <2>1. Head(posted) \in Snapshots /\ Tail(posted) \in Seq(Snapshots) /\ Len(Tail(posted)) <= MaxPosted
    BY <1>6, TrayAssumption DEF RunRefresh, MenuTypes
  <2>2. MenuTypes'
    BY <1>6, <2>1, ModelType DEF RunRefresh, MenuTypes
  <2>. QED
    BY <1>1, <1>2, <1>6, <2>2
       DEF RunRefresh, ReceiverTypes, MarkTypes, DeskTypes, receiverVars, markVars
<1>. QED
  BY <1>3, <1>4, <1>5, <1>6 DEF LoopStep

\* An Apply keeps the types.
LEMMA ApplyStepTypes ==
  ASSUME TrayTypeOK, ApplyStep
  PROVE  TrayTypeOK'
<1>. USE TypeParts, TypePartsNext
<1>1. ReceiverTypes' /\ DeskTypes' /\ MenuTypes' /\ BulkTypes' /\ silent' = silent
  BY DEF ApplyStep, ReceiverTypes, DeskTypes, MenuTypes, BulkTypes, receiverVars, menuVars
<1>2. silent' \subseteq {"refused", "control"}
  BY <1>1 DEF CountTypes
<1>3. CASE ApplyLocks /\ Act
  BY <1>1, <1>2, <1>3, ActType
     DEF ApplyLocks, ServiceTypes, MarkTypes, LockTypes, serviceVars, markVars
<1>4. ASSUME NEW s \in Services, ApplyStops(s), UNCHANGED acts PROVE TrayTypeOK'
  <2>1. ServiceTypes' BY <1>4, StopAllType DEF ApplyStops
  <2>. QED
    BY <1>1, <1>2, <1>4, <2>1
       DEF ApplyStops, MarkTypes, LockTypes, CountTypes, markVars, lockVars
<1>5. ASSUME NEW s \in Services, ApplyStarts(s), UNCHANGED acts PROVE TrayTypeOK'
  <2>1. ServiceTypes' /\ MarkTypes' BY <1>5, OtherStartsType DEF ApplyStarts
  <2>. QED
    BY <1>1, <1>2, <1>5, <2>1 DEF ApplyStarts, LockTypes, CountTypes, lockVars
<1>6. ASSUME NEW s \in Services, ApplyLeaves(s), UNCHANGED acts PROVE TrayTypeOK'
  BY <1>1, <1>2, <1>6
     DEF ApplyLeaves, ServiceTypes, MarkTypes, LockTypes, CountTypes, serviceVars, markVars, lockVars
<1>7. CASE ApplyEnds /\ UNCHANGED acts
  BY <1>1, <1>2, <1>7
     DEF ApplyEnds, ServiceTypes, MarkTypes, LockTypes, CountTypes, serviceVars, markVars
<1>. QED
  BY <1>3, <1>4, <1>5, <1>6, <1>7 DEF ApplyStep

\* How the record of a dispatcher may change.
LEMMA MoveType ==
  ASSUME BulkTypes, NEW d \in Dispatchers, NEW from, NEW to \in Stages, Move(d, from, to)
  PROVE  BulkTypes'
BY DEF BulkTypes, Move

\* A dispatcher at rest has a record of the type.
LEMMA NoBulkType ==
  NoBulk \in [stage : Stages, kind : AllKinds, snapshot : Snapshots \union {None},
              todo : SUBSET Services]
BY DEF NoBulk, Stages, AllKinds

\* A bulk action keeps the types: what it posts is a snapshot.
LEMMA BulkStepTypes ==
  ASSUME TrayTypeOK, SelectionIsClear, NEW d \in Dispatchers, BulkStep(d)
  PROVE  TrayTypeOK'
<1>. USE TypeParts, TypePartsNext
<1>. DEFINE Others == ReceiverTypes' /\ DeskTypes' /\ restarting' = restarting
<1>1. Others
  BY DEF BulkStep, ReceiverTypes, DeskTypes, receiverVars
<1>2. ASSUME NEW kind \in Kinds, TryBulk(d, kind), Act PROVE TrayTypeOK'
  <2>1. kind \in AllKinds BY TrayAssumption
  <2>2. BulkTypes' BY <1>2, <2>1, NoBulkType DEF TryBulk, BulkTypes, Stages
  <2>3. LockTypes' BY <1>1, <1>2 DEF TryBulk, LockTypes
  <2>4. CountTypes' BY <1>2, ActType DEF TryBulk, CountTypes
  <2>. QED
    BY <1>1, <1>2, <2>2, <2>3, <2>4
       DEF TryBulk, ServiceTypes, MarkTypes, MenuTypes, serviceVars, markVars, menuVars
<1>3. CASE Admitted(d) /\ UNCHANGED acts
  <2>1. BulkTypes' BY <1>3, MoveType DEF Admitted, Stages
  <2>2. LockTypes' BY <1>1, <1>3 DEF Admitted, LockTypes
  <2>. QED
    BY <1>1, <1>3, <2>1, <2>2
       DEF Admitted, ServiceTypes, MarkTypes, MenuTypes, CountTypes, serviceVars, markVars, menuVars
<1>4. CASE TurnedAway(d) /\ UNCHANGED acts
  <2>1. BulkTypes' BY <1>4, NoBulkType DEF TurnedAway, BulkTypes
  <2>2. LockTypes' BY <1>1, <1>4 DEF TurnedAway, LockTypes
  <2>. QED
    BY <1>1, <1>4, <2>1, <2>2
       DEF TurnedAway, ServiceTypes, MarkTypes, MenuTypes, CountTypes, serviceVars, markVars, menuVars
<1>5. CASE Looks(d) /\ UNCHANGED acts
  <2>1. BulkTypes' BY <1>5 DEF Looks, BulkTypes, Stages, ServiceTypes
  <2>. QED
    BY <1>1, <1>5, <2>1
       DEF Looks, ServiceTypes, MarkTypes, MenuTypes, LockTypes, CountTypes, serviceVars, markVars,
           menuVars, lockVars
<1>6. CASE Posts(d) /\ UNCHANGED acts
  <2>1. bulk[d].snapshot \in Snapshots
    BY <1>6 DEF Posts, SelectionIsClear
  <2>2. MenuTypes'
    BY <1>6, <2>1, PostType DEF Posts, MenuTypes
  <2>3. BulkTypes'
    BY <1>6, NoBulkType, SelectionType DEF Posts, BulkTypes, Stages
  <2>. QED
    BY <1>1, <1>6, <2>2, <2>3
       DEF Posts, ServiceTypes, MarkTypes, LockTypes, CountTypes, serviceVars, markVars, lockVars
<1>7. ASSUME NEW s \in Services, Marks(d, s), UNCHANGED acts PROVE TrayTypeOK'
  <2>1. BulkTypes' BY <1>7, MoveType DEF Marks, Stages
  <2>2. MarkTypes' BY <1>7, MarkType DEF Marks
  <2>. QED
    BY <1>1, <1>7, <2>1, <2>2
       DEF Marks, ServiceTypes, MenuTypes, LockTypes, CountTypes, serviceVars, menuVars, lockVars
<1>8. ASSUME NEW s \in Services, Starts(d, s), UNCHANGED acts PROVE TrayTypeOK'
  <2>1. BulkTypes'
    <3>1. bulk[d].todo \ {s} \in SUBSET Services /\ "working" \in Stages
      BY DEF BulkTypes, Stages
    <3>2. [bulk[d] EXCEPT !.stage = "working", !.todo = @ \ {s}] \in
            [stage : Stages, kind : AllKinds, snapshot : Snapshots \union {None},
             todo : SUBSET Services]
      BY <3>1 DEF BulkTypes
    <3>. QED BY <1>8, <3>2 DEF Starts, BulkTypes
  <2>2. ServiceTypes' /\ MarkTypes' BY <1>8, StartMarkedType DEF Starts, Origins
  <2>. QED
    BY <1>1, <1>8, <2>1, <2>2
       DEF Starts, MenuTypes, LockTypes, CountTypes, menuVars, lockVars
<1>9. CASE Sweeps(d) /\ UNCHANGED acts
  <2>1. BulkTypes' BY <1>9 DEF Sweeps, BulkTypes, Stages
  <2>2. ServiceTypes' BY <1>9, StopAllType DEF Sweeps
  <2>. QED
    BY <1>1, <1>9, <2>1, <2>2
       DEF Sweeps, MarkTypes, MenuTypes, LockTypes, CountTypes, markVars, menuVars, lockVars
<1>10. CASE Releases(d) /\ UNCHANGED acts
  <2>1. BulkTypes' BY <1>10, NoBulkType DEF Releases, BulkTypes, Stages
  <2>2. LockTypes' BY <1>1, <1>10 DEF Releases, LockTypes
  <2>3. CountTypes' BY <1>10 DEF Releases, CountTypes
  <2>. QED
    BY <1>1, <1>10, <2>1, <2>2, <2>3
       DEF Releases, ServiceTypes, MarkTypes, MenuTypes, serviceVars, markVars, menuVars
<1>. QED
  BY <1>2, <1>3, <1>4, <1>5, <1>6, <1>7, <1>8, <1>9, <1>10 DEF BulkStep

-----------------------------------------------------------------------------
(* The locks. *)

\* Only bulk actions and Applies touch the locks and what they say about.
LEMMA LocksUntouched ==
  ASSUME LocksAreHeld, UNCHANGED <<bulk, lockVars, restarting>>
  PROVE  LocksAreHeld'
BY DEF LocksAreHeld, HoldsBulk, HoldsApply, lockVars

\* A move within the two locks.
LEMMA LocksKept ==
  ASSUME LocksAreHeld, UNCHANGED <<lockVars, restarting>>,
         \A d \in Dispatchers : (HoldsBulk(d)' <=> HoldsBulk(d)) /\ (HoldsApply(d)' <=> HoldsApply(d))
  PROVE  LocksAreHeld'
BY DEF LocksAreHeld, lockVars

\* A bulk action holds what its stage says.
LEMMA LocksBulkStep ==
  ASSUME BulkTypes, LocksAreHeld, NEW d \in Dispatchers, BulkStep(d)
  PROVE  LocksAreHeld'
<1>0. restarting' = restarting
  BY DEF BulkStep
<1>1. ASSUME NEW kind \in Kinds, TryBulk(d, kind) PROVE LocksAreHeld'
  BY <1>0, <1>1, TrayAssumption
     DEF TryBulk, LocksAreHeld, HoldsBulk, HoldsApply, BulkTypes, NoBulk
<1>2. CASE Admitted(d)
  BY <1>0, <1>2, TrayAssumption
     DEF Admitted, MayApply, Move, LocksAreHeld, HoldsBulk, HoldsApply, BulkTypes
<1>3. CASE TurnedAway(d)
  BY <1>0, <1>3, TrayAssumption DEF TurnedAway, LocksAreHeld, HoldsBulk, HoldsApply, BulkTypes, NoBulk
<1>4. CASE Looks(d)
  BY <1>0, <1>4, LocksKept DEF Looks, HoldsBulk, HoldsApply, BulkTypes
<1>5. CASE Posts(d)
  BY <1>0, <1>5, LocksKept DEF Posts, HoldsBulk, HoldsApply, BulkTypes, NoBulk
<1>6. ASSUME NEW s \in Services, Marks(d, s) PROVE LocksAreHeld'
  BY <1>0, <1>6, LocksKept DEF Marks, Move, HoldsBulk, HoldsApply, BulkTypes
<1>7. ASSUME NEW s \in Services, Starts(d, s) PROVE LocksAreHeld'
  BY <1>0, <1>7, LocksKept DEF Starts, HoldsBulk, HoldsApply, BulkTypes
<1>8. CASE Sweeps(d)
  BY <1>0, <1>8, LocksKept DEF Sweeps, HoldsBulk, HoldsApply, BulkTypes
<1>9. CASE Releases(d)
  <2>1. HoldsApply(d) /\ HoldsBulk(d)
    BY <1>9 DEF Releases, WorkIsOver, HoldsApply, HoldsBulk
  <2>. QED
    BY <1>0, <1>9, <2>1, TrayAssumption
       DEF Releases, LocksAreHeld, HoldsBulk, HoldsApply, BulkTypes, NoBulk
<1>. QED
  BY <1>1, <1>2, <1>3, <1>4, <1>5, <1>6, <1>7, <1>8, <1>9 DEF BulkStep

\* An Apply holds ApplyLock as long as it restarts.
LEMMA LocksApplyStep ==
  ASSUME LocksAreHeld, ApplyStep
  PROVE  LocksAreHeld'
<1>. USE TrayAssumption DEF LocksAreHeld, HoldsBulk, HoldsApply
<1>1. bulk' = bulk
  BY DEF ApplyStep
<1>2. CASE ApplyLocks BY <1>1, <1>2 DEF ApplyLocks
<1>3. ASSUME NEW s \in Services, ApplyStops(s) PROVE LocksAreHeld'
  BY <1>1, <1>3 DEF ApplyStops, lockVars
<1>4. ASSUME NEW s \in Services, ApplyStarts(s) PROVE LocksAreHeld'
  BY <1>1, <1>4 DEF ApplyStarts, lockVars
<1>5. ASSUME NEW s \in Services, ApplyLeaves(s) PROVE LocksAreHeld'
  BY <1>1, <1>5 DEF ApplyLeaves, lockVars
<1>6. CASE ApplyEnds BY <1>1, <1>6 DEF ApplyEnds
<1>. QED BY <1>2, <1>3, <1>4, <1>5, <1>6 DEF ApplyStep

\* Every step keeps the locks with those who hold them.
LEMMA LocksStep ==
  ASSUME BulkTypes, LocksAreHeld, [Next]_vars
  PROVE  LocksAreHeld'
<1>1. CASE ServiceStep BY <1>1, LocksUntouched DEF ServiceStep
<1>2. CASE ClickStep
  BY <1>2, LocksUntouched DEF ClickStep, ClickStarts, ClickStops, MarkClicked, RunTask
<1>3. CASE LoopStep \/ RunRefresh
  BY <1>3, LocksUntouched DEF LoopStep, Hear, HearLag, Refresh, RunRefresh
<1>4. CASE ApplyStep BY <1>4, LocksApplyStep
<1>5. CASE \E d \in Dispatchers : BulkStep(d) BY <1>5, LocksBulkStep
<1>6. CASE UNCHANGED vars BY <1>6, LocksUntouched DEF vars
<1>. QED BY <1>1, <1>2, <1>3, <1>4, <1>5, <1>6 DEF Next

\* Whoever works holds both locks.
LEMMA LocksKeepApart == LocksAreHeld => BulkKeepsApart
BY TrayAssumption DEF LocksAreHeld, BulkKeepsApart, HoldsBulk, HoldsApply, AtWork

-----------------------------------------------------------------------------
(* Who is live through Start all. *)

NoNewBulk == \A t \in Services : BulkLive(t)' => BulkLive(t)

\* Nobody comes up through Start all when nobody comes up.
LEMMA SameServices == ASSUME UNCHANGED <<status, origin>> PROVE NoNewBulk
BY DEF NoNewBulk, BulkLive

\* A service that goes down, or that is registered, is not live.
LEMMA WriteIdle ==
  ASSUME ServiceTypes, NEW s \in Services, NEW state \in {"Stopped", "Failed", "Unregistered"},
         Write(s, state), \A t \in Services \ {s} : origin'[t] = origin[t]
  PROVE  NoNewBulk
BY DEF NoNewBulk, BulkLive, ServiceTypes, Write, Snapshots, Live

\* A start brings up one service, through whom it was started.
LEMMA BeginLive ==
  ASSUME ServiceTypes, NEW s \in Services, NEW who \in Origins, Begin(s, who)
  PROVE  \A t \in Services : BulkLive(t)' => BulkLive(t) \/ (t = s /\ who = "bulk")
BY DEF BulkLive, ServiceTypes, Begin, Write, Snapshots, Live

\* Services, their channel and other callers bring up nothing through Start all.
LEMMA ServiceStepLive ==
  ASSUME ServiceTypes, ServiceStep
  PROVE  NoNewBulk
<1>1. ASSUME NEW s \in Services, BecomesReady(s) PROVE NoNewBulk
  BY <1>1 DEF BecomesReady, Write, NoNewBulk, BulkLive, ServiceTypes, Snapshots, Live
<1>2. ASSUME NEW s \in Services, NEW outcome \in Idle, Ends(s, outcome) PROVE NoNewBulk
  <2>1. \A t \in Services \ {s} : origin'[t] = origin[t]
    BY <1>2 DEF Ends, ServiceTypes
  <2>. QED BY <1>2, <2>1, WriteIdle DEF Ends, Idle
<1>3. ASSUME NEW s \in Services, Unregister(s) \/ Register(s) PROVE NoNewBulk
  BY <1>3, WriteIdle DEF Unregister, Register
<1>4. ASSUME NEW s \in Services, OtherStops(s) PROVE NoNewBulk
  BY <1>4, SameServices DEF OtherStops, StopAll
<1>5. ASSUME NEW s \in Services, NEW news \in unsent[s], Broadcast(s, news) PROVE NoNewBulk
  BY <1>5, SameServices DEF Broadcast
<1>6. ASSUME NEW s \in Services, OtherStarts(s) PROVE NoNewBulk
  BY <1>6, BeginLive DEF OtherStarts, NoNewBulk, Origins
<1>7. CASE Overrun
  BY <1>7, SameServices DEF Overrun, serviceVars
<1>. QED
  BY <1>1, <1>2, <1>3, <1>4, <1>5, <1>6, <1>7 DEF ServiceStep

\* A row brings up nothing through Start all.
LEMMA ClickStepLive ==
  ASSUME ServiceTypes, DeskTypes, ClickStep
  PROVE  NoNewBulk
<1>1. ASSUME NEW s \in Services, ClickStarts(s) \/ ClickStops(s) PROVE NoNewBulk
  BY <1>1, SameServices DEF ClickStarts, ClickStops, serviceVars
<1>2. CASE MarkClicked
  BY <1>2, SameServices DEF MarkClicked, serviceVars
<1>3. ASSUME NEW task \in tasks, RunTask(task) PROVE NoNewBulk
  <2>1. task[2] \in Services BY <1>3 DEF DeskTypes
  <2>2. CASE Begin(task[2], "row")
    BY <2>1, <2>2, BeginLive DEF NoNewBulk, Origins
  <2>3. CASE UNCHANGED <<status, origin>>
    BY <2>3, SameServices
  <2>. QED BY <1>3, <2>2, <2>3 DEF RunTask, StartMarked, Start, StopAll, serviceVars
<1>. QED BY <1>1, <1>2, <1>3 DEF ClickStep

\* An Apply brings up nothing through Start all.
LEMMA ApplyStepLive ==
  ASSUME ServiceTypes, ApplyStep
  PROVE  NoNewBulk
<1>1. ASSUME NEW s \in Services, ApplyStarts(s) PROVE NoNewBulk
  BY <1>1, BeginLive DEF ApplyStarts, OtherStarts, NoNewBulk, Origins
<1>2. CASE UNCHANGED <<status, origin>>
  BY <1>2, SameServices
<1>. QED
  BY <1>1, <1>2 DEF ApplyStep, ApplyLocks, ApplyStops, ApplyLeaves, ApplyEnds, StopAll, serviceVars

\* Only Start all's own start adds to what is live through it.
LEMMA BulkStepLive ==
  ASSUME ServiceTypes, NEW d \in Dispatchers, BulkStep(d)
  PROVE  NoNewBulk \/ \E s \in Services : Starts(d, s)
<1>1. CASE \E s \in Services : Starts(d, s)
  BY <1>1
<1>2. CASE UNCHANGED <<status, origin>>
  BY <1>2, SameServices
<1>. QED
  BY <1>1, <1>2
     DEF BulkStep, TryBulk, Admitted, TurnedAway, Looks, Posts, Marks, Sweeps, Releases,
         StopAll, serviceVars

\* Start all brings up the service it starts.
LEMMA StartsLive ==
  ASSUME ServiceTypes, NEW d \in Dispatchers, NEW s \in Services, Starts(d, s)
  PROVE  \A t \in Services : BulkLive(t)' => BulkLive(t) \/ t = s
<1>1. CASE Begin(s, "bulk")
  BY <1>1, BeginLive DEF Origins
<1>2. CASE UNCHANGED serviceVars
  BY <1>2, SameServices DEF NoNewBulk, serviceVars
<1>. QED BY <1>1, <1>2 DEF Starts, StartMarked, Start

-----------------------------------------------------------------------------
(* What Start all selects. *)

\* A selection stays clear as long as nobody comes up through Start all and the
\* dispatchers are left alone.
LEMMA SelectionUntouched ==
  ASSUME SelectionIsClear, NoNewBulk, bulk' = bulk
  PROVE  SelectionIsClear'
BY DEF SelectionIsClear, NoNewBulk, BulkLive, HoldsBulk

\* Of the services of one endpoint at most one is selected, and that only if
\* none is live.
LEMMA SelectionApart ==
  ASSUME NEW snapshot \in Snapshots,
         NEW s \in BulkStartIds(snapshot), NEW t \in Services, Rivals(s, t)
  PROVE  snapshot[t] \notin Live /\ t \notin BulkStartIds(snapshot)
<1>1. s \in Services /\ Endpoint[s] # None /\ snapshot[s] \in Idle
  BY DEF BulkStartIds, Rivals
<1>2. snapshot[t] \notin Live
  BY <1>1 DEF BulkStartIds, Held, Rivals
<1>3. ASSUME t \in BulkStartIds(snapshot) PROVE FALSE
  <2>1. snapshot[t] \in Idle /\ Rank[t] <= Rank[s] /\ Rank[s] <= Rank[t]
    BY <1>1, <1>3 DEF BulkStartIds, Rivals
  <2>2. Rank[s] \in Nat /\ Rank[t] \in Nat
    BY <1>1, TrayAssumption
  <2>3. Rank[s] = Rank[t]
    BY <2>1, <2>2
  <2>. QED BY <1>1, <2>3, TrayAssumption DEF Rivals
<1>. QED BY <1>2, <1>3

\* The part of SelectionIsClear about one dispatcher.
Clear(d) ==
  /\ bulk[d].stage = "posting" =>
       \A s \in Services : BulkLive(s) => bulk[d].snapshot[s] \in Live
  /\ bulk[d].stage \in {"posting", "reposting"} => bulk[d].snapshot \in Snapshots
  /\ bulk[d].todo # {} => HoldsBulk(d)
  /\ \A s \in bulk[d].todo, t \in Services :
       Rivals(s, t) => ~BulkLive(t) /\ t \notin bulk[d].todo

\* SelectionIsClear is Clear of every dispatcher; so it is of the next state.
LEMMA ClearOfEach == SelectionIsClear <=> \A d \in Dispatchers : Clear(d)
BY DEF SelectionIsClear, Clear
\* The same of the next state.
LEMMA ClearOfEachNext == (\A d \in Dispatchers : Clear(d)') => SelectionIsClear'
BY DEF SelectionIsClear, Clear

\* A dispatcher that is left alone stays clear while nobody comes up.
LEMMA ClearOfOthers ==
  ASSUME NEW d \in Dispatchers, Clear(d), NoNewBulk, bulk'[d] = bulk[d]
  PROVE  Clear(d)'
BY DEF Clear, NoNewBulk, BulkLive, HoldsBulk

\* What Start all selects is clear, and what it starts leaves the rest clear.
LEMMA SelectionBulkStep ==
  ASSUME ServiceTypes, BulkTypes, LocksAreHeld, SelectionIsClear,
         NEW d \in Dispatchers, BulkStep(d)
  PROVE  SelectionIsClear'
<1>. USE ClearOfEach
<1>1. \A e \in Dispatchers \ {d} : bulk'[e] = bulk[e]
  BY DEF BulkStep, TryBulk, Admitted, TurnedAway, Looks, Posts, Marks, Starts, Sweeps, Releases,
         Move, BulkTypes
<1>2. CASE NoNewBulk
  <2>1. \A e \in Dispatchers \ {d} : Clear(e)'
    BY <1>1, <1>2, ClearOfOthers
  <2>2. Clear(d)
    OBVIOUS
  <2>. USE <1>2, <2>2 DEF Clear, NoNewBulk, HoldsBulk, BulkTypes, Rivals
  <2>3. ASSUME NEW kind \in Kinds, TryBulk(d, kind) PROVE Clear(d)'
    BY <2>3 DEF TryBulk, NoBulk
  <2>4. ASSUME Admitted(d) PROVE Clear(d)'
    BY <2>4 DEF Admitted, Move
  <2>5. ASSUME TurnedAway(d) PROVE Clear(d)'
    BY <2>5 DEF TurnedAway, NoBulk
  <2>6. ASSUME Looks(d) PROVE Clear(d)'
    BY <2>6 DEF Looks, ServiceTypes, BulkLive, serviceVars
  <2>7. ASSUME Posts(d) PROVE Clear(d)'
    <3>1. CASE bulk[d].stage = "reposting"
      BY <2>7, <3>1 DEF Posts, NoBulk
    <3>2. CASE bulk[d].stage = "posting"
      <4>1. bulk[d].snapshot \in Snapshots
        BY <3>2
      <4>2. bulk'[d].stage = "working" /\ bulk'[d].todo \in {{}, BulkStartIds(bulk[d].snapshot)}
        BY <2>7, <3>2 DEF Posts
      <4>3. ASSUME NEW s \in bulk'[d].todo, NEW t \in Services, Rivals(s, t)
            PROVE  ~BulkLive(t)' /\ t \notin bulk'[d].todo
        <5>1. bulk'[d].todo = BulkStartIds(bulk[d].snapshot)
          BY <4>2, <4>3
        <5>2. bulk[d].snapshot[t] \notin Live /\ t \notin bulk'[d].todo
          BY <4>1, <4>3, <5>1, SelectionApart
        <5>. QED BY <3>2, <5>2
      <4>4. bulk'[d].todo # {} => HoldsBulk(d)'
        BY <4>2
      <4>. QED BY <4>2, <4>3, <4>4 DEF Rivals
    <3>. QED BY <2>7, <3>1, <3>2 DEF Posts
  <2>8. ASSUME NEW s \in Services, Marks(d, s) PROVE Clear(d)'
    BY <2>8 DEF Marks, Move
  <2>9. ASSUME NEW s \in Services, Starts(d, s) PROVE Clear(d)'
    BY <2>9 DEF Starts
  <2>10. ASSUME Sweeps(d) PROVE Clear(d)'
    BY <2>10 DEF Sweeps
  <2>11. ASSUME Releases(d) PROVE Clear(d)'
    BY <2>11 DEF Releases, NoBulk
  <2>12. Clear(d)'
    BY <2>3, <2>4, <2>5, <2>6, <2>7, <2>8, <2>9, <2>10, <2>11 DEF BulkStep
  <2>. QED BY <2>1, <2>12, ClearOfEachNext
<1>3. ASSUME NEW s \in Services, Starts(d, s) PROVE SelectionIsClear'
  <2>1. HoldsBulk(d) /\ s \in bulk[d].todo
    BY <1>3 DEF Starts, IsFirst, HoldsBulk
  <2>2. \A e \in Dispatchers \ {d} : ~HoldsBulk(e)
    BY <2>1 DEF LocksAreHeld
  <2>3. \A t \in Services : BulkLive(t)' => BulkLive(t) \/ t = s
    BY <1>3, StartsLive
  <2>4. ASSUME NEW e \in Dispatchers \ {d} PROVE Clear(e)'
    <3>1. Clear(e) /\ ~HoldsBulk(e) /\ bulk'[e] = bulk[e]
      BY <1>1, <2>2
    <3>. QED BY <3>1 DEF Clear, HoldsBulk
  <2>5. Clear(d)'
    <3>1. bulk'[d].stage = "working" /\ bulk'[d].todo = bulk[d].todo \ {s}
      BY <1>3 DEF Starts, BulkTypes
    <3>2. Clear(d)
      OBVIOUS
    <3>3. ASSUME NEW u \in bulk'[d].todo, NEW t \in Services, Rivals(u, t)
          PROVE  ~BulkLive(t)' /\ t \notin bulk'[d].todo
      BY <2>1, <2>3, <3>1, <3>2, <3>3 DEF Clear
    <3>. QED BY <3>1, <3>3 DEF Clear, HoldsBulk, Rivals
  <2>. QED BY <2>4, <2>5, ClearOfEachNext
<1>. QED
  BY <1>2, <1>3, BulkStepLive

\* Every step keeps the selections clear.
LEMMA SelectionStep ==
  ASSUME TrayTypeOK, LocksAreHeld, SelectionIsClear, [Next]_vars
  PROVE  SelectionIsClear'
<1>. USE TypeParts
<1>1. CASE ServiceStep
  BY <1>1, ServiceStepLive, SelectionUntouched DEF ServiceStep
<1>2. CASE ClickStep
  <2>1. bulk' = bulk
    BY <1>2 DEF ClickStep, ClickStarts, ClickStops, MarkClicked, RunTask
  <2>. QED BY <1>2, <2>1, ClickStepLive, SelectionUntouched
<1>3. CASE LoopStep \/ RunRefresh
  <2>1. UNCHANGED <<status, origin, bulk>>
    BY <1>3 DEF LoopStep, Hear, HearLag, Refresh, RunRefresh, serviceVars
  <2>. QED BY <2>1, SameServices, SelectionUntouched
<1>4. CASE ApplyStep
  BY <1>4, ApplyStepLive, SelectionUntouched DEF ApplyStep
<1>5. CASE \E d \in Dispatchers : BulkStep(d)
  BY <1>5, SelectionBulkStep
<1>6. CASE UNCHANGED vars
  BY <1>6, SameServices, SelectionUntouched DEF vars, serviceVars
<1>. QED BY <1>1, <1>2, <1>3, <1>4, <1>5, <1>6 DEF Next

\* What Start all starts has no rival that is live through it.
LEMMA EndpointsStep ==
  ASSUME TrayTypeOK, SelectionIsClear, EndpointsApart, [Next]_vars
  PROVE  EndpointsApart'
<1>. USE TypeParts
<1>1. \A s, t \in Services : Rivals(s, t) => ~(BulkLive(s) /\ BulkLive(t))
  BY DEF EndpointsApart, Rivals, BulkLive
<1>2. SUFFICES \A s, t \in Services : Rivals(s, t) => ~(BulkLive(s)' /\ BulkLive(t)')
  BY <1>2 DEF EndpointsApart, Rivals, BulkLive
<1>3. CASE NoNewBulk
  BY <1>1, <1>3 DEF NoNewBulk
<1>4. ASSUME NEW d \in Dispatchers, NEW u \in Services, Starts(d, u)
      PROVE  \A s, t \in Services : Rivals(s, t) => ~(BulkLive(s)' /\ BulkLive(t)')
  <2>1. u \in bulk[d].todo
    BY <1>4 DEF Starts, IsFirst
  <2>2. \A t \in Services : Rivals(u, t) => ~BulkLive(t)
    BY <2>1 DEF SelectionIsClear
  <2>3. \A t \in Services : BulkLive(t)' => BulkLive(t) \/ t = u
    BY <1>4, StartsLive
  <2>. QED BY <1>1, <2>2, <2>3 DEF Rivals
<1>5. NoNewBulk \/ \E d \in Dispatchers, u \in Services : Starts(d, u)
  <2>1. CASE ServiceStep BY <2>1, ServiceStepLive
  <2>2. CASE ClickStep BY <2>2, ClickStepLive
  <2>3. CASE LoopStep \/ RunRefresh
    BY <2>3, SameServices DEF LoopStep, Hear, HearLag, Refresh, RunRefresh, serviceVars
  <2>4. CASE ApplyStep BY <2>4, ApplyStepLive
  <2>5. CASE \E d \in Dispatchers : BulkStep(d) BY <2>5, BulkStepLive
  <2>6. CASE UNCHANGED vars BY <2>6, SameServices DEF vars, serviceVars
  <2>. QED BY <2>1, <2>2, <2>3, <2>4, <2>5, <2>6 DEF Next
<1>. QED BY <1>3, <1>4, <1>5

-----------------------------------------------------------------------------
(* The menu follows. *)

\* The two parts of MenuFollows.
RowsFollow == NewsComes \/ overtaken \/ LastPosted = status
ButtonsFollow ==
  \/ shown = TrayModel(shown.rows, FALSE) \/ silent # {} \/ posted # <<>>
  \/ \E d \in Dispatchers : bulk[d].stage # "idle"

\* The two parts are MenuFollows; so they are of the next state.
LEMMA MenuParts == MenuFollows <=> RowsFollow /\ ButtonsFollow
BY DEF MenuFollows, RowsFollow, ButtonsFollow
\* The same of the next state.
LEMMA MenuPartsNext == RowsFollow' /\ ButtonsFollow' => MenuFollows'
BY DEF MenuFollows, RowsFollow, ButtonsFollow

\* A service that changes its state has news to be sent.
LEMMA TellIsNews ==
  ASSUME ServiceTypes, NEW s \in Services, NEW state, NEW owed, Tell(s, state, owed)
  PROVE  RowsFollow'
BY DEF ServiceTypes, Tell, RowsFollow, NewsComes

\* Rows that nobody touches follow as before.
LEMMA RowsUntouched ==
  ASSUME RowsFollow, UNCHANGED <<status, unsent, channel, lagged, loop, posted, shown, overtaken>>
  PROVE  RowsFollow'
BY DEF RowsFollow, NewsComes, LastPosted

\* Whatever becomes of a service, its news is on the way.
LEMMA RowsServiceStep ==
  ASSUME ServiceTypes, ReceiverTypes, RowsFollow, ServiceStep
  PROVE  RowsFollow'
<1>0. UNCHANGED <<loop, posted, shown, overtaken>>
  BY DEF ServiceStep, menuVars
<1>1. ASSUME NEW s \in Services, BecomesReady(s) \/ Unregister(s) \/ Register(s) \/ OtherStarts(s)
      PROVE  RowsFollow'
  BY <1>1, TellIsNews DEF BecomesReady, Unregister, Register, OtherStarts, Begin
<1>2. ASSUME NEW s \in Services, NEW outcome \in Idle, Ends(s, outcome) PROVE RowsFollow'
  BY <1>2, TellIsNews DEF Ends
<1>3. ASSUME NEW s \in Services, OtherStops(s), UNCHANGED receiverVars PROVE RowsFollow'
  BY <1>0, <1>3, RowsUntouched DEF OtherStops, StopAll, receiverVars
<1>4. ASSUME NEW s \in Services, NEW news \in unsent[s], Broadcast(s, news) PROVE RowsFollow'
  <2>1. news \in News
    BY <1>4 DEF ServiceTypes
  <2>2. channel' # <<>>
    BY <1>4, <2>1 DEF Broadcast, ReceiverTypes, Event
  <2>. QED BY <2>2 DEF RowsFollow, NewsComes
<1>5. CASE Overrun
  BY <1>5 DEF Overrun, RowsFollow, NewsComes
<1>. QED
  BY <1>1, <1>2, <1>3, <1>4, <1>5 DEF ServiceStep

\* Supervisor::start tells of the state it writes.
LEMMA StartFollows ==
  ASSUME ServiceTypes, RowsFollow, NEW s \in Services, NEW who, Start(s, who),
         UNCHANGED <<channel, lagged, loop, posted, shown, overtaken>>
  PROVE  RowsFollow'
<1>1. CASE Begin(s, who) BY <1>1, TellIsNews DEF Begin
<1>2. CASE UNCHANGED serviceVars BY <1>2, RowsUntouched DEF serviceVars
<1>. QED BY <1>1, <1>2 DEF Start

\* The same for a click on a row.
LEMMA RowsClickStep ==
  ASSUME ServiceTypes, DeskTypes, RowsFollow, ClickStep
  PROVE  RowsFollow'
<1>1. UNCHANGED <<channel, lagged, loop, posted, shown, overtaken>>
  BY DEF ClickStep, ClickStarts, ClickStops, MarkClicked, RunTask, receiverVars, menuVars
<1>2. CASE UNCHANGED <<status, unsent>>
  BY <1>1, <1>2, RowsUntouched
<1>3. ASSUME NEW task \in tasks, RunTask(task), task[1] = "start" PROVE RowsFollow'
  <2>1. task[2] \in Services BY <1>3 DEF DeskTypes
  <2>. QED BY <1>1, <1>3, <2>1, StartFollows DEF RunTask, StartMarked
<1>. QED
  BY <1>2, <1>3 DEF ClickStep, ClickStarts, ClickStops, MarkClicked, RunTask, StopAll, serviceVars

\* Hearing leads to a refresh, and the refresh that runs last is of the last snapshot.
LEMMA RowsLoopStep ==
  ASSUME ServiceTypes, ReceiverTypes, MenuTypes, RowsFollow, LoopStep \/ RunRefresh
  PROVE  RowsFollow'
<1>1. CASE Hear \/ HearLag
  BY <1>1 DEF Hear, HearLag, AfterLag, RowsFollow, NewsComes
<1>2. CASE Refresh
  <2>1. posted' = Append(posted, status) /\ status' = status
    BY <1>2 DEF Refresh, Post, serviceVars
  <2>2. posted' # <<>> /\ posted'[Len(posted')] = status
    BY <2>1 DEF MenuTypes, ServiceTypes
  <2>. QED BY <2>1, <2>2 DEF RowsFollow, LastPosted
<1>3. CASE RunRefresh
  <2>1. UNCHANGED <<status, unsent, channel, lagged, loop, overtaken>>
    BY <1>3 DEF RunRefresh, serviceVars, receiverVars
  <2>2. posted # <<>> /\ posted' = Tail(posted) /\ shown'.rows = Head(posted)
    BY <1>3 DEF RunRefresh, TrayModel
  <2>3. LastPosted' = LastPosted
    <3>1. CASE Len(posted) = 1
      BY <2>2, <3>1 DEF LastPosted, MenuTypes
    <3>2. CASE Len(posted) # 1
      <4>1. posted \in Seq(Snapshots) /\ posted # <<>>
        BY <2>2 DEF MenuTypes
      <4>2. Len(posted) \in Nat \ {0} /\ Len(Tail(posted)) = Len(posted) - 1
        BY <4>1, EmptySeq, HeadTailProperties
      <4>3. Len(posted) - 1 \in 1..Len(Tail(posted))
        BY <3>2, <4>2
      <4>4. Tail(posted)[Len(posted) - 1] = posted[Len(posted)]
        BY <4>1, <4>2, <4>3, HeadTailProperties
      <4>5. Tail(posted) # <<>>
        BY <4>2, <4>3
      <4>. QED BY <2>2, <4>1, <4>2, <4>4, <4>5 DEF LastPosted
    <3>. QED BY <3>1, <3>2
  <2>. QED BY <2>1, <2>3 DEF RowsFollow, NewsComes
<1>. QED BY <1>1, <1>2, <1>3 DEF LoopStep

\* The same for an Apply.
LEMMA RowsApplyStep ==
  ASSUME ServiceTypes, RowsFollow, ApplyStep
  PROVE  RowsFollow'
<1>1. UNCHANGED <<channel, lagged, loop, posted, shown, overtaken>>
  BY DEF ApplyStep, receiverVars, menuVars
<1>2. CASE UNCHANGED <<status, unsent>>
  BY <1>1, <1>2, RowsUntouched
<1>3. ASSUME NEW s \in Services, OtherStarts(s) PROVE RowsFollow'
  BY <1>3, TellIsNews DEF OtherStarts, Begin
<1>. QED
  BY <1>2, <1>3
     DEF ApplyStep, ApplyLocks, ApplyStops, ApplyStarts, ApplyLeaves, ApplyEnds, StopAll, serviceVars

\* A bulk action's own refresh is true, or overtaken and known to be.
LEMMA RowsBulkStep ==
  ASSUME ServiceTypes, MenuTypes, SelectionIsClear, RowsFollow,
         NEW d \in Dispatchers, BulkStep(d)
  PROVE  RowsFollow'
<1>1. UNCHANGED <<channel, lagged, loop>>
  BY DEF BulkStep, receiverVars
<1>2. CASE UNCHANGED <<status, unsent, menuVars>>
  BY <1>1, <1>2, RowsUntouched DEF menuVars
<1>3. CASE Posts(d)
  <2>1. bulk[d].snapshot \in Snapshots
    BY <1>3 DEF Posts, SelectionIsClear
  <2>2. posted' # <<>> /\ posted'[Len(posted')] = bulk[d].snapshot
    BY <1>3, <2>1 DEF Posts, Post, MenuTypes
  <2>3. status' = status /\ (overtaken' \/ bulk[d].snapshot = status)
    BY <1>3 DEF Posts, serviceVars
  <2>. QED BY <2>2, <2>3 DEF RowsFollow, LastPosted
<1>4. ASSUME NEW s \in Services, Starts(d, s) PROVE RowsFollow'
  BY <1>1, <1>4, StartFollows DEF Starts, StartMarked, menuVars
<1>. QED
  BY <1>2, <1>3, <1>4
     DEF BulkStep, TryBulk, Admitted, TurnedAway, Looks, Marks, Sweeps, Releases, StopAll, serviceVars

\* As long as no menu is applied and no bulk action leaves, the bulk rows are as
\* true, or as certain to be recomputed, as before.
LEMMA ButtonsUntouched ==
  ASSUME ButtonsFollow, UNCHANGED <<shown, silent>>,
         posted # <<>> => posted' # <<>>,
         \A d \in Dispatchers : bulk[d].stage # "idle" => bulk'[d].stage # "idle"
  PROVE  ButtonsFollow'
BY DEF ButtonsFollow, TrayModel, BulkStartIds, Held

\* A posted refresh is to be run.
LEMMA PostIsPending ==
  ASSUME MenuTypes, NEW snapshot \in Snapshots, Post(snapshot)
  PROVE  posted' # <<>>
BY DEF Post, MenuTypes

\* A refresh that finds BulkLock held finds a bulk action under way.
LEMMA ButtonsLoopStep ==
  ASSUME ServiceTypes, MenuTypes, LockTypes, LocksAreHeld, ButtonsFollow, LoopStep \/ RunRefresh
  PROVE  ButtonsFollow'
<1>1. bulk' = bulk
  BY DEF LoopStep, Hear, HearLag, Refresh, RunRefresh
<1>2. CASE Hear \/ HearLag
  BY <1>1, <1>2, ButtonsUntouched DEF Hear, HearLag, menuVars
<1>3. CASE Refresh
  <2>1. posted' # <<>>
    BY <1>3, PostIsPending DEF Refresh, ServiceTypes
  <2>. QED BY <2>1 DEF ButtonsFollow
<1>4. CASE RunRefresh
  <2>1. CASE bulkLock = None
    <3>1. shown' = TrayModel(Head(posted), FALSE)
      BY <1>4, <2>1 DEF RunRefresh
    <3>2. shown'.rows = Head(posted)
      BY <3>1 DEF TrayModel
    <3>3. shown' = TrayModel(shown'.rows, FALSE)
      BY <3>1, <3>2
    <3>. QED BY <3>3 DEF ButtonsFollow, TrayModel, BulkStartIds, Held
  <2>2. CASE bulkLock # None
    <3>1. bulkLock \in Dispatchers /\ HoldsBulk(bulkLock)
      BY <2>2 DEF LockTypes, LocksAreHeld
    <3>2. bulk'[bulkLock].stage # "idle"
      BY <1>1, <3>1 DEF HoldsBulk
    <3>. QED BY <3>1, <3>2 DEF ButtonsFollow
  <2>. QED BY <2>1, <2>2
<1>. QED BY <1>2, <1>3, <1>4 DEF LoopStep

\* Only a release or a refusal ends a bulk action without a refresh to come.
LEMMA ButtonsBulkStep ==
  ASSUME MenuTypes, BulkTypes, SelectionIsClear, ButtonsFollow, NEW d \in Dispatchers, BulkStep(d)
  PROVE  ButtonsFollow'
<1>1. \A e \in Dispatchers \ {d} : bulk'[e] = bulk[e]
  BY DEF BulkStep, TryBulk, Admitted, TurnedAway, Looks, Posts, Marks, Starts, Sweeps, Releases,
         Move, BulkTypes
<1>2. CASE UNCHANGED <<shown, silent, posted>> /\ bulk'[d].stage # "idle"
  BY <1>1, <1>2, ButtonsUntouched
<1>3. CASE TurnedAway(d)
  BY <1>3 DEF TurnedAway, ButtonsFollow
<1>4. CASE Posts(d)
  <2>1. bulk[d].snapshot \in Snapshots
    BY <1>4 DEF Posts, SelectionIsClear
  <2>2. posted' # <<>>
    BY <1>4, <2>1, PostIsPending DEF Posts
  <2>. QED BY <2>2 DEF ButtonsFollow
<1>5. CASE Releases(d)
  <2>1. CASE bulk[d].kind = "control"
    BY <1>5, <2>1 DEF Releases, ButtonsFollow
  <2>2. CASE bulk[d].kind # "control"
    <3>1. bulk'[d].stage = "released"
      BY <1>5, <2>2 DEF Releases, Refreshes, BulkTypes
    <3>. QED BY <3>1 DEF ButtonsFollow
  <2>. QED BY <2>1, <2>2
<1>6. ASSUME NEW kind \in Kinds, TryBulk(d, kind) PROVE ButtonsFollow'
  <2>1. bulk'[d].stage = "trying"
    BY <1>6 DEF TryBulk, BulkTypes, NoBulk
  <2>. QED BY <2>1 DEF ButtonsFollow
<1>7. CASE Admitted(d)
  BY <1>2, <1>7 DEF Admitted, Move, BulkTypes, menuVars
<1>8. CASE Looks(d)
  BY <1>2, <1>8 DEF Looks, BulkTypes, menuVars
<1>9. ASSUME NEW s \in Services, Marks(d, s) \/ Starts(d, s) PROVE ButtonsFollow'
  BY <1>2, <1>9 DEF Marks, Starts, Move, BulkTypes, menuVars
<1>10. CASE Sweeps(d)
  BY <1>2, <1>10 DEF Sweeps, BulkTypes, menuVars
<1>. QED
  BY <1>3, <1>4, <1>5, <1>6, <1>7, <1>8, <1>9, <1>10 DEF BulkStep

\* Every step keeps the menu true or about to be.
LEMMA MenuStep ==
  ASSUME TrayTypeOK, LocksAreHeld, SelectionIsClear, MenuFollows, [Next]_vars
  PROVE  MenuFollows'
<1>. USE TypeParts, MenuParts, MenuPartsNext
<1>1. CASE ServiceStep
  <2>1. ButtonsFollow'
    BY <1>1, ButtonsUntouched DEF ServiceStep, menuVars
  <2>. QED BY <1>1, <2>1, RowsServiceStep
<1>2. CASE ClickStep
  <2>1. UNCHANGED <<shown, silent, posted, bulk>>
    BY <1>2 DEF ClickStep, ClickStarts, ClickStops, MarkClicked, RunTask, menuVars
  <2>2. ButtonsFollow'
    BY <2>1, ButtonsUntouched
  <2>. QED BY <1>2, <2>2, RowsClickStep
<1>3. CASE LoopStep \/ RunRefresh
  BY <1>3, RowsLoopStep, ButtonsLoopStep
<1>4. CASE ApplyStep
  <2>1. ButtonsFollow'
    BY <1>4, ButtonsUntouched DEF ApplyStep, menuVars
  <2>. QED BY <1>4, <2>1, RowsApplyStep
<1>5. CASE \E d \in Dispatchers : BulkStep(d)
  BY <1>5, RowsBulkStep, ButtonsBulkStep
<1>6. CASE UNCHANGED vars
  <2>1. UNCHANGED <<status, unsent, channel, lagged, loop, posted, shown, overtaken, silent, bulk>>
    BY <1>6 DEF vars, serviceVars, receiverVars, menuVars
  <2>. QED BY <2>1, RowsUntouched, ButtonsUntouched
<1>. QED BY <1>1, <1>2, <1>3, <1>4, <1>5, <1>6 DEF Next

-----------------------------------------------------------------------------
(* The start attempts of the tray. *)

\* What nobody touches stays tracked.
LEMMA UntouchedTracked ==
  ASSUME NEW s \in Services, Tracked(s),
         channel' = channel, status'[s] = status[s], origin'[s] = origin[s],
         unsent'[s] = unsent[s], s \in marked' <=> s \in marked,
         RowStartDue(s)' <=> RowStartDue(s), BulkStartDue(s)' <=> BulkStartDue(s)
  PROVE  Tracked(s)'
<1>1. /\ StartDue(s)' <=> StartDue(s)
      /\ Attempted(s)' <=> Attempted(s)
      /\ OutcomeUnsent(s)' <=> OutcomeUnsent(s)
      /\ OutcomeSent(s)' <=> OutcomeSent(s)
  BY DEF StartDue, Attempted, OutcomeUnsent, OutcomeSent
<1>2. MarkAwaitsOutcome(s)'
  BY <1>1 DEF Tracked, MarkAwaitsOutcome
<1>3. OneOutcomeUnsent(s)'
  BY <1>1 DEF Tracked, OneOutcomeUnsent
<1>4. OwedFindsMark(s)'
  BY <1>1 DEF Tracked, OwedFindsMark, FirstOutcome
<1>5. MarkFindsOwed(s)'
  BY <1>1 DEF Tracked, MarkFindsOwed, FirstOutcome
<1>. QED
  BY <1>2, <1>3, <1>4, <1>5 DEF Tracked

\* An attempt whose mark is set and of which nothing is on its way is tracked.
LEMMA AwaitedTracked ==
  ASSUME NEW s \in Services, OwedAreFailures',
         s \in marked', ~OutcomeUnsent(s)', ~OutcomeSent(s)',
         StartDue(s)' \/ Attempted(s)',
         StartDue(s)' => status'[s] \notin Live,
         ~(RowStartDue(s)' /\ BulkStartDue(s)')
  PROVE  Tracked(s)'
<1>1. MarkAwaitsOutcome(s)'
  BY DEF MarkAwaitsOutcome
<1>2. \A news \in unsent'[s] : news.state # "Failed" /\ ~news.owed
  BY DEF OutcomeUnsent, Resolving, OwedAreFailures
<1>3. \A i \in DOMAIN channel' : ~Resolves(channel'[i], s)
  BY DEF OutcomeSent, Resolves
<1>4. \A i \in DOMAIN channel' : ~(channel'[i].service = s /\ channel'[i].news.owed)
  BY <1>3 DEF OwedAreFailures, Resolves, Resolving
<1>5. OneOutcomeUnsent(s)'
  BY DEF OneOutcomeUnsent, OutcomeUnsent
<1>6. OwedFindsMark(s)'
  BY <1>2, <1>4 DEF OwedFindsMark
<1>7. MarkFindsOwed(s)'
  BY <1>2, <1>3 DEF MarkFindsOwed, FirstOutcome, Resolves
<1>. QED
  BY <1>1, <1>5, <1>6, <1>7 DEF Tracked

\* News that is no outcome leaves the marks alone.
LEMMA TellTracked ==
  ASSUME ServiceTypes, NEW s \in Services, Tracked(s), NEW state, state \notin Resolving,
         Tell(s, state, FALSE),
         channel' = channel, s \in marked' <=> s \in marked,
         RowStartDue(s)' <=> RowStartDue(s), BulkStartDue(s)' <=> BulkStartDue(s),
         Attempted(s)' <=> Attempted(s), StartDue(s) => status'[s] \notin Live,
         status'[s] = "Starting" => ~OutcomeUnsent(s)
  PROVE  Tracked(s)'
<1>1. unsent'[s] = unsent[s] \union {[state |-> state, owed |-> FALSE]}
  BY DEF Tell, ServiceTypes
<1>2. /\ OutcomeUnsent(s)' <=> OutcomeUnsent(s)
      /\ \A news \in unsent'[s] : news.state \in Resolving \/ news.owed => news \in unsent[s]
  BY <1>1 DEF OutcomeUnsent
<1>3. /\ StartDue(s)' <=> StartDue(s)
      /\ OutcomeSent(s)' <=> OutcomeSent(s)
  BY DEF StartDue, OutcomeSent, Resolves
<1>4. MarkAwaitsOutcome(s)'
  BY <1>2, <1>3 DEF Tracked, MarkAwaitsOutcome
<1>5. OneOutcomeUnsent(s)'
  BY <1>2 DEF Tracked, OneOutcomeUnsent
<1>6. OwedFindsMark(s)'
  BY <1>2, <1>3 DEF Tracked, OwedFindsMark, FirstOutcome
<1>7. MarkFindsOwed(s)'
  BY <1>2, <1>3 DEF Tracked, MarkFindsOwed, FirstOutcome, Resolving
<1>. QED
  BY <1>4, <1>5, <1>6, <1>7 DEF Tracked

\* Supervisor::start by somebody else, with nothing of the tray in between.
LEMMA OtherStartsTracked ==
  ASSUME ServiceTypes, NEW s \in Services, OtherStarts(s), s \notin stray', Tracked(s),
         RowStartDue(s)' <=> RowStartDue(s), BulkStartDue(s)' <=> BulkStartDue(s)
  PROVE  Tracked(s)'
<1>1. /\ status[s] \in Idle /\ Begin(s, "other") /\ ~StartDue(s) /\ ~OutcomeUnsent(s)
      /\ UNCHANGED <<marked, channel>>
  BY DEF OtherStarts, receiverVars
<1>2. origin'[s] = "other" /\ status'[s] = "Starting" /\ Tell(s, "Starting", FALSE)
  BY <1>1 DEF Begin, Write, ServiceTypes, Snapshots
<1>3. ~Attempted(s) /\ ~Attempted(s)'
  BY <1>1, <1>2 DEF Attempted, Idle
<1>. QED
  BY <1>1, <1>2, <1>3, TellTracked DEF Resolving

\* The tray's own start finds its mark alone.
LEMMA StartMarkedTracked ==
  ASSUME ServiceTypes, NEW s \in Services, NEW who \in {"row", "bulk"},
         StartMarked(s, who), channel' = channel,
         s \notin stray', Tracked(s), StartDue(s), ~StartDue(s)', OwedAreFailures'
  PROVE  Tracked(s)'
<1>1. status[s] \in Idle /\ Begin(s, who) /\ marked' = marked
  BY DEF StartMarked, Start
<1>2. s \in marked /\ ~OutcomeUnsent(s) /\ ~OutcomeSent(s)
  BY DEF Tracked, MarkAwaitsOutcome
<1>3. /\ origin'[s] = who /\ status'[s] = "Starting"
      /\ unsent'[s] = unsent[s] \union {[state |-> "Starting", owed |-> FALSE]}
  BY <1>1 DEF Begin, Write, Tell, ServiceTypes, Snapshots
<1>4. Attempted(s)'
  BY <1>3 DEF Attempted
<1>5. ~OutcomeUnsent(s)'
  BY <1>2, <1>3 DEF OutcomeUnsent, Resolving
<1>6. ~OutcomeSent(s)'
  BY <1>2 DEF OutcomeSent
<1>7. ~(RowStartDue(s)' /\ BulkStartDue(s)')
  BY DEF StartDue
<1>. QED
  BY <1>1, <1>2, <1>4, <1>5, <1>6, <1>7, AwaitedTracked

\* A mark that is set over nothing is tracked, whatever was before.
LEMMA MarkTracked ==
  ASSUME NEW s \in Services, Mark(s), s \notin stray', OwedAreFailures',
         UNCHANGED <<status, unsent, channel>>,
         StartDue(s)', ~StartDue(s) => ~(RowStartDue(s)' /\ BulkStartDue(s)')
  PROVE  Tracked(s)'
<1>1. ~Muddled(s) /\ s \in marked'
  BY DEF Mark
<1>2. ~StartDue(s) /\ status[s] \in Idle /\ ~OutcomeUnsent(s) /\ ~OutcomeSent(s)
  BY <1>1 DEF Muddled
<1>3. ~OutcomeUnsent(s)' /\ ~OutcomeSent(s)'
  BY <1>2 DEF OutcomeUnsent, OutcomeSent
<1>4. status'[s] \notin Live
  BY <1>2 DEF Idle, Live
<1>. QED
  BY <1>1, <1>2, <1>3, <1>4, AwaitedTracked

\* BecomesReady and Ends: what the run tells is the only outcome of it, and it
\* is owed a dialog exactly if it is the failure of an attempt.
LEMMA OutcomeTracked ==
  ASSUME ServiceTypes, OwedAreFailures, NEW s \in Services, Tracked(s),
         status[s] \in Live, status'[s] # "Starting", ~OutcomeUnsent(s),
         NEW state \in Resolving, NEW owed \in BOOLEAN,
         owed => Attempted(s), Attempted(s) /\ state = "Failed" => owed,
         Tell(s, state, owed), channel' = channel, s \in marked' <=> s \in marked,
         RowStartDue(s)' <=> RowStartDue(s), BulkStartDue(s)' <=> BulkStartDue(s)
  PROVE  Tracked(s)'
<1>. DEFINE new == [state |-> state, owed |-> owed]
<1>1. unsent'[s] = unsent[s] \union {new}
  BY DEF Tell, ServiceTypes
<1>2. \A news \in unsent[s] : news.state \notin Resolving /\ ~news.owed
  BY DEF OutcomeUnsent, OwedAreFailures, Resolving
<1>3. new.state = state /\ new.owed = owed
  OBVIOUS
<1>. HIDE DEF new
<1>4. OutcomeUnsent(s)' /\ (OutcomeSent(s)' <=> OutcomeSent(s))
  BY <1>1, <1>3 DEF OutcomeUnsent, OutcomeSent, Resolves
<1>5. ~StartDue(s) /\ ~StartDue(s)'
  BY DEF Tracked, MarkAwaitsOutcome, StartDue
<1>6. ~Attempted(s)'
  BY DEF Attempted
<1>7. MarkAwaitsOutcome(s)'
  BY <1>5, <1>6 DEF MarkAwaitsOutcome, StartDue
<1>8. OneOutcomeUnsent(s)'
  BY <1>1, <1>2, <1>3 DEF OneOutcomeUnsent
<1>9. OwedFindsMark(s)'
  <2>1. \A news \in unsent'[s] : news.owed => s \in marked' /\ ~OutcomeSent(s)'
    BY <1>1, <1>2, <1>3, <1>4 DEF Tracked, MarkAwaitsOutcome
  <2>. QED BY <2>1 DEF Tracked, OwedFindsMark, FirstOutcome
<1>10. MarkFindsOwed(s)'
  <2>1. ASSUME s \in marked', ~OutcomeSent(s)', NEW news \in unsent'[s], news.state = "Failed"
        PROVE  news.owed
    <3>1. news = new
      BY <1>1, <1>2, <2>1 DEF Resolving
    <3>2. Attempted(s)
      BY <1>4, <1>5, <2>1 DEF Tracked, MarkFindsOwed
    <3>. QED BY <1>3, <2>1, <3>1, <3>2
  <2>. QED BY <1>4, <2>1 DEF Tracked, MarkFindsOwed, FirstOutcome
<1>. QED
  BY <1>7, <1>8, <1>9, <1>10 DEF Tracked

-----------------------------------------------------------------------------
(* What the channel does to the outcomes in it. *)

\* An event at the end leaves the places of the others.
LEMMA AppendPlaces ==
  ASSUME channel \in Seq(Event), NEW event \in Event, channel' = Append(channel, event)
  PROVE  /\ Len(channel) \in Nat
         /\ DOMAIN channel = 1..Len(channel)
         /\ DOMAIN channel' = 1..(Len(channel) + 1)
         /\ \A i \in 1..Len(channel) : channel'[i] = channel[i]
         /\ channel'[Len(channel) + 1] = event
BY AppendProperties

\* The head goes and the others move up.
LEMMA TailPlaces ==
  ASSUME channel \in Seq(Event), channel # <<>>, channel' = Tail(channel)
  PROVE  /\ Len(channel) \in Nat \ {0}
         /\ DOMAIN channel = 1..Len(channel)
         /\ DOMAIN channel' = 1..(Len(channel) - 1)
         /\ \A i \in 1..(Len(channel) - 1) : channel'[i] = channel[i + 1]
         /\ Head(channel) = channel[1]
BY EmptySeq, HeadTailProperties

\* An event at the end is an outcome sent; it is the first of its service if
\* there was none.
LEMMA AppendOutcomes ==
  ASSUME channel \in Seq(Event), NEW event \in Event, channel' = Append(channel, event),
         NEW s \in Services
  PROVE  /\ OutcomeSent(s)' <=> OutcomeSent(s) \/ Resolves(event, s)
         /\ \A i \in 1..Len(channel) : FirstOutcome(i, s)' <=> FirstOutcome(i, s)
         /\ \A i : i = Len(channel) + 1 =>
              (FirstOutcome(i, s)' <=> ~OutcomeSent(s) /\ Resolves(event, s))
<1>. DEFINE n == Len(channel)
<1>1. /\ n \in Nat /\ DOMAIN channel = 1..n /\ DOMAIN channel' = 1..(n + 1)
      /\ \A i \in 1..n : channel'[i] = channel[i]
      /\ channel'[n + 1] = event
  BY AppendPlaces
<1>. HIDE DEF n
<1>2. /\ \A i \in 1..(n + 1) : i \in 1..n \/ i = n + 1
      /\ 1..n \subseteq 1..(n + 1) /\ n + 1 \in 1..(n + 1)
      /\ \A i \in 1..n : 1..(i - 1) \subseteq 1..n
  BY <1>1
<1>3. OutcomeSent(s)' <=> OutcomeSent(s) \/ Resolves(event, s)
  BY <1>1, <1>2, Zenon DEF OutcomeSent, Resolves
<1>4. \A i \in 1..n : FirstOutcome(i, s)' <=> FirstOutcome(i, s)
  BY <1>1, <1>2, Zenon DEF FirstOutcome, Resolves
<1>5. ASSUME NEW i, i = n + 1 PROVE FirstOutcome(i, s)' <=> ~OutcomeSent(s) /\ Resolves(event, s)
  <2>1. i - 1 = n /\ channel'[i] = event
    BY <1>1, <1>5
  <2>2. FirstOutcome(i, s)' <=> Resolves(event, s) /\ \A j \in 1..n : ~Resolves(channel[j], s)
    BY <1>1, <2>1 DEF FirstOutcome, Resolves
  <2>3. OutcomeSent(s) <=> \E j \in 1..n : Resolves(channel[j], s)
    BY <1>1 DEF OutcomeSent
  <2>. QED BY <2>2, <2>3
<1>. QED BY <1>3, <1>4, <1>5 DEF n

\* Broadcast: an outcome that was unsent is now sent.
LEMMA BroadcastTracked ==
  ASSUME TrayTypeOK, OwedAreFailures, NEW s \in Services, Tracked(s),
         NEW news \in unsent[s], Broadcast(s, news), UNCHANGED <<tasks, bulk>>
  PROVE  Tracked(s)'
<1>. DEFINE n == Len(channel)
            event == [service |-> s, news |-> news]
<1>1. news \in News /\ event \in Event /\ channel \in Seq(Event)
  BY DEF TrayTypeOK, Event
<1>2. /\ channel' = Append(channel, event) /\ unsent'[s] = unsent[s] \ {news}
      /\ UNCHANGED <<status, origin, marked>>
  BY DEF Broadcast, TrayTypeOK, markVars
<1>3. event.service = s /\ event.news = news
  OBVIOUS
<1>. HIDE DEF event
<1>4. /\ OutcomeSent(s)' <=> OutcomeSent(s) \/ Resolves(event, s)
      /\ \A i \in 1..n : FirstOutcome(i, s)' <=> FirstOutcome(i, s)
      /\ \A i : i = n + 1 => (FirstOutcome(i, s)' <=> ~OutcomeSent(s) /\ Resolves(event, s))
  BY <1>1, <1>2, AppendOutcomes
<1>5. /\ n \in Nat /\ DOMAIN channel = 1..n /\ DOMAIN channel' = 1..(n + 1)
      /\ \A i \in 1..n : channel'[i] = channel[i]
      /\ channel'[n + 1] = event
  BY <1>1, <1>2, AppendPlaces
<1>. HIDE DEF n
<1>6. \A i \in 1..(n + 1) : i \in 1..n \/ i = n + 1
  BY <1>5
<1>7. Resolves(event, s) <=> news.state \in Resolving
  BY <1>3 DEF Resolves
<1>8. /\ StartDue(s)' <=> StartDue(s)
      /\ Attempted(s)' <=> Attempted(s)
      /\ RowStartDue(s)' <=> RowStartDue(s)
      /\ BulkStartDue(s)' <=> BulkStartDue(s)
  BY <1>2 DEF StartDue, Attempted, RowStartDue, BulkStartDue
<1>9. /\ OutcomeUnsent(s)' => OutcomeUnsent(s)
      /\ news.state \in Resolving => OutcomeUnsent(s) /\ ~OutcomeUnsent(s)'
      /\ news.state \notin Resolving => (OutcomeUnsent(s)' <=> OutcomeUnsent(s))
  BY <1>2 DEF OutcomeUnsent, Tracked, OneOutcomeUnsent
<1>10. \A m \in unsent'[s] : m \in unsent[s]
  BY <1>2
<1>11. news.owed => news.state = "Failed" /\ news.state \in Resolving
  BY DEF OwedAreFailures, Resolving
<1>12. MarkAwaitsOutcome(s)'
  BY <1>2, <1>4, <1>7, <1>8, <1>9 DEF Tracked, MarkAwaitsOutcome
<1>13. OneOutcomeUnsent(s)'
  BY <1>2, <1>9, <1>10 DEF Tracked, OneOutcomeUnsent
<1>14. OwedFindsMark(s)'
  <2>1. ASSUME NEW m \in unsent'[s], m.owed PROVE s \in marked' /\ ~OutcomeSent(s)'
    <3>1. m.state = "Failed" /\ m.state \in Resolving /\ m \in unsent[s]
      BY <1>10, <2>1 DEF OwedAreFailures, Resolving
    <3>2. OutcomeUnsent(s)'
      BY <2>1, <3>1 DEF OutcomeUnsent
    <3>3. news.state \notin Resolving
      BY <1>9, <3>2
    <3>. QED BY <1>2, <1>4, <1>7, <2>1, <3>1, <3>3 DEF Tracked, OwedFindsMark
  <2>2. ASSUME NEW i \in 1..n, channel[i].service = s, channel[i].news.owed
        PROVE  s \in marked' /\ FirstOutcome(i, s)'
    BY <1>2, <1>4, <1>5, <2>2 DEF Tracked, OwedFindsMark
  <2>3. ASSUME news.owed, NEW i, i = n + 1 PROVE s \in marked' /\ FirstOutcome(i, s)'
    BY <1>2, <1>4, <1>7, <1>11, <2>3 DEF Tracked, OwedFindsMark
  <2>4. ASSUME NEW i \in DOMAIN channel', channel'[i].service = s, channel'[i].news.owed
        PROVE  s \in marked' /\ FirstOutcome(i, s)'
    <3>1. CASE i \in 1..n
      BY <1>5, <2>2, <2>4, <3>1
    <3>2. CASE i = n + 1
      BY <1>3, <1>5, <2>3, <2>4, <3>2
    <3>. QED BY <1>5, <1>6, <3>1, <3>2
  <2>. QED BY <2>1, <2>4, Zenon DEF OwedFindsMark
<1>15. MarkFindsOwed(s)'
  <2>. SUFFICES ASSUME s \in marked' PROVE MarkFindsOwed(s)'
    BY DEF MarkFindsOwed
  <2>0. MarkFindsOwed(s) /\ s \in marked
    BY <1>2 DEF Tracked
  <2>1. ASSUME NEW i \in DOMAIN channel', FirstOutcome(i, s)', channel'[i].news.state = "Failed"
        PROVE  channel'[i].news.owed
    <3>1. CASE i \in 1..n
      BY <1>4, <1>5, <2>0, <2>1, <3>1 DEF MarkFindsOwed
    <3>2. CASE i = n + 1
      BY <1>3, <1>4, <1>5, <2>0, <2>1, <3>2 DEF MarkFindsOwed
    <3>. QED BY <1>5, <1>6, <3>1, <3>2
  <2>2. ASSUME ~OutcomeSent(s)', NEW m \in unsent'[s], m.state = "Failed" PROVE m.owed
    BY <1>4, <1>10, <2>0, <2>2 DEF MarkFindsOwed
  <2>3. StartDue(s)' \/ Attempted(s)' \/ OutcomeUnsent(s)' \/ OutcomeSent(s)'
    BY <1>4, <1>7, <1>8, <1>9, <2>0 DEF MarkFindsOwed
  <2>. QED BY <2>1, <2>2, <2>3, Zenon DEF MarkFindsOwed
<1>. QED
  BY <1>12, <1>13, <1>14, <1>15 DEF Tracked

\* An event of another service is none of its own.
LEMMA OthersBroadcastTracked ==
  ASSUME TrayTypeOK, NEW s \in Services, Tracked(s), NEW t \in Services \ {s},
         NEW news \in unsent[t], Broadcast(t, news), UNCHANGED <<tasks, bulk>>
  PROVE  Tracked(s)'
<1>. DEFINE n == Len(channel)
            event == [service |-> t, news |-> news]
<1>1. news \in News /\ event \in Event /\ channel \in Seq(Event)
  BY DEF TrayTypeOK, Event
<1>2. /\ channel' = Append(channel, event) /\ unsent'[s] = unsent[s]
      /\ UNCHANGED <<status, origin, marked>>
  BY DEF Broadcast, TrayTypeOK, markVars
<1>3. event.service # s /\ ~Resolves(event, s)
  BY DEF Resolves
<1>. HIDE DEF event
<1>4. /\ OutcomeSent(s)' <=> OutcomeSent(s)
      /\ \A i \in 1..n : FirstOutcome(i, s)' <=> FirstOutcome(i, s)
      /\ \A i : i = n + 1 => ~FirstOutcome(i, s)'
  BY <1>1, <1>2, <1>3, AppendOutcomes
<1>5. /\ n \in Nat /\ DOMAIN channel = 1..n /\ DOMAIN channel' = 1..(n + 1)
      /\ \A i \in 1..n : channel'[i] = channel[i]
      /\ channel'[n + 1] = event
  BY <1>1, <1>2, AppendPlaces
<1>. HIDE DEF n
<1>6. \A i \in 1..(n + 1) : i \in 1..n \/ i = n + 1
  BY <1>5
<1>7. /\ StartDue(s)' <=> StartDue(s)
      /\ Attempted(s)' <=> Attempted(s)
      /\ RowStartDue(s)' <=> RowStartDue(s)
      /\ BulkStartDue(s)' <=> BulkStartDue(s)
      /\ OutcomeUnsent(s)' <=> OutcomeUnsent(s)
  BY <1>2 DEF StartDue, Attempted, RowStartDue, BulkStartDue, OutcomeUnsent
<1>8. MarkAwaitsOutcome(s)' /\ OneOutcomeUnsent(s)'
  BY <1>2, <1>4, <1>7 DEF Tracked, MarkAwaitsOutcome, OneOutcomeUnsent
<1>9. OwedFindsMark(s)'
  <2>1. \A m \in unsent'[s] : m.owed => s \in marked' /\ ~OutcomeSent(s)'
    BY <1>2, <1>4 DEF Tracked, OwedFindsMark
  <2>2. ASSUME NEW i \in DOMAIN channel', channel'[i].service = s, channel'[i].news.owed
        PROVE  s \in marked' /\ FirstOutcome(i, s)'
    <3>1. i \in 1..n
      BY <1>3, <1>5, <1>6, <2>2
    <3>. QED BY <1>2, <1>4, <1>5, <2>2, <3>1 DEF Tracked, OwedFindsMark
  <2>. QED BY <2>1, <2>2, Zenon DEF OwedFindsMark
<1>10. MarkFindsOwed(s)'
  <2>1. ASSUME s \in marked', NEW i \in DOMAIN channel', FirstOutcome(i, s)',
               channel'[i].news.state = "Failed"
        PROVE  channel'[i].news.owed
    <3>1. i \in 1..n
      BY <1>4, <1>5, <1>6, <2>1
    <3>. QED BY <1>2, <1>4, <1>5, <2>1, <3>1 DEF Tracked, MarkFindsOwed
  <2>2. ASSUME s \in marked', ~OutcomeSent(s)', NEW m \in unsent'[s], m.state = "Failed"
        PROVE  m.owed
    BY <1>2, <1>4, <2>2 DEF Tracked, MarkFindsOwed
  <2>3. s \in marked' => StartDue(s)' \/ Attempted(s)' \/ OutcomeUnsent(s)' \/ OutcomeSent(s)'
    BY <1>2, <1>4, <1>7 DEF Tracked, MarkFindsOwed
  <2>. QED BY <2>1, <2>2, <2>3, Zenon DEF MarkFindsOwed
<1>. QED
  BY <1>8, <1>9, <1>10 DEF Tracked

\* Without its head, which is no outcome of the service, the channel holds the
\* same outcomes.
LEMMA TailOutcomes ==
  ASSUME channel \in Seq(Event), channel # <<>>, channel' = Tail(channel),
         NEW s \in Services, ~Resolves(Head(channel), s)
  PROVE  /\ OutcomeSent(s)' <=> OutcomeSent(s)
         /\ \A i \in DOMAIN channel' : FirstOutcome(i, s)' <=> FirstOutcome(i + 1, s)
<1>. DEFINE n == Len(channel)
<1>1. /\ n \in Nat \ {0} /\ DOMAIN channel = 1..n /\ DOMAIN channel' = 1..(n - 1)
      /\ \A i \in 1..(n - 1) : channel'[i] = channel[i + 1]
      /\ Head(channel) = channel[1]
  BY TailPlaces
<1>. HIDE DEF n
<1>2. /\ \A i \in 1..(n - 1) : i + 1 \in 1..n
      /\ \A i \in 1..n : i = 1 \/ (i - 1 \in 1..(n - 1) /\ (i - 1) + 1 = i)
  BY <1>1
<1>3. \A i \in 1..(n - 1) : Resolves(channel[i], s)' <=> Resolves(channel[i + 1], s)
  BY <1>1 DEF Resolves
<1>4. ~Resolves(channel[1], s)
  BY <1>1
<1>5. OutcomeSent(s)' <=> OutcomeSent(s)
  <2>1. ASSUME OutcomeSent(s)' PROVE OutcomeSent(s)
    <3>1. PICK i \in 1..(n - 1) : Resolves(channel[i], s)'
      BY <1>1, <2>1 DEF OutcomeSent
    <3>. QED BY <1>1, <1>2, <1>3, <3>1 DEF OutcomeSent
  <2>2. ASSUME OutcomeSent(s) PROVE OutcomeSent(s)'
    <3>1. PICK i \in 1..n : Resolves(channel[i], s)
      BY <1>1, <2>2 DEF OutcomeSent
    <3>2. i - 1 \in 1..(n - 1) /\ (i - 1) + 1 = i
      BY <1>2, <1>4, <3>1
    <3>3. Resolves(channel[i - 1], s)'
      BY <1>3, <3>1, <3>2
    <3>. QED BY <1>1, <3>2, <3>3 DEF OutcomeSent
  <2>. QED BY <2>1, <2>2
<1>6. ASSUME NEW i \in 1..(n - 1) PROVE FirstOutcome(i, s)' <=> FirstOutcome(i + 1, s)
  <2>1. /\ \A j \in 1..(i - 1) : j \in 1..(n - 1) /\ j + 1 \in 1..i
        /\ \A j \in 1..i : j = 1 \/ (j - 1 \in 1..(i - 1) /\ (j - 1) + 1 = j)
        /\ (i + 1) - 1 = i
    BY <1>1
  <2>2. (\A j \in 1..(i - 1) : ~Resolves(channel[j], s)') <=> \A j \in 1..i : ~Resolves(channel[j], s)
    <3>1. ASSUME \A j \in 1..(i - 1) : ~Resolves(channel[j], s)', NEW j \in 1..i
          PROVE  ~Resolves(channel[j], s)
      <4>1. CASE j = 1 BY <1>4, <4>1
      <4>2. CASE j - 1 \in 1..(i - 1) /\ (j - 1) + 1 = j
        <5>1. ~Resolves(channel[j - 1], s)' /\ j - 1 \in 1..(n - 1)
          BY <2>1, <3>1, <4>2
        <5>. QED BY <1>3, <4>2, <5>1
      <4>. QED BY <2>1, <4>1, <4>2
    <3>2. ASSUME \A j \in 1..i : ~Resolves(channel[j], s), NEW j \in 1..(i - 1)
          PROVE  ~Resolves(channel[j], s)'
      BY <1>3, <2>1, <3>2
    <3>. QED BY <3>1, <3>2
  <2>3. FirstOutcome(i, s)' <=> Resolves(channel[i], s)' /\ \A j \in 1..(i - 1) : ~Resolves(channel[j], s)'
    BY DEF FirstOutcome
  <2>4. FirstOutcome(i + 1, s) <=> Resolves(channel[i + 1], s) /\ \A j \in 1..i : ~Resolves(channel[j], s)
    BY <2>1 DEF FirstOutcome
  <2>. QED BY <1>3, <2>2, <2>3, <2>4
<1>. QED BY <1>1, <1>5, <1>6

\* Hear and Overrun: the head is heard, and takes its mark away, or is lost,
\* and then had no mark to take.
LEMMA PopTracked ==
  ASSUME channel \in Seq(Event), channel # <<>>, channel' = Tail(channel),
         UNCHANGED <<serviceVars, tasks, bulk>>,
         NEW s \in Services, Tracked(s),
         Resolves(Head(channel), s) => s \notin marked',
         ~Resolves(Head(channel), s) => (s \in marked' <=> s \in marked)
  PROVE  Tracked(s)'
<1>. DEFINE n == Len(channel)
<1>1. /\ n \in Nat \ {0} /\ DOMAIN channel = 1..n /\ DOMAIN channel' = 1..(n - 1)
      /\ \A i \in 1..(n - 1) : channel'[i] = channel[i + 1]
      /\ Head(channel) = channel[1]
  BY TailPlaces
<1>. HIDE DEF n
<1>2. \A i \in 1..(n - 1) : i + 1 \in 1..n /\ 1 \in 1..((i + 1) - 1)
  BY <1>1
<1>3. UNCHANGED <<status, origin, unsent>>
  BY DEF serviceVars
<1>4. /\ StartDue(s)' <=> StartDue(s)
      /\ Attempted(s)' <=> Attempted(s)
      /\ RowStartDue(s)' <=> RowStartDue(s)
      /\ BulkStartDue(s)' <=> BulkStartDue(s)
      /\ OutcomeUnsent(s)' <=> OutcomeUnsent(s)
  BY <1>3 DEF StartDue, Attempted, RowStartDue, BulkStartDue, OutcomeUnsent
<1>5. OneOutcomeUnsent(s)'
  BY <1>3, <1>4 DEF Tracked, OneOutcomeUnsent
<1>6. CASE Resolves(Head(channel), s)
  <2>1. OutcomeSent(s)
    BY <1>1, <1>6 DEF OutcomeSent
  <2>2. MarkAwaitsOutcome(s)'
    BY <1>3, <1>4, <2>1 DEF Tracked, MarkAwaitsOutcome
  <2>3. \A m \in unsent'[s] : ~m.owed
    BY <1>3, <2>1 DEF Tracked, OwedFindsMark
  <2>4. ASSUME NEW i \in DOMAIN channel' PROVE ~(channel'[i].service = s /\ channel'[i].news.owed)
    <3>1. i + 1 \in DOMAIN channel /\ channel'[i] = channel[i + 1] /\ ~FirstOutcome(i + 1, s)
      BY <1>1, <1>2, <1>6 DEF FirstOutcome
    <3>. QED BY <3>1 DEF Tracked, OwedFindsMark
  <2>5. OwedFindsMark(s)'
    BY <2>3, <2>4 DEF OwedFindsMark
  <2>6. MarkFindsOwed(s)'
    BY <1>6 DEF MarkFindsOwed
  <2>. QED BY <1>5, <2>2, <2>5, <2>6 DEF Tracked
<1>7. CASE ~Resolves(Head(channel), s)
  <2>1. /\ OutcomeSent(s)' <=> OutcomeSent(s)
        /\ \A i \in 1..(n - 1) : FirstOutcome(i, s)' <=> FirstOutcome(i + 1, s)
    BY <1>1, <1>7, TailOutcomes
  <2>2. MarkAwaitsOutcome(s)'
    BY <1>3, <1>4, <1>7, <2>1 DEF Tracked, MarkAwaitsOutcome
  <2>3. OwedFindsMark(s)'
    <3>1. \A m \in unsent'[s] : m.owed => s \in marked' /\ ~OutcomeSent(s)'
      BY <1>3, <1>7, <2>1 DEF Tracked, OwedFindsMark
    <3>2. ASSUME NEW i \in DOMAIN channel', channel'[i].service = s, channel'[i].news.owed
          PROVE  s \in marked' /\ FirstOutcome(i, s)'
      <4>1. i \in 1..(n - 1) /\ i + 1 \in DOMAIN channel /\ channel'[i] = channel[i + 1]
        BY <1>1, <1>2
      <4>. QED BY <1>7, <2>1, <3>2, <4>1 DEF Tracked, OwedFindsMark
    <3>. QED BY <3>1, <3>2, Zenon DEF OwedFindsMark
  <2>4. MarkFindsOwed(s)'
    <3>. SUFFICES ASSUME s \in marked' PROVE MarkFindsOwed(s)'
      BY DEF MarkFindsOwed
    <3>0. MarkFindsOwed(s) /\ s \in marked
      BY <1>7 DEF Tracked
    <3>1. ASSUME NEW i \in DOMAIN channel', FirstOutcome(i, s)', channel'[i].news.state = "Failed"
          PROVE  channel'[i].news.owed
      <4>1. i \in 1..(n - 1) /\ i + 1 \in DOMAIN channel /\ channel'[i] = channel[i + 1]
        BY <1>1, <1>2
      <4>. QED BY <2>1, <3>0, <3>1, <4>1 DEF MarkFindsOwed
    <3>2. ASSUME ~OutcomeSent(s)', NEW m \in unsent'[s], m.state = "Failed" PROVE m.owed
      BY <1>3, <2>1, <3>0, <3>2 DEF MarkFindsOwed
    <3>3. StartDue(s)' \/ Attempted(s)' \/ OutcomeUnsent(s)' \/ OutcomeSent(s)'
      BY <1>4, <2>1, <3>0 DEF MarkFindsOwed
    <3>. QED BY <3>1, <3>2, <3>3, Zenon DEF MarkFindsOwed
  <2>. QED BY <1>5, <2>2, <2>3, <2>4 DEF Tracked
<1>. QED BY <1>6, <1>7

-----------------------------------------------------------------------------
(* A dialog is owed for failures only. *)

\* What is told is owed a dialog only as a failure.
LEMMA TellOwed ==
  ASSUME ServiceTypes, OwedAreFailures, NEW s \in Services, NEW state, NEW owed,
         Tell(s, state, owed), owed => state = "Failed", channel' = channel
  PROVE  OwedAreFailures'
<1>1. \A t \in Services : \A news \in unsent'[t] :
        news \in unsent[t] \/ news = [state |-> state, owed |-> owed]
  BY DEF Tell, ServiceTypes
<1>. QED BY <1>1 DEF OwedAreFailures

\* What is told or heard in a step of a service, too.
LEMMA ServiceStepOwed ==
  ASSUME ServiceTypes, ReceiverTypes, OwedAreFailures, ServiceStep
  PROVE  OwedAreFailures'
<1>1. ASSUME NEW s \in Services, BecomesReady(s) \/ Unregister(s) \/ Register(s), UNCHANGED receiverVars
      PROVE  OwedAreFailures'
  BY <1>1, TellOwed DEF BecomesReady, Unregister, Register, receiverVars
<1>2. ASSUME NEW s \in Services, NEW outcome \in Idle, Ends(s, outcome), UNCHANGED receiverVars
      PROVE  OwedAreFailures'
  <2>1. OwesDialog(s, outcome) => outcome = "Failed"
    BY DEF OwesDialog
  <2>. QED BY <1>2, <2>1, TellOwed DEF Ends, receiverVars
<1>3. ASSUME NEW s \in Services, OtherStarts(s) PROVE OwedAreFailures'
  BY <1>3, TellOwed DEF OtherStarts, Begin, receiverVars
<1>4. ASSUME NEW s \in Services, OtherStops(s), UNCHANGED receiverVars PROVE OwedAreFailures'
  BY <1>4 DEF OtherStops, StopAll, receiverVars, OwedAreFailures
<1>5. ASSUME NEW s \in Services, NEW news \in unsent[s], Broadcast(s, news) PROVE OwedAreFailures'
  <2>. DEFINE n == Len(channel)
              event == [service |-> s, news |-> news]
  <2>1. news \in News /\ event \in Event /\ channel \in Seq(Event)
    BY DEF ServiceTypes, ReceiverTypes, Event
  <2>2. event.news = news /\ channel' = Append(channel, event)
    BY <1>5 DEF Broadcast
  <2>3. \A t \in Services : unsent'[t] \subseteq unsent[t]
    BY <1>5 DEF Broadcast, ServiceTypes
  <2>. HIDE DEF event
  <2>4. /\ n \in Nat /\ DOMAIN channel = 1..n /\ DOMAIN channel' = 1..(n + 1)
        /\ \A i \in 1..n : channel'[i] = channel[i]
        /\ channel'[n + 1] = event
    BY <2>1, <2>2, AppendPlaces
  <2>. HIDE DEF n
  <2>5. \A i \in 1..(n + 1) : i \in 1..n \/ i = n + 1
    BY <2>4
  <2>. QED BY <2>2, <2>3, <2>4, <2>5 DEF OwedAreFailures
<1>6. CASE Overrun
  <2>1. channel # <<>> /\ channel' = Tail(channel) /\ unsent' = unsent
    BY <1>6 DEF Overrun, serviceVars
  <2>2. \A i \in DOMAIN channel' : i + 1 \in DOMAIN channel /\ channel'[i] = channel[i + 1]
    BY <2>1, TailPlaces DEF ReceiverTypes
  <2>. QED BY <2>1, <2>2 DEF OwedAreFailures
<1>. QED BY <1>1, <1>2, <1>3, <1>4, <1>5, <1>6 DEF ServiceStep

\* A start by the tray tells of none.
LEMMA StartOwed ==
  ASSUME ServiceTypes, OwedAreFailures, NEW s \in Services, NEW who, StartMarked(s, who),
         channel' = channel
  PROVE  OwedAreFailures'
<1>1. CASE Begin(s, who) BY <1>1, TellOwed DEF Begin
<1>2. CASE UNCHANGED serviceVars BY <1>2 DEF serviceVars, OwedAreFailures
<1>. QED BY <1>1, <1>2 DEF StartMarked, Start

\* No step owes a dialog for anything else.
LEMMA OwedStep ==
  ASSUME TrayTypeOK, OwedAreFailures, [Next]_vars
  PROVE  OwedAreFailures'
<1>. USE TypeParts
<1>1. CASE UNCHANGED <<unsent, channel>>
  BY <1>1 DEF OwedAreFailures
<1>2. CASE Hear
  <2>1. channel # <<>> /\ channel' = Tail(channel) /\ unsent' = unsent
    BY <1>2 DEF Hear, serviceVars
  <2>2. \A i \in DOMAIN channel' : i + 1 \in DOMAIN channel /\ channel'[i] = channel[i + 1]
    BY <2>1, TailPlaces DEF ReceiverTypes
  <2>. QED BY <2>1, <2>2 DEF OwedAreFailures
<1>3. CASE HearLag \/ Refresh \/ RunRefresh
  BY <1>1, <1>3 DEF HearLag, Refresh, RunRefresh, serviceVars, receiverVars
<1>4. CASE ClickStep
  <2>1. ASSUME NEW task \in tasks, RunTask(task) PROVE OwedAreFailures'
    <3>1. task[2] \in Services /\ channel' = channel
      BY <2>1 DEF DeskTypes, RunTask, receiverVars
    <3>. QED BY <1>1, <2>1, <3>1, StartOwed DEF RunTask, StopAll
  <2>. QED
    BY <1>1, <1>4, <2>1
       DEF ClickStep, ClickStarts, ClickStops, MarkClicked, serviceVars, receiverVars
<1>5. CASE ApplyStep
  <2>1. channel' = channel
    BY <1>5 DEF ApplyStep, receiverVars
  <2>2. ASSUME NEW s \in Services, OtherStarts(s) PROVE OwedAreFailures'
    BY <2>1, <2>2, TellOwed DEF OtherStarts, Begin
  <2>. QED
    BY <1>1, <1>5, <2>1, <2>2
       DEF ApplyStep, ApplyLocks, ApplyStops, ApplyStarts, ApplyLeaves, ApplyEnds, StopAll, serviceVars
<1>6. ASSUME NEW d \in Dispatchers, BulkStep(d) PROVE OwedAreFailures'
  <2>1. channel' = channel
    BY <1>6 DEF BulkStep, receiverVars
  <2>2. ASSUME NEW s \in Services, Starts(d, s) PROVE OwedAreFailures'
    BY <2>1, <2>2, StartOwed DEF Starts
  <2>. QED
    BY <1>1, <1>6, <2>1, <2>2
       DEF BulkStep, TryBulk, Admitted, TurnedAway, Looks, Posts, Marks, Sweeps, Releases, StopAll,
           serviceVars
<1>7. CASE UNCHANGED vars
  BY <1>1, <1>7 DEF vars, serviceVars, receiverVars
<1>. QED
  BY <1>2, <1>3, <1>4, <1>5, <1>6, <1>7, ServiceStepOwed DEF Next, LoopStep

-----------------------------------------------------------------------------
(* Every step keeps track of the attempts. *)

\* No two services come next in the order of a snapshot.
LEMMA FirstIsOne ==
  ASSUME NEW S \in SUBSET Services, NEW s \in Services, NEW t \in Services,
         IsFirst(s, S), IsFirst(t, S)
  PROVE  s = t
<1>1. Rank[s] <= Rank[t] /\ Rank[t] <= Rank[s]
  BY DEF IsFirst
<1>2. Rank[s] \in Nat /\ Rank[t] \in Nat
  BY TrayAssumption
<1>3. Rank[s] = Rank[t]
  BY <1>1, <1>2
<1>. QED BY <1>3, TrayAssumption

\* What is due of the tray's starts is due as long as nobody touches it.
LEMMA DueUntouched ==
  ASSUME UNCHANGED <<tasks, bulk>>, NEW s \in Services
  PROVE  (RowStartDue(s)' <=> RowStartDue(s)) /\ (BulkStartDue(s)' <=> BulkStartDue(s))
BY DEF RowStartDue, BulkStartDue

\* A step of a service, or of the channel.
LEMMA TrackedServiceStep ==
  ASSUME TrayTypeOK, AttemptsAreTracked, ServiceStep, NEW s \in Services \ stray'
  PROVE  Tracked(s)'
<1>. USE TypeParts
<1>0. OwedAreFailures /\ ServiceTypes /\ ReceiverTypes
  BY DEF AttemptsAreTracked
<1>1. /\ UNCHANGED <<tasks, bulk>>
      /\ RowStartDue(s)' <=> RowStartDue(s)
      /\ BulkStartDue(s)' <=> BulkStartDue(s)
  BY DueUntouched DEF ServiceStep
<1>2. stray \subseteq stray'
  BY DEF ServiceStep, Broadcast, OtherStarts, Overrun, markVars
<1>3. Tracked(s)
  BY <1>2 DEF AttemptsAreTracked
<1>4. /\ StartDue(s) => status[s] \notin Live
      /\ status[s] = "Starting" => ~OutcomeUnsent(s)
      /\ s \in marked => StartDue(s) \/ Attempted(s) \/ OutcomeUnsent(s) \/ OutcomeSent(s)
  BY <1>3 DEF Tracked, MarkAwaitsOutcome, OneOutcomeUnsent, MarkFindsOwed
<1>5. PICK t \in Services :
       \/ /\ BecomesReady(t) \/ \E outcome \in Idle : Ends(t, outcome)
          /\ UNCHANGED <<receiverVars, markVars, acts>>
       \/ /\ Unregister(t) \/ Register(t) \/ OtherStops(t)
          /\ Act
          /\ UNCHANGED <<receiverVars, markVars>>
       \/ (\E news \in unsent[t] : Broadcast(t, news)) /\ UNCHANGED acts
       \/ OtherStarts(t) /\ Act
       \/ Overrun /\ Act
  BY DEF ServiceStep
<1>6. CASE UNCHANGED <<channel, marked>> /\ status'[s] = status[s] /\ origin'[s] = origin[s]
           /\ unsent'[s] = unsent[s]
  BY <1>1, <1>3, <1>6, UntouchedTracked
<1>7. CASE BecomesReady(t) /\ UNCHANGED <<receiverVars, markVars>>
  <2>1. CASE s # t
    BY <1>0, <1>6, <1>7, <2>1
       DEF BecomesReady, Write, Tell, ServiceTypes, Snapshots, receiverVars, markVars
  <2>2. CASE s = t
    <3>1. /\ status[s] = "Starting" /\ status'[s] = "Running" /\ Tell(s, "Running", FALSE)
          /\ UNCHANGED <<channel, marked>>
      BY <1>0, <1>7, <2>2
         DEF BecomesReady, Write, ServiceTypes, Snapshots, receiverVars, markVars
    <3>. QED
      BY <1>0, <1>1, <1>3, <1>4, <3>1, OutcomeTracked DEF Live, Resolving
  <2>. QED BY <2>1, <2>2
<1>8. ASSUME NEW outcome \in Idle, Ends(t, outcome), UNCHANGED <<receiverVars, markVars>>
      PROVE  Tracked(s)'
  <2>1. CASE s # t
    BY <1>0, <1>6, <1>8, <2>1 DEF Ends, Write, Tell, ServiceTypes, Snapshots, receiverVars, markVars
  <2>2. CASE s = t
    <3>. DEFINE owed == OwesDialog(s, outcome)
    <3>1. /\ status[s] \in Live /\ Told(s, States) /\ status'[s] = outcome
          /\ Tell(s, outcome, owed)
          /\ UNCHANGED <<channel, marked>>
      BY <1>0, <1>8, <2>2 DEF Ends, Write, ServiceTypes, Snapshots, receiverVars, markVars
    <3>2. ~OutcomeUnsent(s)
      BY <3>1 DEF Told, OutcomeUnsent, States, Resolving
    <3>3. outcome \in Resolving /\ outcome # "Starting"
      BY DEF Idle, Resolving
    <3>4. /\ owed \in BOOLEAN
          /\ owed => Attempted(s)
          /\ Attempted(s) /\ outcome = "Failed" => owed
      BY DEF OwesDialog, Attempted
    <3>. HIDE DEF owed
    <3>. QED
      BY <1>0, <1>1, <1>3, <3>1, <3>2, <3>3, <3>4, OutcomeTracked
  <2>. QED BY <2>1, <2>2
<1>9. CASE (Unregister(t) \/ Register(t)) /\ UNCHANGED <<receiverVars, markVars>>
  <2>1. CASE s # t
    BY <1>0, <1>6, <1>9, <2>1
       DEF Unregister, Register, Write, Tell, ServiceTypes, Snapshots, receiverVars, markVars
  <2>2. CASE s = t
    <3>1. /\ status[s] # "Starting" /\ status'[s] \in {"Unregistered", "Stopped"}
          /\ Tell(s, "Unregistered", FALSE) \/ Tell(s, "Registered", FALSE)
          /\ UNCHANGED <<channel, marked>>
      BY <1>0, <1>9, <2>2
         DEF Unregister, Register, Write, ServiceTypes, Snapshots, Idle, receiverVars, markVars
    <3>2. ~Attempted(s) /\ ~Attempted(s)'
      BY <3>1 DEF Attempted
    <3>3. status'[s] \notin Live /\ status'[s] # "Starting"
      BY <3>1 DEF Live
    <3>4. "Unregistered" \notin Resolving /\ "Registered" \notin Resolving
      BY DEF Resolving
    <3>. QED
      BY <1>0, <1>1, <1>3, <3>1, <3>2, <3>3, <3>4, TellTracked
  <2>. QED BY <2>1, <2>2
<1>10. CASE OtherStops(t) /\ UNCHANGED <<receiverVars, markVars>>
  BY <1>6, <1>10 DEF OtherStops, StopAll, receiverVars, markVars
<1>11. ASSUME NEW news \in unsent[t], Broadcast(t, news) PROVE Tracked(s)'
  <2>1. CASE s = t
    BY <1>0, <1>1, <1>3, <1>11, <2>1, BroadcastTracked
  <2>2. CASE s # t
    BY <1>1, <1>3, <1>11, <2>2, OthersBroadcastTracked
  <2>. QED BY <2>1, <2>2
<1>12. CASE OtherStarts(t)
  <2>1. CASE s # t
    BY <1>0, <1>6, <1>12, <2>1
       DEF OtherStarts, Begin, Write, Tell, ServiceTypes, Snapshots, receiverVars
  <2>2. CASE s = t
    BY <1>0, <1>1, <1>3, <1>12, <2>2, OtherStartsTracked
  <2>. QED BY <2>1, <2>2
<1>13. CASE Overrun
  <2>1. /\ channel # <<>> /\ channel' = Tail(channel) /\ UNCHANGED <<serviceVars, marked>>
        /\ channel \in Seq(Event)
    BY <1>0, <1>13 DEF Overrun, ReceiverTypes
  <2>2. Resolves(Head(channel), s) => s \notin marked
    BY <1>13 DEF Overrun
  <2>. QED BY <1>1, <1>3, <2>1, <2>2, PopTracked
<1>. QED
  BY <1>5, <1>7, <1>8, <1>9, <1>10, <1>11, <1>12, <1>13

\* TrayInitiated::mark, of a service that may be another.
LEMMA OthersMarkTracked ==
  ASSUME ServiceTypes, NEW s \in Services, Tracked(s), NEW t, t # s, Mark(t),
         UNCHANGED <<serviceVars, channel>>,
         RowStartDue(s)' <=> RowStartDue(s), BulkStartDue(s)' <=> BulkStartDue(s)
  PROVE  Tracked(s)'
<1>1. s \in marked' <=> s \in marked
  BY DEF Mark
<1>2. UNCHANGED <<status, origin, unsent>>
  BY DEF serviceVars
<1>. QED BY <1>1, <1>2, UntouchedTracked

\* The tray's start of another service.
LEMMA OthersStartTracked ==
  ASSUME ServiceTypes, NEW s \in Services, Tracked(s), NEW t \in Services \ {s}, NEW who,
         StartMarked(t, who), channel' = channel,
         RowStartDue(s)' <=> RowStartDue(s), BulkStartDue(s)' <=> BulkStartDue(s)
  PROVE  Tracked(s)'
<1>1. status'[s] = status[s] /\ origin'[s] = origin[s] /\ unsent'[s] = unsent[s]
  BY DEF StartMarked, Start, Begin, Write, Tell, ServiceTypes, Snapshots, serviceVars
<1>2. marked' = marked
  BY DEF StartMarked
<1>. QED BY <1>1, <1>2, UntouchedTracked

\* A click on a row, and the call it has spawned.
LEMMA TrackedClickStep ==
  ASSUME TrayTypeOK, AttemptsAreTracked, OwedAreFailures', ClickStep, NEW s \in Services \ stray'
  PROVE  Tracked(s)'
<1>. USE TypeParts
<1>0. ServiceTypes /\ DeskTypes /\ (s \notin stray => Tracked(s))
  BY DEF AttemptsAreTracked
<1>1. channel' = channel /\ (BulkStartDue(s)' <=> BulkStartDue(s))
  BY DEF ClickStep, ClickStarts, ClickStops, MarkClicked, RunTask, receiverVars, BulkStartDue
<1>2. ASSUME s \notin stray, UNCHANGED <<status, origin, unsent, marked>>,
             RowStartDue(s)' <=> RowStartDue(s)
      PROVE  Tracked(s)'
  BY <1>0, <1>1, <1>2, UntouchedTracked
<1>3. ASSUME NEW t \in Services, ClickStarts(t) \/ ClickStops(t) PROVE Tracked(s)'
  <2>1. RowStartDue(s)' <=> RowStartDue(s)
    BY <1>3 DEF ClickStarts, ClickStops, RowStartDue
  <2>. QED
    BY <1>2, <1>3, <2>1 DEF ClickStarts, ClickStops, serviceVars, markVars
<1>4. CASE MarkClicked
  <2>1. Mark(click) /\ UNCHANGED serviceVars /\ tasks' = tasks \union {<<"start", click>>}
    BY <1>4 DEF MarkClicked
  <2>2. CASE click = s
    <3>1. RowStartDue(s)' /\ StartDue(s)'
      BY <2>1, <2>2 DEF RowStartDue, StartDue
    <3>2. ~StartDue(s) => ~(RowStartDue(s)' /\ BulkStartDue(s)')
      BY <1>1 DEF StartDue
    <3>. QED BY <1>1, <2>1, <2>2, <3>1, <3>2, MarkTracked DEF serviceVars
  <2>3. CASE click # s
    <3>1. RowStartDue(s)' <=> RowStartDue(s)
      BY <2>1, <2>3 DEF RowStartDue
    <3>2. s \notin stray
      BY <2>1, <2>3 DEF Mark
    <3>. QED BY <1>0, <1>1, <2>1, <2>3, <3>1, <3>2, OthersMarkTracked
  <2>. QED BY <2>2, <2>3
<1>5. ASSUME NEW task \in tasks, RunTask(task) PROVE Tracked(s)'
  <2>1. PICK kind \in {"start", "stop"}, t \in Services : task = <<kind, t>>
    BY <1>0, <1>5 DEF DeskTypes
  <2>2. task[1] = kind /\ task[2] = t /\ tasks' = tasks \ {<<kind, t>>}
    BY <1>5, <2>1 DEF RunTask
  <2>3. CASE kind = "stop"
    <3>1. RowStartDue(s)' <=> RowStartDue(s)
      BY <2>2, <2>3 DEF RowStartDue
    <3>2. StopAll({t}) /\ UNCHANGED markVars
      BY <1>5, <2>2, <2>3 DEF RunTask
    <3>. QED BY <1>2, <3>1, <3>2 DEF StopAll, markVars
  <2>4. CASE kind = "start"
    <3>1. StartMarked(t, "row") /\ stray \subseteq stray'
      BY <1>5, <2>2, <2>4 DEF RunTask, StartMarked
    <3>2. CASE s # t
      <4>1. RowStartDue(s)' <=> RowStartDue(s)
        BY <2>2, <3>2 DEF RowStartDue
      <4>. QED BY <1>0, <1>1, <3>1, <3>2, <4>1, OthersStartTracked
    <3>3. CASE s = t
      <4>1. RowStartDue(s) /\ StartDue(s)
        BY <1>5, <2>1, <2>4, <3>3 DEF RowStartDue, StartDue
      <4>2. Tracked(s)
        BY <1>0, <3>1
      <4>3. ~BulkStartDue(s)
        BY <4>1, <4>2 DEF Tracked, MarkAwaitsOutcome
      <4>4. ~StartDue(s)'
        BY <1>1, <2>2, <2>4, <3>3, <4>3 DEF RowStartDue, StartDue
      <4>. QED BY <1>0, <1>1, <3>1, <3>3, <4>1, <4>2, <4>4, StartMarkedTracked
    <3>. QED BY <3>2, <3>3
  <2>. QED BY <2>3, <2>4
<1>. QED BY <1>3, <1>4, <1>5 DEF ClickStep

\* What the loop hears resolves the mark; a refresh changes none.
LEMMA TrackedLoopStep ==
  ASSUME TrayTypeOK, AttemptsAreTracked, LoopStep \/ RunRefresh, NEW s \in Services \ stray'
  PROVE  Tracked(s)'
<1>. USE TypeParts
<1>1. UNCHANGED <<status, origin, unsent, stray, tasks, bulk>>
  BY DEF LoopStep, Hear, HearLag, Refresh, RunRefresh, serviceVars, markVars
<1>2. Tracked(s)
  BY <1>1 DEF AttemptsAreTracked
<1>3. CASE Hear
  <2>1. /\ channel # <<>> /\ channel' = Tail(channel) /\ marked' = Resolve(Head(channel))
        /\ channel \in Seq(Event) /\ UNCHANGED serviceVars
    BY <1>3 DEF Hear, ReceiverTypes
  <2>2. /\ Resolves(Head(channel), s) => s \notin marked'
        /\ ~Resolves(Head(channel), s) => (s \in marked' <=> s \in marked)
    BY <2>1 DEF Resolve, Resolves
  <2>. QED BY <1>1, <1>2, <2>1, <2>2, PopTracked
<1>4. CASE HearLag \/ Refresh \/ RunRefresh
  <2>1. UNCHANGED <<channel, marked>>
    BY <1>4 DEF HearLag, Refresh, RunRefresh, receiverVars, markVars
  <2>. QED BY <1>1, <1>2, <2>1, DueUntouched, UntouchedTracked
<1>. QED BY <1>3, <1>4 DEF LoopStep

\* An Apply starts a service as anybody else does.
LEMMA TrackedApplyStep ==
  ASSUME TrayTypeOK, AttemptsAreTracked, ApplyStep, NEW s \in Services \ stray'
  PROVE  Tracked(s)'
<1>. USE TypeParts
<1>1. UNCHANGED <<channel, tasks, bulk>> /\ stray \subseteq stray'
  BY DEF ApplyStep, ApplyLocks, ApplyStops, ApplyStarts, ApplyLeaves, ApplyEnds, OtherStarts,
         receiverVars, markVars
<1>2. Tracked(s) /\ ServiceTypes
  BY <1>1 DEF AttemptsAreTracked
<1>3. CASE UNCHANGED <<status, origin, unsent, marked>>
  BY <1>1, <1>2, <1>3, DueUntouched, UntouchedTracked
<1>4. ASSUME NEW t \in Services, OtherStarts(t) PROVE Tracked(s)'
  <2>1. CASE s = t
    BY <1>1, <1>2, <1>4, <2>1, DueUntouched, OtherStartsTracked
  <2>2. CASE s # t
    <3>1. status'[s] = status[s] /\ origin'[s] = origin[s] /\ unsent'[s] = unsent[s]
      BY <1>2, <1>4, <2>2 DEF OtherStarts, Begin, Write, Tell, ServiceTypes, Snapshots
    <3>2. marked' = marked
      BY <1>4 DEF OtherStarts
    <3>. QED BY <1>1, <1>2, <3>1, <3>2, DueUntouched, UntouchedTracked
  <2>. QED BY <2>1, <2>2
<1>. QED
  BY <1>3, <1>4
     DEF ApplyStep, ApplyLocks, ApplyStops, ApplyStarts, ApplyLeaves, ApplyEnds, StopAll,
         serviceVars, markVars

\* What a bulk action has due depends on its own stage and list.
LEMMA BulkDue ==
  ASSUME NEW d \in Dispatchers, \A e \in Dispatchers \ {d} : bulk'[e] = bulk[e],
         NEW s \in Services,
         (bulk'[d].stage = "starting" /\ IsFirst(s, bulk'[d].todo))
           <=> (bulk[d].stage = "starting" /\ IsFirst(s, bulk[d].todo))
  PROVE  BulkStartDue(s)' <=> BulkStartDue(s)
BY DEF BulkStartDue, IsFirst

\* Start all marks and starts one service after the other.
LEMMA TrackedBulkStep ==
  ASSUME TrayTypeOK, BulkKeepsApart, AttemptsAreTracked, OwedAreFailures',
         NEW d \in Dispatchers, BulkStep(d), NEW s \in Services \ stray'
  PROVE  Tracked(s)'
<1>. USE TypeParts
<1>0. ServiceTypes /\ BulkTypes /\ (s \notin stray => Tracked(s))
  BY DEF AttemptsAreTracked
<1>1. UNCHANGED <<channel, tasks>> /\ (RowStartDue(s)' <=> RowStartDue(s))
  BY DEF BulkStep, receiverVars, RowStartDue
<1>2. \A e \in Dispatchers \ {d} : bulk'[e] = bulk[e]
  BY <1>0
     DEF BulkStep, TryBulk, Admitted, TurnedAway, Looks, Posts, Marks, Starts, Sweeps, Releases,
         Move, BulkTypes
<1>3. CASE /\ UNCHANGED <<status, origin, unsent, markVars>>
           /\ bulk[d].stage # "starting" /\ bulk'[d].stage # "starting"
  <2>1. BulkStartDue(s)' <=> BulkStartDue(s)
    BY <1>2, <1>3, BulkDue
  <2>. QED BY <1>0, <1>1, <1>3, <2>1, UntouchedTracked DEF markVars
<1>4. ASSUME NEW t \in Services, Marks(d, t) PROVE Tracked(s)'
  <2>1. /\ bulk[d].stage = "working" /\ bulk'[d].stage = "starting"
        /\ bulk'[d].todo = bulk[d].todo /\ bulk[d].todo \in SUBSET Services
        /\ IsFirst(t, bulk[d].todo) /\ Mark(t) /\ UNCHANGED serviceVars
    BY <1>0, <1>4 DEF Marks, Move, BulkTypes
  <2>2. CASE s = t
    <3>1. BulkStartDue(s)' /\ StartDue(s)'
      BY <2>1, <2>2 DEF BulkStartDue, StartDue, IsFirst
    <3>2. ~StartDue(s) => ~(RowStartDue(s)' /\ BulkStartDue(s)')
      BY <1>1 DEF StartDue
    <3>. QED BY <1>1, <2>1, <2>2, <3>1, <3>2, MarkTracked DEF serviceVars
  <2>3. CASE s # t
    <3>1. ~IsFirst(s, bulk[d].todo) /\ ~IsFirst(s, bulk'[d].todo)
      BY <2>1, <2>3, FirstIsOne
    <3>2. BulkStartDue(s)' <=> BulkStartDue(s)
      BY <1>2, <3>1, BulkDue
    <3>3. s \notin stray
      BY <2>1, <2>3 DEF Mark
    <3>. QED BY <1>0, <1>1, <2>1, <2>3, <3>2, <3>3, OthersMarkTracked
  <2>. QED BY <2>2, <2>3
<1>5. ASSUME NEW t \in Services, Starts(d, t) PROVE Tracked(s)'
  <2>1. /\ bulk[d].stage = "starting" /\ bulk'[d].stage = "working"
        /\ bulk[d].todo \in SUBSET Services
        /\ IsFirst(t, bulk[d].todo) /\ StartMarked(t, "bulk") /\ stray \subseteq stray'
    BY <1>0, <1>5 DEF Starts, StartMarked, BulkTypes
  <2>2. CASE s = t
    <3>1. BulkStartDue(s) /\ StartDue(s)
      BY <2>1, <2>2 DEF BulkStartDue, StartDue
    <3>2. Tracked(s)
      BY <1>0, <2>1
    <3>3. ~RowStartDue(s)
      BY <3>1, <3>2 DEF Tracked, MarkAwaitsOutcome
    <3>4. \A e \in Dispatchers \ {d} : bulk[e].stage # "starting"
      BY <2>1 DEF BulkKeepsApart, AtWork
    <3>5. \A e \in Dispatchers : bulk'[e].stage # "starting"
      BY <1>2, <2>1, <3>4
    <3>6. ~StartDue(s)'
      BY <1>1, <3>3, <3>5 DEF StartDue, BulkStartDue
    <3>. QED BY <1>0, <1>1, <2>1, <2>2, <3>1, <3>2, <3>6, StartMarkedTracked
  <2>3. CASE s # t
    <3>1. ~IsFirst(s, bulk[d].todo)
      BY <2>1, <2>3, FirstIsOne
    <3>2. BulkStartDue(s)' <=> BulkStartDue(s)
      BY <1>2, <2>1, <3>1, BulkDue
    <3>. QED BY <1>0, <1>1, <2>1, <2>3, <3>2, OthersStartTracked
  <2>. QED BY <2>2, <2>3
<1>6. ASSUME NEW kind \in Kinds, TryBulk(d, kind) PROVE Tracked(s)'
  BY <1>0, <1>3, <1>6 DEF TryBulk, BulkTypes, NoBulk, serviceVars
<1>7. CASE Admitted(d) \/ TurnedAway(d)
  BY <1>0, <1>3, <1>7 DEF Admitted, TurnedAway, Move, BulkTypes, NoBulk, serviceVars
<1>8. CASE Looks(d) \/ Posts(d)
  BY <1>0, <1>3, <1>8 DEF Looks, Posts, BulkTypes, NoBulk, serviceVars
<1>9. CASE Sweeps(d)
  BY <1>0, <1>3, <1>9 DEF Sweeps, StopAll, BulkTypes
<1>10. CASE Releases(d)
  BY <1>0, <1>3, <1>10 DEF Releases, WorkIsOver, BulkTypes, NoBulk, serviceVars
<1>. QED
  BY <1>4, <1>5, <1>6, <1>7, <1>8, <1>9, <1>10 DEF BulkStep

\* Every step keeps track of the start attempts of the tray.
LEMMA AttemptsStep ==
  ASSUME TrayTypeOK, BulkKeepsApart, AttemptsAreTracked, [Next]_vars
  PROVE  AttemptsAreTracked'
<1>1. OwedAreFailures'
  BY OwedStep DEF AttemptsAreTracked
<1>2. ASSUME NEW s \in Services \ stray' PROVE Tracked(s)'
  <2>1. CASE UNCHANGED vars
    <3>1. UNCHANGED <<status, origin, unsent, channel, marked, stray, tasks, bulk>>
      BY <2>1 DEF vars, serviceVars, receiverVars, markVars
    <3>2. Tracked(s)
      BY <3>1 DEF AttemptsAreTracked
    <3>. QED BY <3>1, <3>2, DueUntouched, UntouchedTracked
  <2>. QED
    BY <1>1, <2>1, TrackedServiceStep, TrackedClickStep, TrackedLoopStep, TrackedApplyStep,
       TrackedBulkStep DEF Next
<1>. QED BY <1>1, <1>2 DEF AttemptsAreTracked

\* Nothing is attempted at first.
LEMMA AttemptsInit == Init => AttemptsAreTracked
<1>. SUFFICES ASSUME Init PROVE AttemptsAreTracked
  OBVIOUS
<1>1. channel = <<>> /\ tasks = {} /\ marked = {} /\ \A s \in Services : unsent[s] = {}
  BY DEF Init
<1>2. DOMAIN channel = {}
  BY <1>1
<1>3. \A s \in Services : ~BulkStartDue(s) /\ ~RowStartDue(s) /\ ~Attempted(s)
  BY DEF Init, NoBulk, BulkStartDue, RowStartDue, Attempted
<1>. QED
  BY <1>1, <1>2, <1>3
     DEF AttemptsAreTracked, OwedAreFailures, Tracked, MarkAwaitsOutcome, OneOutcomeUnsent,
         OwedFindsMark, MarkFindsOwed, StartDue, OutcomeUnsent


-----------------------------------------------------------------------------
(* The invariant, and what follows from it. *)

\* Every step keeps the types.
LEMMA TypesStep ==
  ASSUME TrayTypeOK, SelectionIsClear, [Next]_vars
  PROVE  TrayTypeOK'
<1>1. CASE UNCHANGED vars
  BY <1>1 DEF vars, TrayTypeOK, serviceVars, receiverVars, markVars, menuVars, lockVars
<1>. QED
  BY <1>1, ServiceStepTypes, ClickStepTypes, LoopStepTypes, ApplyStepTypes, BulkStepTypes DEF Next

\* The invariant holds at first.
LEMMA InitIsGood == Init => IInv
<1>. SUFFICES ASSUME Init PROVE IInv
  OBVIOUS
<1>1. status \in Snapshots
  BY DEF Init, Snapshots, States
<1>2. <<>> \in Seq(Snapshots) /\ <<>> \in Seq(Event) /\ Len(<<>>) = 0
  BY EmptySeq
<1>3. 0 <= MaxPosted /\ 0 <= Capacity
  BY TrayAssumption
<1>4. MenuTypes
  <2>1. shown \in [rows : Snapshots, startAll : BOOLEAN, stopAll : BOOLEAN]
    BY <1>1, ModelType DEF Init
  <2>2. posted = <<>> /\ overtaken = FALSE
    BY DEF Init
  <2>3. Len(posted) <= MaxPosted
    BY <1>2, <1>3, <2>2
  <2>. QED BY <1>2, <2>1, <2>2, <2>3 DEF MenuTypes
<1>5. ReceiverTypes
  <2>1. channel = <<>> /\ lagged = FALSE
    BY DEF Init
  <2>2. Len(channel) <= Capacity
    BY <1>2, <1>3, <2>1
  <2>. QED BY <1>2, <2>1, <2>2 DEF ReceiverTypes
<1>6. BulkTypes
  BY NoBulkType DEF Init, BulkTypes
<1>7. ServiceTypes
  BY <1>1 DEF Init, ServiceTypes, Origins, News
<1>8. MarkTypes /\ DeskTypes /\ LockTypes /\ CountTypes
  BY TrayAssumption DEF Init, MarkTypes, DeskTypes, LockTypes, CountTypes
<1>9. TrayTypeOK
  BY <1>4, <1>7, <1>8, <1>5, <1>6, TypeParts
<1>10. LocksAreHeld
  BY TrayAssumption DEF Init, LocksAreHeld, HoldsBulk, HoldsApply, NoBulk
<1>11. SelectionIsClear
  BY DEF Init, SelectionIsClear, HoldsBulk, NoBulk
<1>12. EndpointsApart
  BY DEF Init, EndpointsApart
<1>13. shown.rows = status
  BY DEF Init, TrayModel
<1>14. MenuFollows
  BY <1>13 DEF Init, MenuFollows, LastPosted
<1>. QED
  BY <1>9, <1>10, <1>11, <1>12, <1>14, LocksKeepApart, AttemptsInit DEF IInv

\* The inductive invariant: the types, who holds the two locks, that what Start
\* all has selected is clear, that the menu is true or about to be, and that the
\* start attempts of the tray and their outcomes belong together.
THEOREM TrayInvariant == Spec => []IInv
<1>1. IInv /\ [Next]_vars => IInv'
  <2>. SUFFICES ASSUME IInv, [Next]_vars PROVE IInv'
    OBVIOUS
  <2>. USE DEF IInv
  <2>1. TrayTypeOK' BY TypesStep
  <2>2. BulkTypes BY TypeParts
  <2>3. LocksAreHeld' BY <2>2, LocksStep
  <2>4. BulkKeepsApart'
    BY <2>3, TrayAssumption DEF LocksAreHeld, BulkKeepsApart, HoldsBulk, HoldsApply, AtWork
  <2>5. SelectionIsClear' BY SelectionStep
  <2>6. EndpointsApart' BY EndpointsStep
  <2>7. MenuFollows' BY MenuStep
  <2>8. AttemptsAreTracked' BY AttemptsStep
  <2>. QED BY <2>1, <2>3, <2>4, <2>5, <2>6, <2>7, <2>8
<1>. QED
  BY InitIsGood, <1>1, PTL DEF Spec

\* try_acquire_bulk keeps bulk actions apart from each other and from the time
\* in which an Apply has a service down.
THEOREM BulkActionsApart == Spec => []BulkKeepsApart
<1>1. IInv => BulkKeepsApart BY DEF IInv
<1>. QED BY <1>1, TrayInvariant, PTL

\* bulk_start_ids and BulkLock: no two services of one endpoint are live through
\* Start all, whatever others start and stop meanwhile.
THEOREM OneOfAnEndpoint == Spec => []EndpointsApart
<1>1. IInv => EndpointsApart BY DEF IInv
<1>. QED BY <1>1, TrayInvariant, PTL

\* The subscriber loop: a menu at rest shows every service as it is, also after
\* events were lost, unless a bulk action's own refresh was overtaken.
THEOREM RowsAreTrue == Spec => []RowsSettle
<1>1. IInv => RowsSettle
  BY DEF IInv, RowsSettle, MenuFollows, Quiet, NewsComes, LastPosted
<1>. QED BY <1>1, TrayInvariant, PTL

\* The refresh after a release: a menu at rest has both bulk rows enabled for
\* what there is to do, unless a holder of BulkLock has left without a refresh.
THEOREM BulkRowsAreTrue == Spec => []BulkRowsRecover
<1>1. IInv => BulkRowsRecover
  BY DEF IInv, BulkRowsRecover, MenuFollows, Quiet
<1>. QED BY <1>1, TrayInvariant, PTL

\* dialog_for_transition: a failure that the loop hears raises the dialog exactly
\* if it ends a start attempt of the tray.
THEOREM DialogsAreForTheTray == Spec => []DialogIsForTheTray
<1>1. IInv => DialogIsForTheTray
  <2>. SUFFICES ASSUME TrayTypeOK, AttemptsAreTracked, channel # <<>>,
                       Head(channel).news.state = "Failed", Head(channel).service \notin stray
                PROVE  Dialog(Head(channel)) <=> Head(channel).news.owed
    BY DEF IInv, DialogIsForTheTray
  <2>. DEFINE event == Head(channel)
              s     == event.service
  <2>1. 1 \in DOMAIN channel /\ channel[1] = event
    BY EmptySeq, HeadTailProperties DEF TrayTypeOK
  <2>2. s \in Services
    <3>1. event \in Event
      BY HeadTailProperties DEF TrayTypeOK
    <3>. HIDE DEF event
    <3>. QED BY <3>1 DEF Event
  <2>3. Tracked(s)
    BY <2>2 DEF AttemptsAreTracked
  <2>4. FirstOutcome(1, s)
    BY <2>1 DEF FirstOutcome, Resolves, Resolving
  <2>5. s \in marked => event.news.owed
    BY <2>1, <2>3, <2>4 DEF Tracked, MarkFindsOwed
  <2>6. event.news.owed => s \in marked
    BY <2>1, <2>3 DEF Tracked, OwedFindsMark
  <2>. QED BY <2>5, <2>6 DEF Dialog
<1>. QED BY <1>1, TrayInvariant, PTL
=============================================================================
