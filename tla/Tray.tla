--------------------------------- MODULE Tray ---------------------------------
(***************************************************************************)
(* The menu-bar tray (apps/desktop/src-tauri/src/tray): a click on a       *)
(* service's row, Start all and Stop all with the two locks they share     *)
(* with an Apply and with the control socket's stop-all, the failure       *)
(* dialog of starts the tray asked for, and the menu that is recomputed    *)
(* from snapshots.                                                         *)
(*                                                                         *)
(* Everything acts between any two steps here: services come up, fail and  *)
(* are started and stopped by others; their events reach the tray's loop   *)
(* late, or not at all when log lines overrun the channel; and what is     *)
(* shown changes only when the main thread runs a posted refresh.          *)
(*                                                                         *)
(* A service is what the supervisor promises of it (ServiceLifecycle); the *)
(* demo-ticker, a fixture of development builds, is none of them.          *)
(***************************************************************************)
EXTENDS Naturals, Sequences

CONSTANTS
  Services,    \* service ids
  Rank,        \* service -> its place in a snapshot
  Endpoint,    \* service -> the endpoint it declares, or None
  None,        \* no endpoint, no holder, nothing in hand
  Dispatchers, \* identities of bulk actions under way
  Kinds,       \* the bulk actions there are
  Removable,   \* the services an uninstall may unregister
  Capacity,    \* bound: state events waiting in the loop's receiver (of its 256
               \* slots log lines fill any number: Overrun)
  MaxPosted,   \* bound: refreshes waiting for the main thread
  MaxActs      \* bound: clicks, calls of others, Applies and overruns

States   == {"Unregistered", "Stopped", "Starting", "Running", "Failed"}
Idle     == {"Stopped", "Failed"}
Live     == {"Starting", "Running"}
AllKinds == {"startAll", "stopAll", "control"}
Origins  == {"row", "bulk", "other"}

ASSUME TrayAssumption ==
  /\ Rank \in [Services -> Nat]
  /\ \A s, t \in Services : Rank[s] = Rank[t] => s = t
  /\ None \notin Services \union Dispatchers \union {"apply", "done"}
  /\ "apply" \notin Dispatchers /\ "done" \notin Services
  /\ Kinds \subseteq AllKinds
  /\ Removable \subseteq Services
  /\ Capacity \in Nat \ {0} /\ MaxPosted \in Nat \ {0} /\ MaxActs \in Nat

VARIABLES
  status,     \* what a snapshot shows of each service
  origin,     \* who started the current run of a service
  asked,      \* has a stop been accepted in the current run?
  unsent,     \* service -> states written and not yet broadcast
  channel,    \* the unread events of the tray's receiver
  lagged,     \* has it lost one it has not noticed?
  marked,     \* TrayInitiated: services with a start attempt of the tray
  click,      \* what the menu-event handler, on the main thread, has in hand
  tasks,      \* supervisor calls a click has spawned
  loop,       \* the subscriber loop: receiving, or at its refresh
  posted,     \* snapshots of the refreshes the main thread has yet to run
  shown,      \* the model that was applied last
  bulkLock, applyLock, \* holder of BulkLock and of ApplyLock
  bulk,       \* dispatcher -> how far its bulk action is
  acts,       \* what was set going so far
  restarting, \* the service an Apply has stopped and not yet started, or done
  stray, overtaken, silent \* history, see the properties

serviceVars == <<status, origin, asked, unsent>>
receiverVars == <<channel, lagged>>
markVars == <<marked, stray>>
menuVars == <<posted, shown, overtaken>>
lockVars == <<bulkLock, applyLock>>
vars == <<serviceVars, receiverVars, markVars, click, tasks, loop, menuVars,
          lockVars, bulk, restarting, silent, acts>>

Snapshots == [Services -> States]

\* What is broadcast about a service.  owed: history, the run was started from
\* the tray and has failed before it was ready.
News  == [state : States \union {"Registered"}, owed : BOOLEAN]
Event == [service : Services, news : News]

\* snapshot: the one in hand; todo: services Start all has yet to start.
Stages == {"idle", "trying", "granted", "posting", "working", "starting",
           "sweeping", "released", "reposting"}
NoBulk == [stage |-> "idle", kind |-> "control", snapshot |-> None, todo |-> {}]

\* Every variable keeps its type.
TrayTypeOK ==
  /\ status \in Snapshots
  /\ origin \in [Services -> Origins]
  /\ asked \in [Services -> BOOLEAN]
  /\ unsent \in [Services -> SUBSET News]
  /\ channel \in Seq(Event) /\ Len(channel) <= Capacity /\ lagged \in BOOLEAN
  /\ marked \subseteq Services /\ stray \subseteq Services
  /\ click \in {None} \union Services
  /\ tasks \subseteq {"start", "stop"} \X Services
  /\ loop \in {"receiving", "refreshing"}
  /\ posted \in Seq(Snapshots) /\ Len(posted) <= MaxPosted
  /\ shown \in [rows : Snapshots, startAll : BOOLEAN, stopAll : BOOLEAN]
  /\ bulkLock \in Dispatchers \union {None}
  /\ applyLock \in Dispatchers \union {None, "apply"}
  /\ bulk \in [Dispatchers ->
       [stage : Stages, kind : AllKinds,
        snapshot : Snapshots \union {None}, todo : SUBSET Services]]
  /\ restarting \in Services \union {None, "done"}
  /\ acts \in 0..MaxActs
  /\ overtaken \in BOOLEAN /\ silent \subseteq {"refused", "control"}

-----------------------------------------------------------------------------
(* What a snapshot means to the tray. *)

\* Mutated form of Held: endpoints are looked at among what is selected only.
HeldByNone(snapshot, s) == FALSE

\* Another service is live on the endpoint of s.
Held(snapshot, s) ==
  \E t \in Services \ {s} : snapshot[t] \in Live /\ Endpoint[t] = Endpoint[s]

\* bulk_start_ids: the first idle service of each endpoint nobody holds.
BulkStartIds(snapshot) ==
  {s \in Services :
     /\ snapshot[s] \in Idle
     /\ Endpoint[s] # None =>
          /\ ~Held(snapshot, s)
          /\ \A t \in Services : snapshot[t] \in Idle /\ Endpoint[t] = Endpoint[s]
                                   => Rank[s] <= Rank[t]}

\* tray_model: one row per service, and the two bulk rows, which are enabled
\* when there is something for them to do and no bulk action is under way.
TrayModel(snapshot, busy) ==
  [rows     |-> snapshot,
   startAll |-> ~busy /\ BulkStartIds(snapshot) # {},
   stopAll  |-> ~busy /\ \E s \in Services : snapshot[s] \in Live]

-----------------------------------------------------------------------------
\* Something is set going that is no consequence of what goes on already.
Act == acts < MaxActs /\ acts' = acts + 1

-----------------------------------------------------------------------------
(* The services, and the broadcast of their state. *)

Write(s, state) == status' = [status EXCEPT ![s] = state]

\* The state is written under the supervisor's mutex and broadcast after it.
Tell(s, state, owed) ==
  unsent' = [unsent EXCEPT ![s] = @ \union {[state |-> state, owed |-> owed]}]

\* A run is past its last broadcast; only then does it change state again.
Told(s, states) == \A news \in unsent[s] : news.state \notin states

Begin(s, who) ==
  /\ Write(s, "Starting")
  /\ origin' = [origin EXCEPT ![s] = who]
  /\ asked' = [asked EXCEPT ![s] = FALSE]
  /\ Tell(s, "Starting", FALSE)

\* Supervisor::start, a no-op for a live service and an error for one that is
\* not registered.
Start(s, who) == IF status[s] \in Idle THEN Begin(s, who) ELSE UNCHANGED serviceVars

\* Supervisor::stop; a second stop changes nothing.
StopAll(S) ==
  /\ asked' = [s \in Services |-> asked[s] \/ (s \in S /\ status[s] \in Live)]
  /\ UNCHANGED <<status, origin, unsent>>

BecomesReady(s) ==
  /\ status[s] = "Starting" /\ Told(s, Live)
  /\ Write(s, "Running") /\ Tell(s, "Running", FALSE)
  /\ UNCHANGED <<origin, asked>>

\* A start attempt of the tray has no outcome yet.
Attempted(s) == status[s] = "Starting" /\ origin[s] # "other"

\* A start attempt of the tray that failed: what the dialog is for.
OwesDialog(s, outcome) == outcome = "Failed" /\ Attempted(s)

\* Bound: one terminal state of a service at a time is written and not sent.
Ends(s, outcome) ==
  /\ status[s] \in Live /\ Told(s, States)
  /\ outcome = "Stopped" => asked[s]
  /\ Write(s, outcome) /\ Tell(s, outcome, OwesDialog(s, outcome))
  /\ origin' = [origin EXCEPT ![s] = "other"]
  /\ asked' = [asked EXCEPT ![s] = FALSE]

Unregister(s) ==
  /\ s \in Removable /\ status[s] \in Idle /\ unsent[s] = {}
  /\ Write(s, "Unregistered") /\ Tell(s, "Unregistered", FALSE)
  /\ UNCHANGED <<origin, asked>>

Register(s) ==
  /\ status[s] = "Unregistered" /\ unsent[s] = {}
  /\ Write(s, "Stopped") /\ Tell(s, "Registered", FALSE)
  /\ UNCHANGED <<origin, asked>>

\* The events that resolve a start attempt.
Resolving == {"Running", "Stopped", "Failed"}

Resolves(event, s) == event.service = s /\ event.news.state \in Resolving

\* The next service Start all starts, in the order of its snapshot.
IsFirst(s, S) == s \in S /\ \A t \in S : Rank[s] <= Rank[t]

\* A start the tray has marked and not yet asked the supervisor for.
RowStartDue(s)  == <<"start", s>> \in tasks
BulkStartDue(s) ==
  \E d \in Dispatchers : bulk[d].stage = "starting" /\ IsFirst(s, bulk[d].todo)
StartDue(s)     == RowStartDue(s) \/ BulkStartDue(s)

Broadcast(s, news) ==
  /\ news \in unsent[s] /\ Len(channel) < Capacity
  /\ unsent' = [unsent EXCEPT ![s] = @ \ {news}]
  /\ channel' = Append(channel, [service |-> s, news |-> news])
  /\ UNCHANGED <<status, origin, asked, lagged, markVars>>

\* Log lines push the oldest unread event out, which may be the one that would
\* have resolved a mark.
Overrun ==
  /\ channel # <<>>
  /\ channel' = Tail(channel)
  /\ lagged' = TRUE
  /\ stray' = stray \union {s \in marked : Resolves(Head(channel), s)}
  /\ UNCHANGED <<serviceVars, marked>>

\* An outcome of this service is on its way to the tray's loop.
OutcomeUnsent(s) == \E news \in unsent[s] : news.state \in Resolving
OutcomeSent(s)   == \E i \in DOMAIN channel : Resolves(channel[i], s)

\* Somebody else (the Services page, the CLI) starts a service.  A start in
\* between a mark of the tray and its start is the one the mark is taken for;
\* and the events of a new run can overtake the outcome of the last.
OtherStarts(s) ==
  /\ status[s] \in Idle /\ Begin(s, "other")
  /\ stray' = IF StartDue(s) \/ OutcomeUnsent(s) THEN stray \union {s} ELSE stray
  /\ UNCHANGED <<marked, receiverVars>>

OtherStops(s) ==
  /\ status[s] \in Live /\ ~asked[s]
  /\ StopAll({s})

ServiceStep ==
  /\ \E s \in Services :
       \/ /\ BecomesReady(s) \/ \E outcome \in Idle : Ends(s, outcome)
          /\ UNCHANGED <<receiverVars, markVars, acts>>
       \/ /\ Unregister(s) \/ Register(s) \/ OtherStops(s)
          /\ Act
          /\ UNCHANGED <<receiverVars, markVars>>
       \/ (\E news \in unsent[s] : Broadcast(s, news)) /\ UNCHANGED acts
       \/ OtherStarts(s) /\ Act
       \/ Overrun /\ Act
  /\ UNCHANGED <<click, tasks, loop, menuVars, lockVars, bulk, restarting, silent>>

-----------------------------------------------------------------------------
(* TrayInitiated and the click on a row. *)

\* The events and calls under way will resolve the mark before its own start's
\* outcome does, or that start will be none.
Muddled(s) ==
  \/ s \in marked \/ StartDue(s) \/ status[s] \notin Idle
  \/ OutcomeUnsent(s) \/ OutcomeSent(s)

Mark(s) ==
  /\ marked' = marked \union {s}
  /\ stray' = IF Muddled(s) THEN stray \union {s} ELSE stray \ {s}

\* The tray's start of a marked service.
StartMarked(s, who) ==
  /\ Start(s, who)
  /\ stray' = IF status[s] \in Idle THEN stray ELSE stray \union {s}
  /\ UNCHANGED marked

\* handle_tray_menu_id: a row is disabled while it shows Starting; the action
\* is that of a snapshot read now.
ClickStarts(s) ==
  /\ click = None /\ shown.rows[s] \notin {"Starting", "Unregistered"}
  /\ status[s] \in Idle
  /\ click' = s
  /\ Act
  /\ UNCHANGED <<serviceVars, receiverVars, markVars, tasks, loop, menuVars,
                 lockVars, bulk, restarting, silent>>

ClickStops(s) ==
  /\ click = None /\ shown.rows[s] \notin {"Starting", "Unregistered"}
  /\ status[s] = "Running"
  /\ Act
  /\ tasks' = tasks \union {<<"stop", s>>}
  /\ UNCHANGED <<serviceVars, receiverVars, markVars, click, loop, menuVars,
                 lockVars, bulk, restarting, silent>>

MarkClicked ==
  /\ click # None
  /\ Mark(click)
  /\ tasks' = tasks \union {<<"start", click>>}
  /\ click' = None
  /\ UNCHANGED <<serviceVars, receiverVars, loop, menuVars, lockVars, bulk,
                 restarting, silent, acts>>

RunTask(task) ==
  /\ task \in tasks
  /\ tasks' = tasks \ {task}
  /\ IF task[1] = "start" THEN StartMarked(task[2], "row")
     ELSE StopAll({task[2]}) /\ UNCHANGED markVars
  /\ UNCHANGED <<receiverVars, click, loop, menuVars, lockVars, bulk, restarting, silent, acts>>

-----------------------------------------------------------------------------
(* The subscriber loop, and the refreshes the main thread runs. *)

\* dialog_for_transition: what is heard of a service resolves its mark; a
\* dialog is shown if that is a failure.
Dialog(event) == event.news.state = "Failed" /\ event.service \in marked

\* Mutated form of Resolve: Running is no outcome yet.
ResolveTerminal(event) ==
  IF event.news.state \in Idle THEN marked \ {event.service} ELSE marked

Resolve(event) ==
  IF event.news.state \in Resolving THEN marked \ {event.service} ELSE marked

Hear ==
  /\ loop = "receiving" /\ ~lagged /\ channel # <<>>
  /\ marked' = Resolve(Head(channel))
  /\ channel' = Tail(channel)
  /\ loop' = "refreshing"
  /\ UNCHANGED <<serviceVars, lagged, stray, click, tasks, menuVars, lockVars,
                 bulk, restarting, silent, acts>>

\* Mutated form of AfterLag: the loop goes on with the next event.
SkipLag == "receiving"

\* A lagged receiver may have missed anything: recompute.
AfterLag == "refreshing"

HearLag ==
  /\ loop = "receiving" /\ lagged
  /\ lagged' = FALSE
  /\ loop' = AfterLag
  /\ UNCHANGED <<serviceVars, channel, markVars, click, tasks, menuVars, lockVars,
                 bulk, restarting, silent, acts>>

Post(snapshot) ==
  /\ Len(posted) < MaxPosted
  /\ posted' = Append(posted, snapshot)
  /\ UNCHANGED shown

\* The snapshot and the posting are one step: whatever changes between them is
\* followed by an event, and so by the loop's own next refresh.
Refresh ==
  /\ loop = "refreshing"
  /\ Post(status)
  /\ overtaken' = FALSE
  /\ loop' = "receiving"
  /\ UNCHANGED <<serviceVars, receiverVars, markVars, click, tasks, lockVars, bulk,
                 restarting, silent, acts>>

\* probe_bulk_state, by the closure itself and not by who posted it.  The main
\* thread is not in the menu-event handler meanwhile.
RunRefresh ==
  /\ posted # <<>> /\ click = None
  /\ shown' = TrayModel(Head(posted), bulkLock # None)
  /\ posted' = Tail(posted)
  /\ silent' = IF bulkLock = None THEN {} ELSE silent
  /\ UNCHANGED <<serviceVars, receiverVars, markVars, click, tasks, loop, overtaken,
                 lockVars, bulk, restarting, acts>>

-----------------------------------------------------------------------------
(* Start all, Stop all and the control socket's stop-all. *)

AtWork(d) == bulk[d].stage \in {"working", "starting", "sweeping"}

Move(d, from, to) ==
  /\ bulk[d].stage = from
  /\ bulk' = [bulk EXCEPT ![d].stage = to]

\* try_acquire_bulk, first lock.  Whoever finds it held is turned away.
TryBulk(d, kind) ==
  /\ bulk[d].stage = "idle" /\ bulkLock = None
  /\ bulk' = [bulk EXCEPT ![d] = [NoBulk EXCEPT !.stage = "trying", !.kind = kind]]
  /\ bulkLock' = d
  /\ UNCHANGED <<serviceVars, markVars, menuVars, applyLock, silent>>

\* Mutated form of MayApply: the second lock is not tried.
AlwaysMay == TRUE

MayApply == applyLock = None

\* Second lock.  The control socket's handler goes straight to its stop loop.
Admitted(d) ==
  /\ MayApply
  /\ Move(d, "trying", IF bulk[d].kind = "control" THEN "working" ELSE "granted")
  /\ applyLock' = d
  /\ UNCHANGED <<serviceVars, markVars, menuVars, bulkLock, silent>>

\* Busy: the first lock is given back, and no menu is recomputed.
TurnedAway(d) ==
  /\ bulk[d].stage = "trying" /\ ~MayApply
  /\ bulk' = [bulk EXCEPT ![d] = NoBulk]
  /\ bulkLock' = None
  /\ silent' = silent \union {"refused"}
  /\ UNCHANGED <<serviceVars, markVars, menuVars, applyLock>>

Looks(d) ==
  /\ bulk[d].stage \in {"granted", "released"}
  /\ bulk' = [bulk EXCEPT ![d].snapshot = status,
       ![d].stage = IF @ = "granted" THEN "posting" ELSE "reposting"]
  /\ UNCHANGED <<serviceVars, markVars, menuVars, lockVars, silent>>

\* The snapshot is of the time of Looks; it is what Start all selects from.
Posts(d) ==
  /\ bulk[d].stage \in {"posting", "reposting"}
  /\ Post(bulk[d].snapshot)
  /\ overtaken' = (overtaken \/ bulk[d].snapshot # status)
  /\ bulk' = [bulk EXCEPT ![d] =
       IF @.stage = "reposting" THEN NoBulk
       ELSE [stage |-> "working", kind |-> @.kind, snapshot |-> None,
             todo |-> IF @.kind = "startAll" THEN BulkStartIds(@.snapshot) ELSE {}]]
  /\ UNCHANGED <<serviceVars, markVars, lockVars, silent>>

\* start_all_with: each service is marked right before its start.
Marks(d, s) ==
  /\ bulk[d].kind = "startAll" /\ IsFirst(s, bulk[d].todo)
  /\ Move(d, "working", "starting")
  /\ Mark(s)
  /\ UNCHANGED <<serviceVars, menuVars, lockVars, silent>>

Starts(d, s) ==
  /\ bulk[d].stage = "starting" /\ IsFirst(s, bulk[d].todo)
  /\ StartMarked(s, "bulk")
  /\ bulk' = [bulk EXCEPT ![d].stage = "working", ![d].todo = @ \ {s}]
  /\ UNCHANGED <<menuVars, lockVars, silent>>

\* quit::stop_all: everything that is live is asked, again at every look.
Sweeps(d) ==
  /\ bulk[d].kind # "startAll" /\ bulk[d].stage \in {"working", "sweeping"}
  /\ \E s \in Services : status[s] \in Live
  /\ StopAll(Services)
  /\ bulk' = [bulk EXCEPT ![d].stage = "sweeping"]
  /\ UNCHANGED <<markVars, menuVars, lockVars, silent>>

\* Nothing is left to start; or nothing is live, or the sweep's time is up.
WorkIsOver(d) ==
  CASE bulk[d].stage = "working" /\ bulk[d].kind = "startAll" -> bulk[d].todo = {}
    [] bulk[d].stage = "working" /\ bulk[d].kind # "startAll" ->
         \A s \in Services : status[s] \notin Live
    [] OTHER -> bulk[d].stage = "sweeping"

\* Mutated form of Refreshes: Stop all leaves its last refresh to the events.
RefreshesStartAll(kind) == kind = "startAll"

\* Who recomputes the menu after the locks are free.
Refreshes(kind) == kind # "control"

Releases(d) ==
  /\ WorkIsOver(d)
  /\ bulkLock' = None /\ applyLock' = None
  /\ bulk' = [bulk EXCEPT ![d] =
       IF Refreshes(@.kind)
       THEN [stage |-> "released", kind |-> @.kind, snapshot |-> None, todo |-> {}]
       ELSE NoBulk]
  /\ silent' = IF bulk[d].kind = "control" THEN silent \union {"control"} ELSE silent
  /\ UNCHANGED <<serviceVars, markVars, menuVars>>

BulkStep(d) ==
  /\ \/ (\E kind \in Kinds : TryBulk(d, kind)) /\ Act
     \/ /\ \/ Admitted(d) \/ TurnedAway(d) \/ Looks(d) \/ Posts(d)
           \/ \E s \in Services : Marks(d, s) \/ Starts(d, s)
           \/ Sweeps(d) \/ Releases(d)
        /\ UNCHANGED acts
  /\ UNCHANGED <<receiverVars, click, tasks, loop, restarting>>

-----------------------------------------------------------------------------
(* An Apply, as far as the tray meets it: it waits for its lock. *)

ApplyLocks ==
  /\ applyLock = None
  /\ applyLock' = "apply"
  /\ UNCHANGED <<serviceVars, markVars, bulkLock, restarting>>

ApplyStops(s) ==
  /\ applyLock = "apply" /\ restarting = None /\ status[s] = "Running"
  /\ StopAll({s})
  /\ restarting' = s
  /\ UNCHANGED <<markVars, lockVars>>

ApplyStarts(s) ==
  /\ restarting = s
  /\ OtherStarts(s)
  /\ restarting' = "done"
  /\ UNCHANGED lockVars

\* A straggler, or started by somebody else meanwhile.
ApplyLeaves(s) ==
  /\ restarting = s /\ status[s] \notin Idle
  /\ restarting' = "done"
  /\ UNCHANGED <<serviceVars, markVars, lockVars>>

ApplyEnds ==
  /\ applyLock = "apply" /\ restarting \notin Services
  /\ applyLock' = None /\ restarting' = None
  /\ UNCHANGED <<serviceVars, markVars, bulkLock>>

ApplyStep ==
  /\ \/ ApplyLocks /\ Act
     \/ /\ \/ \E s \in Services : ApplyStops(s) \/ ApplyStarts(s) \/ ApplyLeaves(s)
           \/ ApplyEnds
        /\ UNCHANGED acts
  /\ UNCHANGED <<receiverVars, click, tasks, loop, menuVars, bulk, silent>>

-----------------------------------------------------------------------------
Init ==
  /\ status = [s \in Services |-> "Stopped"]
  /\ origin = [s \in Services |-> "other"] /\ asked = [s \in Services |-> FALSE]
  /\ unsent = [s \in Services |-> {}]
  /\ channel = <<>> /\ lagged = FALSE
  /\ marked = {} /\ stray = {}
  /\ click = None /\ tasks = {} /\ loop = "receiving"
  /\ posted = <<>> /\ shown = TrayModel(status, FALSE)
  /\ bulkLock = None /\ applyLock = None
  /\ bulk = [d \in Dispatchers |-> NoBulk] /\ restarting = None
  /\ overtaken = FALSE /\ silent = {} /\ acts = 0

ClickStep ==
  \/ \E s \in Services : ClickStarts(s) \/ ClickStops(s)
  \/ MarkClicked
  \/ \E task \in tasks : RunTask(task)

LoopStep == Hear \/ HearLag \/ Refresh

Next ==
  \/ ServiceStep \/ ClickStep \/ LoopStep \/ RunRefresh \/ ApplyStep
  \/ \E d \in Dispatchers : BulkStep(d)

Spec == Init /\ [][Next]_vars

-----------------------------------------------------------------------------
(* Properties. *)

\* The doc of TrayInitiated, with the ways in which it is not so: a failure
\* raises the dialog exactly if it ends a start attempt of the tray.  A service
\* is stray from a mark that was set over another attempt or an unread outcome,
\* from a start of the tray that was none, or from an outcome the channel lost.
DialogIsForTheTray ==
  loop = "receiving" /\ ~lagged /\ channel # <<>> =>
    LET event == Head(channel)
    IN  event.news.state = "Failed" /\ event.service \notin stray
          => (Dialog(event) <=> event.news.owed)

\* Nothing is left that would change the menu.
Quiet ==
  /\ channel = <<>> /\ ~lagged /\ loop = "receiving" /\ posted = <<>>
  /\ \A s \in Services : unsent[s] = {}
  /\ \A d \in Dispatchers : bulk[d].stage = "idle"

\* A quiet menu shows what is: no state, registration or removal is missed, even
\* by a receiver that lagged.  Only a bulk action's own refresh that was
\* overtaken by an event between its snapshot and its posting can spoil it.
RowsSettle == Quiet /\ ~overtaken => shown.rows = status

\* The rows of Start all and Stop all are enabled again; only a release of
\* BulkLock that nobody follows with a refresh can leave them disabled.
BulkRowsRecover == Quiet /\ silent = {} => shown = TrayModel(shown.rows, FALSE)

\* try_acquire_bulk: no two bulk actions work at a time, and none works while an
\* Apply has a service down that it is about to start again.
BulkKeepsApart ==
  /\ \A d, e \in Dispatchers : AtWork(d) /\ AtWork(e) => d = e
  /\ restarting \in Services => \A d \in Dispatchers : ~AtWork(d)

\* Start all never brings up a service on the endpoint of one it has brought
\* up before.
EndpointsApart ==
  \A s, t \in Services :
    /\ s # t /\ Endpoint[s] = Endpoint[t] /\ Endpoint[s] # None
    /\ status[s] \in Live /\ status[t] \in Live
    => ~(origin[s] = "bulk" /\ origin[t] = "bulk")

\* Who is past which lock, and not yet past its release.
HoldsBulk(d) ==
  bulk[d].stage \in {"trying", "granted", "posting", "working", "starting", "sweeping"}
HoldsApply(d) == HoldsBulk(d) /\ bulk[d].stage # "trying"

LocksAreHeld ==
  /\ \A d \in Dispatchers : (HoldsBulk(d) <=> bulkLock = d) /\ (HoldsApply(d) <=> applyLock = d)
  /\ restarting # None => applyLock = "apply"

BulkLive(s) == status[s] \in Live /\ origin[s] = "bulk"
Rivals(s, t) == s # t /\ Endpoint[s] = Endpoint[t] /\ Endpoint[s] # None

\* What Start all has selected stays clear of what it has started before: nobody
\* else can add to that while it holds BulkLock.
SelectionIsClear ==
  \A d \in Dispatchers :
    /\ bulk[d].stage = "posting" =>
         \A s \in Services : BulkLive(s) => bulk[d].snapshot[s] \in Live
    /\ bulk[d].stage \in {"posting", "reposting"} => bulk[d].snapshot \in Snapshots
    /\ bulk[d].todo # {} => HoldsBulk(d)
    /\ \A s \in bulk[d].todo, t \in Services :
         Rivals(s, t) => ~BulkLive(t) /\ t \notin bulk[d].todo

\* What the menu will show last is true, unless there is news to be heard.
LastPosted == IF posted = <<>> THEN shown.rows ELSE posted[Len(posted)]
NewsComes == channel # <<>> \/ lagged \/ loop = "refreshing" \/ \E s \in Services : unsent[s] # {}

MenuFollows ==
  /\ NewsComes \/ overtaken \/ LastPosted = status
  /\ \/ shown = TrayModel(shown.rows, FALSE) \/ silent # {} \/ posted # <<>>
     \/ \E d \in Dispatchers : bulk[d].stage # "idle"

\* The event that will resolve the mark of s.
FirstOutcome(i, s) ==
  Resolves(channel[i], s) /\ \A j \in 1..(i - 1) : ~Resolves(channel[j], s)

\* A service whose start is due, or is attempted, has its mark and no outcome
\* that could take it away; and only one of the tray's starts is due.
MarkAwaitsOutcome(s) ==
  /\ StartDue(s) \/ Attempted(s) =>
       s \in marked /\ ~OutcomeUnsent(s) /\ ~OutcomeSent(s)
  /\ StartDue(s) => status[s] \notin Live
  /\ ~(RowStartDue(s) /\ BulkStartDue(s))

\* One outcome at a time is unsent, and none of a run that has just begun.
OneOutcomeUnsent(s) ==
  /\ status[s] = "Starting" => ~OutcomeUnsent(s)
  /\ \A m, n \in unsent[s] : m.state \in Resolving /\ n.state \in Resolving => m = n

\* A failure that a dialog is owed for will find the mark.
OwedFindsMark(s) ==
  /\ \A news \in unsent[s] : news.owed => s \in marked /\ ~OutcomeSent(s)
  /\ \A i \in DOMAIN channel :
       channel[i].service = s /\ channel[i].news.owed
         => s \in marked /\ FirstOutcome(i, s)

\* A failure that will find the mark is one that a dialog is owed for, and
\* every mark will be found.
MarkFindsOwed(s) ==
  s \in marked =>
    /\ \A i \in DOMAIN channel :
         FirstOutcome(i, s) /\ channel[i].news.state = "Failed" => channel[i].news.owed
    /\ ~OutcomeSent(s) =>
         \A news \in unsent[s] : news.state = "Failed" => news.owed
    /\ StartDue(s) \/ Attempted(s) \/ OutcomeUnsent(s) \/ OutcomeSent(s)

\* The start attempts of the tray and their outcomes belong together.
Tracked(s) ==
  MarkAwaitsOutcome(s) /\ OneOutcomeUnsent(s) /\ OwedFindsMark(s) /\ MarkFindsOwed(s)

\* A dialog is owed for failures only.
OwedAreFailures ==
  /\ \A s \in Services : \A news \in unsent[s] : news.owed => news.state = "Failed"
  /\ \A i \in DOMAIN channel : channel[i].news.owed => channel[i].news.state = "Failed"

AttemptsAreTracked == OwedAreFailures /\ \A s \in Services \ stray : Tracked(s)

\* The invariant of the proofs.
IInv ==
  /\ TrayTypeOK /\ LocksAreHeld /\ BulkKeepsApart /\ SelectionIsClear
  /\ EndpointsApart /\ MenuFollows /\ AttemptsAreTracked

\* What probing BulkLock inside the refresh is for (tray/mod.rs:397-413): when a
\* bulk action that was admitted is over, its end leaves neither bulk row
\* disabled with nothing in flight.
AdmittedFreesTheRows ==
  Quiet /\ "refused" \notin silent => shown = TrayModel(shown.rows, FALSE)
=============================================================================
