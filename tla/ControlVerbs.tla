----------------------------- MODULE ControlVerbs -----------------------------
(***************************************************************************)
(* The per-service verbs of the control socket                             *)
(* (apps/desktop/src-tauri/src/control.rs): start, stop and restart, each  *)
(* with or without waiting for the service to settle.                      *)
(*                                                                         *)
(* A call subscribes to the supervisor's broadcast, reads a snapshot,      *)
(* kicks the supervisor and waits for an event that resolves it.  It takes *)
(* no lock, so the desktop UI, the tray, an Apply and other calls act      *)
(* between any two of its steps; and the supervisor broadcasts after it    *)
(* has released its mutex, so an event can be late.  Both are interleaved  *)
(* here with every step of Supervisor.                                     *)
(***************************************************************************)
EXTENDS Supervisor, Sequences

CONSTANTS
  Verbs,     \* the verbs clients send: a subset of start, stop and restart
  Calls,     \* identities of calls being executed by the socket's handler
  Capacity   \* bound: events of inbox a receiver can hold (the channel has
             \* 256 slots, which log lines and other events fill as well)

VARIABLES
  calls,        \* call -> what the handler knows
  inbox,        \* call -> the unread events of its receiver that would end
                \* its wait
  lagged,       \* call -> has its receiver lost an event it has not noticed?
  unannounced,  \* service -> an Unregistered event is about to be broadcast
  past          \* call -> history facts about the call in progress

callVars == <<calls, inbox, lagged, unannounced, past>>
allVars  == <<vars, callVars>>

-----------------------------------------------------------------------------
Phases  == {"admitting", "kicking", "waiting", "answered"}
Answers == {"none", "Changed", "Unchanged", "UnknownService", "Removed",
            "OperationFailed", "Timeout"}

Call == [phase : Phases, verb : Verbs, service : Services, wait : BOOLEAN,
         target : {"Running", "Stopped"}, run : Runs \union {None},
         answer : Answers]

\* A StateChanged event, with the run that caused it, or Unregistered.
Event == [run : Runs \union {None}, state : States \union {"Unregistered"}]

\* The rest of a call is dropped when it is answered.
Answered(verb, s, answer) ==
  [phase |-> "answered", verb |-> verb, service |-> s, wait |-> TRUE,
   target |-> "Running", run |-> None, answer |-> answer]

\* began: since this restart asked for its stop, a run was started;
\* misled: its stop half was answered by the event of another run;
\* blind: the receiver lost the removal of the service, and the snapshot read
\* in its place had no row.
Facts == {"began", "misled", "blind"}

ASSUME ControlAssumption ==
  /\ Verbs \subseteq {"start", "stop", "restart"}
  /\ Capacity \in Nat \ {0}

ControlTypeOK ==
  /\ calls \in [Calls -> Call]
  /\ inbox \in [Calls -> Seq(Event)]
  /\ \A c \in Calls : Len(inbox[c]) <= Capacity
  /\ lagged \in [Calls -> BOOLEAN]
  /\ unannounced \in [Services -> BOOLEAN]
  /\ past \in [Calls -> SUBSET Facts]

-----------------------------------------------------------------------------
\* step: what an observed state means for the wait.
Step(target, state) ==
  CASE state = target -> "Reached"
    [] state = "Failed" -> "Failed"
    [] state = "Stopped" /\ target = "Running" -> "Diverted"
    [] OTHER -> "Pending"

\* settled: the verb has nothing to do.  Failed counts as stopped.
Settled(target, state) ==
  IF target = "Running" THEN state = "Running" ELSE state \in TerminalStates

Active(c) == calls[c].phase \in {"admitting", "kicking", "waiting"}

\* Mutated form of Hears: the receiver is created after the kick.
HearsAfterKick(c) == calls[c].phase = "waiting"

\* transition subscribes before it does anything else.
Hears(c) == Active(c)

On(s) == {c \in Calls : Active(c) /\ calls[c].service = s}

\* Mutated form of Waits: --no-wait skips the wait of restart's stop half too.
WaitsIfAsked(c) == calls[c].wait

\* restart waits for its stop half whatever the caller asked.
Waits(c) ==
  calls[c].wait \/ (calls[c].verb = "restart" /\ calls[c].target = "Stopped")

\* Start-like events are history for the restarts of this service only.
NoteStart(s) ==
  past' = [c \in Calls |-> IF c \in On(s) /\ calls[c].verb = "restart"
                          THEN past[c] \union {"began"} ELSE past[c]]

\* Does this event end the wait of c?  Any other takes room in the channel,
\* like a log line (LogOverflow), and is skipped when it is read.
Ends(c, event) ==
  event.state = "Unregistered" \/ Step(calls[c].target, event.state) # "Pending"

IsFull(c) == Len(inbox[c]) = Capacity

\* tx.send: every receiver gets the event; a full one drops its oldest.
Broadcast(s, event) ==
  LET To == {c \in On(s) : Hears(c) /\ Ends(c, event)}
  IN  /\ inbox' = [c \in Calls |->
           IF c \notin To THEN inbox[c]
           ELSE Append(IF IsFull(c) THEN Tail(inbox[c]) ELSE inbox[c], event)]
      /\ lagged' = [c \in Calls |-> lagged[c] \/ (c \in To /\ IsFull(c))]
      /\ UNCHANGED <<calls, past>>

ControlInit ==
  /\ Init
  /\ calls \in [Calls -> {Answered(verb, s, "none") :
                            verb \in Verbs, s \in Services}]
  /\ inbox = [c \in Calls |-> <<>>]
  /\ lagged = [c \in Calls |-> FALSE]
  /\ unannounced = [s \in Services |-> FALSE]
  /\ past = [c \in Calls |-> {}]

-----------------------------------------------------------------------------
(* The supervisor, seen through its broadcast. *)

\* No receiver holds an event of this run and no call is about it: its
\* identity may be used again.
Unmentioned(r) ==
  \A c \in Calls : /\ calls[c].run # r
                   /\ \A i \in DOMAIN inbox[c] : inbox[c][i].run # r

AnnouncePoints == {"announcing", "announcingRunning", "announcingTerminal"}

\* A start by anyone: the call itself, the desktop UI, the tray, an Apply.
StartRun(s, r) ==
  /\ Unmentioned(r)
  /\ Start(s, r)

Announce(r) ==
  /\ UNCHANGED unannounced
  /\ \/ AnnounceStart(r) /\ Broadcast(owner[r], [run |-> r, state |-> "Starting"])
     \/ AnnounceRunning(r) /\ Broadcast(owner[r], [run |-> r, state |-> "Running"])
     \/ AnnounceTerminal(r) /\ Broadcast(owner[r], [run |-> r, state |-> verdict[r]])

\* unregister broadcasts after its critical section, like set_state.
AnnounceRemoval(s) ==
  /\ unannounced[s]
  /\ unannounced' = [unannounced EXCEPT ![s] = FALSE]
  /\ Broadcast(s, [run |-> None, state |-> "Unregistered"])
  /\ UNCHANGED vars

QuietStep ==
  /\ \/ \E s \in Services, g \in Flags : Register(s, g)
     \/ \E s \in Services : Stop(s)
     \/ \E r \in Runs : /\ RunStep(r)
                        /\ pc[r] \in AnnouncePoints => pc'[r] = pc[r]
  /\ UNCHANGED callVars

\* The other actors.
OthersStart(s, r) ==
  /\ StartRun(s, r)
  /\ NoteStart(s)
  /\ UNCHANGED <<calls, inbox, lagged, unannounced>>

OthersUnregister(s) ==
  /\ ~unannounced[s]
  /\ Unregister(s)
  /\ unannounced' = [unannounced EXCEPT ![s] = TRUE]
  /\ UNCHANGED <<calls, inbox, lagged, past>>

-----------------------------------------------------------------------------
(* One call. *)

ClearReceiver(c) ==
  /\ inbox' = [inbox EXCEPT ![c] = <<>>]
  /\ lagged' = [lagged EXCEPT ![c] = FALSE]

Answer(c, answer) ==
  /\ calls' = [calls EXCEPT ![c] = Answered(@.verb, @.service, answer)]
  /\ ClearReceiver(c)

\* A transition that got where it was going: restart's stop half goes on to
\* its start half, which subscribes anew; restart always answers Changed.
Reach(c, disposition) ==
  IF calls[c].verb = "restart" /\ calls[c].target = "Stopped"
  THEN /\ calls' = [calls EXCEPT ![c].phase = "admitting",
                                 ![c].target = "Running", ![c].run = None]
       /\ ClearReceiver(c)
  ELSE Answer(c, IF calls[c].verb = "restart" THEN "Changed" ELSE disposition)

\* execute, up to transition's subscribe.
Begin(c, verb, s, wait) ==
  /\ ~Active(c)
  /\ calls' = [calls EXCEPT ![c] =
       [phase |-> "admitting", verb |-> verb, service |-> s, wait |-> wait,
        target |-> IF verb = "start" THEN "Running" ELSE "Stopped",
        run |-> None, answer |-> "none"]]
  /\ past' = [past EXCEPT ![c] = {}]
  /\ ClearReceiver(c)
  /\ UNCHANGED <<vars, unannounced>>

\* The admission snapshot.
Admit(c) ==
  LET s == calls[c].service IN
  /\ calls[c].phase = "admitting"
  /\ \/ /\ ~IsRegistered(s)
        /\ Answer(c, "UnknownService")
     \/ /\ IsRegistered(s)
        /\ Settled(calls[c].target, entries[s].state)
        /\ Reach(c, "Unchanged")
     \/ /\ IsRegistered(s)
        /\ ~Settled(calls[c].target, entries[s].state)
        /\ calls' = [calls EXCEPT ![c].phase = "kicking"]
        /\ UNCHANGED <<inbox, lagged>>
  /\ UNCHANGED <<vars, unannounced, past>>

\* After a successful kick: --no-wait answers at once.  The run is the one the
\* kick acted on, if any.
Kicked(c, r) ==
  IF Waits(c)
  THEN /\ calls' = [calls EXCEPT ![c].phase = "waiting", ![c].run = r]
       /\ UNCHANGED <<inbox, lagged>>
  ELSE Reach(c, "Changed")

KickStart(c) ==
  LET s == calls[c].service IN
  /\ calls[c].phase = "kicking" /\ calls[c].target = "Running"
  /\ IsRegistered(s)
  /\ \/ /\ \E r \in Runs : StartRun(s, r) /\ Kicked(c, r)
        /\ NoteStart(s)
     \/ /\ ~MayStart(s)
        /\ Kicked(c, entries[s].control)
        /\ UNCHANGED <<vars, past>>
  /\ UNCHANGED unannounced

KickStop(c) ==
  LET s == calls[c].service IN
  /\ calls[c].phase = "kicking" /\ calls[c].target = "Stopped"
  /\ IsRegistered(s)
  /\ IF IsTerminal(s) THEN UNCHANGED vars ELSE Stop(s)
  /\ Kicked(c, entries[s].control)
  /\ past' = [past EXCEPT ![c] = @ \ {"began"}]
  /\ UNCHANGED unannounced

\* The service was unregistered since the snapshot: NotFound.
KickNotFound(c) ==
  /\ calls[c].phase = "kicking"
  /\ ~IsRegistered(calls[c].service)
  /\ Answer(c, "UnknownService")
  /\ UNCHANGED <<vars, unannounced, past>>

\* What the wait does with a state it has observed.
Observe(c, state) ==
  LET outcome == Step(calls[c].target, state) IN
  \/ outcome = "Reached" /\ Reach(c, "Changed")
  \/ outcome \in {"Failed", "Diverted"} /\ Answer(c, "OperationFailed")

\* recv returns an event.
Receive(c) ==
  /\ calls[c].phase = "waiting" /\ ~lagged[c] /\ inbox[c] # <<>>
  /\ LET event == Head(inbox[c])
         stopsRestart == calls[c].verb = "restart" /\ calls[c].target = "Stopped"
         anotherRun == event.run # calls[c].run /\ calls[c].run # None
     IN  /\ \/ event.state = "Unregistered" /\ Answer(c, "Removed")
            \/ event.state \in States /\ Observe(c, event.state)
         /\ past' = [past EXCEPT ![c] =
              IF stopsRestart /\ anotherRun THEN @ \union {"misled"} ELSE @]
  /\ UNCHANGED <<vars, unannounced>>

\* recv returns Lagged: the state is read from a snapshot instead.
ReceiveLagged(c) ==
  LET s == calls[c].service IN
  /\ calls[c].phase = "waiting" /\ lagged[c]
  /\ \/ /\ IsRegistered(s)
        /\ Observe(c, entries[s].state)
        /\ UNCHANGED past
     \/ /\ IsRegistered(s) =>
             Step(calls[c].target, entries[s].state) = "Pending"
        /\ lagged' = [lagged EXCEPT ![c] = FALSE]
        /\ past' = [past EXCEPT ![c] =
             IF IsRegistered(s) THEN @ ELSE @ \union {"blind"}]
        /\ UNCHANGED <<calls, inbox>>
  /\ UNCHANGED <<vars, unannounced>>

\* A chatty service: log lines push the oldest event out of the channel.
LogOverflow(c) ==
  /\ Hears(c)
  /\ lagged' = [lagged EXCEPT ![c] = TRUE]
  /\ inbox' = [inbox EXCEPT ![c] = IF @ = <<>> THEN @ ELSE Tail(@)]
  /\ UNCHANGED <<vars, calls, unannounced, past>>

\* TRANSITION_TIMEOUT has passed.
TimesOut(c) ==
  /\ calls[c].phase = "waiting"
  /\ Answer(c, "Timeout")
  /\ UNCHANGED <<vars, unannounced, past>>

-----------------------------------------------------------------------------
Proceed(c) ==
  \/ Admit(c) \/ KickStart(c) \/ KickStop(c) \/ KickNotFound(c)
  \/ Receive(c) \/ ReceiveLagged(c)

ControlNext ==
  \/ QuietStep
  \/ \E r \in Runs : Announce(r)
  \/ \E s \in Services : AnnounceRemoval(s) \/ OthersUnregister(s)
  \/ \E s \in Services, r \in Runs : OthersStart(s, r)
  \/ \E c \in Calls, verb \in Verbs, s \in Services, wait \in BOOLEAN :
       Begin(c, verb, s, wait)
  \/ \E c \in Calls : Proceed(c) \/ LogOverflow(c) \/ TimesOut(c)

ControlSpec == ControlInit /\ [][ControlNext]_allVars

-----------------------------------------------------------------------------
(* Properties. *)

AnnouncementDue(s) ==
  \/ unannounced[s]
  \/ \E r \in Runs : owner[r] = s /\ pc[r] \in AnnouncePoints

\* Subscribing before the snapshot leaves no window in which the transition
\* can happen unseen: a call with nothing left to read is never waiting for a
\* service that is already where the call wants it, unless that service was
\* removed in the meantime while the receiver was losing events.
NoVainWait ==
  \A c \in Calls :
    LET s == calls[c].service IN
    /\ calls[c].phase = "waiting" /\ inbox[c] = <<>> /\ ~lagged[c]
    /\ IsRegistered(s) /\ ~AnnouncementDue(s)
    /\ "blind" \notin past[c]
    => Step(calls[c].target, entries[s].state) = "Pending"

\* A restart that reports success restarted something: a run began after it
\* had asked for the stop.  The exception, which the doc of restart does not
\* make, is a stop half answered by the event of an earlier run ("misled"): its
\* receiver was created before that run ended, and its snapshot read after the
\* next one had begun.
RestartRestarts ==
  \A c \in Calls :
    calls[c].verb = "restart" /\ calls[c].answer = "Changed"
      => past[c] \intersect {"began", "misled"} # {}
=============================================================================
