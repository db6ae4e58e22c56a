------------------------------ MODULE Supervisor ------------------------------
(***************************************************************************)
(* The process supervisor (crates/openvhost-proc): an entry per registered *)
(* service, guarded by one mutex, and one asynchronous task per started    *)
(* service that spawns the child, waits for readiness, listens for a stop, *)
(* tears the child down and publishes the terminal state.                  *)
(*                                                                         *)
(* Callers of start, stop, register and unregister (the desktop UI, the    *)
(* tray, the control socket, an Apply, quit) run concurrently with every   *)
(* task.  A step of this module is one critical section of the entry       *)
(* mutex, one system call, or one point where a task resumes: whatever can *)
(* be interleaved in the code can be interleaved here.                     *)
(*                                                                         *)
(* Objects are named, not numbered.  A run is one execution of a service   *)
(* task together with the child it spawns and the stop channel created for *)
(* it by start; a flag is the shared stop_requested cell created by        *)
(* register.  A run or a flag that nothing refers to any more may be used  *)
(* again, as memory is, so behaviours are unbounded while the state space  *)
(* is finite.                                                              *)
(***************************************************************************)
EXTENDS Naturals, FiniteSets

CONSTANTS
  Services,   \* the service ids
  Runs,       \* identities of service-task runs
  Flags,      \* identities of stop_requested cells
  None,       \* Option::None, and the absence of an entry
  Probed,     \* the services whose readiness is a Command probe; the others
              \* are declared ready by AliveAfter
  MaxSends    \* bound: stop calls that are past the mutex and have not yet
              \* sent on the channel, for each run

VARIABLES
  entries,         \* service id -> Entry, or None when not registered
  stop_requested,  \* flag -> the value of the AtomicBool
  pc,              \* run -> where its task (or the start call ahead of it) is
  owner,           \* run -> the service it was started for
  flagOf,          \* run -> the stop_requested cell start handed to it
  child,           \* run -> its child process
  mailbox,         \* run -> is the () of a stop in its capacity-1 channel?
  sending,         \* run -> stop calls holding a clone of its sender
  neverReady,      \* run -> will it finish through finish_never_ready?
  verdict,         \* run -> the classified terminal state
  registry,        \* service id -> the run recorded for crash cleanup, or None
  asked            \* run -> history: was a stop accepted while it was current?

vars == <<entries, stop_requested, pc, owner, flagOf, child, mailbox, sending,
          neverReady, verdict, registry, asked>>

-----------------------------------------------------------------------------
TerminalStates == {"Stopped", "Failed"}
States == TerminalStates \union {"Starting", "Running"}

Entry == [state : States, pid : Runs \union {None},
          control : Runs \union {None}, flag : Flags]

ASSUME SupervisorAssumption ==
  /\ None \notin Services \union Runs \union Flags
  /\ None \notin Entry
  /\ Probed \subseteq Services
  /\ MaxSends \in Nat \ {0}

\* "announcing" and the other "...ing Stopped/Running" points are where the
\* mutex has been released and the broadcast has not happened yet.
Starting == {"announcing", "spawning", "pid", "recording", "readiness"}
Ending   == {"draining", "removing", "settling"}
Points   == Starting \union {"ready", "announcingRunning", "running",
              "terminating", "killed"} \union Ending
              \union {"announcingTerminal", "done"}

Dead == {"exit_ok", "exit_bad"}
Children == {"none", "alive", "dying"} \union Dead

TypeOK ==
  /\ entries \in [Services -> Entry \union {None}]
  /\ stop_requested \in [Flags -> BOOLEAN]
  /\ pc \in [Runs -> Points]
  /\ owner \in [Runs -> Services \union {None}]
  /\ flagOf \in [Runs -> Flags \union {None}]
  /\ child \in [Runs -> Children]
  /\ mailbox \in [Runs -> BOOLEAN]
  /\ sending \in [Runs -> 0 .. MaxSends]
  /\ neverReady \in [Runs -> BOOLEAN]
  /\ verdict \in [Runs -> TerminalStates]
  /\ registry \in [Services -> Runs \union {None}]
  /\ asked \in [Runs -> BOOLEAN]

-----------------------------------------------------------------------------
IsRegistered(s) == entries[s] # None
IsTerminal(s)   == entries[s].state \in TerminalStates

\* check_terminal, the refusal of unregister.  Mutated form: only a Running
\* service is refused.
MayForgetStarting(s) == entries[s].state # "Running"
MayForget(s)         == IsTerminal(s)

\* The no-op guard of start.  Mutated form: a Starting service is started.
MayStartAgain(s) == entries[s].state # "Running"
MayStart(s)      == IsTerminal(s)

\* The flag cells once start has reset the service's own.  Mutated form: the
\* reset is forgotten.
UnclearedFlags(s) == stop_requested
ClearedFlags(s)   == [stop_requested EXCEPT ![entries[s].flag] = FALSE]

\* Nothing refers to this stop_requested cell any more.
FreshFlag(g) ==
  /\ \A s \in Services : IsRegistered(s) => entries[s].flag # g
  /\ \A r \in Runs : pc[r] # "done" => flagOf[r] # g

\* Nothing refers to this run any more: no task, no sender, no record.
FreshRun(r) ==
  /\ pc[r] = "done"
  /\ child[r] = "none"
  /\ sending[r] = 0
  /\ \A s \in Services : registry[s] # r

Goto(r, from, to) ==
  /\ pc[r] = from
  /\ pc' = [pc EXCEPT ![r] = to]

\* Mutated form of SetState: only Starting keeps the sender.
SetStateDropsSender(s, state) ==
  entries' = IF ~IsRegistered(s) THEN entries
             ELSE [entries EXCEPT ![s] =
                     [@ EXCEPT !.state = state, !.control = None]]

\* Inner::set_state's critical section.  An id that is no longer registered is
\* left alone; a terminal state also drops the pid and the channel's sender.
SetState(s, state) ==
  entries' =
    IF ~IsRegistered(s) THEN entries
    ELSE [entries EXCEPT ![s] =
            IF state \in TerminalStates
            THEN [@ EXCEPT !.state = state, !.pid = None, !.control = None]
            ELSE [@ EXCEPT !.state = state]]

Init ==
  /\ entries = [s \in Services |-> None]
  /\ stop_requested = [g \in Flags |-> FALSE]
  /\ pc = [r \in Runs |-> "done"]
  /\ owner = [r \in Runs |-> None]
  /\ flagOf = [r \in Runs |-> None]
  /\ child = [r \in Runs |-> "none"]
  /\ mailbox = [r \in Runs |-> FALSE]
  /\ sending = [r \in Runs |-> 0]
  /\ neverReady = [r \in Runs |-> FALSE]
  /\ verdict = [r \in Runs |-> "Stopped"]
  /\ registry = [s \in Services |-> None]
  /\ asked = [r \in Runs |-> FALSE]

-----------------------------------------------------------------------------
(* The callers. *)

\* Supervisor::register: a no-op for a live service, otherwise a new entry
\* with a stop_requested cell of its own.
Register(s, g) ==
  /\ IsRegistered(s) => IsTerminal(s)
  /\ FreshFlag(g)
  /\ entries' = [entries EXCEPT ![s] =
       [state |-> "Stopped", pid |-> None, control |-> None, flag |-> g]]
  /\ stop_requested' = [stop_requested EXCEPT ![g] = FALSE]
  /\ UNCHANGED <<pc, owner, flagOf, child, mailbox, sending, neverReady,
                 verdict, registry, asked>>

\* Supervisor::unregister: lookup, terminal check and removal in one critical
\* section.  The orphan registry is not touched.
Unregister(s) ==
  /\ IsRegistered(s)
  /\ MayForget(s)
  /\ entries' = [entries EXCEPT ![s] = None]
  /\ UNCHANGED <<stop_requested, pc, owner, flagOf, child, mailbox, sending,
                 neverReady, verdict, registry, asked>>

\* Supervisor::start, the critical section: the guard, the reset of the flag,
\* the new channel and the Starting write.  The call goes on to announce the
\* state and to spawn the task, which is AnnounceStart.
Start(s, r) ==
  /\ IsRegistered(s)
  /\ MayStart(s)
  /\ FreshRun(r)
  /\ stop_requested' = ClearedFlags(s)
  /\ entries' = [entries EXCEPT ![s].state = "Starting", ![s].control = r]
  /\ pc' = [pc EXCEPT ![r] = "announcing"]
  /\ owner' = [owner EXCEPT ![r] = s]
  /\ flagOf' = [flagOf EXCEPT ![r] = entries[s].flag]
  /\ UNCHANGED <<child, mailbox, sending, neverReady, verdict, registry, asked>>

\* Supervisor::stop, the critical section: flag first, then clone the sender.
Stop(s) ==
  /\ IsRegistered(s)
  /\ ~IsTerminal(s)
  /\ stop_requested' = [stop_requested EXCEPT ![entries[s].flag] = TRUE]
  /\ LET r == entries[s].control IN
       IF r = None
       THEN UNCHANGED <<sending, asked>>
       ELSE /\ sending[r] < MaxSends
            /\ sending' = [sending EXCEPT ![r] = @ + 1]
            /\ asked' = [asked EXCEPT ![r] = TRUE]
  /\ UNCHANGED <<entries, pc, owner, flagOf, child, mailbox, neverReady,
                 verdict, registry>>

\* Mutated form of TrySend: the send happens only while the loop listens.
TrySendWhenListening(r) ==
  /\ sending[r] > 0
  /\ sending' = [sending EXCEPT ![r] = @ - 1]
  /\ mailbox' = [mailbox EXCEPT ![r] = @ \/ pc[r] = "running"]
  /\ UNCHANGED <<entries, stop_requested, pc, owner, flagOf, child, neverReady,
                 verdict, registry, asked>>

\* The end of Supervisor::stop: try_send on the cloned sender.  A full channel
\* and a channel whose receiver is gone are both ignored.
TrySend(r) ==
  /\ sending[r] > 0
  /\ sending' = [sending EXCEPT ![r] = @ - 1]
  /\ mailbox' = [mailbox EXCEPT ![r] = @ \/ pc[r] # "done"]
  /\ UNCHANGED <<entries, stop_requested, pc, owner, flagOf, child, neverReady,
                 verdict, registry, asked>>

-----------------------------------------------------------------------------
(* The service task. *)

\* The rest of Supervisor::start: emit Starting, then tokio::spawn the task.
AnnounceStart(r) ==
  /\ Goto(r, "announcing", "spawning")
  /\ UNCHANGED <<entries, stop_requested, owner, flagOf, child, mailbox,
                 sending, neverReady, verdict, registry, asked>>

Spawn(r) ==
  /\ Goto(r, "spawning", "pid")
  /\ child' = [child EXCEPT ![r] = "alive"]
  /\ UNCHANGED <<entries, stop_requested, owner, flagOf, mailbox, sending,
                 neverReady, verdict, registry, asked>>

\* A child that could not be spawned ends the run at once, with no status.
SpawnFails(r) ==
  /\ Goto(r, "spawning", "draining")
  /\ UNCHANGED <<entries, stop_requested, owner, flagOf, child, mailbox,
                 sending, neverReady, verdict, registry, asked>>

SetPid(r) ==
  /\ Goto(r, "pid", "recording")
  /\ entries' = IF IsRegistered(owner[r])
                THEN [entries EXCEPT ![owner[r]].pid = r] ELSE entries
  /\ UNCHANGED <<stop_requested, owner, flagOf, child, mailbox, sending,
                 neverReady, verdict, registry, asked>>

\* record_running: the record is written under the service id, replacing an
\* older one, unless the start time is unreadable, the child is already gone
\* or the registry refuses.
RecordRunning(r) ==
  /\ Goto(r, "recording", "readiness")
  /\ \/ registry' = [registry EXCEPT ![owner[r]] = r]
     \/ UNCHANGED registry
  /\ UNCHANGED <<entries, stop_requested, owner, flagOf, child, mailbox,
                 sending, neverReady, verdict, asked>>

\* AliveAfter's window has passed.  The select may pick the timer even when
\* the child has just died.
AliveAfterElapsed(r) ==
  /\ owner[r] \notin Probed
  /\ Goto(r, "readiness", "ready")
  /\ UNCHANGED <<entries, stop_requested, owner, flagOf, child, mailbox,
                 sending, neverReady, verdict, registry, asked>>

\* A probe attempt exited 0.  Failing attempts are retried and change nothing.
ProbeSucceeds(r) ==
  /\ owner[r] \in Probed
  /\ Goto(r, "readiness", "ready")
  /\ UNCHANGED <<entries, stop_requested, owner, flagOf, child, mailbox,
                 sending, neverReady, verdict, registry, asked>>

\* Mutated form of ProbeDeadline: the deadline is looked at only once the child
\* has gone.
ProbeDeadlineWhenDead(r) ==
  /\ owner[r] \in Probed
  /\ child[r] \in Dead
  /\ Goto(r, "readiness", "terminating")
  /\ neverReady' = [neverReady EXCEPT ![r] = TRUE]
  /\ UNCHANGED <<entries, stop_requested, owner, flagOf, child, mailbox,
                 sending, verdict, registry, asked>>

\* The probe's deadline: SIGTERM to the group, as for a stop, but the run ends
\* through finish_never_ready.
ProbeDeadline(r) ==
  /\ owner[r] \in Probed
  /\ Goto(r, "readiness", "terminating")
  /\ neverReady' = [neverReady EXCEPT ![r] = TRUE]
  /\ UNCHANGED <<entries, stop_requested, owner, flagOf, child, mailbox,
                 sending, verdict, registry, asked>>

SetRunning(r) ==
  /\ Goto(r, "ready", "announcingRunning")
  /\ SetState(owner[r], "Running")
  /\ UNCHANGED <<stop_requested, owner, flagOf, child, mailbox, sending,
                 neverReady, verdict, registry, asked>>

AnnounceRunning(r) ==
  /\ Goto(r, "announcingRunning", "running")
  /\ UNCHANGED <<entries, stop_requested, owner, flagOf, child, mailbox,
                 sending, neverReady, verdict, registry, asked>>

\* Only the run loop listens to the channel: a stop sent during readiness
\* waits in the mailbox until here.  terminate_child sends SIGTERM.
ReceiveStop(r) ==
  /\ mailbox[r]
  /\ Goto(r, "running", "terminating")
  /\ mailbox' = [mailbox EXCEPT ![r] = FALSE]
  /\ UNCHANGED <<entries, stop_requested, owner, flagOf, child, sending,
                 neverReady, verdict, registry, asked>>

\* Mutated form of GraceElapsed: a second SIGTERM instead of SIGKILL.
GraceElapsedPolitely(r) ==
  /\ Goto(r, "terminating", "killed")
  /\ UNCHANGED <<entries, stop_requested, owner, flagOf, child, mailbox,
                 sending, neverReady, verdict, registry, asked>>

\* The grace period is over: SIGKILL to the group.
GraceElapsed(r) ==
  /\ Goto(r, "terminating", "killed")
  /\ child' = [child EXCEPT ![r] = IF @ = "alive" THEN "dying" ELSE @]
  /\ UNCHANGED <<entries, stop_requested, owner, flagOf, mailbox, sending,
                 neverReady, verdict, registry, asked>>

\* child.wait() resolves in any of the four selects that await it.
ChildReaped(r) ==
  /\ pc[r] \in {"readiness", "running", "terminating", "killed"}
  /\ child[r] \in Dead
  /\ pc' = [pc EXCEPT ![r] = "draining"]
  /\ neverReady' = [neverReady EXCEPT ![r] =
       @ \/ (pc[r] = "readiness" /\ owner[r] \in Probed)]
  /\ UNCHANGED <<entries, stop_requested, owner, flagOf, child, mailbox,
                 sending, verdict, registry, asked>>

\* Does this run end as Stopped?  classify_exit and classify_exit_during_probe.
Justified(r) ==
  stop_requested[flagOf[r]] \/ (~neverReady[r] /\ child[r] = "exit_ok")

\* Mutated form of Classify: the terminal state is published here, before the
\* record is removed.
ClassifyAndPublish(r) ==
  /\ Goto(r, "draining", "removing")
  /\ verdict' = [verdict EXCEPT ![r] = IF Justified(r) THEN "Stopped" ELSE "Failed"]
  /\ SetState(owner[r], verdict'[r])
  /\ UNCHANGED <<stop_requested, owner, flagOf, child, mailbox, sending,
                 neverReady, registry, asked>>

\* The readers have been drained or given up on: the flag is read and the exit
\* is classified (classify_exit, classify_exit_during_probe).
Classify(r) ==
  /\ Goto(r, "draining", "removing")
  /\ verdict' = [verdict EXCEPT ![r] = IF Justified(r) THEN "Stopped" ELSE "Failed"]
  /\ UNCHANGED <<entries, stop_requested, owner, flagOf, child, mailbox,
                 sending, neverReady, registry, asked>>

\* registry.remove(id), best effort, before the terminal state is visible.
RemoveRecord(r) ==
  /\ Goto(r, "removing", "settling")
  /\ \/ registry' = [registry EXCEPT ![owner[r]] = None]
     \/ UNCHANGED registry
  /\ UNCHANGED <<entries, stop_requested, owner, flagOf, child, mailbox,
                 sending, neverReady, verdict, asked>>

SetTerminal(r) ==
  /\ Goto(r, "settling", "announcingTerminal")
  /\ SetState(owner[r], verdict[r])
  /\ UNCHANGED <<stop_requested, owner, flagOf, child, mailbox, sending,
                 neverReady, verdict, registry, asked>>

\* The terminal event is broadcast and the task returns: its receiver and its
\* locals are dropped.  A dead child has been reaped.
AnnounceTerminal(r) ==
  /\ Goto(r, "announcingTerminal", "done")
  /\ mailbox' = [mailbox EXCEPT ![r] = FALSE]
  /\ owner' = [owner EXCEPT ![r] = None]
  /\ flagOf' = [flagOf EXCEPT ![r] = None]
  /\ child' = [child EXCEPT ![r] = IF @ \in Dead THEN "none" ELSE @]
  /\ neverReady' = [neverReady EXCEPT ![r] = FALSE]
  /\ verdict' = [verdict EXCEPT ![r] = "Stopped"]
  /\ asked' = [asked EXCEPT ![r] = FALSE]
  /\ UNCHANGED <<entries, stop_requested, sending, registry>>

-----------------------------------------------------------------------------
(* The operating system. *)

\* A child may exit at any time, on its own or because of SIGTERM.
ChildExits(r, status) ==
  /\ child[r] = "alive"
  /\ child' = [child EXCEPT ![r] = status]
  /\ UNCHANGED <<entries, stop_requested, pc, owner, flagOf, mailbox, sending,
                 neverReady, verdict, registry, asked>>

\* SIGKILL cannot be refused.
KillLands(r) ==
  /\ child[r] = "dying"
  /\ child' = [child EXCEPT ![r] = "exit_bad"]
  /\ UNCHANGED <<entries, stop_requested, pc, owner, flagOf, mailbox, sending,
                 neverReady, verdict, registry, asked>>

-----------------------------------------------------------------------------
\* Every step of a task that its own timers, its child or the runtime's
\* scheduler eventually bring about.  A probe's success is not one of them.
TaskStep(r) ==
  \/ AnnounceStart(r) \/ Spawn(r) \/ SpawnFails(r) \/ SetPid(r)
  \/ RecordRunning(r) \/ AliveAfterElapsed(r) \/ ProbeDeadline(r)
  \/ SetRunning(r) \/ AnnounceRunning(r) \/ ReceiveStop(r)
  \/ GraceElapsed(r) \/ ChildReaped(r) \/ Classify(r) \/ RemoveRecord(r)
  \/ SetTerminal(r) \/ AnnounceTerminal(r)

CallerStep ==
  \/ \E s \in Services, g \in Flags : Register(s, g)
  \/ \E s \in Services : Unregister(s)
  \/ \E s \in Services, r \in Runs : Start(s, r)
  \/ \E s \in Services : Stop(s)

RunStep(r) ==
  \/ TaskStep(r)
  \/ TrySend(r)
  \/ ProbeSucceeds(r)
  \/ \E status \in Dead : ChildExits(r, status)
  \/ KillLands(r)

Next == CallerStep \/ \E r \in Runs : RunStep(r)

Spec == Init /\ [][Next]_vars

\* The runtime polls every ready task and every timer fires; a stop call
\* finishes; SIGKILL lands.  Nothing obliges a child to exit by itself, a
\* probe to succeed, or anyone to call the supervisor.
RunFairness(r) ==
  /\ WF_vars(TaskStep(r))
  /\ WF_vars(TrySend(r))
  /\ WF_vars(KillLands(r))

Fairness == \A r \in Runs : RunFairness(r)

FairSpec == Spec /\ Fairness

\* What a task step waits for, as the guards of TaskStep's disjuncts have it.
TaskIsDue(r) ==
  /\ pc[r] # "done"
  /\ pc[r] = "running" => mailbox[r] \/ child[r] \in Dead
  /\ pc[r] = "killed" => child[r] \in Dead

\* The guards of the fair steps are all they wait for.  That a conjunction of
\* guards and of assignments to distinct variables can be taken when the guards
\* hold is a fact about ENABLED, about which no backend reasons.
GuardsSuffice ==
  \A r \in Runs : /\ TaskIsDue(r) => ENABLED <<TaskStep(r)>>_vars
                  /\ sending[r] > 0 => ENABLED <<TrySend(r)>>_vars
                  /\ child[r] = "dying" => ENABLED <<KillLands(r)>>_vars

-----------------------------------------------------------------------------
(* Properties. *)

\* A run is under way from the Starting write until its terminal state has
\* been written.
UnderWay(r) == pc[r] \notin {"announcingTerminal", "done"}

\* No service is ever run twice at once: of two concurrent starts one finds
\* Starting already written, and a start that follows a stop waits for the
\* terminal write.
OneRunPerService ==
  \A r1, r2 \in Runs :
    UnderWay(r1) /\ UnderWay(r2) /\ owner[r1] = owner[r2] => r1 = r2

\* No live child is ever forgotten or shown as stopped: while a child has not
\* exited, its service is registered and its entry is Starting or Running.
LiveChildIsShown ==
  \A r \in Runs : child[r] \in {"alive", "dying"} =>
    owner[r] # None /\ IsRegistered(owner[r]) /\ ~IsTerminal(owner[r])

\* The entry keeps the sender of the run under way: the run loop, which treats
\* a closed channel as "keep waiting", never spins on one, and every stop
\* finds the channel of the run it is meant for.
SenderHeld ==
  \A r \in Runs : UnderWay(r) => entries[owner[r]].control = r

\* A stop accepted while a run is under way is never lost, whichever point of
\* start-up it arrives at: it is about to be sent, it is in the channel, or the
\* teardown has begun.
StopNotLost ==
  \A r \in Runs : asked[r] /\ UnderWay(r) =>
    \/ sending[r] > 0 \/ mailbox[r]
    \/ pc[r] \in {"terminating", "killed"} \union Ending

\* The verdict tells the truth about this run: Stopped exactly when a stop was
\* accepted during it, whatever earlier runs were asked, or when it exited
\* cleanly after being ready (or with no probe to satisfy).
HonestVerdict ==
  [][\A r \in Runs : pc[r] = "draining" /\ pc'[r] = "removing" =>
       (verdict'[r] = "Stopped"
          <=> asked[r] \/ (child[r] = "exit_ok" /\ ~neverReady[r]))]_vars

\* The crash-orphan record of a child that is still alive is neither removed
\* nor replaced, by its own task or by one that lags behind.
RecordOutlivesChild ==
  [][\A s \in Services, r \in Runs :
       registry[s] = r /\ child[r] \in {"alive", "dying"} => registry'[s] = r]_vars

\* Every accepted stop ends its run, even when the child ignores SIGTERM or
\* the stop arrives while a probe is outstanding.
StopCompletes == \A r \in Runs : asked[r] ~> pc[r] = "done"

\* No service stays in Starting: readiness, an exit or the deadline ends it.
StartResolves ==
  \A r \in Runs : pc[r] \in Starting ~> pc[r] \in {"running", "done"}
=============================================================================
