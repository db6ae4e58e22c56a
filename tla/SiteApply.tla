------------------------------- MODULE SiteApply -------------------------------
(***************************************************************************)
(* apply_config (apps/desktop/src-tauri/src/commands.rs) as a whole: the   *)
(* pipeline of ConfigCommit, and the restart of what was running through   *)
(* the stop loop of StopSweep, while the user starts and stops services.   *)
(*                                                                         *)
(* A child reads its config files once, while it is coming up.             *)
(***************************************************************************)
EXTENDS StopSweep, ConfigCommit

CONSTANT MaxClicks  \* bound: starts and stops by the user within one tick

VARIABLES
  running,    \* the services a snapshot shows as Running
  loaded,     \* service -> the config set its child has read, or None
  snapshot,   \* call -> the services it found running and has not given up
  restarted,  \* call -> the services it reports as restarted
  clicks      \* starts and stops by the user in this tick

restartVars == <<snapshot, restarted>>
vars == <<sweepVars, commitVars, running, loaded, restartVars, clicks>>

\* One stop loop per call.
ASSUME ApplyAssumption == Loops = Applies /\ MaxClicks \in Nat

\* Every variable keeps its type.
TypeOK ==
  /\ SweepTypeOK /\ CommitTypeOK
  /\ running \in SUBSET Services
  /\ loaded \in [Services -> Config \union {None}]
  /\ snapshot \in [Applies -> SUBSET Services]
  /\ restarted \in [Applies -> SUBSET Services]
  /\ clicks \in 0..MaxClicks

Init ==
  /\ SweepInit /\ CommitInit
  /\ running = {s \in Services : Pending(s)}
  /\ loaded = [s \in Services |-> IF Pending(s) THEN disk ELSE None]
  /\ running # {} => disk # Nowhere
  /\ snapshot = [a \in Applies |-> {}] /\ restarted = [a \in Applies |-> {}]
  /\ clicks = 0

\* The state a snapshot shows: set when the service becomes ready, and left
\* alone until its run has ended.
Shown ==
  running' = {s \in Services :
    \/ svc'[s].stage = "running"
    \/ s \in running /\ svc'[s].stage \in {"terminating", "draining"}}

\* A run that begins has read nothing, one that has ended serves nothing.
Forgets ==
  loaded' = [s \in Services |->
    IF svc'[s].stage = "down" \/ (svc'[s].stage = "starting" /\ ~Pending(s))
    THEN None ELSE loaded[s]]

-----------------------------------------------------------------------------
(* The services. *)

\* The child reads the files as they are now; one that finds no config exits.
ReadsConfig(s) ==
  /\ svc[s].stage = "starting" /\ loaded[s] = None
  /\ \A f \in Always : disk[f] # Absent
  /\ loaded' = [loaded EXCEPT ![s] = disk]
  /\ UNCHANGED <<sweepVars, commitVars, running, restartVars, clicks>>

\* It has done so by the time it counts as ready.
Serves(s) ==
  /\ ServiceStep(s)
  /\ svc'[s].stage = "running" => loaded[s] # None
  /\ Shown /\ Forgets
  /\ UNCHANGED <<commitVars, restartVars, clicks>>

UserClicks(s) ==
  /\ clicks < MaxClicks
  /\ clicks' = clicks + 1
  /\ UserStarts(s) \/ UserStops(s)
  /\ Shown /\ Forgets
  /\ UNCHANGED <<commitVars, restartVars>>

TimePasses ==
  /\ Tick
  /\ \A s \in Services : svc[s].stage = "starting" => loaded[s] # None
  /\ clicks' = 0
  /\ Shown /\ Forgets
  /\ UNCHANGED <<commitVars, restartVars>>

-----------------------------------------------------------------------------
(* apply_config. *)

\* The pipeline before and after the restart.
Pipeline(a) ==
  /\ Click(a) \/ PipelineStep(a)
  /\ IF apply'[a].phase = "idle"
     THEN restarted' = [restarted EXCEPT ![a] = {}] /\ snapshot' = [snapshot EXCEPT ![a] = {}]
     ELSE UNCHANGED restartVars
  /\ UNCHANGED <<sweepVars, running, loaded, clicks>>

Saves ==
  /\ \E f \in Files, text \in Contents \union {Absent} : Edit(f, text)
  /\ UNCHANGED <<sweepVars, running, loaded, restartVars, clicks>>

\* Only services shown as Running are restarted.
TakeSnapshot(a) ==
  /\ apply[a].phase = "restarting" /\ loop[a].phase = "off"
  /\ snapshot' = [snapshot EXCEPT ![a] = running]
  /\ Begin(a, running)
  /\ UNCHANGED <<svc, commitVars, running, loaded, restarted, clicks>>

StopLoop(a) ==
  /\ LoopStep(a)
  /\ Shown /\ Forgets
  /\ UNCHANGED <<commitVars, restartVars, clicks>>

\* Mutated form of Stopped: to have asked for the stop is enough.
AskedIsStopped(a) == loop[a].phase \in {"sleeping", "over"}

\* The stop loop has returned.
Stopped(a) == loop[a].phase = "over"

\* A straggler is never started, and reported instead.
Due(a) == snapshot[a] \ (loop[a].stragglers \union restarted[a])

Restart(a, s) ==
  /\ apply[a].phase = "restarting" /\ Stopped(a) /\ s \in Due(a)
  /\ Start(s)
  /\ restarted' = [restarted EXCEPT ![a] = @ \union {s}]
  /\ Shown /\ Forgets
  /\ UNCHANGED <<commitVars, snapshot, clicks>>

\* It has been unregistered meanwhile: reported like a straggler, and given up.
RestartFails(a, s) ==
  /\ apply[a].phase = "restarting" /\ Stopped(a) /\ s \in Due(a)
  /\ snapshot' = [snapshot EXCEPT ![a] = @ \ {s}]
  /\ UNCHANGED <<sweepVars, commitVars, running, loaded, restarted, clicks>>

Applied(a) ==
  /\ apply[a].phase = "restarting" /\ Stopped(a) /\ Due(a) = {}
  /\ Enter(a, "applied", {})
  /\ loop' = [loop EXCEPT ![a] = Off]
  /\ UNCHANGED <<svc, db, disk, lock, running, loaded, restartVars, clicks>>

\* The app dies; what it supervised is reaped by the next launch.
Crash ==
  /\ CommitCrash
  /\ svc' = [s \in Services |-> Down] /\ loop' = [l \in Loops |-> Off]
  /\ running' = {} /\ loaded' = [s \in Services |-> None]
  /\ snapshot' = [a \in Applies |-> {}] /\ restarted' = [a \in Applies |-> {}]
  /\ clicks' = 0

-----------------------------------------------------------------------------
Next ==
  \/ \E a \in Applies : \/ Pipeline(a) \/ TakeSnapshot(a) \/ StopLoop(a) \/ Applied(a)
                        \/ \E s \in Services : Restart(a, s) \/ RestartFails(a, s)
  \/ \E s \in Services : ReadsConfig(s) \/ Serves(s) \/ UserClicks(s)
  \/ Saves \/ TimePasses \/ Crash

Spec == Init /\ [][Next]_vars

-----------------------------------------------------------------------------
(* Properties. *)

\* A green Apply is what its services serve: as long as the call has not
\* returned, a service it reports as restarted runs on the config set that was
\* just validated, or is down or coming up because of somebody else.
RestartedServesApplied ==
  \A a \in Applies : apply[a].phase \in {"restarting", "applied"} =>
    \A s \in restarted[a] : loaded[s] \in {apply[a].after, None}

\* What makes writing before validating safe (commit.rs:167-169, on apply):
\* "nothing on disk takes effect until the caller restarts it, which it only
\* does after this returns `Ok`".
OnlyAcceptedIsRead ==
  \A s \in Services : loaded[s] # None => Accepts(loaded[s])
-----------------------------------------------------------------------------
(* Why a restart serves what was applied. *)

\* The service serves what call a has put on disk, or nothing yet.
Fresh(a, s) == loaded[s] \in {apply[a].after, None}

\* What the stop loop of a call has to do with its restarts: it is over the
\* services of the snapshot, nothing is restarted before it has returned, and
\* then whatever it does not report has been down since the files were written.
RestartIsSound(a) ==
  /\ apply[a].phase # "restarting" => loop[a].phase = "off"
  /\ apply[a].phase \notin {"restarting", "applied"} => restarted[a] = {}
  /\ apply[a].phase = "restarting" =>
       /\ loop[a].phase # "off" => snapshot[a] \subseteq loop[a].watched
       /\ loop[a].phase # "over" => restarted[a] = {}
       /\ loop[a].phase = "over" =>
            /\ restarted[a] \subseteq snapshot[a] \ loop[a].stragglers
            /\ \A s \in snapshot[a] \ loop[a].stragglers : Fresh(a, s)
  /\ apply[a].phase = "applied" => \A s \in restarted[a] : Fresh(a, s)

\* The inductive invariant of an Apply, of its files and of its services.
IInv ==
  /\ TypeOK /\ SweepIInv /\ CommitIInv
  /\ \A s \in Services : ~Pending(s) => loaded[s] = None
  /\ \A a \in Applies : RestartIsSound(a)
=============================================================================
