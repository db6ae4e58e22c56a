------------------------------ MODULE OrphanReap ------------------------------
(***************************************************************************)
(* Crash-orphan cleanup (crates/openvhost-proc/src/orphan): the registry   *)
(* file <home>/run/supervised.json, the instance lock, and the reap every  *)
(* launch performs before a service can be registered.                     *)
(*                                                                         *)
(* Instances of the app may be launched at any time and may crash or quit  *)
(* between any two steps; their children live on as orphans, exit, leave   *)
(* the workers of their process group behind, and their pids are given to  *)
(* unrelated processes.  A service task is reduced to what matters here:   *)
(* spawn, record, wait, remove the record.                                 *)
(*                                                                         *)
(* Reading the start time and sending the kill is one step: the code keeps *)
(* the two contiguous, and the model assumes that the system does not give *)
(* the pid to another process in between, and that a SIGKILL the system    *)
(* accepts takes effect before anything else happens.                      *)
(***************************************************************************)
EXTENDS Naturals, FiniteSets

CONSTANTS
  Instances,  \* processes of the desktop app
  Services,   \* the service ids
  Pids,       \* the system's process ids
  Starts,     \* process start times
  None        \* Option::None

VARIABLES
  lock,   \* the instance that holds <home>/run/lock, or None
  phase,  \* instance -> how far its launch got
  todo,   \* instance -> the listed records it has not dealt with yet
  mine,   \* instance -> service id -> its live or just ended child, or None
  file,   \* service id -> its record in supervised.json, or None
  stale,  \* does the file's boot id no longer match the current one?
  proc,   \* pid -> the process or process group that has it, or None
  left    \* history: services whose record the last launch had to leave behind,
          \* because the file or the start time could not be read, or because
          \* neither the kill nor the removal of the record succeeded

vars == <<lock, phase, todo, mine, file, stale, proc, left>>

-----------------------------------------------------------------------------
Record  == [pid : Pids, start : Starts]
\* leader: is the group's leader, whose start time can be read, alive?
\* spared: history, has a reap tried to kill it and failed?
Process == [ours : BOOLEAN, start : Starts, leader : BOOLEAN, spared : BOOLEAN]
Child   == [pid : Pids, stage : {"spawned", "recorded", "ended"}]
Records == [Services -> Record \union {None}]

ASSUME OrphanAssumption ==
  None \notin Instances \union Record \union Process \union Child

TypeOK ==
  /\ lock \in Instances \union {None}
  /\ phase \in [Instances -> {"off", "retrying", "refused", "locked",
                              "reaping", "ready"}]
  /\ todo \in [Instances -> Records]
  /\ mine \in [Instances -> [Services -> Child \union {None}]]
  /\ file \in Records
  /\ stale \in BOOLEAN
  /\ proc \in [Pids -> Process \union {None}]
  /\ left \in SUBSET Services

NoRecords == [s \in Services |-> None]

\* The pid has been waited for by nobody yet: it cannot be given away.
Held(p) == \E i \in Instances, s \in Services :
             mine[i][s] # None /\ mine[i][s].pid = p /\ mine[i][s].stage # "ended"

LeaderAlive(p) == proc[p] # None /\ proc[p].leader

Free(p) == proc[p] = None /\ ~Held(p)

\* No earlier process with this pid is remembered with this start time.
FreshStart(p, t) ==
  LET rec == [pid |-> p, start |-> t] IN
  \A s \in Services : file[s] # rec /\ \A i \in Instances : todo[i][s] # rec

\* FileRegistry::load: a file of another boot reads as empty.
Loaded == IF stale THEN NoRecords ELSE file

\* registry.remove(s): load, then store if something was removed.
Drop(s) ==
  /\ file' = [Loaded EXCEPT ![s] = None]
  /\ stale' = FALSE
  /\ left' = left \ {s}

\* An I/O error of remove is ignored by every caller.
Forget(s) == Drop(s) \/ UNCHANGED <<file, stale, left>>

Init ==
  /\ lock = None
  /\ phase = [i \in Instances |-> "off"]
  /\ todo = [i \in Instances |-> NoRecords]
  /\ mine = [i \in Instances |-> NoRecords]
  /\ file = NoRecords
  /\ stale = FALSE
  /\ proc = [p \in Pids |-> None]
  /\ left = {}

-----------------------------------------------------------------------------
(* Launch. *)

\* Mutated form of LockIsFree: another instance's lock is taken over.
LockIgnored == TRUE
LockIsFree  == lock = None

\* acquire_with_one_retry: a held lock is tried once more, then the launch is
\* refused.
TakeLock(i) ==
  /\ phase[i] \in {"off", "retrying"}
  /\ IF LockIsFree
     THEN /\ lock' = i
          /\ phase' = [phase EXCEPT ![i] = "locked"]
     ELSE /\ phase' = [phase EXCEPT ![i] =
                         IF @ = "off" THEN "retrying" ELSE "refused"]
          /\ UNCHANGED lock
  /\ UNCHANGED <<todo, mine, file, stale, proc, left>>

\* list_current_boot: what an earlier launch left behind is listed again.  An
\* unreadable registry skips the reap.
ListRecords(i) ==
  /\ phase[i] = "locked"
  /\ phase' = [phase EXCEPT ![i] = "reaping"]
  /\ \/ /\ todo' = [todo EXCEPT ![i] = Loaded]
        /\ file' = Loaded
        /\ stale' = FALSE
        /\ left' = {}
     \/ /\ left' = {s \in Services : file[s] # None}
        /\ UNCHANGED <<todo, file, stale>>
  /\ UNCHANGED <<lock, mine, proc>>

\* Mutated form of SameProcess: a live leader with this pid is enough.
SamePid(rec)     == LeaderAlive(rec.pid)
\* The recorded process is still there: a live leader with this start time.
SameProcess(rec) == LeaderAlive(rec.pid) /\ proc[rec.pid].start = rec.start

\* Mutated form of Leave: the record is dropped whatever was read.
DropIt(s) == /\ file' = [file EXCEPT ![s] = None]
             /\ UNCHANGED <<stale, left>>

\* The record stays behind: an error is not proof that it may be dropped.
Leave(s) == /\ left' = left \union {s}
            /\ UNCHANGED <<file, stale>>

\* UnixReaper::reap: the whole group is killed, or, when the process turns out
\* not to lead its group (SinglePidFallback), that process alone.
Kill(p) ==
  \/ proc' = [proc EXCEPT ![p] = None]
  \/ proc' = [proc EXCEPT ![p].leader = FALSE]

\* The system refuses the signal: EPERM, or any other error.
KillFails(p) == proc' = [proc EXCEPT ![p].spared = TRUE]

\* One record of reap_orphans.  A record whose leader is gone or whose pid was
\* reused is dropped without a signal; a start time that cannot be read leaves
\* both alone.  A matching process is killed if the system lets it be, and its
\* record is dropped whether the kill succeeded or not.
Reap(i, s) ==
  LET rec == todo[i][s] IN
  /\ phase[i] = "reaping" /\ rec # None
  /\ todo' = [todo EXCEPT ![i][s] = None]
  /\ \/ /\ Leave(s)
        /\ UNCHANGED proc
     \/ /\ ~SameProcess(rec)
        /\ Forget(s)
        /\ UNCHANGED proc
     \/ /\ SameProcess(rec)
        /\ Kill(rec.pid)
        /\ Forget(s)
     \/ /\ SameProcess(rec)
        /\ KillFails(rec.pid)
        /\ Drop(s) \/ Leave(s)
  /\ UNCHANGED <<lock, phase, mine>>

\* Mutated form of ReapIsOver: services are accepted while the reap is going on.
ReapHasBegun(i) == phase[i] = "reaping"
ReapIsOver(i)   == phase[i] = "reaping" /\ todo[i] = NoRecords

\* Only now does the supervisor exist.
BecomeReady(i) ==
  /\ ReapIsOver(i)
  /\ phase' = [phase EXCEPT ![i] = "ready"]
  /\ UNCHANGED <<lock, todo, mine, file, stale, proc, left>>

-----------------------------------------------------------------------------
(* The service tasks of a running instance. *)

Spawn(i, s, p, t) ==
  /\ phase[i] = "ready" /\ mine[i][s] = None
  /\ Free(p) /\ FreshStart(p, t)
  /\ proc' = [proc EXCEPT ![p] = [ours |-> TRUE, start |-> t,
                                  leader |-> TRUE, spared |-> FALSE]]
  /\ mine' = [mine EXCEPT ![i][s] = [pid |-> p, stage |-> "spawned"]]
  /\ UNCHANGED <<lock, phase, todo, file, stale, left>>

\* record_running: upsert by service id.  Nothing is recorded when the start
\* time cannot be read or the registry refuses.
RecordRunning(i, s) ==
  LET p == mine[i][s].pid IN
  /\ mine[i][s] # None /\ mine[i][s].stage = "spawned"
  /\ mine' = [mine EXCEPT ![i][s].stage = "recorded"]
  /\ \/ /\ LeaderAlive(p)
        /\ file' = [Loaded EXCEPT ![s] = [pid |-> p, start |-> proc[p].start]]
        /\ stale' = FALSE
        /\ left' = left \ {s}
     \/ UNCHANGED <<file, stale, left>>
  /\ UNCHANGED <<lock, phase, todo, proc>>

\* child.wait() has returned: from here on the pid may be reused.
ChildWaited(i, s) ==
  /\ mine[i][s] # None /\ mine[i][s].stage = "recorded"
  /\ ~LeaderAlive(mine[i][s].pid)
  /\ mine' = [mine EXCEPT ![i][s].stage = "ended"]
  /\ UNCHANGED <<lock, phase, todo, file, stale, proc, left>>

\* finish_with_state: the record is removed on the way into the terminal state.
FinishRun(i, s) ==
  /\ mine[i][s] # None /\ mine[i][s].stage = "ended"
  /\ mine' = [mine EXCEPT ![i][s] = None]
  /\ Forget(s)
  /\ UNCHANGED <<lock, phase, todo, proc>>

-----------------------------------------------------------------------------
(* The system. *)

\* A crash, a kill -9, or a quit with stragglers: the lock goes with the file
\* descriptor, the children stay.
Crash(i) ==
  /\ phase[i] # "off"
  /\ phase' = [phase EXCEPT ![i] = "off"]
  /\ lock' = IF lock = i THEN None ELSE lock
  /\ todo' = [todo EXCEPT ![i] = NoRecords]
  /\ mine' = [mine EXCEPT ![i] = NoRecords]
  /\ UNCHANGED <<file, stale, proc, left>>

\* A leader exits; workers of its group may stay behind without it.
LeaderExits(p) ==
  /\ LeaderAlive(p)
  /\ \/ proc' = [proc EXCEPT ![p] = None]
     \/ proc' = [proc EXCEPT ![p].leader = FALSE]
  /\ UNCHANGED <<lock, phase, todo, mine, file, stale, left>>

GroupEnds(p) ==
  /\ proc[p] # None /\ ~proc[p].leader
  /\ proc' = [proc EXCEPT ![p] = None]
  /\ UNCHANGED <<lock, phase, todo, mine, file, stale, left>>

\* Somebody else's process is given the pid.
OtherStarts(p, t) ==
  /\ Free(p) /\ FreshStart(p, t)
  /\ proc' = [proc EXCEPT ![p] = [ours |-> FALSE, start |-> t,
                                  leader |-> TRUE, spared |-> FALSE]]
  /\ UNCHANGED <<lock, phase, todo, mine, file, stale, left>>

Reboot ==
  /\ lock' = None
  /\ phase' = [i \in Instances |-> "off"]
  /\ todo' = [i \in Instances |-> NoRecords]
  /\ mine' = [i \in Instances |-> NoRecords]
  /\ proc' = [p \in Pids |-> None]
  /\ stale' = (file # NoRecords)
  /\ UNCHANGED <<file, left>>

\* The boot time moved by more than the tolerance because the clock was set.
ClockStep ==
  /\ file # NoRecords
  /\ stale' = TRUE
  /\ UNCHANGED <<lock, phase, todo, mine, file, proc, left>>

-----------------------------------------------------------------------------
Next ==
  \/ \E i \in Instances : \/ TakeLock(i) \/ ListRecords(i)
                          \/ BecomeReady(i) \/ Crash(i)
  \/ \E i \in Instances, s \in Services :
       \/ Reap(i, s) \/ RecordRunning(i, s) \/ ChildWaited(i, s) \/ FinishRun(i, s)
  \/ \E i \in Instances, s \in Services, p \in Pids, t \in Starts : Spawn(i, s, p, t)
  \/ \E p \in Pids : LeaderExits(p) \/ GroupEnds(p)
  \/ \E p \in Pids, t \in Starts : OtherStarts(p, t)
  \/ Reboot \/ ClockStep

Spec == Init /\ [][Next]_vars

-----------------------------------------------------------------------------
(* Properties. *)

Holder(i) == phase[i] \in {"locked", "reaping", "ready"}

\* Past the lock there is one instance; only a ready one has children; what it
\* has is ours; and so is every process a record still describes, in the file
\* or already listed.
Ties ==
  /\ \A i \in Instances : Holder(i) => lock = i
  /\ \A i \in Instances, s \in Services : mine[i][s] # None =>
       /\ phase[i] = "ready"
       /\ LET p == mine[i][s].pid IN
            mine[i][s].stage # "ended" /\ proc[p] # None => proc[p].ours
  /\ \A s \in Services :
       /\ file[s] # None /\ SameProcess(file[s]) => proc[file[s].pid].ours
       /\ \A i \in Instances : todo[i][s] # None /\ SameProcess(todo[i][s])
            => proc[todo[i][s].pid].ours

\* A record that still describes a live process and has not been left behind.
LiveRecord(s) ==
  ~stale /\ file[s] # None /\ s \notin left /\ SameProcess(file[s])

\* Somebody past the lock answers for it: the reap that has yet to come to it,
\* or the task of its child, which has not been waited for.
Accounts ==
  \A i \in Instances, s \in Services : LiveRecord(s) =>
    /\ phase[i] = "reaping" => todo[i][s] = file[s]
    /\ phase[i] = "ready" =>
         mine[i][s] # None /\ mine[i][s].pid = file[s].pid /\ mine[i][s].stage # "ended"

\* The inductive invariant of the proofs: the launch protocol and the records
\* are consistent whatever crashes, exits and pid reuse come in between.
IInv == TypeOK /\ Ties /\ Accounts

\* A child of ours that no live instance supervises.
Orphan(p) == proc[p] # None /\ proc[p].ours /\ ~Held(p)

\* A reap never signals anything but an orphan: not a process that was given a
\* recorded pid later, and not a healthy service of another live instance.
ReapsOnlyOrphans ==
  [][\A p \in Pids : proc'[p] # proc[p]
       /\ (\E i \in Instances : phase[i] = "reaping" /\ todo'[i] # todo[i]
                                  /\ phase'[i] = "reaping")
       => Orphan(p)]_vars

\* A running instance has dealt with every orphan it could: the records that
\* still describe a live process are those of its own children, except the
\* ones its launch had to leave behind, unread or with the orphan unkilled and
\* the record not removed.
RecordsAreOurs ==
  \A i \in Instances, s \in Services :
    phase[i] = "ready" /\ LiveRecord(s)
      => mine[i][s] # None /\ mine[i][s].pid = file[s].pid

\* The record of a live orphan is only given up by a reap that sent the orphan
\* its signal: it is dead, or the system refused the kill, which the reap does
\* not try again.  On any doubt, and by anyone else, the record is kept for a
\* later launch.  The exceptions: the boot id no longer matches, or the launch
\* had to leave the record behind and its service was then started again,
\* which replaces it.
OrphanKeepsRecord ==
  [][\A s \in Services :
       LiveRecord(s) /\ Orphan(file[s].pid) /\ file'[s] # file[s]
         => LET p == file[s].pid IN
              proc'[p] = None \/ ~proc'[p].leader \/ proc'[p].spared]_vars
=============================================================================
