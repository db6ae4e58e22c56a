------------------------------ MODULE InstanceInit ------------------------------
(***************************************************************************)
(* One database instance: the staged initialization of its datadir         *)
(* (run_mysql_init in commands.rs, initialize_mariadb in openvhost-core),  *)
(* the commands around it, and the root password: what the server asks for *)
(* and what state.db has.                                                  *)
(*                                                                         *)
(* An attempt fills a staging directory, runs a temporary server on it at  *)
(* a socket of a fixed name, sets the password through that socket, shuts  *)
(* the server down and renames the directory into place.  The supervisor   *)
(* knows nothing of that server: a crash of the app leaves it running.     *)
(* Databases are initialized and rescanned under InstallLock; resetting    *)
(* the password is not.  The engine stays installed (Packages has the       *)
(* removal).                                                               *)
(***************************************************************************)
EXTENDS Naturals

CONSTANTS
  Passwords,     \* what generate_root_password returns
  Empty,         \* the password --initialize-insecure leaves
  Partial,       \* a staging directory that is not complete yet
  None,
  Resets         \* concurrent reset commands

ASSUME InstanceAssumption ==
  /\ Empty \notin Passwords /\ Partial \notin Passwords /\ None \notin Passwords
  /\ Empty # Partial /\ Empty # None /\ Partial # None

VARIABLES
  engine,   \* mysql or mariadb
  data,     \* the final datadir, as classify_datadir reads it (clutter is nothing)
  root,     \* the root password of a ready datadir
  stored,   \* the row in mysql_instances or mariadb_instance
  row,      \* the supervisor's row for the service
  staged,   \* the attempt's staging directory: Partial, or its root password
  litter,   \* are there staging directories of attempts that are over?
  server,   \* the attempt's temporary server
  stray,    \* a temporary server that outlived its app: its root password
  loose,    \* an installer (mariadb-install-db) that outlived its attempt
  task,     \* the attempt
  op,       \* the command that holds InstallLock.guard
  reset,    \* the reset commands
  app,      \* up, quitting or gone
  past      \* history, for properties only

place == <<data, root>>
staging == <<staged, litter, server, stray, loose>>
vars == <<engine, place, stored, row, staging, task, op, reset, app, past>>

-----------------------------------------------------------------------------

NoTask == [pc |-> "none", pw |-> None, aborted |-> FALSE]
NoReset == [pc |-> "idle", old |-> None, new |-> None]

\* The attempt's steps, in order; "polling" is StartTempServer after the spawn.
Steps == {"rendering", "initializing", "polling", "setting", "stopping",
          "waiting", "finalizing"}
Ended == {"initialized", "failed", "cancelled"}

Task == [pc : Steps \cup Ended \cup {"none"},
         pw : Passwords \cup {None}, aborted : BOOLEAN]
ResetCall == [pc : {"idle", "read", "connected", "altered"},
              old : Passwords \cup {None}, new : Passwords \cup {None}]

\* Each variable keeps its type.
TypeOK ==
  /\ engine \in {"mysql", "mariadb"}
  /\ data \in {"absent", "foreign", "ready"}
  /\ root \in Passwords \cup {Empty, None}
  /\ stored \in Passwords \cup {None}
  /\ row \in {"none", "down", "up"}
  /\ staged \in Passwords \cup {Empty, Partial, None}
  /\ litter \in BOOLEAN /\ loose \in BOOLEAN
  /\ server \in {"none", "starting", "listening", "shutting", "exited"}
  /\ stray \in Passwords \cup {Empty, None}
  /\ task \in Task
  /\ op \in {"idle", "awaiting", "storing", "registering", "reconciling"}
  /\ reset \in [Resets -> ResetCall]
  /\ app \in {"up", "quitting", "gone"}
  /\ past \in [strayed : BOOLEAN, lost : BOOLEAN, overlap : BOOLEAN]

Init ==
  /\ engine \in {"mysql", "mariadb"}
  /\ data \in {"absent", "foreign"}
  /\ root = None /\ stored = None /\ row = "none"
  /\ staged = None /\ litter = FALSE /\ server = "none"
  /\ stray = None /\ loose = FALSE
  /\ task = NoTask /\ op = "idle"
  /\ reset = [r \in Resets |-> NoReset]
  /\ app = "up"
  /\ past = [strayed |-> FALSE, lost |-> FALSE, overlap |-> FALSE]

Alive == app # "gone"
At(pc) == Alive /\ task.pc = pc
Goto(pc) == task' = [task EXCEPT !.pc = pc]

\* A password nothing holds: generate_root_password never repeats itself.
Fresh == Passwords \ ({root, stored, staged, stray, task.pw}
                      \cup {reset[r].new : r \in Resets})

\* Who answers at the socket of a fixed name.
Answering == IF server = "listening" THEN "ours"
             ELSE IF stray # None THEN "stray" ELSE "nobody"

-----------------------------------------------------------------------------
(* The attempt. *)

\* Every failure: kill the server and wait for it, remove the staging
\* directory if it can be removed, report the step.
Fails ==
  /\ Goto("failed")
  /\ server' = "none" /\ staged' = None
  /\ litter' \in {litter, litter \/ staged # None}
  /\ UNCHANGED <<place, stray, loose>>

\* Render and Validate, up to an empty staging directory.
Render ==
  /\ At("rendering")
  /\ \/ Fails
     \/ /\ staged' = Partial
        /\ Goto("initializing")
        /\ UNCHANGED <<place, litter, server, stray, loose>>
  /\ UNCHANGED <<engine, stored, row, op, reset, app, past>>

\* The engine's installer ends with 0, and the temporary server is spawned.
\* MariaDB's is given two minutes, MySQL's as long as it takes.
Initialize ==
  /\ At("initializing")
  /\ \/ Fails
     \/ /\ staged' = Empty /\ server' = "starting"
        /\ Goto("polling")
        /\ UNCHANGED <<place, litter, stray, loose>>
  /\ UNCHANGED <<engine, stored, row, op, reset, app, past>>

\* Mutated form of Poll: only the ping is looked at.
PollPatiently ==
  /\ At("polling")
  /\ Answering # "nobody"
  /\ Goto("setting")
  /\ UNCHANGED <<engine, place, stored, row, staging, op, reset, app, past>>

\* poll_until_ready takes any answer at the socket for its server's; it gives
\* up when its server has exited or the deadline has passed.
Poll ==
  /\ At("polling")
  /\ \/ /\ Answering # "nobody" /\ Goto("setting")
        /\ UNCHANGED <<place, staging>>
     \/ Fails
  /\ UNCHANGED <<engine, stored, row, op, reset, app, past>>

\* Mutated form of SetPassword: a failed ALTER USER is only logged, and a
\* signal stops the server.
SetPasswordLoosely ==
  /\ At("setting")
  /\ \E p \in Fresh :
       /\ task' = [task EXCEPT !.pc = "waiting", !.pw = p]
       /\ staged' \in {staged, p} /\ server' = "shutting"
       /\ UNCHANGED <<place, litter, stray, loose>>
  /\ UNCHANGED <<engine, stored, row, op, reset, app, past>>

\* ALTER USER, without a password, at the socket.
SetPassword ==
  /\ At("setting")
  /\ \/ Fails
     \/ \E p \in Fresh :
          /\ task' = [task EXCEPT !.pc = "stopping", !.pw = p]
          /\ \/ /\ Answering = "ours" /\ staged = Empty
                /\ staged' = p /\ UNCHANGED stray
             \/ /\ Answering = "stray" /\ stray = Empty
                /\ stray' = p /\ UNCHANGED staged
          /\ UNCHANGED <<place, litter, server, loose>>
  /\ UNCHANGED <<engine, stored, row, op, reset, app, past>>

\* mysqladmin shutdown, with the new password, at the socket.
Shutdown ==
  /\ At("stopping")
  /\ \/ Fails
     \/ /\ Answering = "ours" /\ staged = task.pw
        /\ server' = "shutting"
        /\ Goto("waiting")
        /\ UNCHANGED <<place, staged, litter, stray, loose>>
     \/ /\ Answering = "stray" /\ stray = task.pw
        /\ stray' = None
        /\ Goto("waiting")
        /\ UNCHANGED <<place, staged, litter, server, loose>>
  /\ UNCHANGED <<engine, stored, row, op, reset, app, past>>

\* The wait for the server's exit, whatever its status: ten seconds for
\* MySQL, no bound for MariaDB.
AwaitExit ==
  /\ At("waiting")
  /\ \/ /\ server = "exited"
        /\ server' = "none"
        /\ Goto("finalizing")
        /\ UNCHANGED <<place, staged, litter, stray, loose>>
     \/ engine = "mysql" /\ server # "exited" /\ Fails
  /\ UNCHANGED <<engine, stored, row, op, reset, app, past>>

\* Mutated form of Finalize: makes room for the datadir first.
FinalizeOver ==
  /\ At("finalizing")
  /\ data' = "ready" /\ root' = staged
  /\ staged' = None
  /\ Goto("initialized")
  /\ UNCHANGED <<engine, stored, row, litter, server, stray, loose, op, reset, app, past>>

\* finalize_staging: the staging directory has the sentinels, the datadir
\* nothing but Finder's clutter; one rename.
Finalize ==
  /\ At("finalizing")
  /\ \/ Fails
     \/ /\ staged \notin {None, Partial} /\ data = "absent"
        /\ data' = "ready" /\ root' = staged
        /\ staged' = None
        /\ Goto("initialized")
        /\ UNCHANGED <<litter, server, stray, loose>>
  /\ UNCHANGED <<engine, stored, row, op, reset, app, past>>

\* Mutated form of TakeAbort: no guard kills the server.
TakeAbortOnly ==
  /\ Alive /\ task.aborted /\ task.pc \in Steps \ {"finalizing"}
  /\ Goto("cancelled")
  /\ staged' = None /\ litter' = (litter \/ staged # None)
  /\ UNCHANGED <<engine, place, stored, row, server, stray, loose, op, reset, app, past>>

\* The future is dropped at an await (there is none before the rename): the
\* guards kill MySQL's installer and the server; MariaDB's installer has none.
\* The directory stays.
TakeAbort ==
  /\ Alive /\ task.aborted /\ task.pc \in Steps \ {"finalizing"}
  /\ Goto("cancelled")
  /\ server' = "none" /\ staged' = None
  /\ litter' = (litter \/ staged # None)
  /\ loose' = (loose \/ (engine = "mariadb" /\ task.pc = "initializing"))
  /\ UNCHANGED <<engine, place, stored, row, stray, op, reset, app, past>>

-----------------------------------------------------------------------------
(* External: the temporary servers. *)

\* It opens its socket; with another server there it takes the name over or
\* gives up.
ServerListens ==
  /\ server = "starting"
  /\ server' \in {"listening"} \cup (IF stray # None THEN {"exited"} ELSE {})
  /\ UNCHANGED <<engine, place, stored, row, staged, litter, stray, loose, task, op, reset, app, past>>

\* It exits, asked or not.
ServerExits ==
  /\ server \in {"starting", "listening", "shutting"}
  /\ server' = "exited"
  /\ UNCHANGED <<engine, place, stored, row, staged, litter, stray, loose, task, op, reset, app, past>>

\* The leftovers end some day, or when the user ends them.
LeftoverEnds ==
  /\ stray # None \/ loose
  /\ stray' = None /\ loose' = FALSE
  /\ UNCHANGED <<engine, place, stored, row, staged, litter, server, task, op, reset, app, past>>

-----------------------------------------------------------------------------
(* The commands under InstallLock.guard. *)

\* initialize_mysql, initialize_mariadb: both refuse an initialized datadir
\* and a foreign one before anything is written.
StartInit ==
  /\ Alive /\ op = "idle" /\ data = "absent"
  /\ op' = "awaiting"
  /\ task' = [NoTask EXCEPT !.pc = "rendering"]
  /\ UNCHANGED <<engine, place, stored, row, staging, reset, app, past>>

Wake ==
  /\ Alive /\ op = "awaiting" /\ task.pc \in Ended
  /\ IF task.pc = "initialized"
     THEN op' = "storing" /\ UNCHANGED task
     ELSE op' = "idle" /\ task' = NoTask
  /\ UNCHANGED <<engine, place, stored, row, staging, reset, app, past>>

\* The upsert, in its own commit; a failure returns before the row.
Store ==
  /\ Alive /\ op = "storing"
  /\ \/ /\ stored' = task.pw
        /\ op' = "registering" /\ UNCHANGED <<task, past>>
     \/ /\ op' = "idle" /\ task' = NoTask
        /\ past' = [past EXCEPT !.lost = TRUE] /\ UNCHANGED stored
  /\ UNCHANGED <<engine, place, row, staging, reset, app>>

RegisterRow ==
  /\ Alive /\ op = "registering"
  /\ row' = IF row = "up" THEN "up" ELSE "down"
  /\ op' = "idle" /\ task' = NoTask
  /\ UNCHANGED <<engine, place, stored, staging, reset, app, past>>

\* sweep_stale_staging, of MySQL's data directory only: every staging directory
\* goes, whoever filled it, in any order, up to the first error.
Sweep ==
  \/ engine = "mysql" /\ litter' \in {FALSE, litter} /\ staged' \in {None, staged}
  \/ UNCHANGED <<litter, staged>>

\* Mutated form of StartRescan: not under the guard.
StartRescanUnguarded ==
  /\ Alive /\ op \in {"idle", "awaiting"}
  /\ Sweep
  /\ op' = IF op = "idle" THEN "reconciling" ELSE op
  /\ UNCHANGED <<engine, place, stored, row, server, stray, loose, task, reset, app, past>>

\* rescan_mysql, and every install and uninstall, which end with it.
StartRescan ==
  /\ Alive /\ op = "idle"
  /\ Sweep
  /\ op' = "reconciling"
  /\ UNCHANGED <<engine, place, stored, row, server, stray, loose, task, reset, app, past>>

\* A row for an initialized datadir that has none.
RowFor(r) == IF r = "none" /\ data = "ready" THEN "down" ELSE r

Reconcile ==
  /\ Alive /\ op = "reconciling"
  /\ row' = RowFor(row)
  /\ op' = "idle"
  /\ UNCHANGED <<engine, place, stored, staging, task, reset, app, past>>

-----------------------------------------------------------------------------
(* Resetting the password of the running service. *)

SetReset(r, rec) == reset' = [reset EXCEPT ![r] = rec]
Calling(r, pc) == Alive /\ reset[r].pc = pc
Writing(r) == reset[r].pc \in {"connected", "altered"}

ResetReads(r) ==
  /\ Calling(r, "idle") /\ stored # None
  /\ SetReset(r, [NoReset EXCEPT !.pc = "read", !.old = stored])
  /\ UNCHANGED <<engine, place, stored, row, staging, task, op, app, past>>

\* The client authenticates with what was read, or is refused (AuthFailed).
ResetConnects(r) ==
  /\ Calling(r, "read")
  /\ \/ /\ row = "up" /\ root = reset[r].old
        /\ SetReset(r, [reset[r] EXCEPT !.pc = "connected"])
        /\ past' = [past EXCEPT !.overlap = @ \/ \E s \in Resets : Writing(s)]
     \/ SetReset(r, NoReset) /\ UNCHANGED past
  /\ UNCHANGED <<engine, place, stored, row, staging, task, op, app>>

\* Its statement runs, or not; the client may fail after the server has done it.
ResetAlters(r) ==
  /\ Calling(r, "connected")
  /\ \/ /\ row = "up"
        /\ \E p \in Fresh :
             /\ root' = p /\ UNCHANGED data
             /\ \/ /\ SetReset(r, [reset[r] EXCEPT !.pc = "altered", !.new = p])
                   /\ UNCHANGED past
                \/ /\ SetReset(r, NoReset)
                   /\ past' = [past EXCEPT !.lost = TRUE]
     \/ SetReset(r, NoReset) /\ UNCHANGED <<place, past>>
  /\ UNCHANGED <<engine, stored, row, staging, task, op, app>>

\* Mutated form of ResetStores: stores what it has read.
ResetStoresOld(r) ==
  /\ Calling(r, "altered")
  /\ stored' = reset[r].old
  /\ SetReset(r, NoReset)
  /\ UNCHANGED <<engine, place, row, staging, task, op, app, past>>

\* Only then is the new password stored.
ResetStores(r) ==
  /\ Calling(r, "altered")
  /\ \/ stored' = reset[r].new /\ UNCHANGED past
     \/ past' = [past EXCEPT !.lost = TRUE] /\ UNCHANGED stored
  /\ SetReset(r, NoReset)
  /\ UNCHANGED <<engine, place, row, staging, task, op, app>>

-----------------------------------------------------------------------------
(* The service, the user, the quit and the crash. *)

ServiceMoves ==
  /\ Alive /\ row # "none"
  /\ row' = IF row = "up" THEN "down" ELSE "up"
  /\ UNCHANGED <<engine, place, stored, staging, task, op, reset, app, past>>

\* External: a user's files appear in the datadir.
UserFills ==
  /\ data = "absent"
  /\ data' = "foreign"
  /\ UNCHANGED <<engine, root, stored, row, staging, task, op, reset, app, past>>

\* The abort misses an attempt that is not in the slot yet.
StartQuit ==
  /\ app = "up"
  /\ app' = "quitting"
  /\ task' \in {task, [task EXCEPT !.aborted = task.pc \in Steps]}
  /\ UNCHANGED <<engine, place, stored, row, staging, op, reset, past>>

\* The process is gone.  The services were stopped by the quit, or are reaped
\* as orphans by the next launch; a temporary server is in no registry.
Dead ==
  /\ app' = "gone"
  /\ op' = "idle" /\ task' = NoTask /\ row' = "none"
  /\ reset' = [r \in Resets |-> NoReset]
  /\ server' = "none" /\ staged' = None
  /\ litter' = (litter \/ staged # None)
  /\ LET left == server \in {"starting", "listening"} /\ staged # None
     IN /\ stray' = IF left THEN staged ELSE stray
        /\ past' = [past EXCEPT
             !.strayed = @ \/ left,
             !.lost = @ \/ (task.pc = "initialized" /\ stored # task.pw)
                        \/ \E r \in Resets : reset[r].pc = "altered"]
  /\ loose' = (loose \/ task.pc = "initializing")
  /\ UNCHANGED <<engine, place, stored>>

Exit == app = "quitting" /\ Dead
Crash == Alive /\ Dead

\* macos_stack: the sweep, and a row for an initialized datadir.
Launch ==
  /\ app = "gone"
  /\ app' = "up"
  /\ Sweep
  /\ row' = RowFor("none")
  /\ UNCHANGED <<engine, place, stored, server, stray, loose, task, op, reset, past>>

-----------------------------------------------------------------------------

Attempt == Render \/ Initialize \/ Poll \/ SetPassword \/ Shutdown \/ AwaitExit
           \/ Finalize \/ TakeAbort
Command == Wake \/ Store \/ RegisterRow \/ Reconcile
Reset(r) == ResetReads(r) \/ ResetConnects(r) \/ ResetAlters(r) \/ ResetStores(r)

Next ==
  \/ Attempt \/ Command \/ StartInit \/ StartRescan
  \/ \E r \in Resets : Reset(r)
  \/ ServerListens \/ ServerExits \/ LeftoverEnds
  \/ ServiceMoves \/ UserFills \/ StartQuit \/ Exit \/ Crash \/ Launch

\* The attempt is at a wait without a deadline and has not been aborted: MySQL's
\* Validate and its installer, and MariaDB's wait for the server's exit.
NoDeadline ==
  /\ ~task.aborted
  /\ \/ engine = "mysql" /\ task.pc \in {"rendering", "initializing"}
     \/ engine = "mariadb" /\ task.pc = "waiting" /\ server # "exited"

\* The runtime polls the attempt and the command, and every other wait has a
\* deadline.  Nothing is assumed of the programs the three waits are for.
Spec ==
  /\ Init /\ [][Next]_vars
  /\ WF_vars(Attempt /\ ~NoDeadline) /\ WF_vars(Command)

\* What the fair steps wait for, as their guards have it, and that it is all
\* they wait for.
AttemptIsDue == Alive /\ task.pc \in Steps /\ ~NoDeadline

WakeIsDue == Alive /\ op = "awaiting" /\ task.pc \in Ended

GuardsSuffice ==
  /\ AttemptIsDue => ENABLED <<Attempt /\ ~NoDeadline>>_vars
  /\ WakeIsDue => ENABLED <<Command>>_vars

-----------------------------------------------------------------------------
(* Properties. *)

\* The attempt belongs to the command that waits for it; only a datadir that
\* is there has credentials, connections and a row that can start it.
RunIsOurs ==
  /\ task.pc # "none" <=> op \in {"awaiting", "storing", "registering"}
  /\ op \in {"storing", "registering"} => task.pc = "initialized"
  /\ task.pc = "initialized" => data = "ready" /\ task.pw # None
  /\ task.pc \in {"stopping", "waiting", "finalizing"} => task.pw # None
  /\ staged # None => task.pc \in Steps \ {"rendering"}
  /\ staged = Partial => task.pc = "initializing"
  /\ task.pc = "initialized" => (stored # None <=> op = "registering")
  /\ root # None <=> data = "ready"
  /\ data # "ready" => stored = None
  /\ \A r \in Resets :
       /\ reset[r].pc # "idle" => data = "ready" /\ stored # None
       /\ reset[r].pc = "altered" => reset[r].new # None
  /\ ~Alive => op = "idle"

\* An attempt that has ended, however it ended, has left no temporary server:
\* the supervisor would never notice it.
EndedRunIsAlone ==
  server # "none" => task.pc \in {"polling", "setting", "stopping", "waiting"}

\* A service has a row only when there is a datadir to start it on.
RowMeansReady == row # "none" => data = "ready"

\* No attempt puts a datadir in place whose root is open or whose installer
\* failed, unless a crash has left a temporary server at the socket.
ReadyIsLocked == data = "ready" /\ ~past.strayed => root \in Passwords

\* The password of the instance is in state.db or with the command about to
\* store it, through initializing and resetting in any order, unless a crash
\* or a failed write lost it (the outcome says so) or two resets overlapped.
CredentialHeld ==
  data = "ready" /\ ~past.strayed /\ ~past.lost /\ ~past.overlap =>
    \/ root = stored
    \/ task.pc = "initialized" /\ stored = None /\ root = task.pw
    \/ \E r \in Resets : reset[r].pc = "altered" /\ root = reset[r].new

\* What the attempt does at the socket it does to its own server, and a reset
\* works on the password it has read.
OwnWork ==
  /\ ~past.strayed =>
       /\ stray = None
       /\ task.pc \in {"stopping", "waiting", "finalizing"} => staged = task.pw
       /\ task.pc \in {"polling", "setting"} => staged = Empty
       /\ task.pc = "initialized" /\ stored = None => root = task.pw
       /\ task.pc = "waiting" => server \in {"shutting", "exited"}
  /\ ~past.overlap => \A r \in Resets :
       /\ reset[r].pc = "altered" => root = reset[r].new
       /\ Writing(r) => \A s \in Resets : Writing(s) => r = s

\* The invariant of the proofs.
IInv ==
  /\ TypeOK /\ RunIsOurs /\ EndedRunIsAlone /\ RowMeansReady
  /\ OwnWork /\ ReadyIsLocked /\ CredentialHeld

\* The final datadir is never adopted or replaced: once it holds the user's
\* files or a database it stays what it is, also when the files appear while
\* the attempt is under way.
NeverAdopted == [][(data \in {"foreign", "ready"}) => (data' = data)]_vars

\* A sweep, which spares no staging directory, never meets that of an attempt
\* under way: the lock, and the launch, keep the two apart.
StagingIsKept == [][staged # None /\ task' = task => staged' # None]_vars

\* An attempt ends and frees the install lock, or stays for ever at one of the
\* waits without a deadline, which no abort has reached.
InitEnds == op = "awaiting" ~> op # "awaiting" \/ []NoDeadline

\* What MysqlInitOutcome::Initialized and MariadbInitOutcome::Initialized say:
\* "A fresh datadir was created and the root password set."
InitializedIsLocked == data = "ready" => root \in Passwords
=============================================================================
