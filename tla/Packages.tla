-------------------------------- MODULE Packages --------------------------------
(***************************************************************************)
(* Installing, removing and rediscovering a package family (PHP 8.4, MySQL *)
(* 8.4 or MariaDB): the install lock with its running slot and the spawned *)
(* run behind it (commands.rs, php_pkg.rs, mysql_pkg.rs, mariadb_pkg.rs,   *)
(* uninstall/run.rs), the pipeline of openvhost-pkg, discovery, and what   *)
(* the app keeps in memory: the managed list and the supervisor's row.     *)
(*                                                                         *)
(* A command holds the lock throughout; its run is a task of its own that  *)
(* a cancel or a quit may abort wherever it awaits.  Families share the    *)
(* lock and nothing else, so the module follows one; while a command on    *)
(* another family holds the lock, nothing happens to this one.  The app    *)
(* may crash or quit between any two steps; the disk survives.  Homebrew's *)
(* keg is changed by brew, ours or the user's.                             *)
(***************************************************************************)
EXTENDS Naturals

CONSTANTS
  Versions,       \* versions a build of the app may pin
  NoVersion, Keg, \* "none", and what a Homebrew keg is listed as
  LastBuild,      \* builds 1..LastBuild of the app
  Pinned          \* family -> build -> the version it installs, or NoVersion

VARIABLES
  family,   \* the package family
  build,    \* the build that is running
  tree,     \* version -> its directory under packages/<name>/<major>
  cur,      \* what the current link names
  keg,      \* is Homebrew's keg there?
  ledger,   \* versions with a row in installed_packages
  managed,  \* the runtime in the managed list
  row,      \* the supervisor's row: its program, and is it running?
  op,       \* the command that holds InstallLock.guard
  task,     \* the run it has spawned
  slot,     \* InstallLock.running: the operation, or "none"
  quit,     \* how far a quit is
  past      \* history, for properties only

disk == <<tree, cur, keg, ledger>>
memory == <<managed, row>>
vars == <<family, build, disk, memory, op, task, slot, quit, past>>

Families == {"php", "mysql", "mariadb"}

ASSUME PackagesAssumption ==
  /\ NoVersion \notin Versions /\ Keg \notin Versions /\ Keg # NoVersion
  /\ LastBuild \in Nat \ {0}
  /\ Pinned \in [Families -> [1..LastBuild -> Versions \cup {NoVersion}]]

-----------------------------------------------------------------------------
(* The disk as discovery reads it. *)

\* A removal that stops half-way leaves a directory with the server binary
\* still in it ("damaged") or without it ("gutted").
TreeState == {"absent", "whole", "damaged", "gutted"}
Runnable == {"whole", "damaged"}

Programs == Versions \cup {NoVersion, Keg}

\* The current link is followed by its name and the binary has to be a file.
PackagedVersion ==
  IF cur # NoVersion /\ tree[cur] \in Runnable THEN cur ELSE NoVersion

\* Our own tree wins over a keg.
Discovered ==
  IF PackagedVersion # NoVersion THEN PackagedVersion
  ELSE IF family # "mariadb" /\ keg THEN Keg ELSE NoVersion

Exists(program) ==
  IF program = Keg THEN keg ELSE program # NoVersion /\ tree[program] \in Runnable

\* Which pipeline an install takes in this build.
PackageRoute == Pinned[family][build] # NoVersion

-----------------------------------------------------------------------------
(* The lock, the slot and the run. *)

NoOp == [verb |-> "none", pc |-> "idle", target |-> NoVersion,
         found |-> NoVersion, fresh |-> FALSE, problem |-> FALSE]
NoTask == [pc |-> "none", child |-> FALSE, aborted |-> FALSE]
NoRow == [program |-> NoVersion, up |-> FALSE]

Ended == {"ok", "nonzero", "err", "cancelled"}
\* The run awaits here, and an abort takes effect; there is no await between
\* the rename and the swing of the link ("linking").
Awaiting == {"checking", "downloading", "extracting", "warming", "recording",
             "brewing", "draining"}
TaskPc == {"none", "linking"} \cup Ended \cup Awaiting

Verbs == {"none", "install", "uninstall", "rescan"}
OpPc == {"idle", "deciding", "spawned", "waiting", "removing", "unlinking",
         "tidying", "forgetting", "probing", "merging", "registering"}
Op == [verb : Verbs, pc : OpPc,
       target : Programs, found : Programs, fresh : BOOLEAN, problem : BOOLEAN]
Task == [pc : TaskPc, child : BOOLEAN, aborted : BOOLEAN]

\* Every variable keeps its type.
TypeOK ==
  /\ family \in Families /\ build \in 1..LastBuild
  /\ tree \in [Versions -> TreeState]
  /\ cur \in Versions \cup {NoVersion}
  /\ keg \in BOOLEAN
  /\ ledger \in SUBSET Versions
  /\ managed \in Programs
  /\ row \in [program : Programs, up : BOOLEAN]
  /\ op \in Op
  /\ task \in Task
  /\ slot \in Verbs
  /\ quit \in {"no", "aborting", "stopping", "gone"}
  /\ past \in [excused : BOOLEAN, maimed : BOOLEAN]

Init ==
  /\ family \in Families /\ build = 1
  /\ tree = [v \in Versions |-> "absent"]
  /\ cur = NoVersion
  /\ keg \in BOOLEAN /\ (family = "mariadb" => ~keg)
  /\ ledger = {}
  /\ managed = Discovered
  /\ row = [NoRow EXCEPT !.program = Discovered]
  /\ op = NoOp /\ task = NoTask /\ slot = "none" /\ quit = "no"
  /\ past = [excused |-> FALSE, maimed |-> FALSE]

Up == quit # "gone"

\* InstallLock.guard can be had.
Free == op.pc = "idle"

-----------------------------------------------------------------------------
(* The run: install_package and the ledger behind it, or brew. *)

Goto(pc) == task' = [task EXCEPT !.pc = pc]

\* The stages that only fill the staging directory.  An existing directory of
\* the version, whole or not, refuses; warm_up cannot fail.
Fetch ==
  /\ Up /\ op.target # Keg
  /\ \/ /\ task.pc = "checking"
        /\ \/ (tree[op.target] = "absent" /\ Goto("downloading"))
           \/ Goto("err")
     \/ (task.pc = "downloading" /\ (Goto("extracting") \/ Goto("err")))
     \/ (task.pc = "extracting" /\ (Goto("warming") \/ Goto("err")))
  /\ UNCHANGED <<family, build, disk, memory, op, slot, quit, past>>

\* Mutated form of Promote: extracts in place, no staging and no rename.
PromoteInPlace ==
  /\ Up /\ task.pc = "warming"
  /\ tree' = [tree EXCEPT ![op.target] = "damaged"]
  /\ Goto("linking")
  /\ UNCHANGED <<family, build, cur, keg, ledger, memory, op, slot, quit, past>>

\* Mutated form of Promote: clears the other versions away first.
PromoteAlone ==
  /\ Up /\ task.pc = "warming"
  /\ tree' = [v \in Versions |-> IF v = op.target THEN "whole" ELSE "absent"]
  /\ Goto("linking")
  /\ UNCHANGED <<family, build, cur, keg, ledger, memory, op, slot, quit, past>>

\* install_dir: the staging directory becomes the version by one rename.
Promote ==
  /\ Up /\ task.pc = "warming"
  /\ \/ /\ tree[op.target] = "absent"
        /\ tree' = [tree EXCEPT ![op.target] = "whole"]
        /\ Goto("linking")
     \/ (Goto("err") /\ UNCHANGED tree)
  /\ UNCHANGED <<family, build, cur, keg, ledger, memory, op, slot, quit, past>>

\* update_current swings the link by a rename of its own; when that fails the
\* promoted tree stays, and a dangling link of an old removal may now find it.
Link ==
  /\ Up /\ task.pc = "linking"
  /\ \/ /\ cur' = op.target
        /\ past' = [past EXCEPT !.maimed = FALSE]
        /\ Goto("recording")
     \/ /\ Goto("err") /\ UNCHANGED cur
        /\ past' = [past EXCEPT !.excused = TRUE]
  /\ UNCHANGED <<family, build, tree, keg, ledger, memory, op, slot, quit>>

\* The ledger's row is best effort: without it the install is still one.
Record ==
  /\ Up /\ task.pc = "recording"
  /\ \/ ledger' = ledger \cup {op.target}
     \/ UNCHANGED ledger
  /\ Goto("ok")
  /\ UNCHANGED <<family, build, tree, cur, keg, memory, op, slot, quit, past>>

\* run_task spawns brew at its first poll.
BrewSpawn ==
  /\ Up /\ op.target = Keg /\ task.pc = "checking"
  /\ \/ task' = [task EXCEPT !.pc = "brewing", !.child = TRUE]
     \/ Goto("err")
  /\ UNCHANGED <<family, build, disk, memory, op, slot, quit, past>>

\* External: brew links or removes the formula some time before it exits.
BrewActs ==
  /\ task.child /\ keg # (op.verb = "install")
  /\ keg' = ~keg
  /\ past' = [past EXCEPT !.excused = TRUE]
  /\ UNCHANGED <<family, build, tree, cur, ledger, memory, op, task, slot, quit>>

\* External: it ends, with 0 only after doing its work.
BrewExits ==
  /\ Up /\ task.pc = "brewing"
  /\ task' = [task EXCEPT !.pc = "draining", !.child = FALSE]
  /\ UNCHANGED <<family, build, disk, memory, op, slot, quit, past>>

\* The readers see the pipes closed, after brew and whoever inherited them.
Drained ==
  /\ Up /\ task.pc = "draining"
  /\ \/ (keg = (op.verb = "install") /\ Goto("ok"))
     \/ Goto("nonzero")
     \/ Goto("err")
  /\ UNCHANGED <<family, build, disk, memory, op, slot, quit, past>>

\* Mutated form of TakeAbort: nothing kills brew when the future is dropped.
TakeAbortOnly ==
  /\ Up /\ task.aborted /\ task.pc \in Awaiting
  /\ Goto("cancelled")
  /\ UNCHANGED <<family, build, disk, memory, op, slot, quit, past>>

\* The future is dropped: staging unwinds, KillOnDrop kills brew's group.  What
\* the run has renamed into place stays.
TakeAbort ==
  /\ Up /\ task.aborted /\ task.pc \in Awaiting
  /\ task' = [task EXCEPT !.pc = "cancelled", !.child = FALSE]
  /\ past' = IF task.pc = "recording"
             THEN [past EXCEPT !.excused = TRUE] ELSE past
  /\ UNCHANGED <<family, build, disk, memory, op, slot, quit>>

-----------------------------------------------------------------------------
(* The command: install, uninstall or rescan, under InstallLock.guard. *)

Step(pc) == op' = [op EXCEPT !.pc = pc]
Begin(verb, pc, target) ==
  op' = [NoOp EXCEPT !.verb = verb, !.pc = pc, !.target = target]
Finish == op' = NoOp /\ task' = NoTask /\ slot' = "none"

\* install_php, install_mysql, install_mariadb: the guard is try_lock-ed.
StartInstall ==
  /\ Up /\ Free
  /\ PackageRoute \/ (family = "php" /\ managed = NoVersion)
  /\ Begin("install", "spawned", IF PackageRoute THEN Pinned[family][build] ELSE Keg)
  /\ task' = [NoTask EXCEPT !.pc = "checking"]
  /\ UNCHANGED <<family, build, disk, memory, slot, quit, past>>

\* The run has been spawned before its handle is in the slot.
SetRunning ==
  /\ Up /\ op.pc = "spawned"
  /\ Step("waiting")
  /\ slot' = op.verb
  /\ UNCHANGED <<family, build, disk, memory, task, quit, past>>

\* Mutated form of Wake: an install that went well needs no discovery.
WakeTrusting ==
  /\ Up /\ op.pc = "waiting" /\ task.pc \in Ended
  /\ IF op.verb = "uninstall" /\ task.pc = "ok"
     THEN Step("tidying") /\ slot' = "none" /\ UNCHANGED task
     ELSE Finish
  /\ UNCHANGED <<family, build, disk, memory, quit, past>>

\* Mutated form of Wake: what a dropped run never sends is waited for.
WakeDeaf ==
  /\ Up /\ op.pc = "waiting" /\ task.pc \in Ended \ {"cancelled"}
  /\ CASE op.verb = "install" /\ task.pc \in {"ok", "nonzero"} ->
            Step("probing") /\ UNCHANGED <<task, slot>>
       [] op.verb = "uninstall" /\ task.pc = "ok" ->
            Step("tidying") /\ slot' = "none" /\ UNCHANGED task
       [] OTHER -> Finish
  /\ UNCHANGED <<family, build, disk, memory, quit, past>>

\* The awaited run has ended.  An install rescans unless it failed or was
\* cancelled; an uninstall goes on to the local cleanup only after brew's 0.
Wake ==
  /\ Up /\ op.pc = "waiting" /\ task.pc \in Ended
  /\ CASE op.verb = "install" /\ task.pc \in {"ok", "nonzero"} ->
            Step("probing") /\ UNCHANGED <<task, slot>>
       [] op.verb = "uninstall" /\ task.pc = "ok" ->
            Step("tidying") /\ slot' = "none" /\ UNCHANGED task
       [] OTHER -> Finish
  /\ UNCHANGED <<family, build, disk, memory, quit, past>>

\* What Target::formula and Target::packaged choose: PHP's current packaged
\* version if it has one, MariaDB's whole directory, otherwise the formula.
Target ==
  IF family = "mariadb" THEN NoVersion
  ELSE IF family = "php" /\ PackagedVersion # NoVersion THEN PackagedVersion
  ELSE Keg

StartUninstall ==
  /\ Up /\ Free
  /\ Begin("uninstall", "deciding", Target)
  /\ UNCHANGED <<family, build, disk, memory, task, slot, quit, past>>

\* The blockers, read again under the lock: a live service, no keg of its own
\* for the formula; and what is not modelled (a pinned site, a link on the way
\* to the tree).
Decide ==
  /\ Up /\ op.pc = "deciding"
  /\ \/ Finish
     \/ /\ ~row.up /\ (op.target = Keg => keg)
        /\ IF op.target = Keg
           THEN Step("spawned") /\ task' = [NoTask EXCEPT !.pc = "checking"]
           ELSE Step("removing") /\ UNCHANGED task
        /\ UNCHANGED slot
  /\ UNCHANGED <<family, build, disk, memory, quit, past>>

Victims == IF family = "mariadb" THEN Versions ELSE {op.target}

\* remove_dir_all takes one entry after the other, MariaDB's link among them.
RemoveSome ==
  /\ Up /\ op.pc = "removing"
  /\ \/ \E v \in Victims :
          /\ tree[v] # "absent"
          /\ tree' = [tree EXCEPT ![v] =
                        CASE @ = "whole" -> "damaged" [] @ = "damaged" -> "gutted"
                          [] OTHER -> "absent"]
          /\ UNCHANGED cur
     \/ /\ family = "mariadb" /\ cur # NoVersion
        /\ cur' = NoVersion /\ UNCHANGED tree
  /\ past' = [past EXCEPT !.maimed = TRUE]
  /\ UNCHANGED <<family, build, keg, ledger, memory, op, task, slot, quit>>

\* Mutated form of Removed: an error of remove_dir_all is dropped.
RemovedQuietly ==
  /\ Up /\ op.pc = "removing"
  /\ Step("unlinking")
  /\ UNCHANGED <<family, build, disk, memory, task, slot, quit, past>>

\* ... and ends, or fails on one of them: a problem to report, not a return.
Removed ==
  /\ Up /\ op.pc = "removing"
  /\ \/ /\ \A v \in Victims : tree[v] = "absent"
        /\ family = "mariadb" => cur = NoVersion
        /\ Step("unlinking")
     \/ op' = [op EXCEPT !.pc = "unlinking", !.problem = TRUE]
  /\ UNCHANGED <<family, build, disk, memory, task, slot, quit, past>>

\* clear_dangling_current: a link to something that is still there stays.
Unlink ==
  /\ Up /\ op.pc = "unlinking"
  /\ LET dangling == /\ cur # NoVersion
                     /\ tree[cur] = "absent"
     IN \/ /\ cur' = IF dangling THEN NoVersion ELSE cur
           /\ Step("tidying")
        \/ /\ dangling /\ UNCHANGED cur
           /\ op' = [op EXCEPT !.pc = "tidying", !.problem = TRUE]
  /\ UNCHANGED <<family, build, tree, keg, ledger, memory, task, slot, quit, past>>

\* PHP's generated pool config goes, or is a problem.
Tidy ==
  /\ Up /\ op.pc = "tidying"
  /\ \/ Step("forgetting")
     \/ /\ family = "php"
        /\ op' = [op EXCEPT !.pc = "forgetting", !.problem = TRUE]
  /\ UNCHANGED <<family, build, disk, memory, task, slot, quit, past>>

\* unregister refuses a live service: it was started during the removal.
Forget ==
  /\ Up /\ op.pc = "forgetting"
  /\ IF row.up
     THEN op' = [op EXCEPT !.pc = "probing", !.problem = TRUE] /\ UNCHANGED row
     ELSE Step("probing") /\ row' = NoRow
  /\ UNCHANGED <<family, build, disk, managed, task, slot, quit, past>>

\* A rescan waits for the guard instead of refusing.
StartRescan ==
  /\ Up /\ Free
  /\ Begin("rescan", "probing", NoVersion)
  /\ UNCHANGED <<family, build, disk, memory, task, slot, quit, past>>

Probe ==
  /\ Up /\ op.pc = "probing"
  /\ op' = [op EXCEPT !.pc = "merging", !.found = Discovered]
  /\ past' = [past EXCEPT !.excused = FALSE]
  /\ UNCHANGED <<family, build, disk, memory, task, slot, quit>>

\* reconcile_*: the list first, so that no row is startable that a config
\* cannot name yet.
Merge ==
  /\ Up /\ op.pc = "merging"
  /\ managed' = op.found
  /\ op' = [op EXCEPT !.pc = "registering",
                      !.fresh = managed = NoVersion /\ op.found # NoVersion]
  /\ UNCHANGED <<family, build, disk, row, task, slot, quit, past>>

\* PHP registers what the old list had not; a database what has no row.
\* register and unregister both leave a live service alone.
RowAfter ==
  IF row.up THEN row
  ELSE IF op.found = NoVersion THEN NoRow
  ELSE IF (family = "php" /\ op.fresh) \/ (family # "php" /\ row = NoRow)
       THEN [NoRow EXCEPT !.program = op.found]
  ELSE row

Register ==
  /\ Up /\ op.pc = "registering"
  /\ row' = RowAfter
  /\ Finish
  /\ UNCHANGED <<family, build, disk, managed, quit, past>>

-----------------------------------------------------------------------------
(* The user, the quit and the crash. *)

\* cancel_*_install: aborts what the slot holds, even a run that has ended.
Cancel ==
  /\ Up /\ slot = "install"
  /\ task' = [task EXCEPT !.aborted = TRUE]
  /\ UNCHANGED <<family, build, disk, memory, op, slot, quit, past>>

StartService ==
  /\ Up /\ ~row.up /\ Exists(row.program)
  /\ row' = [row EXCEPT !.up = TRUE]
  /\ UNCHANGED <<family, build, disk, managed, op, task, slot, quit, past>>

StopService ==
  /\ Up /\ row.up
  /\ row' = [row EXCEPT !.up = FALSE]
  /\ UNCHANGED <<family, build, disk, managed, op, task, slot, quit, past>>

\* External: brew run by the user, behind the app's back.
UserBrew ==
  /\ family # "mariadb"
  /\ keg' = ~keg
  /\ past' = [past EXCEPT !.excused = TRUE]
  /\ UNCHANGED <<family, build, tree, cur, ledger, memory, op, task, slot, quit>>

\* abort_pending_install looks at the slot once.
QuitAborts ==
  /\ quit = "no"
  /\ IF slot = "none" THEN quit' = "stopping" /\ UNCHANGED task
     ELSE quit' = "aborting" /\ task' = [task EXCEPT !.aborted = TRUE]
  /\ UNCHANGED <<family, build, disk, memory, op, slot, past>>

\* The run has finished, or INSTALL_ABORT_TIMEOUT has passed.
QuitAborted ==
  /\ quit = "aborting"
  /\ quit' = "stopping"
  /\ UNCHANGED <<family, build, disk, memory, op, task, slot, past>>

\* The process ends, after its last step or anywhere: what it kept in memory
\* and its staging directories' owners are gone.
Dead ==
  /\ quit' = "gone"
  /\ op' = NoOp /\ task' = NoTask /\ slot' = "none"
  /\ managed' = NoVersion
  /\ row' = NoRow
  /\ UNCHANGED <<family, build, disk, past>>

Exit == quit = "stopping" /\ Dead
Crash == Up /\ Dead

\* The same build or a newer one starts, and discovers.  (A database whose
\* datadir is not initialized gets no row; here each is initialized.)
Launch ==
  /\ ~Up
  /\ build' \in build..LastBuild
  /\ quit' = "no"
  /\ managed' = Discovered
  /\ row' = [NoRow EXCEPT !.program = Discovered]
  /\ past' = [past EXCEPT !.excused = FALSE]
  /\ UNCHANGED <<family, disk, op, task, slot>>

-----------------------------------------------------------------------------

Run == Fetch \/ Promote \/ Link \/ Record \/ BrewSpawn \/ Drained \/ TakeAbort
Command == \/ SetRunning \/ Wake \/ Decide \/ RemoveSome \/ Removed \/ Unlink
           \/ Tidy \/ Forget \/ Probe \/ Merge \/ Register

Next ==
  \/ Run \/ Command \/ BrewActs \/ BrewExits
  \/ StartInstall \/ StartUninstall \/ StartRescan
  \/ Cancel \/ StartService \/ StopService \/ UserBrew
  \/ QuitAborts \/ QuitAborted \/ Exit \/ Crash \/ Launch

\* The runtime polls the command and the run whenever they can go on: every
\* await of a download is bounded, and the readers' end is brew's.
Spec == Init /\ [][Next]_vars /\ WF_vars(Run) /\ WF_vars(Command)

\* What the run and the command wait for, as the guards of their steps have it,
\* and that it is all they wait for.
RunIsDue ==
  /\ Up /\ task.pc \notin Ended \cup {"none"}
  /\ task.pc = "brewing" => task.aborted

CommandIsDue == Up /\ ~Free /\ (op.pc = "waiting" => task.pc \in Ended)

GuardsSuffice ==
  /\ RunIsDue => ENABLED <<Run>>_vars
  /\ CommandIsDue => ENABLED <<Command>>_vars

-----------------------------------------------------------------------------
(* Properties. *)

\* With no operation under way the managed list, which the apply pipeline and
\* the site editor believe, is what the disk holds: every way out of install,
\* uninstall and rescan has discovered after its last change, unless brew
\* acted on its own or the run was aborted or failed after its rename.
ListIsTrue == Up /\ Free /\ ~past.excused => managed = Discovered

\* The run belongs to the command that waits for it, installs what the build
\* pins, and is about to swing the link only to a complete tree.
RunIsOurs ==
  /\ task.pc \notin Ended \cup {"none"} => op.pc \in {"spawned", "waiting"}
  /\ op.pc \in {"spawned", "waiting"} =>
       /\ task.pc # "none" /\ op.target # NoVersion
       /\ op.verb = "install" \/ (op.verb = "uninstall" /\ op.target = Keg)
  /\ task.pc \in {"downloading", "extracting", "warming"} => op.target \in Versions
  /\ task.pc \in {"linking", "recording"} =>
       op.target \in Versions /\ tree[op.target] = "whole"
  /\ task.pc \in {"brewing", "draining"} => op.target = Keg
  /\ op.pc \in {"idle", "deciding", "removing", "unlinking"} => task.pc = "none"
  /\ op.pc \in {"deciding", "removing", "unlinking"} => op.verb = "uninstall"
  /\ Free => slot = "none"
  /\ ~Up => Free

\* A command keeps the list true until its run has changed the disk, and again
\* from its discovery on.
ListIsKept ==
  Up /\ ~past.excused =>
    /\ op.pc \in {"idle", "deciding", "registering"} => managed = Discovered
    /\ op.pc \in {"spawned", "waiting"}
       /\ task.pc \notin {"linking", "recording", "ok", "nonzero"}
         => managed = Discovered
    /\ op.pc \in {"spawned", "waiting"} /\ op.verb = "uninstall" => managed = Discovered
    /\ op.pc = "merging" => op.found = Discovered

\* A current link names a complete version, through failed and cancelled
\* installs, crashes and updates; only an uninstall that stopped half-way
\* leaves a link to less.
SelectedIsWhole == cur # NoVersion /\ ~past.maimed => tree[cur] = "whole"

\* A run that has ended, however it ended, has left no brew running:
\* perform_quit waits for no more than the run's end before it exits.
EndedRunIsAlone == task.child => task.pc = "brewing"

\* What an uninstall of our own tree may rely on: the link is its target's, and
\* as long as it has met no problem every step it is past has done its work.
RemovalIsTrue ==
  op.verb = "uninstall" /\ op.target # Keg =>
    /\ op.target = NoVersion <=> family = "mariadb"
    /\ op.target # NoVersion => cur \in {op.target, NoVersion}
    /\ ~op.problem =>
         /\ op.pc \notin {"idle", "deciding", "removing"} =>
              /\ \A v \in Victims : tree[v] = "absent"
              /\ family = "mariadb" => cur = NoVersion
         /\ op.pc \in {"tidying", "forgetting", "probing", "merging", "registering"} =>
              cur = NoVersion
         /\ op.pc \in {"probing", "merging", "registering"} => row = NoRow
         /\ op.pc \in {"merging", "registering"} => op.found \notin Versions

\* The invariant of the proofs.
RunsAreSound == TypeOK /\ RunIsOurs /\ ListIsKept /\ SelectedIsWhole /\ EndedRunIsAlone
IInv == RunsAreSound /\ RemovalIsTrue

\* Nothing but an uninstall takes away a version the family could run: an
\* install, whatever becomes of it, leaves what was installed usable.
OnlyUninstallRemoves ==
  [][op.verb # "uninstall" =>
       /\ \A v \in Versions : tree[v] = "whole" => tree'[v] = "whole"
       /\ PackagedVersion # NoVersion => PackagedVersion' # NoVersion]_vars

\* An uninstall that reports success has left no packaged program of its
\* target to find, no link to it, and no service row that could start it.
DoneMeansGone ==
  [][op.verb = "uninstall" /\ op.pc = "registering" /\ ~op.problem /\ Free'
       /\ op.target # Keg /\ Up'
     => /\ cur' = NoVersion /\ row'.program \notin Versions
        /\ \A v \in Victims : tree'[v] = "absent"]_vars

\* An operation that waits for no brew, or whose run was aborted, ends and
\* frees the lock: a cancelled or failed run never wedges the next install.
OperationEnds ==
  ~Free /\ (op.target # Keg \/ task.aborted) ~> Free
=============================================================================
