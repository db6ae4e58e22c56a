------------------------------ MODULE ConfigCommit ------------------------------
(***************************************************************************)
(* The site-apply pipeline up to the restart: apply_config takes ApplyLock *)
(* and renders the config set from state.db                                *)
(* (apps/desktop/src-tauri/src/commands.rs), plan diffs it against disk,   *)
(* commit writes it file by file, nginx -t validates what is on disk, and  *)
(* rollback puts the old files back                                        *)
(* (crates/openvhost-core/src/site/apply).                                 *)
(*                                                                         *)
(* A file's text is one of Contents, or Absent.  nginx -t rejects a config *)
(* set that contains a text of Rejected.  Sites and settings are edited at *)
(* any time, the app may crash at any time, and every write may fail.      *)
(***************************************************************************)
EXTENDS FiniteSets

CONSTANTS
  Files,     \* the paths below config/generated
  Always,    \* those that are rendered whatever sites there are
  Contents,  \* file texts
  Rejected,  \* the texts nginx -t rejects
  Absent,    \* no such file
  Applies,   \* calls of apply_config
  None

VARIABLES
  db,     \* file -> its text, rendered from state.db as it is now
  disk,   \* file -> its text on disk
  lock,   \* the holder of ApplyLock
  apply   \* call -> its progress and locals

commitVars == <<db, disk, lock, apply>>

ASSUME CommitAssumption ==
  /\ Always \subseteq Files /\ Rejected \subseteq Contents
  /\ Absent \notin Contents /\ None \notin Applies

-----------------------------------------------------------------------------
Config == [Files -> Contents \union {Absent}]

\* What render_set can return.
Rendered == {c \in Config : \A f \in Always : c[f] # Absent}

Accepts(config) == \A f \in Files : config[f] \notin Rejected

\* restarting: the config set was accepted, its services are being restarted.
\* unchanged, failed, applied: about to return, ApplyLock still held.
Ends   == {"unchanged", "failed", "applied"}
Phases == {"idle", "queued", "reading", "committing", "undoing", "restarting"}
            \union Ends

\* todo: files left to read, write or restore; before, after: the two sides of
\* the plan's changes, for every file.
Apply == [phase : Phases, todo : SUBSET Files, before : Config, after : Config,
          stranded : SUBSET Files]

Nowhere == [f \in Files |-> Absent]

Idle == [phase |-> "idle", todo |-> {}, before |-> Nowhere, after |-> Nowhere,
         stranded |-> {}]

\* Every variable keeps its type.
CommitTypeOK ==
  /\ db \in Rendered /\ disk \in Config
  /\ lock \in Applies \union {None}
  /\ apply \in [Applies -> Apply]

\* state.db starts anywhere; the last Apply, if there was one, was accepted.
CommitInit ==
  /\ db \in Rendered
  /\ disk \in {c \in Rendered : Accepts(c)} \union {Nowhere}
  /\ lock = None
  /\ apply = [a \in Applies |-> Idle]

Changes(a) == {f \in Files : apply[a].before[f] # apply[a].after[f]}

Enter(a, phase, todo) ==
  apply' = [apply EXCEPT ![a].phase = phase, ![a].todo = todo]

-----------------------------------------------------------------------------
\* A site or a setting is saved.
Edit(f, text) ==
  /\ text \in Contents \union {Absent}
  /\ f \in Always => text # Absent
  /\ db' = [db EXCEPT ![f] = text]
  /\ UNCHANGED <<disk, lock, apply>>

Click(a) ==
  /\ apply[a].phase = "idle"
  /\ Enter(a, "queued", {})
  /\ UNCHANGED <<db, disk, lock>>

LockIsFree == lock = None

TakeLock(a) ==
  /\ apply[a].phase = "queued" /\ LockIsFree
  /\ lock' = a
  /\ Enter(a, "reading", Files)
  /\ UNCHANGED <<db, disk>>

\* apply_input: sites, settings and the default PHP are read one by one.
Read(a, f) ==
  /\ apply[a].phase = "reading" /\ f \in apply[a].todo
  /\ apply' = [apply EXCEPT ![a].after[f] = db[f], ![a].todo = @ \ {f}]
  /\ UNCHANGED <<db, disk, lock>>

\* plan.  An empty plan ends the call; so does a missing nginx, or an error of
\* the plan itself, with nothing written.
Plan(a) ==
  LET changes == {f \in Files : disk[f] # apply[a].after[f]} IN
  /\ apply[a].phase = "reading" /\ apply[a].todo = {}
  /\ \E phase \in {"committing", "failed"} :
       apply' = [apply EXCEPT
         ![a].phase = IF changes = {} THEN "unchanged" ELSE phase,
         ![a].todo = IF phase = "committing" THEN changes ELSE {},
         ![a].before = disk]
  /\ UNCHANGED <<db, disk, lock>>

\* Mutated form of Commit: a file that is no longer rendered is left behind.
CommitKeepingStale(a, f) ==
  /\ apply[a].phase = "committing" /\ f \in apply[a].todo
  /\ disk' = IF apply[a].after[f] = Absent
             THEN disk ELSE [disk EXCEPT ![f] = apply[a].after[f]]
  /\ Enter(a, "committing", apply[a].todo \ {f})
  /\ UNCHANGED <<db, lock>>

\* One file is written by rename, or removed.  The code goes by the order of the
\* paths, the model takes any order.
Commit(a, f) ==
  /\ apply[a].phase = "committing" /\ f \in apply[a].todo
  /\ disk' = [disk EXCEPT ![f] = apply[a].after[f]]
  /\ Enter(a, "committing", apply[a].todo \ {f})
  /\ UNCHANGED <<db, lock>>

\* A write failed, or a log directory could not be made: every change is undone.
CommitFails(a) ==
  /\ apply[a].phase = "committing" /\ apply[a].todo # {}
  /\ Enter(a, "undoing", Changes(a))
  /\ UNCHANGED <<db, disk, lock>>

\* nginx -t judges the files on disk, unless it cannot be run.
Validate(a) ==
  /\ apply[a].phase = "committing" /\ apply[a].todo = {}
  /\ \/ Accepts(disk) /\ Enter(a, "restarting", {})
     \/ Enter(a, "undoing", Changes(a))
  /\ UNCHANGED <<db, disk, lock>>

Undo(a, f) ==
  /\ apply[a].phase = "undoing" /\ f \in apply[a].todo
  /\ disk' = [disk EXCEPT ![f] = apply[a].before[f]]
  /\ Enter(a, "undoing", apply[a].todo \ {f})
  /\ UNCHANGED <<db, lock>>

\* Mutated form of UndoFails: the rollback is abandoned at its first error.
UndoAbandoned(a, f) ==
  /\ apply[a].phase = "undoing" /\ f \in apply[a].todo
  /\ apply' = [apply EXCEPT ![a].stranded = @ \union {f}, ![a].todo = {}]
  /\ UNCHANGED <<db, disk, lock>>

\* The file cannot be restored: the rollback goes on and reports it.
UndoFails(a, f) ==
  /\ apply[a].phase = "undoing" /\ f \in apply[a].todo
  /\ apply' = [apply EXCEPT ![a].stranded = @ \union {f}, ![a].todo = @ \ {f}]
  /\ UNCHANGED <<db, disk, lock>>

RolledBack(a) ==
  /\ apply[a].phase = "undoing" /\ apply[a].todo = {}
  /\ Enter(a, "failed", {})
  /\ UNCHANGED <<db, disk, lock>>

\* apply_config returns and its guard is dropped.
Return(a) ==
  /\ apply[a].phase \in Ends
  /\ lock' = None
  /\ apply' = [apply EXCEPT ![a] = Idle]
  /\ UNCHANGED <<db, disk>>

\* The app dies: state.db and the files stay as they are.
CommitCrash ==
  /\ lock' = None
  /\ apply' = [a \in Applies |-> Idle]
  /\ UNCHANGED <<db, disk>>

PipelineStep(a) ==
  \/ TakeLock(a) \/ Plan(a) \/ CommitFails(a) \/ Validate(a)
  \/ RolledBack(a) \/ Return(a)
  \/ \E f \in Files : Read(a, f) \/ Commit(a, f) \/ Undo(a, f) \/ UndoFails(a, f)

-----------------------------------------------------------------------------
(* Properties. *)

\* A failed Apply has put back every file but those it reports as stranded:
\* whatever failed, and whoever else applied or edited sites meanwhile.
RollbackRestores ==
  \A a \in Applies : apply[a].phase = "failed" =>
    \A f \in Files \ apply[a].stranded : disk[f] = apply[a].before[f]

\* What services are restarted on is the whole config set that was rendered,
\* and nginx -t accepted just that: no mixture of two applies.
AcceptedIsOnDisk ==
  \A a \in Applies : apply[a].phase \in {"restarting", "applied"} =>
    disk = apply[a].after /\ Accepts(disk)

-----------------------------------------------------------------------------
(* Why a call can rely on what it has planned. *)

\* A call that is past the lock holds it.
Holding(a) == apply[a].phase \notin {"idle", "queued"} => lock = a

\* Where the files stand, by the progress of the call: each is as it was or as
\* it will be, and which of the two is known for all but those left to do.
Between(a, f) == disk[f] \in {apply[a].before[f], apply[a].after[f]}

Standing(a, f) ==
  /\ apply[a].phase = "committing" =>
       disk[f] = IF f \in apply[a].todo THEN apply[a].before[f] ELSE apply[a].after[f]
  /\ apply[a].phase = "undoing" =>
       /\ Between(a, f)
       /\ f \in apply[a].todo \union apply[a].stranded \/ disk[f] = apply[a].before[f]
  /\ apply[a].phase \in {"restarting", "applied"} => disk[f] = apply[a].after[f]
  /\ apply[a].phase = "failed" =>
       f \in apply[a].stranded \/ disk[f] = apply[a].before[f]

\* The inductive invariant: whoever holds the lock knows what is on disk.
CommitIInv ==
  /\ CommitTypeOK
  /\ \A a \in Applies :
       /\ Holding(a)
       /\ apply[a].phase \in {"restarting", "applied"} => Accepts(disk)
       /\ \A f \in Files : Standing(a, f)
=============================================================================
