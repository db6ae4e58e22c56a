--------------------------- MODULE InstanceInitProofs ---------------------------
(***************************************************************************)
(* Proofs about a database instance, for any passwords and any number of   *)
(* reset commands: a datadir that is in place has its root password set,   *)
(* and the password is known, outside the cases the properties name.  With *)
(* the fairness of the specification an attempt ends.                      *)
(***************************************************************************)
EXTENDS InstanceInit, Integers, TLAPS

\* Goto moves the attempt and leaves the rest of it alone.
LEMMA GotoMoves ==
  ASSUME TypeOK, NEW pc \in Steps \cup Ended \cup {"none"}, Goto(pc)
  PROVE  /\ task' \in Task /\ task'.pc = pc
         /\ task'.pw = task.pw /\ task'.aborted = task.aborted
BY DEF TypeOK, Goto, Task

\* A failure ends the attempt and its server and leaves the datadir alone.
LEMMA FailsMoves ==
  ASSUME TypeOK, Fails
  PROVE  /\ task' \in Task /\ task'.pc = "failed"
         /\ server' = "none" /\ staged' = None /\ litter' \in BOOLEAN
         /\ UNCHANGED <<place, stray, loose>>
<1>1. "failed" \in Steps \cup Ended \cup {"none"}
  BY DEF Ended
<1> QED BY <1>1, GotoMoves DEF Fails, TypeOK

\* What stands for no attempt and no reset is well formed.
LEMMA NothingIsTyped ==
  /\ NoTask \in Task /\ NoTask.pc = "none"
  /\ NoReset \in ResetCall /\ NoReset.pc = "idle"
BY DEF NoTask, Task, NoReset, ResetCall

\* SetReset moves one reset and no other.
LEMMA SetResetMoves ==
  ASSUME TypeOK, NEW r \in Resets, NEW rec \in ResetCall, SetReset(r, rec)
  PROVE  /\ reset' \in [Resets -> ResetCall] /\ reset'[r] = rec
         /\ \A s \in Resets \ {r} : reset'[s] = reset[s]
BY DEF TypeOK, SetReset

\* A fresh password is one.
LEMMA FreshIsTyped == Fresh \subseteq Passwords
BY DEF Fresh

\* The attempt that has chosen its password is well formed.
LEMMA PasswordMoves ==
  ASSUME TypeOK, NEW p \in Passwords,
         task' = [task EXCEPT !.pc = "stopping", !.pw = p]
  PROVE  /\ task' \in Task /\ task'.pc = "stopping"
         /\ task'.pw = p /\ task'.aborted = task.aborted
BY DEF TypeOK, Task, Steps

\* A dropped attempt is well formed.
LEMMA CancelMoves ==
  ASSUME TypeOK, TakeAbort
  PROVE  /\ task' \in Task /\ task'.pc = "cancelled" /\ task'.pw = task.pw
         /\ litter' \in BOOLEAN /\ loose' \in BOOLEAN
<1>1. Goto("cancelled") /\ "cancelled" \in Steps \cup Ended \cup {"none"}
  BY DEF TakeAbort, Ended
<1>2. task' \in Task /\ task'.pc = "cancelled" /\ task'.pw = task.pw
  BY <1>1, GotoMoves
<1>3. litter' \in BOOLEAN
  BY Zenon DEF TakeAbort
<1>4. loose' \in BOOLEAN
  BY Zenon DEF TakeAbort
<1> QED BY <1>2, <1>3, <1>4

\* What is left when the process is gone is well formed.
LEMMA DeadIsTyped ==
  ASSUME IInv, Dead
  PROVE  TypeOK'
<1> USE DEF IInv
<1>1. reset' \in [Resets -> ResetCall]
  BY NothingIsTyped DEF Dead
<1>2. task' \in Task
  BY NothingIsTyped DEF Dead
<1>3. litter' \in BOOLEAN
  BY Zenon DEF Dead
<1>4. loose' \in BOOLEAN
  BY Zenon DEF Dead
<1>5. past' \in [strayed : BOOLEAN, lost : BOOLEAN, overlap : BOOLEAN]
  BY DEF Dead, TypeOK
<1>6. stray' \in Passwords \cup {Empty, None}
  <2>1. server # "none" => staged # Partial
    BY DEF RunIsOurs, EndedRunIsAlone
  <2> QED BY <2>1 DEF Dead, TypeOK
<1> QED BY <1>1, <1>2, <1>3, <1>4, <1>5, <1>6 DEF Dead, TypeOK, place

\* A reset's step moves no other reset and forgets no history.
LEMMA ResetMoves ==
  ASSUME IInv, NEW r \in Resets, Reset(r)
  PROVE  /\ reset' \in [Resets -> ResetCall]
         /\ \A s \in Resets \ {r} : reset'[s] = reset[s]
         /\ past' \in [strayed : BOOLEAN, lost : BOOLEAN, overlap : BOOLEAN]
         /\ past'.strayed = past.strayed
         /\ past.lost => past'.lost
         /\ past.overlap => past'.overlap
<1> USE DEF IInv
<1>1. CASE ResetReads(r)
  <2>1. [NoReset EXCEPT !.pc = "read", !.old = stored] \in ResetCall
    BY DEF NoReset, ResetCall, TypeOK
  <2> QED BY <1>1, <2>1, SetResetMoves DEF ResetReads, TypeOK
<1>2. CASE ResetConnects(r)
  <2>1. reset[r] \in ResetCall
    BY DEF TypeOK
  <2>2. [reset[r] EXCEPT !.pc = "connected"] \in ResetCall
    BY <2>1 DEF ResetCall
  <2>3. PICK rec \in ResetCall : SetReset(r, rec)
    BY <1>2, <2>2, NothingIsTyped DEF ResetConnects
  <2>4. \/ past' = past
        \/ past' = [past EXCEPT !.overlap = @ \/ \E s \in Resets : Writing(s)]
    BY <1>2 DEF ResetConnects
  <2>5. (past.overlap \/ \E s \in Resets : Writing(s)) \in BOOLEAN
    BY Zenon
  <2>6. /\ past' \in [strayed : BOOLEAN, lost : BOOLEAN, overlap : BOOLEAN]
        /\ past'.strayed = past.strayed /\ past'.lost = past.lost
        /\ past.overlap => past'.overlap
    BY <2>4, <2>5 DEF TypeOK
  <2> QED BY <2>3, <2>6, SetResetMoves
<1>3. CASE ResetAlters(r)
  <2>1. reset[r] \in ResetCall
    BY DEF TypeOK
  <2>2. \A p \in Fresh :
          [reset[r] EXCEPT !.pc = "altered", !.new = p] \in ResetCall
    BY <2>1, FreshIsTyped DEF ResetCall
  <2>3. PICK rec \in ResetCall : SetReset(r, rec)
    BY <1>3, <2>2, NothingIsTyped DEF ResetAlters
  <2>4. past' = past \/ past' = [past EXCEPT !.lost = TRUE]
    BY <1>3 DEF ResetAlters
  <2> QED BY <2>3, <2>4, SetResetMoves DEF TypeOK
<1>4. CASE ResetStores(r)
  <2>1. SetReset(r, NoReset)
    BY <1>4 DEF ResetStores
  <2>2. past' = past \/ past' = [past EXCEPT !.lost = TRUE]
    BY <1>4 DEF ResetStores
  <2> QED BY <2>1, <2>2, NothingIsTyped, SetResetMoves DEF TypeOK
<1> QED BY <1>1, <1>2, <1>3, <1>4 DEF Reset

\* The attempt's steps.
LEMMA AttemptKeeps ==
  ASSUME IInv, Attempt
  PROVE  IInv'
<1> USE InstanceAssumption DEF IInv
<1>1. CASE Render
  <2>1. TypeOK'
    BY <1>1, GotoMoves, FailsMoves
       DEF Render, TypeOK, At, Alive, Steps, Ended, place, staging
  <2>2. RunIsOurs'
    BY <1>1, GotoMoves, FailsMoves
       DEF Render, TypeOK, RunIsOurs, At, Alive, Steps, Ended, place, staging
  <2>3. EndedRunIsAlone'
    BY <1>1, GotoMoves, FailsMoves
       DEF Render, TypeOK, RunIsOurs, EndedRunIsAlone, At, Alive, Steps, Ended,
           place, staging
  <2>4. RowMeansReady'
    BY <1>1, GotoMoves, FailsMoves
       DEF Render, TypeOK, RunIsOurs, RowMeansReady, At, Alive, Steps, Ended,
           place, staging
  <2>5. OwnWork'
    BY <1>1, GotoMoves, FailsMoves
       DEF Render, TypeOK, RunIsOurs, OwnWork, Writing, At, Alive, Steps,
           Ended, place, staging
  <2>6. ReadyIsLocked'
    BY <1>1, GotoMoves, FailsMoves
       DEF Render, TypeOK, RunIsOurs, OwnWork, ReadyIsLocked, At, Alive, Steps,
           Ended, place, staging
  <2>7. CredentialHeld'
    BY <1>1, GotoMoves, FailsMoves
       DEF Render, TypeOK, RunIsOurs, OwnWork, Writing, CredentialHeld, At,
           Alive, Steps, Ended, place, staging
  <2> QED BY <2>1, <2>2, <2>3, <2>4, <2>5, <2>6, <2>7
<1>2. CASE Initialize
  <2>1. TypeOK'
    BY <1>2, GotoMoves, FailsMoves
       DEF Initialize, TypeOK, At, Alive, Steps, Ended, place, staging
  <2>2. RunIsOurs'
    BY <1>2, GotoMoves, FailsMoves
       DEF Initialize, TypeOK, RunIsOurs, At, Alive, Steps, Ended, place,
           staging
  <2>3. EndedRunIsAlone'
    BY <1>2, GotoMoves, FailsMoves
       DEF Initialize, TypeOK, RunIsOurs, EndedRunIsAlone, At, Alive, Steps,
           Ended, place, staging
  <2>4. RowMeansReady'
    BY <1>2, GotoMoves, FailsMoves
       DEF Initialize, TypeOK, RunIsOurs, RowMeansReady, At, Alive, Steps,
           Ended, place, staging
  <2>5. OwnWork'
    BY <1>2, GotoMoves, FailsMoves
       DEF Initialize, TypeOK, RunIsOurs, OwnWork, Writing, At, Alive, Steps,
           Ended, place, staging
  <2>6. ReadyIsLocked'
    BY <1>2, GotoMoves, FailsMoves
       DEF Initialize, TypeOK, RunIsOurs, OwnWork, ReadyIsLocked, At, Alive,
           Steps, Ended, place, staging
  <2>7. CredentialHeld'
    BY <1>2, GotoMoves, FailsMoves
       DEF Initialize, TypeOK, RunIsOurs, OwnWork, Writing, CredentialHeld, At,
           Alive, Steps, Ended, place, staging
  <2> QED BY <2>1, <2>2, <2>3, <2>4, <2>5, <2>6, <2>7
<1>3. CASE Poll
  <2>1. TypeOK'
    BY <1>3, GotoMoves, FailsMoves
       DEF Poll, TypeOK, At, Alive, Steps, Ended, place, staging
  <2>2. RunIsOurs'
    BY <1>3, GotoMoves, FailsMoves
       DEF Poll, TypeOK, RunIsOurs, At, Alive, Steps, Ended, place, staging
  <2>3. EndedRunIsAlone'
    BY <1>3, GotoMoves, FailsMoves
       DEF Poll, TypeOK, RunIsOurs, EndedRunIsAlone, At, Alive, Steps, Ended,
           place, staging
  <2>4. RowMeansReady'
    BY <1>3, GotoMoves, FailsMoves
       DEF Poll, TypeOK, RunIsOurs, RowMeansReady, At, Alive, Steps, Ended,
           place, staging
  <2>5. OwnWork'
    BY <1>3, GotoMoves, FailsMoves
       DEF Poll, TypeOK, RunIsOurs, OwnWork, Writing, At, Alive, Steps, Ended,
           place, staging
  <2>6. ReadyIsLocked'
    BY <1>3, GotoMoves, FailsMoves
       DEF Poll, TypeOK, RunIsOurs, OwnWork, ReadyIsLocked, At, Alive, Steps,
           Ended, place, staging
  <2>7. CredentialHeld'
    BY <1>3, GotoMoves, FailsMoves
       DEF Poll, TypeOK, RunIsOurs, OwnWork, Writing, CredentialHeld, At,
           Alive, Steps, Ended, place, staging
  <2> QED BY <2>1, <2>2, <2>3, <2>4, <2>5, <2>6, <2>7
<1>4. CASE SetPassword
  <2>1. TypeOK'
    <3>1. CASE Fails
      BY <1>4, <3>1, FailsMoves
         DEF SetPassword, TypeOK, place, staging
    <3>2. CASE ~Fails
      <4>1. PICK p \in Fresh :
              /\ task' = [task EXCEPT !.pc = "stopping", !.pw = p]
              /\ \/ staged' = p /\ stray' = stray
                 \/ stray' = p /\ staged' = staged
              /\ UNCHANGED <<place, litter, server, loose>>
        BY <1>4, <3>2 DEF SetPassword
      <4>2. p \in Passwords /\ task' \in Task
        BY <4>1, FreshIsTyped, PasswordMoves
      <4>3. litter' \in BOOLEAN /\ loose' \in BOOLEAN
        BY <4>1 DEF TypeOK
      <4>4. UNCHANGED <<engine, stored, row, op, reset, app, past>>
        BY <1>4 DEF SetPassword
      <4> QED BY <4>1, <4>2, <4>3, <4>4 DEF TypeOK, place
    <3> QED BY <3>1, <3>2
  <2>2. RunIsOurs'
    <3>1. UNCHANGED <<engine, stored, row, op, reset, app, past, place>>
      BY <1>4, FailsMoves DEF SetPassword
    <3>2. task.pc = "setting" /\ Alive
      BY <1>4 DEF SetPassword, At
    <3>3. CASE Fails
      BY <3>1, <3>2, <3>3, FailsMoves
         DEF RunIsOurs, Alive, Steps, Ended, place
    <3>4. CASE ~Fails
      <4>1. PICK p \in Fresh :
              /\ task' = [task EXCEPT !.pc = "stopping", !.pw = p]
              /\ staged' \in {p, staged}
        BY <1>4, <3>4 DEF SetPassword
      <4>2. p \in Passwords /\ task'.pc = "stopping" /\ task'.pw = p
        BY <4>1, FreshIsTyped, PasswordMoves
      <4> QED BY <3>1, <3>2, <4>1, <4>2 DEF RunIsOurs, Alive, Steps, place
    <3> QED BY <3>3, <3>4
  <2>3. EndedRunIsAlone'
    BY <1>4, FailsMoves, FreshIsTyped, PasswordMoves
       DEF SetPassword, Answering, TypeOK, RunIsOurs, EndedRunIsAlone, At,
           Alive, Steps, Ended, place, staging
  <2>4. RowMeansReady'
    BY <1>4, FailsMoves, FreshIsTyped, PasswordMoves
       DEF SetPassword, Answering, TypeOK, RunIsOurs, RowMeansReady, At, Alive,
           Steps, Ended, place, staging
  <2>5. OwnWork'
    BY <1>4, FailsMoves, FreshIsTyped, PasswordMoves
       DEF SetPassword, Answering, TypeOK, RunIsOurs, OwnWork, Writing, At,
           Alive, Steps, Ended, place, staging
  <2>6. ReadyIsLocked'
    BY <1>4, FailsMoves, FreshIsTyped, PasswordMoves
       DEF SetPassword, Answering, TypeOK, RunIsOurs, OwnWork, ReadyIsLocked,
           At, Alive, Steps, Ended, place, staging
  <2>7. CredentialHeld'
    <3>1. UNCHANGED <<place, past, stored, reset>> /\ task.pc = "setting"
      BY <1>4, FailsMoves DEF SetPassword, At
    <3> QED BY <3>1 DEF CredentialHeld, place
  <2> QED BY <2>1, <2>2, <2>3, <2>4, <2>5, <2>6, <2>7
<1>5. CASE Shutdown
  <2>1. TypeOK'
    BY <1>5, GotoMoves, FailsMoves
       DEF Shutdown, Answering, TypeOK, At, Alive, Steps, Ended, place, staging
  <2>2. RunIsOurs'
    BY <1>5, GotoMoves, FailsMoves
       DEF Shutdown, Answering, TypeOK, RunIsOurs, At, Alive, Steps, Ended,
           place, staging
  <2>3. EndedRunIsAlone'
    BY <1>5, GotoMoves, FailsMoves
       DEF Shutdown, Answering, TypeOK, RunIsOurs, EndedRunIsAlone, At, Alive,
           Steps, Ended, place, staging
  <2>4. RowMeansReady'
    BY <1>5, GotoMoves, FailsMoves
       DEF Shutdown, Answering, TypeOK, RunIsOurs, RowMeansReady, At, Alive,
           Steps, Ended, place, staging
  <2>5. OwnWork'
    BY <1>5, GotoMoves, FailsMoves
       DEF Shutdown, Answering, TypeOK, RunIsOurs, OwnWork, Writing, At, Alive,
           Steps, Ended, place, staging
  <2>6. ReadyIsLocked'
    BY <1>5, GotoMoves, FailsMoves
       DEF Shutdown, Answering, TypeOK, RunIsOurs, OwnWork, ReadyIsLocked, At,
           Alive, Steps, Ended, place, staging
  <2>7. CredentialHeld'
    BY <1>5, GotoMoves, FailsMoves
       DEF Shutdown, Answering, TypeOK, RunIsOurs, OwnWork, Writing,
           CredentialHeld, At, Alive, Steps, Ended, place, staging
  <2> QED BY <2>1, <2>2, <2>3, <2>4, <2>5, <2>6, <2>7
<1>6. CASE AwaitExit
  <2>1. TypeOK'
    BY <1>6, GotoMoves, FailsMoves
       DEF AwaitExit, TypeOK, At, Alive, Steps, Ended, place, staging
  <2>2. RunIsOurs'
    BY <1>6, GotoMoves, FailsMoves
       DEF AwaitExit, TypeOK, RunIsOurs, At, Alive, Steps, Ended, place,
           staging
  <2>3. EndedRunIsAlone'
    BY <1>6, GotoMoves, FailsMoves
       DEF AwaitExit, TypeOK, RunIsOurs, EndedRunIsAlone, At, Alive, Steps,
           Ended, place, staging
  <2>4. RowMeansReady'
    BY <1>6, GotoMoves, FailsMoves
       DEF AwaitExit, TypeOK, RunIsOurs, RowMeansReady, At, Alive, Steps,
           Ended, place, staging
  <2>5. OwnWork'
    BY <1>6, GotoMoves, FailsMoves
       DEF AwaitExit, TypeOK, RunIsOurs, OwnWork, Writing, At, Alive, Steps,
           Ended, place, staging
  <2>6. ReadyIsLocked'
    BY <1>6, GotoMoves, FailsMoves
       DEF AwaitExit, TypeOK, RunIsOurs, OwnWork, ReadyIsLocked, At, Alive,
           Steps, Ended, place, staging
  <2>7. CredentialHeld'
    BY <1>6, GotoMoves, FailsMoves
       DEF AwaitExit, TypeOK, RunIsOurs, OwnWork, Writing, CredentialHeld, At,
           Alive, Steps, Ended, place, staging
  <2> QED BY <2>1, <2>2, <2>3, <2>4, <2>5, <2>6, <2>7
<1>7. CASE Finalize
  <2>1. TypeOK'
    BY <1>7, GotoMoves, FailsMoves
       DEF Finalize, TypeOK, At, Alive, Steps, Ended, place, staging
  <2>2. RunIsOurs'
    BY <1>7, GotoMoves, FailsMoves
       DEF Finalize, TypeOK, RunIsOurs, At, Alive, Steps, Ended, place, staging
  <2>3. EndedRunIsAlone'
    BY <1>7, GotoMoves, FailsMoves
       DEF Finalize, TypeOK, RunIsOurs, EndedRunIsAlone, At, Alive, Steps,
           Ended, place, staging
  <2>4. RowMeansReady'
    BY <1>7, GotoMoves, FailsMoves
       DEF Finalize, TypeOK, RunIsOurs, RowMeansReady, At, Alive, Steps, Ended,
           place, staging
  <2>5. OwnWork'
    BY <1>7, GotoMoves, FailsMoves
       DEF Finalize, TypeOK, RunIsOurs, OwnWork, Writing, At, Alive, Steps,
           Ended, place, staging
  <2>6. ReadyIsLocked'
    <3>1. CASE Fails
      BY <1>7, <3>1, FailsMoves DEF Finalize, ReadyIsLocked, place
    <3>2. CASE ~Fails
      <4>1. root' = staged /\ past' = past /\ task.pc = "finalizing"
        BY <1>7, <3>2 DEF Finalize, At
      <4>2. task.pw # None /\ task.pw \in Passwords \cup {None}
        BY <4>1 DEF RunIsOurs, TypeOK, Task
      <4>3. ~past.strayed => staged = task.pw
        BY <4>1 DEF OwnWork
      <4> QED BY <4>1, <4>2, <4>3 DEF ReadyIsLocked
    <3> QED BY <3>1, <3>2
  <2>7. CredentialHeld'
    BY <1>7, GotoMoves, FailsMoves
       DEF Finalize, TypeOK, RunIsOurs, OwnWork, Writing, CredentialHeld, At,
           Alive, Steps, Ended, place, staging
  <2> QED BY <2>1, <2>2, <2>3, <2>4, <2>5, <2>6, <2>7
<1>8. CASE TakeAbort
  <2>1. TypeOK'
    BY <1>8, CancelMoves
       DEF TakeAbort, TypeOK, At, Alive, Steps, Ended, place, staging
  <2>2. RunIsOurs'
    BY <1>8, CancelMoves
       DEF TakeAbort, TypeOK, RunIsOurs, At, Alive, Steps, Ended, place,
           staging
  <2>3. EndedRunIsAlone'
    BY <1>8, CancelMoves
       DEF TakeAbort, TypeOK, RunIsOurs, EndedRunIsAlone, At, Alive, Steps,
           Ended, place, staging
  <2>4. RowMeansReady'
    BY <1>8, CancelMoves
       DEF TakeAbort, TypeOK, RunIsOurs, RowMeansReady, At, Alive, Steps,
           Ended, place, staging
  <2>5. OwnWork'
    BY <1>8, CancelMoves
       DEF TakeAbort, TypeOK, RunIsOurs, OwnWork, Writing, At, Alive, Steps,
           Ended, place, staging
  <2>6. ReadyIsLocked'
    BY <1>8, CancelMoves
       DEF TakeAbort, TypeOK, RunIsOurs, OwnWork, ReadyIsLocked, At, Alive,
           Steps, Ended, place, staging
  <2>7. CredentialHeld'
    BY <1>8, CancelMoves
       DEF TakeAbort, TypeOK, RunIsOurs, OwnWork, Writing, CredentialHeld, At,
           Alive, Steps, Ended, place, staging
  <2> QED BY <2>1, <2>2, <2>3, <2>4, <2>5, <2>6, <2>7
<1> QED BY <1>1, <1>2, <1>3, <1>4, <1>5, <1>6, <1>7, <1>8 DEF Attempt

\* A sweep with no command under the lock finds no attempt's staging directory.
LEMMA SweepFindsLitter ==
  ASSUME IInv, Sweep, op = "idle"
  PROVE  staged = None /\ staged' = None /\ litter' \in BOOLEAN
<1>1. task.pc = "none"
  BY DEF IInv, RunIsOurs
<1>2. staged = None
  BY <1>1 DEF IInv, RunIsOurs, Steps
<1>3. litter' \in BOOLEAN
  BY DEF Sweep, IInv, TypeOK
<1> QED BY <1>2, <1>3 DEF Sweep

\* The commands under the guard.
LEMMA CommandKeeps ==
  ASSUME IInv, Command \/ StartInit \/ StartRescan
  PROVE  IInv'
<1> USE InstanceAssumption DEF IInv
<1>1. CASE Wake
  <2>1. TypeOK'
    BY <1>1, NothingIsTyped
       DEF Wake, TypeOK, Alive, Steps, Ended, place, staging
  <2>2. RunIsOurs'
    BY <1>1, NothingIsTyped
       DEF Wake, TypeOK, RunIsOurs, Alive, Steps, Ended, place, staging
  <2>3. EndedRunIsAlone'
    BY <1>1, NothingIsTyped
       DEF Wake, TypeOK, RunIsOurs, EndedRunIsAlone, Alive, Steps, Ended,
           place, staging
  <2>4. RowMeansReady'
    BY <1>1, NothingIsTyped
       DEF Wake, TypeOK, RunIsOurs, RowMeansReady, Alive, Steps, Ended, place,
           staging
  <2>5. OwnWork'
    BY <1>1, NothingIsTyped
       DEF Wake, TypeOK, RunIsOurs, OwnWork, Writing, Alive, Steps, Ended,
           place, staging
  <2>6. ReadyIsLocked'
    BY <1>1, NothingIsTyped
       DEF Wake, TypeOK, RunIsOurs, OwnWork, ReadyIsLocked, Alive, Steps,
           Ended, place, staging
  <2>7. CredentialHeld'
    BY <1>1, NothingIsTyped
       DEF Wake, TypeOK, RunIsOurs, OwnWork, Writing, CredentialHeld, Alive,
           Steps, Ended, place, staging
  <2> QED BY <2>1, <2>2, <2>3, <2>4, <2>5, <2>6, <2>7
<1>2. CASE Store
  <2>1. TypeOK'
    <3>1. task' \in Task
      BY <1>2, NothingIsTyped DEF Store, TypeOK
    <3>2. stored' \in Passwords \cup {None}
      BY <1>2 DEF Store, TypeOK, Task
    <3>3. past' \in [strayed : BOOLEAN, lost : BOOLEAN, overlap : BOOLEAN]
      BY <1>2 DEF Store, TypeOK
    <3> QED BY <1>2, <3>1, <3>2, <3>3 DEF Store, TypeOK, place, staging
  <2>2. RunIsOurs'
    BY <1>2, NothingIsTyped
       DEF Store, Task, TypeOK, RunIsOurs, Alive, Steps, Ended, place, staging
  <2>3. EndedRunIsAlone'
    BY <1>2, NothingIsTyped
       DEF Store, Task, TypeOK, RunIsOurs, EndedRunIsAlone, Alive, Steps,
           Ended, place, staging
  <2>4. RowMeansReady'
    BY <1>2, NothingIsTyped
       DEF Store, Task, TypeOK, RunIsOurs, RowMeansReady, Alive, Steps, Ended,
           place, staging
  <2>5. OwnWork'
    BY <1>2, NothingIsTyped
       DEF Store, Task, TypeOK, RunIsOurs, OwnWork, Writing, Alive, Steps,
           Ended, place, staging
  <2>6. ReadyIsLocked'
    BY <1>2, NothingIsTyped
       DEF Store, Task, TypeOK, RunIsOurs, OwnWork, ReadyIsLocked, Alive,
           Steps, Ended, place, staging
  <2>7. CredentialHeld'
    <3>1. task.pc = "initialized" /\ task.pw # None /\ data = "ready"
      BY <1>2 DEF Store, RunIsOurs
    <3>2. CASE stored' = task.pw /\ past' = past
      <4>1. stored = None /\ op = "storing"
        BY <1>2, <3>1 DEF Store, RunIsOurs
      <4> QED BY <1>2, <3>1, <3>2, <4>1 DEF Store, CredentialHeld, OwnWork, place
    <3>3. CASE past' = [past EXCEPT !.lost = TRUE]
      BY <1>2, <3>3 DEF Store, TypeOK, CredentialHeld
    <3> QED BY <1>2, <3>2, <3>3 DEF Store
  <2> QED BY <2>1, <2>2, <2>3, <2>4, <2>5, <2>6, <2>7
<1>3. CASE RegisterRow
  <2>1. TypeOK'
    BY <1>3, NothingIsTyped
       DEF RegisterRow, TypeOK, Alive, Steps, Ended, place, staging
  <2>2. RunIsOurs'
    BY <1>3, NothingIsTyped
       DEF RegisterRow, TypeOK, RunIsOurs, Alive, Steps, Ended, place, staging
  <2>3. EndedRunIsAlone'
    BY <1>3, NothingIsTyped
       DEF RegisterRow, TypeOK, RunIsOurs, EndedRunIsAlone, Alive, Steps,
           Ended, place, staging
  <2>4. RowMeansReady'
    BY <1>3, NothingIsTyped
       DEF RegisterRow, TypeOK, RunIsOurs, RowMeansReady, Alive, Steps, Ended,
           place, staging
  <2>5. OwnWork'
    BY <1>3, NothingIsTyped
       DEF RegisterRow, TypeOK, RunIsOurs, OwnWork, Writing, Alive, Steps,
           Ended, place, staging
  <2>6. ReadyIsLocked'
    BY <1>3, NothingIsTyped
       DEF RegisterRow, TypeOK, RunIsOurs, OwnWork, ReadyIsLocked, Alive,
           Steps, Ended, place, staging
  <2>7. CredentialHeld'
    BY <1>3 DEF RegisterRow, RunIsOurs, CredentialHeld, place
  <2> QED BY <2>1, <2>2, <2>3, <2>4, <2>5, <2>6, <2>7
<1>4. CASE Reconcile
  <2>1. TypeOK'
    BY <1>4
       DEF Reconcile, RowFor, TypeOK, Alive, Steps, Ended, place, staging
  <2>2. RunIsOurs'
    BY <1>4
       DEF Reconcile, RowFor, TypeOK, RunIsOurs, Alive, Steps, Ended, place,
           staging
  <2>3. EndedRunIsAlone'
    BY <1>4
       DEF Reconcile, RowFor, TypeOK, RunIsOurs, EndedRunIsAlone, Alive, Steps,
           Ended, place, staging
  <2>4. RowMeansReady'
    BY <1>4
       DEF Reconcile, RowFor, TypeOK, RunIsOurs, RowMeansReady, Alive, Steps,
           Ended, place, staging
  <2>5. OwnWork'
    BY <1>4
       DEF Reconcile, RowFor, TypeOK, RunIsOurs, OwnWork, Writing, Alive,
           Steps, Ended, place, staging
  <2>6. ReadyIsLocked'
    BY <1>4
       DEF Reconcile, RowFor, TypeOK, RunIsOurs, OwnWork, ReadyIsLocked, Alive,
           Steps, Ended, place, staging
  <2>7. CredentialHeld'
    BY <1>4
       DEF Reconcile, RowFor, TypeOK, RunIsOurs, OwnWork, Writing,
           CredentialHeld, Alive, Steps, Ended, place, staging
  <2> QED BY <2>1, <2>2, <2>3, <2>4, <2>5, <2>6, <2>7
<1>5. CASE StartInit
  <2>1. TypeOK'
    <3>1. task' \in Task
      BY <1>5 DEF StartInit, NoTask, Task, Steps
    <3> QED BY <1>5, <3>1 DEF StartInit, TypeOK, place, staging
  <2>2. RunIsOurs'
    BY <1>5
       DEF StartInit, NoTask, Task, TypeOK, RunIsOurs, Alive, Steps, Ended,
           place, staging
  <2>3. EndedRunIsAlone'
    BY <1>5
       DEF StartInit, NoTask, Task, TypeOK, RunIsOurs, EndedRunIsAlone, Alive,
           Steps, Ended, place, staging
  <2>4. RowMeansReady'
    BY <1>5
       DEF StartInit, NoTask, Task, TypeOK, RunIsOurs, RowMeansReady, Alive,
           Steps, Ended, place, staging
  <2>5. OwnWork'
    BY <1>5
       DEF StartInit, NoTask, Task, TypeOK, RunIsOurs, OwnWork, Writing, Alive,
           Steps, Ended, place, staging
  <2>6. ReadyIsLocked'
    BY <1>5
       DEF StartInit, NoTask, Task, TypeOK, RunIsOurs, OwnWork, ReadyIsLocked,
           Alive, Steps, Ended, place, staging
  <2>7. CredentialHeld'
    BY <1>5
       DEF StartInit, NoTask, Task, TypeOK, RunIsOurs, OwnWork, Writing,
           CredentialHeld, Alive, Steps, Ended, place, staging
  <2> QED BY <2>1, <2>2, <2>3, <2>4, <2>5, <2>6, <2>7
<1>6. CASE StartRescan
  <2>0. staged = None /\ staged' = None /\ litter' \in BOOLEAN
    BY <1>6, SweepFindsLitter DEF StartRescan
  <2>1. TypeOK'
    BY <1>6, <2>0 DEF StartRescan, TypeOK, place
  <2>2. RunIsOurs'
    BY <1>6, <2>0
       DEF StartRescan, TypeOK, RunIsOurs, Alive, Steps, Ended, place,
           staging
  <2>3. EndedRunIsAlone'
    BY <1>6, <2>0
       DEF StartRescan, TypeOK, RunIsOurs, EndedRunIsAlone, Alive,
           Steps, Ended, place, staging
  <2>4. RowMeansReady'
    BY <1>6, <2>0
       DEF StartRescan, TypeOK, RunIsOurs, RowMeansReady, Alive, Steps,
           Ended, place, staging
  <2>5. OwnWork'
    BY <1>6, <2>0
       DEF StartRescan, TypeOK, RunIsOurs, OwnWork, Writing, Alive,
           Steps, Ended, place, staging
  <2>6. ReadyIsLocked'
    BY <1>6, <2>0
       DEF StartRescan, TypeOK, RunIsOurs, OwnWork, ReadyIsLocked,
           Alive, Steps, Ended, place, staging
  <2>7. CredentialHeld'
    BY <1>6, <2>0
       DEF StartRescan, TypeOK, RunIsOurs, OwnWork, Writing,
           CredentialHeld, Alive, Steps, Ended, place, staging
  <2> QED BY <2>1, <2>2, <2>3, <2>4, <2>5, <2>6, <2>7
<1> QED BY <1>1, <1>2, <1>3, <1>4, <1>5, <1>6 DEF Command

\* The servers, the user, the quit and the crash.
LEMMA WorldKeeps ==
  ASSUME IInv, \/ ServerListens \/ ServerExits \/ LeftoverEnds \/ ServiceMoves
         \/ UserFills \/ StartQuit \/ Exit \/ Crash \/ Launch
  PROVE  IInv'
<1> USE InstanceAssumption DEF IInv
<1>1. CASE ServerListens
  <2>1. TypeOK'
    BY <1>1
       DEF ServerListens, TypeOK, Alive, Steps, Ended, place, staging
  <2>2. RunIsOurs'
    BY <1>1
       DEF ServerListens, TypeOK, RunIsOurs, Alive, Steps, Ended, place,
           staging
  <2>3. EndedRunIsAlone'
    BY <1>1
       DEF ServerListens, TypeOK, RunIsOurs, EndedRunIsAlone, Alive, Steps,
           Ended, place, staging
  <2>4. RowMeansReady'
    BY <1>1
       DEF ServerListens, TypeOK, RunIsOurs, RowMeansReady, Alive, Steps,
           Ended, place, staging
  <2>5. OwnWork'
    BY <1>1
       DEF ServerListens, TypeOK, RunIsOurs, OwnWork, Writing, Alive, Steps,
           Ended, place, staging
  <2>6. ReadyIsLocked'
    BY <1>1
       DEF ServerListens, TypeOK, RunIsOurs, OwnWork, ReadyIsLocked, Alive,
           Steps, Ended, place, staging
  <2>7. CredentialHeld'
    BY <1>1
       DEF ServerListens, TypeOK, RunIsOurs, OwnWork, Writing, CredentialHeld,
           Alive, Steps, Ended, place, staging
  <2> QED BY <2>1, <2>2, <2>3, <2>4, <2>5, <2>6, <2>7
<1>2. CASE ServerExits
  <2>1. TypeOK'
    BY <1>2
       DEF ServerExits, TypeOK, Alive, Steps, Ended, place, staging
  <2>2. RunIsOurs'
    BY <1>2
       DEF ServerExits, TypeOK, RunIsOurs, Alive, Steps, Ended, place, staging
  <2>3. EndedRunIsAlone'
    BY <1>2
       DEF ServerExits, TypeOK, RunIsOurs, EndedRunIsAlone, Alive, Steps,
           Ended, place, staging
  <2>4. RowMeansReady'
    BY <1>2
       DEF ServerExits, TypeOK, RunIsOurs, RowMeansReady, Alive, Steps, Ended,
           place, staging
  <2>5. OwnWork'
    BY <1>2
       DEF ServerExits, TypeOK, RunIsOurs, OwnWork, Writing, Alive, Steps,
           Ended, place, staging
  <2>6. ReadyIsLocked'
    BY <1>2
       DEF ServerExits, TypeOK, RunIsOurs, OwnWork, ReadyIsLocked, Alive,
           Steps, Ended, place, staging
  <2>7. CredentialHeld'
    BY <1>2
       DEF ServerExits, TypeOK, RunIsOurs, OwnWork, Writing, CredentialHeld,
           Alive, Steps, Ended, place, staging
  <2> QED BY <2>1, <2>2, <2>3, <2>4, <2>5, <2>6, <2>7
<1>3. CASE LeftoverEnds
  <2>1. TypeOK'
    <3>1. loose' \in BOOLEAN /\ stray' = None
      BY <1>3, Zenon DEF LeftoverEnds
    <3> QED BY <1>3, <3>1 DEF LeftoverEnds, TypeOK, place
  <2>2. RunIsOurs'
    BY <1>3
       DEF LeftoverEnds, TypeOK, RunIsOurs, Alive, Steps, Ended, place, staging
  <2>3. EndedRunIsAlone'
    BY <1>3
       DEF LeftoverEnds, TypeOK, RunIsOurs, EndedRunIsAlone, Alive, Steps,
           Ended, place, staging
  <2>4. RowMeansReady'
    BY <1>3
       DEF LeftoverEnds, TypeOK, RunIsOurs, RowMeansReady, Alive, Steps, Ended,
           place, staging
  <2>5. OwnWork'
    BY <1>3
       DEF LeftoverEnds, TypeOK, RunIsOurs, OwnWork, Writing, Alive, Steps,
           Ended, place, staging
  <2>6. ReadyIsLocked'
    BY <1>3
       DEF LeftoverEnds, TypeOK, RunIsOurs, OwnWork, ReadyIsLocked, Alive,
           Steps, Ended, place, staging
  <2>7. CredentialHeld'
    BY <1>3
       DEF LeftoverEnds, TypeOK, RunIsOurs, OwnWork, Writing, CredentialHeld,
           Alive, Steps, Ended, place, staging
  <2> QED BY <2>1, <2>2, <2>3, <2>4, <2>5, <2>6, <2>7
<1>4. CASE ServiceMoves
  <2>1. TypeOK'
    BY <1>4
       DEF ServiceMoves, TypeOK, Alive, Steps, Ended, place, staging
  <2>2. RunIsOurs'
    BY <1>4
       DEF ServiceMoves, TypeOK, RunIsOurs, Alive, Steps, Ended, place, staging
  <2>3. EndedRunIsAlone'
    BY <1>4
       DEF ServiceMoves, TypeOK, RunIsOurs, EndedRunIsAlone, Alive, Steps,
           Ended, place, staging
  <2>4. RowMeansReady'
    BY <1>4
       DEF ServiceMoves, TypeOK, RunIsOurs, RowMeansReady, Alive, Steps, Ended,
           place, staging
  <2>5. OwnWork'
    BY <1>4
       DEF ServiceMoves, TypeOK, RunIsOurs, OwnWork, Writing, Alive, Steps,
           Ended, place, staging
  <2>6. ReadyIsLocked'
    BY <1>4
       DEF ServiceMoves, TypeOK, RunIsOurs, OwnWork, ReadyIsLocked, Alive,
           Steps, Ended, place, staging
  <2>7. CredentialHeld'
    BY <1>4
       DEF ServiceMoves, TypeOK, RunIsOurs, OwnWork, Writing, CredentialHeld,
           Alive, Steps, Ended, place, staging
  <2> QED BY <2>1, <2>2, <2>3, <2>4, <2>5, <2>6, <2>7
<1>5. CASE UserFills
  <2>1. TypeOK'
    BY <1>5
       DEF UserFills, TypeOK, Alive, Steps, Ended, place, staging
  <2>2. RunIsOurs'
    BY <1>5
       DEF UserFills, TypeOK, RunIsOurs, Alive, Steps, Ended, place, staging
  <2>3. EndedRunIsAlone'
    BY <1>5
       DEF UserFills, TypeOK, RunIsOurs, EndedRunIsAlone, Alive, Steps, Ended,
           place, staging
  <2>4. RowMeansReady'
    BY <1>5
       DEF UserFills, TypeOK, RunIsOurs, RowMeansReady, Alive, Steps, Ended,
           place, staging
  <2>5. OwnWork'
    BY <1>5
       DEF UserFills, TypeOK, RunIsOurs, OwnWork, Writing, Alive, Steps, Ended,
           place, staging
  <2>6. ReadyIsLocked'
    BY <1>5
       DEF UserFills, TypeOK, RunIsOurs, OwnWork, ReadyIsLocked, Alive, Steps,
           Ended, place, staging
  <2>7. CredentialHeld'
    BY <1>5
       DEF UserFills, TypeOK, RunIsOurs, OwnWork, Writing, CredentialHeld,
           Alive, Steps, Ended, place, staging
  <2> QED BY <2>1, <2>2, <2>3, <2>4, <2>5, <2>6, <2>7
<1>6. CASE StartQuit
  <2>1. TypeOK'
    <3>1. task' \in Task
      <4>1. (task.pc \in Steps) \in BOOLEAN
        OBVIOUS
      <4> QED BY <1>6, <4>1 DEF StartQuit, TypeOK, Task
    <3> QED BY <1>6, <3>1 DEF StartQuit, TypeOK, place, staging
  <2>2. RunIsOurs'
    BY <1>6
       DEF StartQuit, Task, TypeOK, RunIsOurs, Alive, Steps, Ended, place,
           staging
  <2>3. EndedRunIsAlone'
    BY <1>6
       DEF StartQuit, Task, TypeOK, RunIsOurs, EndedRunIsAlone, Alive, Steps,
           Ended, place, staging
  <2>4. RowMeansReady'
    BY <1>6
       DEF StartQuit, Task, TypeOK, RunIsOurs, RowMeansReady, Alive, Steps,
           Ended, place, staging
  <2>5. OwnWork'
    BY <1>6
       DEF StartQuit, Task, TypeOK, RunIsOurs, OwnWork, Writing, Alive, Steps,
           Ended, place, staging
  <2>6. ReadyIsLocked'
    BY <1>6
       DEF StartQuit, Task, TypeOK, RunIsOurs, OwnWork, ReadyIsLocked, Alive,
           Steps, Ended, place, staging
  <2>7. CredentialHeld'
    BY <1>6
       DEF StartQuit, Task, TypeOK, RunIsOurs, OwnWork, Writing,
           CredentialHeld, Alive, Steps, Ended, place, staging
  <2> QED BY <2>1, <2>2, <2>3, <2>4, <2>5, <2>6, <2>7
<1>7. CASE Exit
  <2>1. TypeOK'
    BY <1>7, DeadIsTyped DEF Exit
  <2>2. RunIsOurs'
    BY <1>7, NothingIsTyped
       DEF Exit, Dead, TypeOK, RunIsOurs, Alive, Steps, Ended, place, staging
  <2>3. EndedRunIsAlone'
    BY <1>7, NothingIsTyped
       DEF Exit, Dead, TypeOK, RunIsOurs, EndedRunIsAlone, Alive, Steps, Ended,
           place, staging
  <2>4. RowMeansReady'
    BY <1>7, NothingIsTyped
       DEF Exit, Dead, TypeOK, RunIsOurs, RowMeansReady, Alive, Steps, Ended,
           place, staging
  <2>5. OwnWork'
    BY <1>7, NothingIsTyped
       DEF Exit, Dead, TypeOK, RunIsOurs, OwnWork, Writing, Alive, Steps,
           Ended, place, staging
  <2>6. ReadyIsLocked'
    BY <1>7, NothingIsTyped
       DEF Exit, Dead, TypeOK, RunIsOurs, OwnWork, ReadyIsLocked, Alive, Steps,
           Ended, place, staging
  <2>7. CredentialHeld'
    BY <1>7, NothingIsTyped
       DEF Exit, Dead, TypeOK, RunIsOurs, OwnWork, Writing, CredentialHeld,
           Alive, Steps, Ended, place, staging
  <2> QED BY <2>1, <2>2, <2>3, <2>4, <2>5, <2>6, <2>7
<1>8. CASE Crash
  <2>1. TypeOK'
    BY <1>8, DeadIsTyped DEF Crash
  <2>2. RunIsOurs'
    BY <1>8, NothingIsTyped
       DEF Crash, Dead, TypeOK, RunIsOurs, Alive, Steps, Ended, place, staging
  <2>3. EndedRunIsAlone'
    BY <1>8, NothingIsTyped
       DEF Crash, Dead, TypeOK, RunIsOurs, EndedRunIsAlone, Alive, Steps,
           Ended, place, staging
  <2>4. RowMeansReady'
    BY <1>8, NothingIsTyped
       DEF Crash, Dead, TypeOK, RunIsOurs, RowMeansReady, Alive, Steps, Ended,
           place, staging
  <2>5. OwnWork'
    BY <1>8, NothingIsTyped
       DEF Crash, Dead, TypeOK, RunIsOurs, OwnWork, Writing, Alive, Steps,
           Ended, place, staging
  <2>6. ReadyIsLocked'
    BY <1>8, NothingIsTyped
       DEF Crash, Dead, TypeOK, RunIsOurs, OwnWork, ReadyIsLocked, Alive,
           Steps, Ended, place, staging
  <2>7. CredentialHeld'
    BY <1>8, NothingIsTyped
       DEF Crash, Dead, TypeOK, RunIsOurs, OwnWork, Writing, CredentialHeld,
           Alive, Steps, Ended, place, staging
  <2> QED BY <2>1, <2>2, <2>3, <2>4, <2>5, <2>6, <2>7
<1>9. CASE Launch
  <2>0. staged = None /\ staged' = None /\ litter' \in BOOLEAN
    BY <1>9, SweepFindsLitter DEF Launch, RunIsOurs, Alive
  <2>1. TypeOK'
    <3>1. row' \in {"none", "down", "up"}
      BY <1>9 DEF Launch, RowFor
    <3> QED BY <1>9, <2>0, <3>1 DEF Launch, TypeOK, place
  <2>2. RunIsOurs'
    BY <1>9, <2>0
       DEF Launch, RowFor, TypeOK, RunIsOurs, Alive, Steps, Ended,
           place, staging
  <2>3. EndedRunIsAlone'
    BY <1>9, <2>0
       DEF Launch, RowFor, TypeOK, RunIsOurs, EndedRunIsAlone, Alive,
           Steps, Ended, place, staging
  <2>4. RowMeansReady'
    BY <1>9, <2>0
       DEF Launch, RowFor, TypeOK, RunIsOurs, RowMeansReady, Alive,
           Steps, Ended, place, staging
  <2>5. OwnWork'
    BY <1>9, <2>0
       DEF Launch, RowFor, TypeOK, RunIsOurs, OwnWork, Writing, Alive,
           Steps, Ended, place, staging
  <2>6. ReadyIsLocked'
    BY <1>9, <2>0
       DEF Launch, RowFor, TypeOK, RunIsOurs, OwnWork, ReadyIsLocked,
           Alive, Steps, Ended, place, staging
  <2>7. CredentialHeld'
    BY <1>9, <2>0
       DEF Launch, RowFor, TypeOK, RunIsOurs, OwnWork, Writing,
           CredentialHeld, Alive, Steps, Ended, place, staging
  <2> QED BY <2>1, <2>2, <2>3, <2>4, <2>5, <2>6, <2>7
<1> QED BY <1>1, <1>2, <1>3, <1>4, <1>5, <1>6, <1>7, <1>8, <1>9

\* The reset commands.
LEMMA ResetKeeps ==
  ASSUME IInv, NEW r \in Resets, Reset(r)
  PROVE  IInv'
<1> USE InstanceAssumption DEF IInv
<1>1. CASE ResetReads(r)
  <2>1. TypeOK'
    BY <1>1, ResetMoves DEF Reset, ResetReads, TypeOK, place, staging
  <2>2. RunIsOurs'
    BY <1>1, NothingIsTyped
       DEF ResetReads, SetReset, ResetCall, NoReset, TypeOK, RunIsOurs, Alive,
           Calling, place, staging
  <2>3. EndedRunIsAlone'
    BY <1>1, NothingIsTyped
       DEF ResetReads, SetReset, ResetCall, NoReset, TypeOK, RunIsOurs,
           EndedRunIsAlone, Alive, Calling, place, staging
  <2>4. RowMeansReady'
    BY <1>1, NothingIsTyped
       DEF ResetReads, SetReset, ResetCall, NoReset, TypeOK, RunIsOurs,
           RowMeansReady, Alive, Calling, place, staging
  <2>5. OwnWork'
    BY <1>1, NothingIsTyped
       DEF ResetReads, SetReset, ResetCall, NoReset, TypeOK, RunIsOurs,
           OwnWork, Writing, Alive, Calling, place, staging
  <2>6. ReadyIsLocked'
    BY <1>1, NothingIsTyped
       DEF ResetReads, SetReset, ResetCall, NoReset, TypeOK, RunIsOurs,
           OwnWork, ReadyIsLocked, Alive, Calling, place, staging
  <2>7. CredentialHeld'
    BY <1>1, NothingIsTyped
       DEF ResetReads, SetReset, ResetCall, NoReset, TypeOK, RunIsOurs,
           OwnWork, Writing, CredentialHeld, Alive, Calling, place, staging
  <2> QED BY <2>1, <2>2, <2>3, <2>4, <2>5, <2>6, <2>7
<1>2. CASE ResetConnects(r)
  <2>1. TypeOK'
    BY <1>2, ResetMoves DEF Reset, ResetConnects, TypeOK, place, staging
  <2>2. RunIsOurs'
    BY <1>2, NothingIsTyped
       DEF ResetConnects, SetReset, ResetCall, NoReset, TypeOK, RunIsOurs,
           Alive, Calling, place, staging
  <2>3. EndedRunIsAlone'
    BY <1>2, NothingIsTyped
       DEF ResetConnects, SetReset, ResetCall, NoReset, TypeOK, RunIsOurs,
           EndedRunIsAlone, Alive, Calling, place, staging
  <2>4. RowMeansReady'
    BY <1>2, NothingIsTyped
       DEF ResetConnects, SetReset, ResetCall, NoReset, TypeOK, RunIsOurs,
           RowMeansReady, Alive, Calling, place, staging
  <2>5. OwnWork'
    <3>1. UNCHANGED <<place, stored, staging, task>>
      BY <1>2 DEF ResetConnects
    <3>2. past'.strayed = past.strayed /\ (past.overlap => past'.overlap)
      BY <1>2, ResetMoves DEF Reset
    <3>3. \A s \in Resets \ {r} : reset'[s] = reset[s]
      BY <1>2, ResetMoves DEF Reset
    <3>4. CASE SetReset(r, NoReset)
      <4>1. reset'[r].pc = "idle"
        BY <3>4, NothingIsTyped, SetResetMoves
      <4> QED BY <3>1, <3>2, <3>3, <4>1 DEF OwnWork, Writing, place, staging
    <3>5. CASE SetReset(r, [reset[r] EXCEPT !.pc = "connected"])
               /\ past' = [past EXCEPT !.overlap = @ \/ \E s \in Resets : Writing(s)]
      <4>1. reset'[r].pc = "connected"
        BY <3>5 DEF SetReset, TypeOK, ResetCall
      <4>2. ~past'.overlap => \A s \in Resets : ~Writing(s)
        BY <3>5 DEF TypeOK
      <4> QED BY <3>1, <3>2, <3>3, <4>1, <4>2 DEF OwnWork, Writing, place, staging
    <3> QED BY <1>2, <3>4, <3>5 DEF ResetConnects
  <2>6. ReadyIsLocked'
    BY <1>2, NothingIsTyped
       DEF ResetConnects, SetReset, ResetCall, NoReset, TypeOK, RunIsOurs,
           OwnWork, ReadyIsLocked, Alive, Calling, place, staging
  <2>7. CredentialHeld'
    BY <1>2, NothingIsTyped
       DEF ResetConnects, SetReset, ResetCall, NoReset, TypeOK, RunIsOurs,
           OwnWork, Writing, CredentialHeld, Alive, Calling, place, staging
  <2> QED BY <2>1, <2>2, <2>3, <2>4, <2>5, <2>6, <2>7
<1>3. CASE ResetAlters(r)
  <2>1. TypeOK'
    <3>1. root' \in Passwords \cup {Empty, None} /\ data' = data
      BY <1>3, FreshIsTyped DEF ResetAlters, TypeOK, place
    <3>2. UNCHANGED <<engine, stored, row, staging, task, op, app>>
      BY <1>3 DEF ResetAlters
    <3> QED BY <1>3, <3>1, <3>2, ResetMoves DEF Reset, TypeOK, staging
  <2>2. RunIsOurs'
    <3>1. reset[r].pc = "connected" /\ data = "ready" /\ stored # None /\ root # None
      BY <1>3 DEF ResetAlters, Calling, RunIsOurs
    <3>2. data' = data /\ root' # None
      BY <1>3, <3>1, FreshIsTyped DEF ResetAlters, place
    <3>3. UNCHANGED <<engine, stored, row, staging, task, op, app>>
      BY <1>3 DEF ResetAlters
    <3>4. reset'[r].pc = "altered" => reset'[r].new # None
      <4>1. ASSUME NEW p \in Fresh,
                   SetReset(r, [reset[r] EXCEPT !.pc = "altered", !.new = p])
            PROVE  reset'[r].new = p
        BY <4>1 DEF SetReset, TypeOK, ResetCall
      <4>2. ASSUME SetReset(r, NoReset)
            PROVE  reset'[r].pc = "idle"
        BY <4>2, NothingIsTyped, SetResetMoves
      <4> QED BY <1>3, <4>1, <4>2, FreshIsTyped DEF ResetAlters
    <3>5. \A s \in Resets \ {r} : reset'[s] = reset[s]
      BY <1>3, ResetMoves DEF Reset
    <3> QED BY <3>1, <3>2, <3>3, <3>4, <3>5 DEF RunIsOurs, Alive, staging
  <2>3. EndedRunIsAlone'
    BY <1>3, NothingIsTyped, FreshIsTyped
       DEF ResetAlters, SetReset, ResetCall, NoReset, TypeOK, RunIsOurs,
           EndedRunIsAlone, Alive, Calling, place, staging
  <2>4. RowMeansReady'
    BY <1>3, NothingIsTyped, FreshIsTyped
       DEF ResetAlters, SetReset, ResetCall, NoReset, TypeOK, RunIsOurs,
           RowMeansReady, Alive, Calling, place, staging
  <2>5. OwnWork'
    <3>1. UNCHANGED <<stored, staging, task>> /\ reset[r].pc = "connected"
      BY <1>3 DEF ResetAlters, Calling
    <3>2. past'.strayed = past.strayed /\ (past.overlap => past'.overlap)
      BY <1>3, ResetMoves DEF Reset
    <3>3. /\ reset' \in [Resets -> ResetCall]
          /\ \A s \in Resets \ {r} : reset'[s] = reset[s]
      BY <1>3, ResetMoves DEF Reset
    <3>4. stored # None /\ Writing(r)
      BY <3>1 DEF RunIsOurs, Writing
    <3>5. \/ reset'[r].pc = "idle"
          \/ reset'[r].pc = "altered" /\ root' = reset'[r].new
      <4>1. ASSUME NEW p \in Fresh,
                   SetReset(r, [reset[r] EXCEPT !.pc = "altered", !.new = p])
            PROVE  reset'[r].pc = "altered" /\ reset'[r].new = p
        BY <4>1 DEF SetReset, TypeOK, ResetCall
      <4>2. ASSUME SetReset(r, NoReset)
            PROVE  reset'[r].pc = "idle"
        BY <4>2, NothingIsTyped, SetResetMoves
      <4> QED BY <1>3, <4>1, <4>2 DEF ResetAlters
    <3>6. ~past.overlap => \A s \in Resets \ {r} : ~Writing(s)
      BY <3>4 DEF OwnWork
    <3> QED BY <3>1, <3>2, <3>3, <3>4, <3>5, <3>6
          DEF OwnWork, RunIsOurs, Writing, staging
  <2>6. ReadyIsLocked'
    BY <1>3, NothingIsTyped, FreshIsTyped
       DEF ResetAlters, SetReset, ResetCall, NoReset, TypeOK, RunIsOurs,
           OwnWork, ReadyIsLocked, Alive, Calling, place, staging
  <2>7. CredentialHeld'
    <3>1. CASE past'.lost
      BY <3>1 DEF CredentialHeld
    <3>2. CASE \E p \in Fresh : root' = p /\ UNCHANGED <<data, past>>
                 /\ SetReset(r, [reset[r] EXCEPT !.pc = "altered", !.new = p])
      BY <3>2 DEF SetReset, TypeOK, ResetCall, CredentialHeld
    <3>3. CASE SetReset(r, NoReset) /\ UNCHANGED <<place, past>>
      <4>1. /\ UNCHANGED <<stored, task>> /\ reset[r].pc = "connected"
            /\ \A s \in Resets \ {r} : reset'[s] = reset[s]
        BY <1>3, ResetMoves DEF Reset, ResetAlters, Calling
      <4> QED BY <3>3, <4>1 DEF CredentialHeld, place
    <3>4. past' = [past EXCEPT !.lost = TRUE] => past'.lost
      BY DEF TypeOK
    <3> QED BY <1>3, <3>1, <3>2, <3>3, <3>4 DEF ResetAlters
  <2> QED BY <2>1, <2>2, <2>3, <2>4, <2>5, <2>6, <2>7
<1>4. CASE ResetStores(r)
  <2>1. TypeOK'
    <3>1. reset[r].new \in Passwords \cup {None}
      BY DEF TypeOK, ResetCall
    <3>2. stored' \in Passwords \cup {None}
      BY <1>4, <3>1 DEF ResetStores, TypeOK
    <3> QED BY <1>4, <3>2, ResetMoves DEF Reset, ResetStores, TypeOK, place, staging
  <2>2. RunIsOurs'
    <3>1. reset[r].pc = "altered" /\ data = "ready" /\ stored # None
      BY <1>4 DEF ResetStores, Calling, RunIsOurs
    <3>2. stored' # None
      BY <1>4, <3>1 DEF ResetStores, RunIsOurs
    <3>3. UNCHANGED <<engine, place, row, staging, task, op, app>>
      BY <1>4 DEF ResetStores
    <3>4. reset'[r].pc = "idle" /\ \A s \in Resets \ {r} : reset'[s] = reset[s]
      BY <1>4, NothingIsTyped, SetResetMoves DEF ResetStores
    <3> QED BY <3>1, <3>2, <3>3, <3>4 DEF RunIsOurs, Alive, place, staging
  <2>3. EndedRunIsAlone'
    BY <1>4, NothingIsTyped
       DEF ResetStores, SetReset, ResetCall, NoReset, TypeOK, RunIsOurs,
           EndedRunIsAlone, Alive, Calling, place, staging
  <2>4. RowMeansReady'
    BY <1>4, NothingIsTyped
       DEF ResetStores, SetReset, ResetCall, NoReset, TypeOK, RunIsOurs,
           RowMeansReady, Alive, Calling, place, staging
  <2>5. OwnWork'
    <3>1. UNCHANGED <<place, staging, task>>
      BY <1>4 DEF ResetStores
    <3>2. past'.strayed = past.strayed /\ (past.overlap => past'.overlap)
      BY <1>4, ResetMoves DEF Reset
    <3>3. reset'[r].pc = "idle" /\ \A s \in Resets \ {r} : reset'[s] = reset[s]
      BY <1>4, NothingIsTyped, SetResetMoves DEF ResetStores
    <3>4. stored # None
      BY <1>4 DEF ResetStores, Calling, RunIsOurs
    <3>5. stored' # None
      BY <1>4, <3>4 DEF ResetStores, Calling, RunIsOurs
    <3> QED BY <3>1, <3>2, <3>3, <3>4, <3>5 DEF OwnWork, Writing, place, staging
  <2>6. ReadyIsLocked'
    BY <1>4, NothingIsTyped
       DEF ResetStores, SetReset, ResetCall, NoReset, TypeOK, RunIsOurs,
           OwnWork, ReadyIsLocked, Alive, Calling, place, staging
  <2>7. CredentialHeld'
    BY <1>4, NothingIsTyped
       DEF ResetStores, SetReset, ResetCall, NoReset, TypeOK, RunIsOurs,
           OwnWork, Writing, CredentialHeld, Alive, Calling, place, staging
  <2> QED BY <2>1, <2>2, <2>3, <2>4, <2>5, <2>6, <2>7
<1> QED BY <1>1, <1>2, <1>3, <1>4 DEF Reset

\* Stuttering changes nothing an invariant reads.
LEMMA StutterKeeps ==
  ASSUME IInv, UNCHANGED vars
  PROVE  IInv'
BY DEF IInv, TypeOK, RunIsOurs, EndedRunIsAlone, RowMeansReady, OwnWork, Writing,
       ReadyIsLocked, CredentialHeld, Alive, vars, place, staging

\* The invariant holds when the app has started.
LEMMA InitHolds == Init => IInv
<1> SUFFICES ASSUME Init PROVE IInv
  OBVIOUS
<1>1. TypeOK
  BY NothingIsTyped DEF Init, TypeOK
<1>2. RunIsOurs /\ EndedRunIsAlone /\ RowMeansReady
  BY NothingIsTyped, InstanceAssumption
     DEF Init, RunIsOurs, EndedRunIsAlone, RowMeansReady, Alive
<1>3. OwnWork /\ ReadyIsLocked /\ CredentialHeld
  BY NothingIsTyped DEF Init, OwnWork, Writing, ReadyIsLocked, CredentialHeld
<1> QED BY <1>1, <1>2, <1>3 DEF IInv

\* Every step keeps it.
LEMMA NextKeeps == IInv /\ [Next]_vars => IInv'
<1> SUFFICES ASSUME IInv, [Next]_vars PROVE IInv'
  OBVIOUS
<1>1. CASE Attempt
  BY <1>1, AttemptKeeps
<1>2. CASE Command \/ StartInit \/ StartRescan
  BY <1>2, CommandKeeps
<1>3. CASE \E r \in Resets : Reset(r)
  BY <1>3, ResetKeeps
<1>4. CASE \/ ServerListens \/ ServerExits \/ LeftoverEnds \/ ServiceMoves
           \/ UserFills \/ StartQuit \/ Exit \/ Crash \/ Launch
  BY <1>4, WorldKeeps
<1>5. CASE UNCHANGED vars
  BY <1>5, StutterKeeps
<1> QED BY <1>1, <1>2, <1>3, <1>4, <1>5 DEF Next

\* The invariant behind the others: whose the attempt is, what it does at the
\* socket, and who has the password.
THEOREM InstanceInvariant == Spec => []IInv
BY InitHolds, NextKeeps, PTL DEF Spec

\* A datadir in place has its root password set (run_mysql_init and
\* initialize_mariadb), unless a temporary server has outlived its app.
THEOREM ReadyLocked == Spec => []ReadyIsLocked
<1>1. IInv => ReadyIsLocked
  BY DEF IInv
<1> QED BY <1>1, InstanceInvariant, PTL

\* The password of an instance is stored or in the hands of who will store it
\* (initialize_* and reset_*_root_password), unless it was lost.
THEOREM CredentialKept == Spec => []CredentialHeld
<1>1. IInv => CredentialHeld
  BY DEF IInv
<1> QED BY <1>1, InstanceInvariant, PTL

\* No attempt leaves its temporary server behind (TempServerGuard).
THEOREM AttemptEndsAlone == Spec => []EndedRunIsAlone
<1>1. IInv => EndedRunIsAlone
  BY DEF IInv
<1> QED BY <1>1, InstanceInvariant, PTL

\* A row is only there for a datadir that is.
THEOREM RowNeedsDatadir == Spec => []RowMeansReady
<1>1. IInv => RowMeansReady
  BY DEF IInv
<1> QED BY <1>1, InstanceInvariant, PTL

\* finalize_staging never replaces a database or the user's files.
THEOREM NothingAdopted == Spec => NeverAdopted
<1>1. [Next]_vars => [(data \in {"foreign", "ready"}) => (data' = data)]_vars
  <2> SUFFICES ASSUME [Next]_vars, data \in {"foreign", "ready"}
               PROVE  data' = data
    OBVIOUS
  <2>1. CASE Attempt
    BY <2>1 DEF Attempt, Render, Initialize, Poll, SetPassword, Shutdown, AwaitExit,
                Finalize, TakeAbort, Fails, place, staging
  <2>2. CASE Command \/ StartInit \/ StartRescan
    BY <2>2 DEF Command, Wake, Store, RegisterRow, Reconcile, StartInit, StartRescan,
                place
  <2>3. CASE \E r \in Resets : Reset(r)
    BY <2>3 DEF Reset, ResetReads, ResetConnects, ResetAlters, ResetStores, place
  <2>4. CASE \/ ServerListens \/ ServerExits \/ LeftoverEnds \/ ServiceMoves
             \/ UserFills \/ StartQuit \/ Exit \/ Crash \/ Launch
    BY <2>4 DEF ServerListens, ServerExits, LeftoverEnds, ServiceMoves, UserFills,
                StartQuit, Exit, Crash, Dead, Launch, place
  <2>5. CASE UNCHANGED vars
    BY <2>5 DEF vars, place
  <2> QED BY <2>1, <2>2, <2>3, <2>4, <2>5 DEF Next
<1> QED BY <1>1, PTL DEF Spec, NeverAdopted

\* Nothing takes the staging directory of an attempt under way: sweep_stale_staging
\* would, and only meets it under the lock, which the attempt's command holds, or
\* at the launch, before there is a command.
THEOREM StagingKept == Spec => StagingIsKept
<1>1. IInv /\ [Next]_vars => [staged # None /\ task' = task => staged' # None]_vars
  <2> SUFFICES ASSUME IInv, [Next]_vars, staged # None, task' = task
               PROVE  staged' # None
    OBVIOUS
  <2> USE InstanceAssumption DEF IInv
  <2>1. task.pc \in Steps
    BY DEF RunIsOurs
  <2>2. CASE Attempt
    <3>1. ~Fails
      BY <2>1, FailsMoves DEF Steps
    <3>2. ~TakeAbort
      BY <2>1, CancelMoves DEF Steps
    <3>3. ~(At("finalizing") /\ Goto("initialized"))
      BY GotoMoves DEF At, Ended
    <3> QED BY <2>2, <3>1, <3>2, <3>3, FreshIsTyped
          DEF Attempt, Render, Initialize, Poll, SetPassword, Shutdown, AwaitExit,
              Finalize, staging
  <2>3. CASE Command \/ StartInit
    BY <2>3 DEF Command, Wake, Store, RegisterRow, Reconcile, StartInit, staging
  <2>3a. CASE StartRescan \/ Launch
    <3>1. op = "idle" /\ Sweep
      BY <2>3a DEF StartRescan, Launch, RunIsOurs, Alive
    <3> QED BY <3>1, SweepFindsLitter
  <2>4. CASE \E r \in Resets : Reset(r)
    BY <2>4 DEF Reset, ResetReads, ResetConnects, ResetAlters, ResetStores, staging
  <2>5. CASE Exit \/ Crash
    BY <2>1, <2>5, NothingIsTyped DEF Exit, Crash, Dead, Steps
  <2>6. CASE \/ ServerListens \/ ServerExits \/ LeftoverEnds \/ ServiceMoves
             \/ UserFills \/ StartQuit
    BY <2>6 DEF ServerListens, ServerExits, LeftoverEnds, ServiceMoves, UserFills,
                StartQuit, staging
  <2>7. CASE UNCHANGED vars
    BY <2>7 DEF vars, staging
  <2> QED BY <2>2, <2>3, <2>3a, <2>4, <2>5, <2>6, <2>7 DEF Next
<1> QED BY <1>1, InstanceInvariant, PTL DEF Spec, StagingIsKept

-----------------------------------------------------------------------------
(* Liveness of an attempt: it only goes forward, unless it stays for ever at *)
(* a wait without a deadline.                                                 *)

\* The attempt's steps in order; an attempt that is over waits for its command.
Rank(pc) ==
  CASE pc = "rendering"    -> 1
    [] pc = "initializing" -> 2
    [] pc = "polling"      -> 3
    [] pc = "setting"      -> 4
    [] pc = "stopping"     -> 5
    [] pc = "waiting"      -> 6
    [] pc = "finalizing"   -> 7
    [] OTHER               -> 8

Waits == op = "awaiting"

StandsAt(k)   == Waits /\ Rank(task.pc) = k
HasReached(k) == Waits /\ Rank(task.pc) >= k
HasPassed(k)  == ~Waits \/ Rank(task.pc) > k

\* The steps of an attempt have ranks of their own, below that of its end.
LEMMA Ranks ==
  ASSUME NEW pc \in Steps \cup Ended \cup {"none"}
  PROVE  /\ Rank(pc) \in 1 .. 8
         /\ pc \in Steps <=> Rank(pc) # 8
         /\ pc \in Ended => Rank(pc) = 8
         /\ pc = "waiting" <=> Rank(pc) = 6
<1> USE DEF Steps, Ended
<1>1. Rank(pc) \in 1 .. 8
  BY DEF Rank
<1>2. pc \in Steps <=> Rank(pc) # 8
  BY DEF Rank
<1>3. pc = "waiting" <=> Rank(pc) = 6
  BY DEF Rank
<1>4. pc \in Ended => Rank(pc) = 8
  BY DEF Rank
<1>5. QED
  BY <1>1, <1>2, <1>3, <1>4

\* An attempt is at one of its steps, or over, while a command waits for it.
LEMMA TaskRanks ==
  ASSUME IInv
  PROVE  /\ Rank(task.pc) \in 1 .. 8
         /\ task.pc \in Steps <=> Rank(task.pc) # 8
         /\ task.pc = "waiting" <=> Rank(task.pc) = 6
         /\ op = "awaiting" => task.pc \in Steps \cup Ended /\ Alive
<1>1. task.pc \in Steps \cup Ended \cup {"none"}
  BY DEF IInv, TypeOK, Task
<1>2. op = "awaiting" => task.pc # "none" /\ Alive
  BY DEF IInv, RunIsOurs
<1>3. QED
  BY <1>1, <1>2, Ranks

LEMMA TaskRanksLater ==
  ASSUME IInv'
  PROVE  Rank(task'.pc) \in 1 .. 8
<1>1. task'.pc \in Steps \cup Ended \cup {"none"}
  BY DEF IInv, TypeOK, Task
<1>2. QED
  BY <1>1, Ranks

\* A step of the attempt takes it to a later one, or to its end.
LEMMA AttemptGoesForward ==
  ASSUME IInv, Attempt
  PROVE  Rank(task'.pc) > Rank(task.pc) /\ UNCHANGED op
<1> USE DEF IInv
<1>1. UNCHANGED op
  BY DEF Attempt, Render, Initialize, Poll, SetPassword, Shutdown, AwaitExit,
         Finalize, TakeAbort
<1>2. CASE task'.pc \in Ended
  <2>1. task.pc \in Steps
    BY DEF Attempt, Render, Initialize, Poll, SetPassword, Shutdown, AwaitExit,
           Finalize, TakeAbort, At, Steps
  <2>2. Rank(task.pc) \in 1 .. 7
    BY <2>1, TaskRanks
  <2>3. Rank(task'.pc) = 8
    BY <1>2, Ranks
  <2>4. QED
    BY <1>1, <2>2, <2>3
<1>3. CASE task'.pc \notin Ended
  <2>1. ~Fails /\ ~TakeAbort
    BY <1>3, FailsMoves, CancelMoves DEF Ended
  <2>2. ~Finalize
    BY <1>3, <2>1, GotoMoves DEF Finalize, Ended
  <2>3. CASE Render \/ Initialize \/ Poll
    BY <2>1, <2>3, GotoMoves DEF Render, Initialize, Poll, At, Steps, Rank
  <2>4. CASE SetPassword
    <3>1. PICK p \in Passwords : task' = [task EXCEPT !.pc = "stopping", !.pw = p]
      BY <2>1, <2>4, FreshIsTyped DEF SetPassword
    <3>2. task.pc = "setting" /\ task'.pc = "stopping"
      BY <2>4, <3>1, PasswordMoves DEF SetPassword, At
    <3>3. QED
      BY <1>1, <3>2 DEF Rank
  <2>5. CASE Shutdown \/ AwaitExit
    BY <2>1, <2>5, GotoMoves DEF Shutdown, AwaitExit, At, Steps, Rank
  <2>6. QED
    BY <2>1, <2>2, <2>3, <2>4, <2>5 DEF Attempt
<1>4. QED
  BY <1>1, <1>2, <1>3

\* Nothing else moves an attempt a command waits for, except that the process
\* ends, and with it the command; and nothing takes back an abort, or the exit
\* of the server.
LEMMA WaitingStep ==
  ASSUME IInv, [Next]_vars, op = "awaiting", op' = "awaiting", ~Attempt
  PROVE  /\ task'.pc = task.pc /\ engine' = engine
         /\ task.pc \in Steps /\ task.aborted => task'.aborted
         /\ server = "exited" => server' = "exited"
<1>1. CASE Command \/ StartInit \/ StartRescan
  BY <1>1 DEF Command, Wake, Store, RegisterRow, Reconcile, StartInit, StartRescan,
              staging
<1>2. CASE \E r \in Resets : Reset(r)
  BY <1>2 DEF Reset, ResetReads, ResetConnects, ResetAlters, ResetStores, staging
<1>3. CASE \/ ServerListens \/ ServerExits \/ LeftoverEnds \/ ServiceMoves
           \/ UserFills \/ Launch
  BY <1>3 DEF ServerListens, ServerExits, LeftoverEnds, ServiceMoves, UserFills,
              Launch, staging
<1>4. CASE StartQuit
  <2>1. task' = task \/ task' = [task EXCEPT !.aborted = task.pc \in Steps]
    BY <1>4 DEF StartQuit
  <2>2. UNCHANGED <<engine, server>>
    BY <1>4 DEF StartQuit, staging
  <2>3. task.pc \in Steps /\ task.aborted => task'.aborted
    BY <2>1 DEF IInv, TypeOK, Task
  <2>4. task'.pc = task.pc
    BY <2>1 DEF IInv, TypeOK, Task
  <2> QED BY <2>2, <2>3, <2>4
<1>5. CASE Exit \/ Crash
  BY <1>5 DEF Exit, Crash, Dead
<1>6. CASE UNCHANGED vars
  BY <1>6 DEF vars, staging
<1>7. QED
  BY <1>1, <1>2, <1>3, <1>4, <1>5, <1>6 DEF Next

\* So a step of the attempt passes the one it stood at.
LEMMA AttemptPasses ==
  ASSUME IInv, NEW k \in 1 .. 8, StandsAt(k), Attempt
  PROVE  HasPassed(k)'
<1>1. Rank(task'.pc) \in 1 .. 8 /\ Rank(task'.pc) > Rank(task.pc)
  BY AttemptKeeps, TaskRanksLater, AttemptGoesForward
<1>2. QED
  BY <1>1 DEF StandsAt, HasPassed

\* What a waiting command sees of a step: the attempt stays where it is, goes
\* on, or is over and the command with it.
LEMMA StaysOrPasses ==
  ASSUME IInv, [Next]_vars, NEW k \in 1 .. 8, StandsAt(k)
  PROVE  StandsAt(k)' \/ HasPassed(k)'
<1>1. CASE op' # "awaiting"
  BY <1>1 DEF HasPassed, Waits
<1>2. CASE op' = "awaiting" /\ Attempt
  BY <1>2, AttemptPasses
<1>3. CASE op' = "awaiting" /\ ~Attempt
  BY <1>3, WaitingStep DEF StandsAt, Waits
<1>4. QED
  BY <1>1, <1>2, <1>3

\* An attempt that is not, or no longer, at a wait without a deadline does not
\* come back to it.
LEMMA DeadlineStays ==
  ASSUME IInv, [Next]_vars, NEW k \in 1 .. 8, StandsAt(k), ~NoDeadline
  PROVE  ~NoDeadline' \/ HasPassed(k)'
<1>1. CASE op' # "awaiting"
  BY <1>1 DEF HasPassed, Waits
<1>2. CASE op' = "awaiting" /\ Attempt
  BY <1>2, AttemptPasses
<1>3. CASE op' = "awaiting" /\ ~Attempt
  BY <1>3, WaitingStep DEF StandsAt, Waits, NoDeadline, Steps
<1>4. QED
  BY <1>1, <1>2, <1>3

LEMMA StandsOrPassed ==
  ASSUME IInv, NEW k \in 1 .. 8, HasReached(k)
  PROVE  StandsAt(k) \/ HasPassed(k)
BY TaskRanks DEF HasReached, StandsAt, HasPassed

Passes(k) == HasReached(k) ~> HasPassed(k) \/ []NoDeadline
Scheduled == Spec /\ []GuardsSuffice

\* The attempt leaves each of its steps, or stays there without a deadline.
LEMMA StepPasses == Scheduled => \A k \in 1 .. 7 : Passes(k)
<1> SUFFICES ASSUME NEW k \in 1 .. 7 PROVE Scheduled => Passes(k)
  OBVIOUS
<1>1. IInv /\ HasReached(k) => StandsAt(k) \/ HasPassed(k)
  BY StandsOrPassed
<1>2. IInv /\ StandsAt(k) /\ [Next]_vars => StandsAt(k)' \/ HasPassed(k)'
  BY StaysOrPasses
<1>3. IInv /\ StandsAt(k) /\ ~NoDeadline /\ [Next]_vars
        => ~NoDeadline' \/ HasPassed(k)'
  BY DeadlineStays
<1>4. IInv /\ StandsAt(k) /\ <<Attempt /\ ~NoDeadline>>_vars => HasPassed(k)'
  BY AttemptPasses
<1>5. IInv /\ GuardsSuffice /\ StandsAt(k) /\ ~NoDeadline
        => ENABLED <<Attempt /\ ~NoDeadline>>_vars
  <2> SUFFICES ASSUME IInv, StandsAt(k), ~NoDeadline PROVE AttemptIsDue
    BY DEF GuardsSuffice
  <2>1. QED
    BY TaskRanks DEF StandsAt, Waits, AttemptIsDue
<1>6. QED
  BY <1>1, <1>2, <1>3, <1>4, <1>5, InstanceInvariant, PTL DEF Passes, Scheduled, Spec

\* A command whose attempt is over wakes up.
LEMMA OverPasses == Scheduled => Passes(8)
<1>1. IInv /\ HasReached(8) => StandsAt(8) \/ HasPassed(8)
  BY StandsOrPassed
<1>2. IInv /\ StandsAt(8) /\ [Next]_vars => StandsAt(8)' \/ HasPassed(8)'
  BY StaysOrPasses
<1>3. IInv /\ StandsAt(8) /\ <<Command>>_vars => HasPassed(8)'
  BY DEF StandsAt, Waits, HasPassed, Command, Wake, Store, RegisterRow, Reconcile
<1>4. IInv /\ GuardsSuffice /\ StandsAt(8) => ENABLED <<Command>>_vars
  <2> SUFFICES ASSUME IInv, StandsAt(8) PROVE WakeIsDue
    BY DEF GuardsSuffice
  <2>1. QED
    BY TaskRanks DEF StandsAt, Waits, WakeIsDue
<1>5. QED
  BY <1>1, <1>2, <1>3, <1>4, InstanceInvariant, PTL DEF Passes, Scheduled, Spec

\* Initializing a database ends and frees the install lock, however the attempt
\* goes (run_mysql_init, initialize_mariadb and the commands that await them), or
\* stays for ever at MySQL's Validate or installer or at MariaDB's wait for the
\* exit of its server, with nothing having aborted it.
THEOREM AttemptEnds == Scheduled => InitEnds
<1>1. Scheduled => Passes(1) /\ Passes(2) /\ Passes(3) /\ Passes(4) /\ Passes(5)
                   /\ Passes(6) /\ Passes(7)
  BY StepPasses
<1>2. Scheduled => Passes(8)
  BY OverPasses
<1>3. IInv => /\ HasPassed(1) => ~Waits \/ HasReached(2)
              /\ HasPassed(2) => ~Waits \/ HasReached(3)
              /\ HasPassed(3) => ~Waits \/ HasReached(4)
              /\ HasPassed(4) => ~Waits \/ HasReached(5)
              /\ HasPassed(5) => ~Waits \/ HasReached(6)
              /\ HasPassed(6) => ~Waits \/ HasReached(7)
              /\ HasPassed(7) => ~Waits \/ HasReached(8)
              /\ HasPassed(8) => ~Waits
  BY TaskRanks DEF HasPassed, HasReached
<1>4. IInv /\ op = "awaiting" => HasReached(1)
  BY TaskRanks DEF HasReached, Waits
<1>5. ~Waits => op # "awaiting"
  BY DEF Waits
<1>6. QED
  BY <1>1, <1>2, <1>3, <1>4, <1>5, InstanceInvariant, PTL
     DEF Passes, Scheduled, Spec, InitEnds

=============================================================================
