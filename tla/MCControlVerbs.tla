---------------------------- MODULE MCControlVerbs ----------------------------
(* Model values, symmetry and bounds for checking ControlVerbs with TLC. *)
EXTENDS ControlVerbs, TLC

RunSymmetry == Permutations(Runs)

\* Bound: the crash-orphan registry refuses every record.  No verb reads it.
NothingRecorded == \A s \in Services : registry[s] = None

\* Bound: what happens after the answer is left to a behaviour without the call;
\* the next call would forget the answer.  The answers themselves are checked.
EndsWithTheAnswer == \A c \in Calls : calls[c].answer = "none"

\* Bound: one stop at a time is past the mutex and not yet sent; one that is late
\* for a run that has ended finds a closed channel.
OneLateStop == \A r1, r2 \in Runs : sending[r1] > 0 /\ sending[r2] > 0 => r1 = r2
=============================================================================
