------------------------------ MODULE MCSiteApply ------------------------------
(***************************************************************************)
(* SiteApply with a tick of 5 s, the grace of nginx and php-fpm: the stop  *)
(* loop's 10 s are 2 ticks, AliveAfter and the reader drain (0.5 s each)   *)
(* round to 0.                                                             *)
(***************************************************************************)
EXTENDS SiteApply, TLC

\* Two calls differ in nothing but their names; each has its own stop loop.
Calls == Permutations(Applies)

MCReady   == [s \in Services |-> 0]
MCGrace   == [s \in Services |-> 1]
MCTimeout == [l \in Loops |-> 2]
=============================================================================
