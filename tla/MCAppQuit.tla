------------------------------- MODULE MCAppQuit -------------------------------
(***************************************************************************)
(* AppQuit with nginx and mysql.  A tick is 3 s: MySQL's probe deadline and *)
(* grace are 15 s, STOP_ALL_TIMEOUT is 18 s, nginx's grace is 5 s; its     *)
(* AliveAfter window and the reader drain, 0.5 s each, round to 1 and 0.   *)
(***************************************************************************)
EXTENDS AppQuit

MCReady   == [s \in Services |-> IF s \in Probed THEN 5 ELSE 1]
MCGrace   == [s \in Services |-> IF s \in Probed THEN 5 ELSE 2]
MCTimeout == [l \in Loops |-> 6]
=============================================================================
