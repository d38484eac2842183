----------------------------- MODULE MC_Chronos ------------------------------
(* Model-checking instance of Chronos.  Three nodes, so that one can be    *)
(* evicted while two apply the eviction in different orders; one handler   *)
(* with deadlines one or two ticks ahead, so that it is due on one replica *)
(* and not yet on another; one node may stop.                              *)
EXTENDS Chronos

MCNode == {1, 2, 3}
MCHandler == {1}
MCDelay == {0}
MCSuspect == {1}
====
