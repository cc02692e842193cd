-------------------------- MODULE MCTurnScheduler --------------------------
(* Instances of TurnScheduler for TLC.                                      *)
EXTENDS TurnScheduler, TLC

CONSTANTS a1, w1, w2

(* Every wake and every auxiliary call is for one agent.                    *)
WakesForOne == [w \in Wake |-> a1]
CallsForOne == [x \in Aux |-> a1]
WakesAlike == Permutations(Wake)
=============================================================================
