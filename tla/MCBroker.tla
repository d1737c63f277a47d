------------------------------- MODULE MCBroker -------------------------------
EXTENDS Broker, TLC
CONSTANTS c1, c2
(* One login whose token can be stale by two, and another. *)
MCTurns == c1 :> 2 @@ c2 :> 1
=============================================================================
