------------------------------ MODULE MCFoldSync ------------------------------
EXTENDS FoldSync
(* Three transactions, the two newer ones of the same minute. *)
MCTxn == 1..3
MCTime == [t \in MCTxn |-> IF t = 1 THEN 1 ELSE 2]
=============================================================================
