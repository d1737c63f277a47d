-------------------------------- MODULE MCPush --------------------------------
EXTENDS Push
CONSTANTS p1, c1
MCSuggestion == {p1}
MCOneChoice == {c1}
(* Rows as the classifier and the person leave them. *)
Classified == [StagedNew EXCEPT !.status = "needs_review", !.proposed = p1]
MCOrigin == {Classified,
             [Classified EXCEPT !.status = "ready_to_push", !.later = TRUE, !.hold = "person"]}
=============================================================================
