-------------------------------- MODULE MCReview --------------------------------
EXTENDS Review
CONSTANTS p1, c1
MCSuggestion == {p1}
MCOneChoice == {c1}
MCUnclassified == {StagedNew}
MCWaiting == {[StagedNew EXCEPT !.status = "needs_review", !.proposed = p1]}
(* Rows as the classifier and the person leave them, two of them on hold. *)
Classified == [StagedNew EXCEPT !.status = "needs_review", !.proposed = p1]
MCOrigin == {Classified,
             [Classified EXCEPT !.status = "ready_to_push", !.later = TRUE],
             [Classified EXCEPT !.hold = "person"],
             [Classified EXCEPT !.status = "skipped"],
             [Classified EXCEPT !.hold = "fold"], ManualNew(c1), StagedNew}
=============================================================================
