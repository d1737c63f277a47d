------------------------------- MODULE StagedRow -------------------------------
(***************************************************************************)
(* One row of staged_fold_txns: a transaction of Fold on its way into      *)
(* Firefly, and every statement that writes it.                            *)
(*                                                                         *)
(* What the engine suggests (the proposed_* columns) and what a person     *)
(* chose (the confirmed_* columns) are one value each: the code writes     *)
(* and reads each group as a unit.  The columns that no decision depends   *)
(* on (evidence, stamps, names for display) are left out.                  *)
(***************************************************************************)
EXTENDS Naturals

CONSTANTS
    Suggestion,   \* what the engine may propose for the row
    Choice,       \* what a person may choose for it
    None          \* an empty group of columns (SQL NULL)

ASSUME ValuesAssumption ==
    None \notin Suggestion /\ None \notin Choice /\ Suggestion \cap Choice = {}

Value    == Suggestion \cup Choice
Statuses == {"pending", "needs_review", "ready_to_push", "pushed", "skipped"}

Row == [status    : Statuses,
        manual    : BOOLEAN,               \* mode = 'MANUAL'
        proposed  : Suggestion \cup {None},
        confirmed : Choice \cup {None},
        hold      : {"none", "person", "fold"},   \* hold_reason, hold_by
        released  : BOOLEAN,               \* review_feedback has a 'release'
        later     : BOOLEAN,               \* later_at
        journal   : Nat]                   \* firefly_txn_id, 0 for NULL

(* A row as SyncRecent inserts it. *)
StagedNew == [status |-> "pending", manual |-> FALSE, proposed |-> None, confirmed |-> None,
              hold |-> "none", released |-> FALSE, later |-> FALSE, journal |-> 0]

(* A row the person adds from a statement, with its fields saved. *)
ManualNew(c) == [StagedNew EXCEPT !.status = "ready_to_push", !.manual = TRUE, !.confirmed = c]

-----------------------------------------------------------------------------
(* What the code asks of a row. *)

Waiting(r) == r.status \in {"needs_review", "ready_to_push"}

(* Push sends a confirmed value as a unit, and the proposal only if there   *)
(* is none.                                                                 *)
Effective(r) == IF r.confirmed # None THEN r.confirmed ELSE r.proposed

(* What blocks a card: a hold, and nothing to send.  (Whether a value fits   *)
(* its kind of move, CheckType, is part of the value.)                      *)
Blocked(r) == r.hold # "none" \/ Effective(r) = None

(* The guard of the bulk reclassify (of the person's columns it looks at    *)
(* the five that make a booking; here they are one value).                  *)
NoHumanEdits(r) == r.confirmed = None

(* The guard of the second look at a waiting card. *)
NoHumanDecision(r) == r.confirmed = None /\ r.hold = "none" /\ ~r.manual

-----------------------------------------------------------------------------
(* The statements that write it, each one atomic. *)

(* Mutant: a status the table does not know. *)
MarkPushed_Misspelt(r, j) == [r EXCEPT !.status = "sent", !.journal = j]

MarkPushed(r, j) == [r EXCEPT !.status = "pushed", !.journal = j]

(* A decision of the engine: its value (None when it gives up, which is     *)
(* never sure), whether it is sure enough to go without a question, and     *)
(* whether fold wants the row held.                                         *)
Decision == {d \in [value : Suggestion \cup {None}, sure : BOOLEAN, hold : BOOLEAN] :
                d.value = None => ~d.sure /\ ~d.hold}

FoldMayHold(r, d) == d.hold /\ r.hold = "none" /\ ~r.released

ApplyDecision(r, d) ==
    [r EXCEPT !.status   = IF d.sure THEN "ready_to_push" ELSE "needs_review",
              !.proposed = d.value,
              !.hold     = IF FoldMayHold(r, d) THEN "fold" ELSE @]

(* Mutant: what the row knows of Firefly is wiped as well. *)
ResetToPending_WipesJournal(r) == [r EXCEPT !.status = "pending", !.proposed = None, !.journal = 0]

(* The two proposed account names stay in the table, and classifying the    *)
(* row again writes both.  Until then push does not take the row, unless a  *)
(* person skips and restores it first: it is then a row with a proposal of  *)
(* names alone, which is left out here.                                     *)
ResetToPending(r) == [r EXCEPT !.status = "pending", !.proposed = None]

SaveEdits(r, c) ==
    [r EXCEPT !.confirmed = c,
              !.status    = IF @ = "needs_review" THEN "ready_to_push" ELSE @]

SkipCard(r)    == [r EXCEPT !.status = "skipped", !.later = FALSE]
SkipListed(r)  == [r EXCEPT !.status = "skipped"]
Restore(r)     == IF r.status = "skipped" THEN [r EXCEPT !.status = "needs_review"] ELSE r
PutLater(r, b) == [r EXCEPT !.later = b]
Hold(r)        == [r EXCEPT !.hold = "person"]
Unhold(r)      == [r EXCEPT !.hold = "none"]
RecordRelease(r) == [r EXCEPT !.released = TRUE]

(* RepairOwnAccounts sets a row's own side to the account fold saw it on,   *)
(* at the level the side is stored at.  "filled" sets an empty side;        *)
(* "swapped" also moves the other one and sends the row back to review if   *)
(* it was ready when it was listed.                                         *)
RepairFilled(r, v)  == [r EXCEPT !.proposed = v]
RepairSwapped(r, listed, v) ==
    [r EXCEPT !.confirmed = IF v \in Choice THEN v ELSE @,
              !.proposed  = IF v \in Suggestion THEN v ELSE @,
              !.status    = IF listed = "ready_to_push" THEN "needs_review" ELSE @]
=============================================================================
