-------------------------------- MODULE Review --------------------------------
(***************************************************************************)
(* Everybody who writes a staged row, at once: the person in the review    *)
(* deck and the list (ui/), the engine (classifier/) and the push.  None   *)
(* of them holds a lock.  SQLite runs one statement at a time, and every   *)
(* handler and every job is a check, then some time later a write that     *)
(* does not repeat the check.                                              *)
(***************************************************************************)
EXTENDS Push

CONSTANTS
    Tab,        \* requests of the person that decide on the row
    Worker,     \* goroutines of the engine (cron, resuggest, admin endpoints)
    Ops         \* what the person does in this model

AllOps == {"edit", "later", "hold", "unhold", "skip", "restore", "save", "skip_listed"}

(* A row the person added by hand, as handleNewCreate leaves it. *)
ThePersons(r) == r.proposed = None /\ r.hold # "fold" /\ r.status # "pending"

ASSUME ReviewAssumption ==
    /\ Ops \subseteq AllOps
    /\ \A r \in Origin : r.manual => ThePersons(r)

VARIABLES
    tpc,        \* tab: the decision it is about to write, or "idle"
    job,        \* worker: what it is doing with the row, or "none"
    listed      \* worker: the row's status when the job read it

engineVars == <<job, listed>>
reviewVars == <<pushVars, tpc, job, listed>>

ReviewInit ==
    /\ PushInit
    /\ tpc = [t \in Tab |-> "idle"]
    /\ job = [w \in Worker |-> "none"]
    /\ listed = [w \in Worker |-> "pending"]

-----------------------------------------------------------------------------
(* The person. *)

TabGoes(t, l) == tpc' = [tpc EXCEPT ![t] = l]

(* isDecidable: a card is decided on only while it waits. *)
CardOpens(t) ==
    /\ tpc[t] = "idle" /\ Waiting(row)
    /\ \E op \in Ops \cap {"edit", "later", "hold", "unhold", "skip"} : TabGoes(t, op)
    /\ UNCHANGED <<pushVars, engineVars>>

(* A hold set or cleared in the editor's form: the same statements, and no  *)
(* look at the status.                                                      *)
EditorChangesHold(t) ==
    /\ tpc[t] = "idle" /\ "save" \in Ops
    /\ \E op \in Ops \cap {"hold", "unhold"} : TabGoes(t, op)
    /\ UNCHANGED <<pushVars, engineVars>>

TabWrites(t, next, l) ==
    /\ row' = next
    /\ TabGoes(t, l)
    /\ UNCHANGED <<firefly, sendVars, engineVars>>

CardEdits(t) ==
    /\ tpc[t] = "edit"
    /\ \E c \in Choice : TabWrites(t, SaveEdits(row, c), "idle")

CardPutsLater(t) ==
    /\ tpc[t] = "later"
    /\ \E b \in BOOLEAN : TabWrites(t, PutLater(row, b), "idle")

CardHolds(t) == tpc[t] = "hold" /\ TabWrites(t, Hold(row), "idle")
CardSkips(t) == tpc[t] = "skip" /\ TabWrites(t, SkipCard(row), "idle")

(* Releasing a hold reads whose it is, clears it, and records the release   *)
(* of fold's hold in a statement of its own.                                *)
CardReadsHold(t) ==
    /\ tpc[t] = "unhold"
    /\ TabGoes(t, IF row.hold = "fold" THEN "unhold_fold" ELSE "unhold_person")
    /\ UNCHANGED <<pushVars, engineVars>>

CardUnholds(t) ==
    \/ tpc[t] = "unhold_fold" /\ TabWrites(t, Unhold(row), "record_release")
    \/ tpc[t] = "unhold_person" /\ TabWrites(t, Unhold(row), "idle")

(* A release that cannot be recorded is logged: the hold is off all the same. *)
CardRecordsRelease(t) ==
    /\ tpc[t] = "record_release"
    /\ \/ TabWrites(t, RecordRelease(row), "idle")
       \/ "db" \in Faults /\ TabWrites(t, row, "idle")

(* Restore is one guarded statement. *)
CardRestores(t) ==
    /\ tpc[t] = "idle" /\ "restore" \in Ops /\ row.status = "skipped"
    /\ TabWrites(t, Restore(row), "idle")

(* The editor's save (which also takes the row off the Later pile) and the  *)
(* list's skip take a row in any status.                                    *)
EditorSaves(t) ==
    /\ tpc[t] = "idle" /\ "save" \in Ops
    /\ \E c \in Choice : TabWrites(t, PutLater(SaveEdits(row, c), FALSE), "idle")

ListSkips(t) ==
    /\ tpc[t] = "idle" /\ "skip_listed" \in Ops
    /\ TabWrites(t, SkipListed(row), "idle")

Person(t) ==
    \/ CardOpens(t) \/ EditorChangesHold(t) \/ CardEdits(t) \/ CardPutsLater(t) \/ CardHolds(t) \/ CardSkips(t)
    \/ CardReadsHold(t) \/ CardUnholds(t) \/ CardRecordsRelease(t)
    \/ CardRestores(t) \/ EditorSaves(t) \/ ListSkips(t)

-----------------------------------------------------------------------------
(* The engine. *)

(* Mutant: hand-added rows are taken too. *)
JobStarts_TakesManual(w, j) ==
    /\ job[w] = "none"
    /\ job' = [job EXCEPT ![w] = j]
    /\ listed' = [listed EXCEPT ![w] = row.status]
    /\ UNCHANGED <<pushVars, tpc>>

(* Every listing leaves out the rows a person added by hand. *)
JobStarts(w, j) ==
    /\ job[w] = "none" /\ ~row.manual
    /\ job' = [job EXCEPT ![w] = j]
    /\ listed' = [listed EXCEPT ![w] = row.status]
    /\ UNCHANGED <<pushVars, tpc>>

JobGoes(w, l) ==
    /\ job' = [job EXCEPT ![w] = l]
    /\ UNCHANGED <<firefly, sendVars, tpc, listed>>

JobWrites(w, next) == row' = next /\ JobGoes(w, "none")

(* Mutant: the cron leaves edited rows alone, as the bulk reclassify does. *)
ClassifyPending_SkipsEdited(w) ==
    row.status = "pending" /\ NoHumanEdits(row) /\ JobStarts(w, "pending")

(* The cron's classify cycle: rows nobody has classified. *)
ClassifyPending(w) == row.status = "pending" /\ JobStarts(w, "pending")

(* POST /admin/classify with a scope: waiting rows the person has not       *)
(* edited are classified again.                                             *)
ReclassifyUnconfirmed(w) ==
    Waiting(row) /\ NoHumanEdits(row) /\ JobStarts(w, "unconfirmed")

(* "Reclassify selected": whatever is not in Firefly. *)
ReclassifyUUIDs(w) == row.status # "pushed" /\ JobStarts(w, "selected")

Classifying(w) == job[w] \in {"pending", "unconfirmed", "selected"}

(* classifyAndApply: the decision is written to the row as it is by now. *)
ClassifyApplies(w) ==
    /\ Classifying(w)
    /\ \E d \in Decision : JobWrites(w, ApplyDecision(row, d))

(* The model is out of reach and no other tier is sure: back to pending. *)
ClassifyDefers(w) == Classifying(w) /\ JobWrites(w, ResetToPending(row))

(* Any other failure leaves the row alone. *)
ClassifyFails(w) == Classifying(w) /\ JobWrites(w, row)

(* A second look at a waiting card: the model thinks, the guard is read     *)
(* again (it does not look at the status), the decision is written.         *)
Resuggest(w) ==
    Waiting(row) /\ NoHumanDecision(row) /\ JobStarts(w, "resuggest")

ResuggestRechecks(w) ==
    /\ job[w] = "resuggest"
    /\ row' = row
    /\ JobGoes(w, IF NoHumanDecision(row) THEN "rechecked" ELSE "none")

(* The model's answer, or a refund's: never the give-up of the last tier. *)
ResuggestApplies(w) ==
    /\ job[w] = "rechecked"
    /\ \E d \in {e \in Decision : e.value # None} : JobWrites(w, ApplyDecision(row, d))

ResuggestFails(w) == job[w] = "resuggest" /\ JobWrites(w, row)

(* RepairOwnAccounts: lists the waiting rows, then writes each by itself. *)
Repair(w) == Waiting(row) /\ JobStarts(w, "repair")

RepairWrites(w) ==
    /\ job[w] = "repair"
    /\ \/ JobWrites(w, row)
       \/ \E v \in Suggestion : JobWrites(w, RepairFilled(row, v))
       \/ \E v \in Suggestion : JobWrites(w, RepairSwapped(row, listed[w], v))
       \/ \E v \in Choice : row.confirmed # None /\ JobWrites(w, RepairSwapped(row, listed[w], v))

Engine(w) ==
    \/ ClassifyPending(w) \/ ReclassifyUnconfirmed(w) \/ ReclassifyUUIDs(w)
    \/ ClassifyApplies(w) \/ ClassifyDefers(w) \/ ClassifyFails(w)
    \/ Resuggest(w) \/ ResuggestRechecks(w) \/ ResuggestApplies(w) \/ ResuggestFails(w)
    \/ Repair(w) \/ RepairWrites(w)

-----------------------------------------------------------------------------
(* The process dies under everybody at once. *)
ReviewCrash ==
    /\ Crash
    /\ tpc' = [t \in Tab |-> "idle"]
    /\ job' = [w \in Worker |-> "none"]
    /\ UNCHANGED listed

Pushing ==
    /\ \/ \E s \in Sender : Send(s)
       \/ FireflyCreatesLate
    /\ UNCHANGED <<tpc, engineVars>>

ReviewNext ==
    \/ Pushing
    \/ \E t \in Tab : Person(t)
    \/ \E w \in Worker : Engine(w)
    \/ ReviewCrash

ReviewSpec == ReviewInit /\ [][ReviewNext]_reviewVars

(* The cron begins a classify cycle every interval, and a job ends: the     *)
(* model answers, refuses or times out.  (A cycle whose sync with Fold      *)
(* fails returns before it classifies: that is ClassifyFails here.)         *)
ReviewFairness ==
    \A w \in Worker :
        /\ WF_reviewVars(ClassifyPending(w))
        /\ WF_reviewVars(ClassifyApplies(w) \/ ClassifyDefers(w) \/ ClassifyFails(w))
        /\ WF_reviewVars(ResuggestRechecks(w) \/ ResuggestFails(w))
        /\ WF_reviewVars(ResuggestApplies(w))
        /\ WF_reviewVars(RepairWrites(w))

ReviewFairSpec == ReviewSpec /\ ReviewFairness

-----------------------------------------------------------------------------
(* Properties. *)

Jobs == {"none", "pending", "unconfirmed", "selected", "resuggest", "rechecked", "repair"}
TabLabels == {"idle", "unhold_fold", "unhold_person", "record_release"} \cup AllOps

(* Every variable stays in its type. *)
ReviewTypeOK ==
    /\ PushTypeOK
    /\ tpc \in [Tab -> TabLabels]
    /\ job \in [Worker -> Jobs]
    /\ listed \in [Worker -> Statuses]

(* A row the person added from a statement is the person's alone: the       *)
(* engine never proposes on it, never holds it and never sends it back to   *)
(* pending, through any of its jobs (fetchStagedForClassify, Resuggest,     *)
(* RepairOwnAccounts).                                                      *)
ManualIsThePersons == row.manual => ThePersons(row)

(* Terminal rows and what the engine may do to them. *)
Decided == row.status \in {"pushed", "skipped"}

(* "Nothing a person chose is ever touched": a second look never writes to  *)
(* a card the person has sent or skipped meanwhile (resuggestOne).          *)
ResuggestLeavesDecidedAlone ==
    [][\A w \in Worker : job[w] = "rechecked" /\ job'[w] = "none" /\ Decided
            => row' = row]_reviewVars

EngineTrouble ==
    \/ \E w \in Worker : ClassifyDefers(w) \/ ClassifyFails(w)
    \/ ReviewCrash

(* Once the model answers and the process stays up, a row does not stay     *)
(* pending, whatever the person and the other jobs do to it meanwhile.      *)
PendingIsClassified ==
    <>[][~EngineTrouble]_reviewVars =>
        (row.status = "pending" /\ ~row.manual) ~> row.status # "pending"
=============================================================================
