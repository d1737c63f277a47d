--------------------------------- MODULE Push ---------------------------------
(***************************************************************************)
(* Sending a staged row to Firefly (push.go and the handlers that call     *)
(* it).  Push reads the row, asks Firefly whether it has the transaction   *)
(* already, creates it, and marks the row; there is no lock, so other      *)
(* requests run between any two of these steps.                            *)
(*                                                                         *)
(* Firefly is modelled by what push uses of it: a list of transactions     *)
(* with the row's external id, in the order they were created.  It does    *)
(* not refuse a second one (error_if_duplicate_hash is not set).           *)
(*                                                                         *)
(* Faults says what may go wrong:                                          *)
(*   "refuse"  Firefly answers an error and does nothing                   *)
(*   "lost"    Firefly does it, and the answer never arrives               *)
(*   "late"    the sender gives up first, and Firefly does it afterwards   *)
(*   "db"      the statement that marks the row fails                      *)
(*   "crash"   the process dies                                            *)
(***************************************************************************)
EXTENDS StagedRow, Sequences

CONSTANTS
    Sender,         \* concurrent requests that send the row
    MaxJournals,    \* bound on the transactions made in Firefly
    Faults,
    Origin          \* the state of the row when the behaviour starts

FaultKinds == {"refuse", "lost", "late", "db", "crash"}

ASSUME PushAssumption ==
    /\ MaxJournals \in Nat \ {0}
    /\ Faults \subseteq FaultKinds
    /\ Origin \subseteq {r \in Row : r.journal = 0 /\ r.status # "pushed"}

VARIABLES
    row,        \* the staged row
    ledger,     \* Firefly: the transactions with its external id
    late,       \* Firefly: create requests under way whose sender gave up
    spc,        \* where each sender is
    via,        \* which handler it serves: "card", "editor", "admin" or "update"
    body,       \* the request it built from the row it read
    jid         \* the journal it is about to record

firefly  == <<ledger, late>>
sendVars == <<spc, via, body, jid>>
pushVars == <<row, ledger, late, spc, via, body, jid>>

PushInit ==
    /\ row \in Origin
    /\ ledger = <<>> /\ late = {}
    /\ spc = [s \in Sender |-> "idle"]
    /\ via = [s \in Sender |-> "card"]
    /\ body = [s \in Sender |-> None]
    /\ jid = [s \in Sender |-> 0]

Step(s, l) == spc' = [spc EXCEPT ![s] = l]

(* The handler returns; what it had read is gone. *)
Return(s) ==
    /\ Step(s, "idle")
    /\ via' = [via EXCEPT ![s] = "card"]
    /\ body' = [body EXCEPT ![s] = None]
    /\ jid' = [jid EXCEPT ![s] = 0]

(* handleCardSend: the card must be waiting and nothing may block it. *)
SendCard(s) ==
    /\ spc[s] = "idle"
    /\ Waiting(row) /\ ~Blocked(row)
    /\ Step(s, "checked")
    /\ via' = [via EXCEPT ![s] = "card"]
    /\ UNCHANGED <<row, firefly, body, jid>>

(* handlePush and handleUpdate of the editor: the form is saved first,      *)
(* whatever the row's status is.                                            *)
EditorSave(s) ==
    /\ spc[s] = "idle"
    /\ \E c \in Choice : row' = SaveEdits(row, c)
    /\ \E h \in {"editor", "update"} : via' = [via EXCEPT ![s] = h]
    /\ Step(s, "saved")
    /\ UNCHANGED <<firefly, body, jid>>

(* A name in the form could not be resolved: saved, and nothing sent. *)
EditorUnresolved(s) ==
    /\ spc[s] = "saved"
    /\ Return(s)
    /\ UNCHANGED <<row, firefly>>

(* handlePush looks for a hold after it has saved. *)
EditorCheckHold(s) ==
    /\ spc[s] = "saved" /\ via[s] = "editor"
    /\ \/ /\ row.hold = "none"
          /\ Step(s, "checked")
          /\ UNCHANGED <<via, body, jid>>
       \/ /\ row.hold # "none"
          /\ Return(s)
    /\ UNCHANGED <<row, firefly>>

(* POST /admin/push/{fold_uuid}?confirm=true: straight to Push. *)
SendAdmin(s) ==
    /\ spc[s] = "idle"
    /\ Step(s, "checked")
    /\ via' = [via EXCEPT ![s] = "admin"]
    /\ UNCHANGED <<row, firefly, body, jid>>

(* fetchPushableRow and the checks on it: a row that is not waiting is      *)
(* refused; one with a journal is done already; otherwise the request is    *)
(* built from the row as it is now, unless its accounts do not fit its type *)
(* (typeFits; a side that is missing is left to Firefly).                   *)
Fetch(s) ==
    /\ spc[s] = "checked"
    /\ \/ /\ ~Waiting(row) \/ row.journal = 0
          /\ Return(s)
       \/ /\ Waiting(row) /\ row.journal # 0
          /\ Step(s, "finishing")
          /\ UNCHANGED <<via, body, jid>>
       \/ /\ Waiting(row) /\ row.journal = 0
          /\ body' = [body EXCEPT ![s] = Effective(row)]
          /\ Step(s, "searching")
          /\ UNCHANGED <<via, jid>>
    /\ UNCHANGED <<row, firefly>>

(* Mutant: the answer of the search is not used. *)
Search_IgnoresHits(s) ==
    /\ spc[s] = "searching"
    /\ Step(s, "creating")
    /\ UNCHANGED <<row, firefly, via, body, jid>>

(* The journals that Firefly has for the row. *)
SearchByExternalID == DOMAIN ledger

(* A hit is adopted, a miss leads to the create (with EnsureCurrency before *)
(* it); a search that fails ends the send.                                  *)
Search(s) ==
    /\ spc[s] = "searching"
    /\ \/ /\ \E j \in SearchByExternalID : jid' = [jid EXCEPT ![s] = j]
          /\ Step(s, "marking")
          /\ UNCHANGED <<via, body>>
       \/ /\ SearchByExternalID = {}
          /\ Step(s, "creating")
          /\ UNCHANGED <<via, body, jid>>
       \/ /\ "refuse" \in Faults
          /\ Return(s)
    /\ UNCHANGED <<row, firefly>>

(* Firefly creates the transaction, and its answer lists the journal.       *)
(* (Assumed of Firefly: an answer that listed none would have push mark the *)
(* row with journal 0.)                                                     *)
FireflyCreates(s) ==
    /\ spc[s] = "creating" /\ Len(ledger) < MaxJournals
    /\ ledger' = Append(ledger, body[s])
    /\ jid' = [jid EXCEPT ![s] = Len(ledger) + 1]
    /\ Step(s, "marking")
    /\ UNCHANGED <<row, late, via, body>>

(* Mutant: an error starts the send again, for ever. *)
FireflyRefuses_Retries(s) ==
    /\ "refuse" \in Faults
    /\ spc[s] \in {"creating", "updating"}
    /\ Step(s, "checked")
    /\ UNCHANGED <<row, firefly, via, body, jid>>

(* Firefly refuses (422, 5xx, a currency it cannot enable): audited. *)
FireflyRefuses(s) ==
    /\ "refuse" \in Faults
    /\ spc[s] \in {"creating", "updating"}
    /\ Return(s)
    /\ UNCHANGED <<row, firefly>>

(* The answer to a create or an update is lost on its way back. *)
AnswerLost(s) ==
    /\ "lost" \in Faults
    /\ spc[s] = "marking"
    /\ Return(s)
    /\ UNCHANGED <<row, firefly>>

(* The sender gives up before Firefly has come to the request. *)
GiveUp(s) ==
    /\ "late" \in Faults
    /\ spc[s] = "creating"
    /\ late' = late \cup {[by |-> s, value |-> body[s]]}
    /\ Return(s)
    /\ UNCHANGED <<row, ledger>>

FireflyCreatesLate ==
    /\ Len(ledger) < MaxJournals
    /\ \E q \in late : late' = late \ {q} /\ ledger' = Append(ledger, q.value)
    /\ UNCHANGED <<row, sendVars>>

(* Mutant: the row is marked with whatever journal comes first to hand. *)
Mark_WrongJournal(s) ==
    /\ spc[s] = "marking"
    /\ row' = MarkPushed(row, jid[s] + 1)
    /\ Step(s, "finishing")
    /\ UNCHANGED <<firefly, via, body, jid>>

(* Mutant: a correction in place does not bring the journal back. *)
Mark_UpdateDropsJournal(s) ==
    /\ spc[s] = "marking"
    /\ row' = MarkPushed(row, IF via[s] = "update" THEN 0 ELSE jid[s])
    /\ Step(s, "finishing")
    /\ UNCHANGED <<firefly, via, body, jid>>

(* markPushed, whatever has become of the row meanwhile. *)
Mark(s) ==
    /\ spc[s] = "marking"
    /\ row' = MarkPushed(row, jid[s])
    /\ Step(s, "finishing")
    /\ UNCHANGED <<firefly, via, body, jid>>

MarkFails(s) ==
    /\ "db" \in Faults
    /\ spc[s] = "marking"
    /\ Return(s)
    /\ UNCHANGED <<row, firefly>>

(* The card's and the editor's handlers take the row off the Later pile.    *)
(* What else follows a push (mirror, learning, feedback, refund links)      *)
(* leaves these columns alone.                                              *)
Finish(s) ==
    /\ spc[s] = "finishing"
    /\ row' = IF via[s] \in {"card", "editor"} THEN PutLater(row, FALSE) ELSE row
    /\ Return(s)
    /\ UNCHANGED firefly

(* Mutant: a correction is sent as a new transaction. *)
UpdateFetch_Recreates(s) ==
    /\ spc[s] = "saved" /\ via[s] = "update"
    /\ body' = [body EXCEPT ![s] = Effective(row)]
    /\ Step(s, "creating")
    /\ UNCHANGED <<row, firefly, via, jid>>

(* Update: a row that is in Firefly is corrected in place; its status is    *)
(* not looked at.  It needs the group of the journal, which the row may not *)
(* have (the search gives none) until the mirror brings it.                 *)
UpdateFetch(s) ==
    /\ spc[s] = "saved" /\ via[s] = "update"
    /\ \/ Return(s)
       \/ /\ row.journal # 0
          /\ body' = [body EXCEPT ![s] = Effective(row)]
          /\ jid' = [jid EXCEPT ![s] = row.journal]
          /\ Step(s, "updating")
          /\ UNCHANGED via
    /\ UNCHANGED <<row, firefly>>

FireflyUpdates(s) ==
    /\ spc[s] = "updating"
    /\ ledger' = [ledger EXCEPT ![jid[s]] = body[s]]
    /\ Step(s, "marking")
    /\ UNCHANGED <<row, late, via, body, jid>>

(* The process dies; creates under way may still be carried out. *)
Crash ==
    /\ "crash" \in Faults
    /\ spc' = [s \in Sender |-> "idle"]
    /\ via' = [s \in Sender |-> "card"]
    /\ body' = [s \in Sender |-> None]
    /\ jid' = [s \in Sender |-> 0]
    /\ late' = IF "late" \in Faults
               THEN late \cup {[by |-> s, value |-> body[s]] : s \in {t \in Sender : spc[t] = "creating"}}
               ELSE late
    /\ UNCHANGED <<row, ledger>>

Send(s) ==
    \/ SendCard(s) \/ SendAdmin(s)
    \/ EditorSave(s) \/ EditorUnresolved(s) \/ EditorCheckHold(s)
    \/ Fetch(s) \/ Search(s)
    \/ FireflyCreates(s) \/ FireflyRefuses(s) \/ AnswerLost(s) \/ GiveUp(s)
    \/ Mark(s) \/ MarkFails(s) \/ Finish(s)
    \/ UpdateFetch(s) \/ FireflyUpdates(s)

PushNext ==
    \/ \E s \in Sender : Send(s)
    \/ FireflyCreatesLate
    \/ Crash

PushSpec == PushInit /\ [][PushNext]_pushVars

(* A handler that has begun goes on; Firefly answers, or the client's       *)
(* timeout ends the wait.                                                   *)
PushFairness ==
    \A s \in Sender :
        /\ WF_pushVars(EditorCheckHold(s) \/ UpdateFetch(s))
        /\ WF_pushVars(Fetch(s)) /\ WF_pushVars(Search(s))
        /\ WF_pushVars(FireflyCreates(s) \/ FireflyUpdates(s) \/ FireflyRefuses(s) \/ GiveUp(s))
        /\ WF_pushVars(Mark(s) \/ MarkFails(s)) /\ WF_pushVars(Finish(s))

PushFairSpec == PushSpec /\ PushFairness

-----------------------------------------------------------------------------
(* Properties. *)

(* What a request asks Firefly to book. *)
Request == Value \cup {None}

SenderLabels == {"idle", "saved", "checked", "searching", "creating", "updating", "marking", "finishing"}

(* Every variable stays in its type. *)
PushTypeOK ==
    /\ row \in Row
    /\ ledger \in Seq(Request)
    /\ late \subseteq [by : Sender, value : Request]
    /\ spc \in [Sender -> SenderLabels]
    /\ via \in [Sender -> {"card", "editor", "admin", "update"}]
    /\ body \in [Sender -> Request]
    /\ jid \in [Sender -> Nat]

(* "Pushes are deduplicated against firefly using fold's own UUID, so       *)
(* retries can't create doubles": one transaction of Fold never has two     *)
(* transactions in Firefly (Push).                                          *)
NoDoubles == Len(ledger) <= 1

(* A row that says it is in Firefly points to a transaction that is there,  *)
(* whatever was lost, refused or interrupted on the way (markPushed).       *)
PushedIsBooked == row.status = "pushed" => row.journal \in DOMAIN ledger

(* Once the row points to its transaction it never forgets it: the local    *)
(* half of the idempotency check cannot be undone.                          *)
JournalIsKept == [][row.journal # 0 => row'.journal # 0]_pushVars

(* Every request that sends the row ends, whatever Firefly does. *)
SendEnds == \A s \in Sender : spc[s] # "idle" ~> spc[s] = "idle"

(* What push promises, as an abstract specification. *)
B == INSTANCE Booking WITH bookings <- Len(ledger), pointer <- row.journal
ImplementsBooking == B!BookingSpec
=============================================================================
