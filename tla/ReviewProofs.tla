----------------------------- MODULE ReviewProofs -----------------------------
(***************************************************************************)
(* What is proved of the push, and then of everybody at once.  Two          *)
(* invariants carry the argument about the push.                           *)
(*                                                                         *)
(* Ties holds with any number of senders and any faults: whatever journal  *)
(* a request is about to record, and whatever journal the row has, is a    *)
(* transaction Firefly has.                                                *)
(*                                                                         *)
(* Single holds if one sender is at work and no create outlives it: a      *)
(* create is only sent while Firefly has nothing, because the search that  *)
(* said so is still true.                                                  *)
(*                                                                         *)
(* To the push, what the person and the engine do is a write of somebody    *)
(* else that keeps the journal and makes no row pushed, so both carry over; *)
(* to a hand-added row, no job of the engine ever starts.                  *)
(***************************************************************************)
EXTENDS Review, SequenceTheorems, TLAPS

Ties ==
    /\ row.journal <= Len(ledger)
    /\ row.status = "pushed" => row.journal # 0
    /\ \A s \in Sender : spc[s] \in {"updating", "marking"} => jid[s] \in DOMAIN ledger

Single ==
    /\ late = {}
    /\ Len(ledger) <= 1
    /\ \A s \in Sender : spc[s] = "creating" => ledger = <<>>

OneAtATime == "late" \notin Faults /\ \A s, t \in Sender : s = t

(* Somebody other than the push writes the row. *)
OtherWrite ==
    /\ row' \in Row
    /\ row'.journal = row.journal
    /\ row'.status = "pushed" => row.status = "pushed"
    /\ UNCHANGED <<firefly, sendVars>>

-----------------------------------------------------------------------------
(* The writes of a row keep it a row. *)
LEMMA RowWrites ==
    ASSUME NEW r \in Row
    PROVE  /\ \A j \in Nat : MarkPushed(r, j) \in Row
           /\ \A c \in Choice : SaveEdits(r, c) \in Row
           /\ \A b \in BOOLEAN : PutLater(r, b) \in Row
  BY DEF Row, Statuses, MarkPushed, SaveEdits, PutLater

(* What push would send is a value, or nothing. *)
LEMMA EffectiveType ==
    ASSUME NEW r \in Row
    PROVE  Effective(r) \in Request
  BY DEF Row, Effective, Value, Request

(* Types: the initial states. *)
LEMMA InitTypes == PushInit => PushTypeOK
  <1> SUFFICES ASSUME PushInit PROVE PushTypeOK
    OBVIOUS
  <1>1. row \in Row
    BY PushAssumption DEF PushInit
  <1>2. ledger \in Seq(Request) /\ late \subseteq [by : Sender, value : Request]
    BY DEF PushInit
  <1> QED
    BY <1>1, <1>2 DEF PushInit, PushTypeOK, Request, SenderLabels

(* Types: a request that ends keeps them. *)
LEMMA ReturnTypes ==
    ASSUME PushTypeOK, NEW s \in Sender, Return(s), UNCHANGED <<row, firefly>>
    PROVE  PushTypeOK'
  BY DEF PushTypeOK, Request, SenderLabels, Step, Return, firefly

(* Types: every step keeps them. *)
LEMMA TypesStep == PushTypeOK /\ [PushNext]_pushVars => PushTypeOK'
  <1> SUFFICES ASSUME PushTypeOK, [PushNext]_pushVars PROVE PushTypeOK'
    OBVIOUS
  <1> USE DEF PushTypeOK, Request, SenderLabels, Step, Return, firefly, sendVars
  <1>0. CASE UNCHANGED pushVars
    BY <1>0 DEF pushVars
  <1>1. ASSUME NEW s \in Sender, SendCard(s) PROVE PushTypeOK'
    BY <1>1 DEF SendCard
  <1>2. ASSUME NEW s \in Sender, SendAdmin(s) PROVE PushTypeOK'
    BY <1>2 DEF SendAdmin
  <1>3. ASSUME NEW s \in Sender, EditorSave(s) PROVE PushTypeOK'
    <2>1. row' \in Row
      BY <1>3, RowWrites DEF EditorSave
    <2> QED
      BY <1>3, <2>1 DEF EditorSave
  <1>4. ASSUME NEW s \in Sender, EditorUnresolved(s) PROVE PushTypeOK'
    BY <1>4 DEF EditorUnresolved
  <1>5. ASSUME NEW s \in Sender, EditorCheckHold(s) PROVE PushTypeOK'
    <2>1. CASE Return(s)
      BY <1>5, <2>1, ReturnTypes DEF EditorCheckHold
    <2>2. CASE Step(s, "checked") /\ UNCHANGED <<via, body, jid>>
      BY <1>5, <2>2 DEF EditorCheckHold
    <2> QED
      BY <1>5, <2>1, <2>2 DEF EditorCheckHold
  <1>6. ASSUME NEW s \in Sender, Fetch(s) PROVE PushTypeOK'
    <2>1. CASE Return(s)
      BY <1>6, <2>1, ReturnTypes DEF Fetch
    <2>2. CASE Step(s, "finishing") /\ UNCHANGED <<via, body, jid>>
      BY <1>6, <2>2 DEF Fetch
    <2>3. CASE /\ body' = [body EXCEPT ![s] = Effective(row)]
               /\ Step(s, "searching") /\ UNCHANGED <<via, jid>>
      BY <1>6, <2>3, EffectiveType DEF Fetch
    <2> QED
      BY <1>6, <2>1, <2>2, <2>3 DEF Fetch
  <1>7. ASSUME NEW s \in Sender, Search(s) PROVE PushTypeOK'
    <2>1. CASE Return(s)
      BY <1>7, <2>1, ReturnTypes DEF Search
    <2>2. CASE Step(s, "creating") /\ UNCHANGED <<via, body, jid>>
      BY <1>7, <2>2 DEF Search
    <2>3. ASSUME NEW j \in DOMAIN ledger, jid' = [jid EXCEPT ![s] = j],
                 Step(s, "marking"), UNCHANGED <<via, body>>
          PROVE  PushTypeOK'
      <3>1. j \in Nat
        BY <2>3, LenProperties
      <3> QED
        BY <1>7, <2>3, <3>1 DEF Search
    <2> QED
      BY <1>7, <2>1, <2>2, <2>3 DEF Search, SearchByExternalID
  <1>8. ASSUME NEW s \in Sender, FireflyCreates(s) PROVE PushTypeOK'
    <2>1. ledger' \in Seq(Request) /\ Len(ledger) + 1 \in Nat
      BY <1>8, AppendProperties, LenProperties DEF FireflyCreates
    <2> QED
      BY <1>8, <2>1 DEF FireflyCreates
  <1>9. ASSUME NEW s \in Sender, FireflyRefuses(s) PROVE PushTypeOK'
    BY <1>9 DEF FireflyRefuses
  <1>10. ASSUME NEW s \in Sender, AnswerLost(s) PROVE PushTypeOK'
    BY <1>10 DEF AnswerLost
  <1>11. ASSUME NEW s \in Sender, GiveUp(s) PROVE PushTypeOK'
    <2>1. late' \subseteq [by : Sender, value : Request]
      BY <1>11 DEF GiveUp
    <2> QED
      BY <1>11, <2>1 DEF GiveUp
  <1>12. ASSUME NEW s \in Sender, Mark(s) PROVE PushTypeOK'
    <2>1. row' \in Row
      BY <1>12, RowWrites DEF Mark
    <2> QED
      BY <1>12, <2>1 DEF Mark
  <1>13. ASSUME NEW s \in Sender, MarkFails(s) PROVE PushTypeOK'
    BY <1>13 DEF MarkFails
  <1>14. ASSUME NEW s \in Sender, Finish(s) PROVE PushTypeOK'
    <2>1. row' \in Row
      BY <1>14, RowWrites DEF Finish
    <2> QED
      BY <1>14, <2>1 DEF Finish
  <1>15. ASSUME NEW s \in Sender, UpdateFetch(s) PROVE PushTypeOK'
    <2>1. row.journal \in Nat
      BY DEF Row
    <2>2. CASE Return(s)
      BY <1>15, <2>2, ReturnTypes DEF UpdateFetch
    <2>3. CASE /\ body' = [body EXCEPT ![s] = Effective(row)]
               /\ jid' = [jid EXCEPT ![s] = row.journal]
               /\ Step(s, "updating") /\ UNCHANGED via
      BY <1>15, <2>1, <2>3, EffectiveType DEF UpdateFetch
    <2> QED
      BY <1>15, <2>2, <2>3 DEF UpdateFetch
  <1>16. ASSUME NEW s \in Sender, FireflyUpdates(s) PROVE PushTypeOK'
    <2>1. ledger \in [1..Len(ledger) -> Request] /\ Len(ledger) \in Nat
      BY LenProperties
    <2>2. ledger' \in [1..Len(ledger) -> Request]
      BY <1>16, <2>1 DEF FireflyUpdates
    <2>3. ledger' \in Seq(Request)
      BY <2>1, <2>2, SeqDef
    <2> QED
      BY <1>16, <2>3 DEF FireflyUpdates
  <1>17. CASE FireflyCreatesLate
    <2>1. ledger' \in Seq(Request) /\ late' \subseteq late
      BY <1>17 DEF FireflyCreatesLate
    <2> QED
      BY <1>17, <2>1 DEF FireflyCreatesLate
  <1>18. CASE Crash
    <2>1. late' \subseteq [by : Sender, value : Request]
      BY <1>18 DEF Crash
    <2> QED
      BY <1>18, <2>1 DEF Crash
  <1> QED
    BY <1>0, <1>1, <1>2, <1>3, <1>4, <1>5, <1>6, <1>7, <1>8, <1>9, <1>10, <1>11, <1>12,
       <1>13, <1>14, <1>15, <1>16, <1>17, <1>18 DEF PushNext, Send

-----------------------------------------------------------------------------
(* Ties hold in every step: the ledger only grows, and a journal is only    *)
(* ever taken from it.                                                      *)
LEMMA TiesStep == PushTypeOK /\ Ties /\ [PushNext]_pushVars => Ties'
  <1> SUFFICES ASSUME PushTypeOK, Ties, [PushNext]_pushVars PROVE Ties'
    OBVIOUS
  <1> USE DEF Ties, Step, Return, firefly, sendVars
  <1>t. /\ spc \in [Sender -> SenderLabels] /\ jid \in [Sender -> Nat]
        /\ ledger \in Seq(Request) /\ row \in Row /\ row.journal \in Nat
        /\ Len(ledger) \in Nat /\ DOMAIN ledger = 1..Len(ledger)
    BY LenProperties DEF PushTypeOK, Row
  <1>0. CASE UNCHANGED pushVars
    BY <1>0 DEF pushVars
  <1>1. ASSUME NEW s \in Sender, Return(s), UNCHANGED <<row, ledger>> PROVE Ties'
    BY <1>1, <1>t
  <1>2. ASSUME NEW s \in Sender, UNCHANGED <<row, ledger, jid>>,
               \E l \in {"saved", "checked", "finishing", "searching", "creating"} : Step(s, l)
        PROVE  Ties'
    BY <1>2, <1>t
  <1>3. ASSUME NEW s \in Sender, EditorSave(s) PROVE Ties'
    <2>1. /\ row'.journal = row.journal
          /\ row'.status = "pushed" => row.status = "pushed"
      BY <1>3, <1>t DEF EditorSave, SaveEdits, Row
    <2> QED
      BY <1>3, <1>t, <2>1 DEF EditorSave
  <1>4. ASSUME NEW s \in Sender, Search(s) PROVE Ties'
    <2>1. CASE \E j \in DOMAIN ledger : jid' = [jid EXCEPT ![s] = j]
      BY <1>4, <1>t, <2>1 DEF Search
    <2> QED
      BY <1>1, <1>2, <1>4, <2>1 DEF Search, SearchByExternalID
  <1>5. ASSUME NEW s \in Sender, FireflyCreates(s) PROVE Ties'
    <2>1. body[s] \in Request
      BY <1>5 DEF FireflyCreates, PushTypeOK
    <2>2. /\ Len(ledger') = Len(ledger) + 1
          /\ DOMAIN ledger' = 1..Len(ledger')
      BY <1>5, <1>t, <2>1, AppendProperties, LenProperties DEF FireflyCreates
    <2> QED
      BY <1>5, <1>t, <2>2 DEF FireflyCreates
  <1>6. ASSUME NEW s \in Sender, Mark(s) PROVE Ties'
    <2>1. /\ row'.journal = jid[s] /\ jid[s] \in 1..Len(ledger)
      BY <1>6, <1>t DEF Mark, MarkPushed, Row
    <2> QED
      BY <1>6, <1>t, <2>1 DEF Mark
  <1>7. ASSUME NEW s \in Sender, Finish(s) PROVE Ties'
    <2>1. /\ row'.journal = row.journal
          /\ row'.status = "pushed" => row.status = "pushed"
      BY <1>7, <1>t DEF Finish, PutLater, Row
    <2> QED
      BY <1>7, <1>t, <2>1 DEF Finish
  <1>8. ASSUME NEW s \in Sender, UpdateFetch(s) PROVE Ties'
    <2>1. CASE /\ row.journal # 0 /\ jid' = [jid EXCEPT ![s] = row.journal]
               /\ Step(s, "updating")
      BY <1>8, <1>t, <2>1 DEF UpdateFetch
    <2> QED
      BY <1>1, <1>8, <2>1 DEF UpdateFetch
  <1>9. ASSUME NEW s \in Sender, FireflyUpdates(s) PROVE Ties'
    <2>1. DOMAIN ledger' = DOMAIN ledger /\ Len(ledger') = Len(ledger)
      <3>1. ledger \in [1..Len(ledger) -> Request] /\ jid[s] \in 1..Len(ledger) /\ body[s] \in Request
        BY <1>9, <1>t, LenProperties DEF FireflyUpdates, PushTypeOK
      <3> QED
        BY <1>9, <1>t, <3>1, ExceptSeq DEF FireflyUpdates
    <2> QED
      BY <1>9, <1>t, <2>1 DEF FireflyUpdates
  <1>10. CASE FireflyCreatesLate
    <2>1. PICK q \in late : ledger' = Append(ledger, q.value)
      BY <1>10 DEF FireflyCreatesLate
    <2>2. q.value \in Request
      BY <2>1 DEF PushTypeOK
    <2>3. /\ Len(ledger') = Len(ledger) + 1
          /\ DOMAIN ledger' = 1..Len(ledger')
      BY <1>t, <2>1, <2>2, AppendProperties, LenProperties
    <2> QED
      BY <1>10, <1>t, <2>3 DEF FireflyCreatesLate
  <1>11. CASE Crash
    BY <1>11, <1>t DEF Crash
  <1>12. ASSUME NEW s \in Sender, SendCard(s) \/ SendAdmin(s) PROVE Ties'
    BY <1>2, <1>12 DEF SendCard, SendAdmin
  <1>13. ASSUME NEW s \in Sender, EditorUnresolved(s) \/ EditorCheckHold(s) PROVE Ties'
    BY <1>1, <1>2, <1>13 DEF EditorUnresolved, EditorCheckHold
  <1>14. ASSUME NEW s \in Sender, Fetch(s) PROVE Ties'
    BY <1>1, <1>2, <1>14 DEF Fetch
  <1>15. ASSUME NEW s \in Sender,
                FireflyRefuses(s) \/ AnswerLost(s) \/ GiveUp(s) \/ MarkFails(s)
         PROVE  Ties'
    BY <1>1, <1>15 DEF FireflyRefuses, AnswerLost, GiveUp, MarkFails
  <1> QED
    BY <1>0, <1>3, <1>4, <1>5, <1>6, <1>7, <1>8, <1>9, <1>10, <1>11, <1>12, <1>13, <1>14,
       <1>15 DEF PushNext, Send

(* With one sender and no late creates, the search's answer stays true      *)
(* until the create it allows.                                              *)
LEMMA SingleStep ==
    ASSUME OneAtATime, PushTypeOK, Ties, Single, [PushNext]_pushVars
    PROVE  Single'
  <1> USE DEF Single, Step, Return, firefly, sendVars
  <1>t. /\ spc \in [Sender -> SenderLabels] /\ ledger \in Seq(Request)
        /\ Len(ledger) \in Nat
        /\ \A s, t \in Sender : s = t
    BY LenProperties DEF PushTypeOK, OneAtATime
  <1>0. CASE UNCHANGED pushVars
    BY <1>0 DEF pushVars
  <1>1. ASSUME NEW s \in Sender, UNCHANGED firefly,
               \E l \in SenderLabels \ {"creating"} : Step(s, l)
        PROVE  Single'
    BY <1>1, <1>t DEF SenderLabels
  <1>2. ASSUME NEW s \in Sender, Search(s) PROVE Single'
    <2>1. DOMAIN ledger = {} => ledger = <<>>
      BY <1>t, EmptySeq, LenProperties
    <2>2. CASE ledger # <<>>
      BY <1>1, <1>2, <1>t, <2>1, <2>2 DEF Search, SearchByExternalID, SenderLabels
    <2>3. CASE ledger = <<>>
      BY <1>2, <1>t, <2>3 DEF Search
    <2> QED
      BY <2>2, <2>3
  <1>3. ASSUME NEW s \in Sender, FireflyCreates(s) PROVE Single'
    <2>1. ledger = <<>> /\ body[s] \in Request /\ Len(ledger) = 0
      BY <1>3 DEF FireflyCreates, PushTypeOK
    <2>2. Len(ledger') = 1
      BY <1>3, <1>t, <2>1, AppendProperties DEF FireflyCreates
    <2>3. \A t \in Sender : spc'[t] # "creating"
      BY <1>3, <1>t DEF FireflyCreates
    <2> QED
      BY <1>3, <2>2, <2>3 DEF FireflyCreates
  <1>4. ASSUME NEW s \in Sender, FireflyUpdates(s) PROVE Single'
    <2>1. Len(ledger') = Len(ledger)
      <3>1. jid[s] \in 1..Len(ledger) /\ body[s] \in Request
        BY <1>4, <1>t, LenProperties DEF FireflyUpdates, PushTypeOK, Ties
      <3> QED
        BY <1>4, <1>t, <3>1, ExceptSeq DEF FireflyUpdates
    <2>2. \A t \in Sender : spc'[t] # "creating"
      BY <1>4, <1>t DEF FireflyUpdates
    <2> QED
      BY <1>4, <2>1, <2>2 DEF FireflyUpdates
  <1>5. CASE FireflyCreatesLate
    BY <1>5 DEF FireflyCreatesLate
  <1>6. CASE Crash
    BY <1>6 DEF Crash, OneAtATime
  <1>7. ASSUME NEW s \in Sender, GiveUp(s) PROVE Single'
    BY <1>7 DEF GiveUp, OneAtATime
  <1>8. ASSUME NEW s \in Sender,
               \/ SendCard(s) \/ SendAdmin(s) \/ EditorSave(s) \/ EditorUnresolved(s)
               \/ EditorCheckHold(s) \/ UpdateFetch(s)
        PROVE  Single'
    BY <1>1, <1>8 DEF SendCard, SendAdmin, EditorSave, EditorUnresolved, EditorCheckHold,
       UpdateFetch, SenderLabels
  <1>9. ASSUME NEW s \in Sender, Fetch(s) PROVE Single'
    BY <1>1, <1>9 DEF Fetch, SenderLabels
  <1>10. ASSUME NEW s \in Sender,
                \/ FireflyRefuses(s) \/ AnswerLost(s) \/ Mark(s) \/ MarkFails(s) \/ Finish(s)
         PROVE  Single'
    BY <1>1, <1>10 DEF FireflyRefuses, AnswerLost, Mark, MarkFails, Finish, SenderLabels
  <1> QED
    BY <1>0, <1>2, <1>3, <1>4, <1>5, <1>6, <1>7, <1>8, <1>9, <1>10 DEF PushNext, Send

-----------------------------------------------------------------------------
(* The initial states satisfy everything. *)
LEMMA InitHolds == PushInit => PushTypeOK /\ Ties /\ Single
  <1> SUFFICES ASSUME PushInit PROVE PushTypeOK /\ Ties /\ Single
    OBVIOUS
  <1>1. PushTypeOK
    BY InitTypes
  <1>2. Len(ledger) = 0 /\ row.journal = 0 /\ row.status # "pushed"
    BY PushAssumption DEF PushInit
  <1>3. \A s \in Sender : spc[s] = "idle"
    BY DEF PushInit
  <1> QED
    BY <1>1, <1>2, <1>3 DEF PushInit, Ties, Single

(* A write of somebody else that keeps the journal, and makes no row        *)
(* pushed, disturbs nothing.                                                *)
LEMMA OtherWriteStep ==
    ASSUME PushTypeOK, Ties, OtherWrite
    PROVE  PushTypeOK' /\ Ties' /\ (Single => Single')
  <1>1. PushTypeOK'
    BY DEF PushTypeOK, OtherWrite, firefly, sendVars
  <1>2. Ties'
    BY DEF Ties, OtherWrite, firefly, sendVars
  <1>3. Single => Single'
    BY DEF Single, OtherWrite, firefly, sendVars
  <1> QED
    BY <1>1, <1>2, <1>3

(* The invariant gives the property. *)
LEMMA TiesGive == PushTypeOK /\ Ties => PushedIsBooked
  <1> SUFFICES ASSUME PushTypeOK, Ties PROVE PushedIsBooked
    OBVIOUS
  <1>1. DOMAIN ledger = 1..Len(ledger) /\ row.journal \in Nat /\ Len(ledger) \in Nat
    BY LenProperties DEF PushTypeOK, Row
  <1> QED
    BY <1>1 DEF PushTypeOK, Ties, PushedIsBooked

-----------------------------------------------------------------------------
(* PushTypeOK and Ties hold throughout, for any senders and any faults. *)
THEOREM PushInvariance == PushSpec => [](PushTypeOK /\ Ties)
  <1>1. PushInit => PushTypeOK /\ Ties
    BY InitHolds
  <1>2. PushTypeOK /\ Ties /\ [PushNext]_pushVars => (PushTypeOK /\ Ties)'
    BY TypesStep, TiesStep
  <1> QED
    BY <1>1, <1>2, PTL DEF PushSpec

(* Every variable keeps its type. *)
THEOREM PushTypeCorrect == PushSpec => []PushTypeOK
  BY PushInvariance, PTL

(* A row that says it is in Firefly points to a transaction that is there,  *)
(* with any number of concurrent senders and any faults.                    *)
THEOREM PushedRowsAreBooked == PushSpec => []PushedIsBooked
  <1>1. PushTypeOK /\ Ties => PushedIsBooked
    BY TiesGive
  <1> QED
    BY <1>1, PushInvariance, PTL

(* A row never forgets the transaction it points to. *)
LEMMA JournalStep ==
    ASSUME PushTypeOK, Ties, [PushNext]_pushVars, row.journal # 0
    PROVE  row'.journal # 0
  <1>1. CASE UNCHANGED row
    BY <1>1
  <1>2. ASSUME NEW s \in Sender, EditorSave(s) PROVE row'.journal = row.journal
    BY <1>2 DEF EditorSave, SaveEdits, PushTypeOK, Row
  <1>3. ASSUME NEW s \in Sender, Finish(s) PROVE row'.journal = row.journal
    BY <1>3 DEF Finish, PutLater, PushTypeOK, Row
  <1>4. ASSUME NEW s \in Sender, Mark(s) PROVE row'.journal # 0
    <2>1. row'.journal = jid[s]
      BY <1>4 DEF Mark, MarkPushed, PushTypeOK, Row
    <2>2. jid[s] \in 1..Len(ledger) /\ Len(ledger) \in Nat
      BY <1>4, LenProperties DEF Mark, Ties, PushTypeOK
    <2> QED
      BY <2>1, <2>2
  <1>5. \/ UNCHANGED row
        \/ \E s \in Sender : EditorSave(s) \/ Finish(s) \/ Mark(s)
    BY DEF PushNext, Send, pushVars, SendCard, SendAdmin, EditorUnresolved, EditorCheckHold,
       Fetch, Search, FireflyCreates, FireflyRefuses, AnswerLost, GiveUp, MarkFails,
       UpdateFetch, FireflyUpdates, FireflyCreatesLate, Crash
  <1> QED
    BY <1>1, <1>2, <1>3, <1>4, <1>5

(* The local half of the idempotency check cannot be undone, whoever sends. *)
THEOREM JournalsAreKept == PushSpec => JournalIsKept
  <1>1. PushTypeOK /\ Ties /\ [PushNext]_pushVars
            => [row.journal # 0 => row'.journal # 0]_pushVars
    BY JournalStep
  <1> QED
    BY <1>1, PushInvariance, PTL DEF PushSpec, JournalIsKept

(* With one sender at a time, and none that gives up on a create Firefly    *)
(* may still carry out, retries after refusals, lost answers, failed marks  *)
(* and crashes never book a transaction twice.                              *)
THEOREM NoDoubleBooking == ASSUME OneAtATime PROVE PushSpec => []NoDoubles
  <1>1. PushInit => PushTypeOK /\ Ties /\ Single
    BY InitHolds
  <1>2. PushTypeOK /\ Ties /\ Single /\ [PushNext]_pushVars => (PushTypeOK /\ Ties /\ Single)'
    BY TypesStep, TiesStep, SingleStep
  <1>3. Single => NoDoubles
    BY DEF Single, NoDoubles
  <1> QED
    BY <1>1, <1>2, <1>3, PTL DEF PushSpec

(* The initial state of a push is the initial state of a booking. *)
LEMMA BookingStarts == PushInit => B!BookingInit
  <1> SUFFICES ASSUME PushInit PROVE B!BookingInit
    OBVIOUS
  <1>1. ledger = <<>> /\ row.journal = 0
    BY PushAssumption DEF PushInit
  <1> QED
    BY <1>1 DEF B!BookingInit

(* Every step of a push books, points, or changes nothing of the two. *)
LEMMA BookingStep ==
    ASSUME OneAtATime, PushTypeOK, Ties, Single, [PushNext]_pushVars
    PROVE  [B!BookingNext]_(B!bookingVars)
  <1> USE DEF B!BookingNext, B!bookingVars, B!Book, B!Point
  <1>t. /\ row \in Row /\ row.journal \in Nat /\ Len(ledger) \in Nat /\ ledger \in Seq(Request)
        /\ DOMAIN ledger = 1..Len(ledger)
    BY LenProperties DEF PushTypeOK, Row
  <1>1. CASE UNCHANGED <<row, ledger>>
    BY <1>1
  <1>2. ASSUME NEW s \in Sender, EditorSave(s) \/ Finish(s)
        PROVE  row'.journal = row.journal /\ ledger' = ledger
    BY <1>2, <1>t DEF EditorSave, Finish, SaveEdits, PutLater, Row, firefly
  <1>3. ASSUME NEW s \in Sender, Mark(s) PROVE B!Point
    <2>1. jid[s] = 1 /\ Len(ledger) = 1
      BY <1>3, <1>t DEF Mark, Ties, Single
    <2>2. row'.journal = jid[s] /\ ledger' = ledger
      BY <1>3, <1>t DEF Mark, MarkPushed, Row, firefly
    <2> QED
      BY <2>1, <2>2
  <1>4. ASSUME NEW s \in Sender, FireflyCreates(s) PROVE B!Book
    <2>1. ledger = <<>> /\ body[s] \in Request /\ Len(ledger) = 0 /\ row' = row
      BY <1>4 DEF FireflyCreates, PushTypeOK, Single
    <2>2. Len(ledger') = 1
      BY <1>4, <1>t, <2>1, AppendProperties DEF FireflyCreates
    <2> QED
      BY <2>1, <2>2
  <1>5. ASSUME NEW s \in Sender, FireflyUpdates(s)
        PROVE  row' = row /\ Len(ledger') = Len(ledger)
    <2>1. jid[s] \in 1..Len(ledger) /\ body[s] \in Request
      BY <1>5, <1>t DEF FireflyUpdates, PushTypeOK, Ties
    <2> QED
      BY <1>5, <1>t, <2>1, ExceptSeq DEF FireflyUpdates
  <1>6. \/ UNCHANGED <<row, ledger>>
        \/ \E s \in Sender : \/ EditorSave(s) \/ Finish(s) \/ Mark(s)
                             \/ FireflyCreates(s) \/ FireflyUpdates(s)
    <2>1. ~FireflyCreatesLate
      BY DEF FireflyCreatesLate, Single
    <2> QED
      BY <2>1 DEF PushNext, Send, pushVars, SendCard, SendAdmin, EditorUnresolved, EditorCheckHold,
         Fetch, Search, FireflyRefuses, AnswerLost, GiveUp, MarkFails, UpdateFetch, Crash, firefly
  <1> QED
    BY <1>1, <1>2, <1>3, <1>4, <1>5, <1>6

(* Under the same two conditions the push implements the booking it         *)
(* promises: booked once, pointed to afterwards, never unbooked.            *)
THEOREM PushImplementsBooking == ASSUME OneAtATime PROVE PushSpec => ImplementsBooking
  <1>1. PushInit => PushTypeOK /\ Ties /\ Single
    BY InitHolds
  <1>2. PushTypeOK /\ Ties /\ Single /\ [PushNext]_pushVars => (PushTypeOK /\ Ties /\ Single)'
    BY TypesStep, TiesStep, SingleStep
  <1>3. PushTypeOK /\ Ties /\ Single /\ [PushNext]_pushVars => [B!BookingNext]_(B!bookingVars)
    BY BookingStep
  <1>4. PushInit => B!BookingInit
    BY BookingStarts
  <1> QED
    BY <1>1, <1>2, <1>3, <1>4, PTL DEF PushSpec, ImplementsBooking, B!BookingSpec

-----------------------------------------------------------------------------
(* The person and the engine around it. *)

HandsOff == row.manual => ThePersons(row) /\ \A w \in Worker : job[w] = "none"

JobsTyped == job \in [Worker -> Jobs] /\ listed \in [Worker -> Statuses]

(* The writes of the person and the engine, as writes of a row. *)
OwnWrite(r, q) ==
    \/ q \in {r, Hold(r), Unhold(r), SkipCard(r), SkipListed(r), RecordRelease(r), Restore(r),
              ResetToPending(r)}
    \/ \E c \in Choice : q = SaveEdits(r, c)
    \/ \E b \in BOOLEAN : q = PutLater(r, b)
    \/ \E c \in Choice : q = PutLater(SaveEdits(r, c), FALSE)
    \/ \E d \in Decision : q = ApplyDecision(r, d)
    \/ \E v \in Suggestion : q = RepairFilled(r, v)
    \/ \E st \in Statuses, v \in Value : q = RepairSwapped(r, st, v)

(* Each of them keeps the journal and pushes nothing. *)
LEMMA OwnWritesKeep ==
    ASSUME NEW r \in Row, NEW q, OwnWrite(r, q)
    PROVE  q \in Row /\ q.journal = r.journal /\ q.manual = r.manual
           /\ (q.status = "pushed" => r.status = "pushed")
  <1> USE DEF Row, Statuses
  <1>1. ASSUME q \in {Hold(r), Unhold(r), SkipCard(r), SkipListed(r), RecordRelease(r), Restore(r),
                      ResetToPending(r), r}
        PROVE  q \in Row /\ q.journal = r.journal /\ q.manual = r.manual
               /\ (q.status = "pushed" => r.status = "pushed")
    BY <1>1 DEF Hold, Unhold, SkipCard, SkipListed, RecordRelease, Restore, ResetToPending
  <1>2. ASSUME NEW c \in Choice, q = SaveEdits(r, c) \/ q = PutLater(SaveEdits(r, c), FALSE)
        PROVE  q \in Row /\ q.journal = r.journal /\ q.manual = r.manual
               /\ (q.status = "pushed" => r.status = "pushed")
    BY <1>2 DEF SaveEdits, PutLater
  <1>3. ASSUME NEW d \in Decision, q = ApplyDecision(r, d)
        PROVE  q \in Row /\ q.journal = r.journal /\ q.manual = r.manual
               /\ (q.status = "pushed" => r.status = "pushed")
    BY <1>3 DEF Decision, ApplyDecision, FoldMayHold
  <1>4. ASSUME NEW v \in Value, NEW st \in Statuses,
               q = RepairSwapped(r, st, v)
        PROVE  q \in Row /\ q.journal = r.journal /\ q.manual = r.manual
               /\ (q.status = "pushed" => r.status = "pushed")
    BY <1>4 DEF RepairSwapped, Value
  <1>5. ASSUME NEW b \in BOOLEAN, q = PutLater(r, b)
        PROVE  q \in Row /\ q.journal = r.journal /\ q.manual = r.manual
               /\ (q.status = "pushed" => r.status = "pushed")
    BY <1>5 DEF PutLater
  <1>6. ASSUME NEW v \in Suggestion, q = RepairFilled(r, v)
        PROVE  q \in Row /\ q.journal = r.journal /\ q.manual = r.manual
               /\ (q.status = "pushed" => r.status = "pushed")
    BY <1>6 DEF RepairFilled
  <1> QED
    BY <1>1, <1>2, <1>3, <1>4, <1>5, <1>6 DEF OwnWrite

(* A step is one of the push, or a write of one of the others. *)
LEMMA StepIsPushOrOther ==
    ASSUME PushTypeOK, JobsTyped, [ReviewNext]_reviewVars
    PROVE  [PushNext]_pushVars \/ (OwnWrite(row, row') /\ UNCHANGED <<firefly, sendVars>>)
  <1> DEFINE Other == OwnWrite(row, row') /\ UNCHANGED <<firefly, sendVars>>
  <1>0. CASE UNCHANGED pushVars
    BY <1>0
  <1>1. CASE Pushing \/ ReviewCrash
    BY <1>1 DEF Pushing, ReviewCrash, PushNext
  <1>2. ASSUME NEW t \in Tab, Person(t) PROVE UNCHANGED pushVars \/ Other
    BY <1>2 DEF Person, OwnWrite, TabWrites, CardOpens, EditorChangesHold, CardEdits, CardPutsLater,
       CardHolds, CardSkips, CardReadsHold, CardUnholds, CardRecordsRelease, CardRestores,
       EditorSaves, ListSkips
  <1>3. ASSUME NEW w \in Worker, Engine(w) PROVE UNCHANGED pushVars \/ Other
    <2>1. CASE \/ ClassifyPending(w) \/ ReclassifyUnconfirmed(w) \/ ReclassifyUUIDs(w)
               \/ Resuggest(w) \/ Repair(w)
      BY <2>1 DEF ClassifyPending, ReclassifyUnconfirmed, ReclassifyUUIDs, Resuggest, Repair, JobStarts
    <2>2. CASE ClassifyApplies(w) \/ ResuggestApplies(w)
      BY <2>2 DEF ClassifyApplies, ResuggestApplies, JobWrites, JobGoes, OwnWrite
    <2>3. CASE ClassifyDefers(w) \/ ClassifyFails(w) \/ ResuggestFails(w) \/ ResuggestRechecks(w)
      BY <2>3 DEF ClassifyDefers, ClassifyFails, ResuggestFails, ResuggestRechecks, JobWrites, JobGoes,
         OwnWrite
    <2>4. CASE RepairWrites(w)
      <3>1. listed[w] \in Statuses
        BY DEF JobsTyped
      <3> QED
        BY <2>4, <3>1 DEF RepairWrites, JobWrites, JobGoes, OwnWrite, Value
    <2> QED
      BY <1>3, <2>1, <2>2, <2>3, <2>4 DEF Engine
  <1>4. UNCHANGED reviewVars => UNCHANGED pushVars
    BY DEF reviewVars
  <1> QED
    BY <1>0, <1>1, <1>2, <1>3, <1>4 DEF ReviewNext

(* To the push, the others are harmless. *)
LEMMA OwnWriteIsOther ==
    ASSUME PushTypeOK, OwnWrite(row, row'), UNCHANGED <<firefly, sendVars>>
    PROVE  OtherWrite
  BY OwnWritesKeep DEF OtherWrite, PushTypeOK

(* The jobs stay in their types. *)
LEMMA JobsStep == PushTypeOK /\ JobsTyped /\ [ReviewNext]_reviewVars => JobsTyped'
  <1> SUFFICES ASSUME PushTypeOK, JobsTyped, [ReviewNext]_reviewVars PROVE JobsTyped'
    OBVIOUS
  <1> USE DEF JobsTyped, Jobs
  <1>0. CASE UNCHANGED engineVars
    BY <1>0 DEF engineVars
  <1>1. CASE ReviewCrash
    BY <1>1 DEF ReviewCrash
  <1>2. ASSUME NEW w \in Worker, NEW j \in Jobs, JobStarts(w, j) PROVE JobsTyped'
    BY <1>2 DEF JobStarts, PushTypeOK, Row
  <1>3. ASSUME NEW w \in Worker, NEW j \in Jobs, JobGoes(w, j) PROVE JobsTyped'
    BY <1>3 DEF JobGoes
  <1>4. ASSUME NEW w \in Worker, Engine(w) PROVE JobsTyped'
    BY <1>2, <1>3, <1>4 DEF Engine, ClassifyPending, ReclassifyUnconfirmed, ReclassifyUUIDs,
       ClassifyApplies, ClassifyDefers, ClassifyFails, Resuggest, ResuggestRechecks,
       ResuggestApplies, ResuggestFails, Repair, RepairWrites, JobWrites
  <1>5. ASSUME NEW t \in Tab, Person(t) PROVE UNCHANGED engineVars
    BY <1>5 DEF Person, TabWrites, CardOpens, EditorChangesHold, CardEdits, CardPutsLater,
       CardHolds, CardSkips, CardReadsHold, CardUnholds, CardRecordsRelease, CardRestores,
       EditorSaves, ListSkips, engineVars
  <1> QED
    BY <1>0, <1>1, <1>4, <1>5 DEF ReviewNext, Pushing, reviewVars, engineVars

(* What a step of Review does to the invariants of the push. *)
LEMMA ReviewStep ==
    ASSUME PushTypeOK, Ties, JobsTyped, [ReviewNext]_reviewVars
    PROVE  PushTypeOK' /\ Ties' /\ JobsTyped' /\ (OneAtATime /\ Single => Single')
  <1>1. CASE [PushNext]_pushVars
    BY <1>1, TypesStep, TiesStep, SingleStep, JobsStep
  <1>2. CASE OwnWrite(row, row') /\ UNCHANGED <<firefly, sendVars>>
    BY <1>2, OwnWriteIsOther, OtherWriteStep, JobsStep
  <1> QED
    BY <1>1, <1>2, StepIsPushOrOther

(* The initial states. *)
LEMMA ReviewStarts == ReviewInit => PushTypeOK /\ Ties /\ JobsTyped /\ Single /\ HandsOff
  <1> SUFFICES ASSUME ReviewInit PROVE PushTypeOK /\ Ties /\ JobsTyped /\ Single /\ HandsOff
    OBVIOUS
  <1>1. PushTypeOK /\ Ties /\ Single
    BY InitHolds DEF ReviewInit
  <1>2. JobsTyped
    BY DEF ReviewInit, JobsTyped, Jobs, Statuses
  <1>3. HandsOff
    BY ReviewAssumption DEF ReviewInit, PushInit, HandsOff
  <1> QED
    BY <1>1, <1>2, <1>3

-----------------------------------------------------------------------------
(* PushTypeOK, Ties and the types of the jobs hold throughout. *)
THEOREM ReviewInvariance == ReviewSpec => [](PushTypeOK /\ Ties /\ JobsTyped)
  <1>1. ReviewInit => PushTypeOK /\ Ties /\ JobsTyped
    BY ReviewStarts
  <1>2. PushTypeOK /\ Ties /\ JobsTyped /\ [ReviewNext]_reviewVars => (PushTypeOK /\ Ties /\ JobsTyped)'
    BY ReviewStep
  <1> QED
    BY <1>1, <1>2, PTL DEF ReviewSpec

(* A request of the person is always about one of its decisions.            *)
TabsTyped == tpc \in [Tab -> TabLabels]

LEMMA TabsStep == TabsTyped /\ [ReviewNext]_reviewVars => TabsTyped'
  <1> SUFFICES ASSUME TabsTyped, [ReviewNext]_reviewVars PROVE TabsTyped'
    OBVIOUS
  <1> USE DEF TabsTyped
  <1>1. ASSUME NEW t \in Tab, NEW l \in TabLabels, TabGoes(t, l) PROVE TabsTyped'
    BY <1>1 DEF TabGoes
  <1>2. AllOps \subseteq TabLabels /\ {"idle", "unhold_fold", "unhold_person", "record_release"} \subseteq TabLabels
    BY DEF TabLabels
  <1>3. Ops \subseteq AllOps
    BY ReviewAssumption
  <1>4. ASSUME NEW t \in Tab, Person(t) PROVE \E l \in TabLabels : TabGoes(t, l)
    BY <1>2, <1>3, <1>4 DEF Person, CardOpens, EditorChangesHold, TabWrites, CardEdits, CardPutsLater, CardHolds,
       CardSkips, CardReadsHold, CardUnholds, CardRecordsRelease, CardRestores, EditorSaves, ListSkips
  <1>5. ASSUME NEW w \in Worker, Engine(w) PROVE tpc' = tpc
    BY <1>5 DEF Engine, ClassifyPending, ReclassifyUnconfirmed, ReclassifyUUIDs, JobStarts, JobGoes,
       ClassifyApplies, ClassifyDefers, ClassifyFails, Resuggest, ResuggestRechecks,
       ResuggestApplies, ResuggestFails, Repair, RepairWrites, JobWrites
  <1>6. CASE ReviewCrash
    BY <1>2, <1>6 DEF ReviewCrash
  <1>7. CASE UNCHANGED tpc
    BY <1>7
  <1> QED
    BY <1>1, <1>4, <1>5, <1>6, <1>7 DEF ReviewNext, Pushing, reviewVars

(* Every variable stays in its type, whoever writes the row (the handlers   *)
(* of review.go and ui.go, the jobs of classifier.go, resuggest.go and      *)
(* repair.go, push.go).                                                     *)
THEOREM ReviewTypeCorrect == ReviewSpec => []ReviewTypeOK
  <1>1. ReviewInit => TabsTyped
    BY DEF ReviewInit, TabsTyped, TabLabels
  <1>2. PushTypeOK /\ Ties /\ JobsTyped /\ TabsTyped => ReviewTypeOK
    BY TiesGive DEF JobsTyped, TabsTyped, ReviewTypeOK
  <1> QED
    BY <1>1, <1>2, TabsStep, ReviewInvariance, PTL DEF ReviewSpec

(* A row that says it is in Firefly is there, whatever the engine, the      *)
(* person and any number of senders do to it at once.                       *)
THEOREM ReviewedRowsAreBooked == ReviewSpec => []PushedIsBooked
  <1>1. PushTypeOK /\ Ties => PushedIsBooked
    BY TiesGive
  <1> QED
    BY <1>1, ReviewInvariance, PTL

(* The engine may wrongly bring a sent card back to the deck, and the       *)
(* person may send it again: with one sender at a time, and no create that  *)
(* outlives its sender, it is still booked once.                            *)
THEOREM NoDoubleBookingUnderReview == ASSUME OneAtATime PROVE ReviewSpec => []NoDoubles
  <1>1. ReviewInit => PushTypeOK /\ Ties /\ JobsTyped /\ Single
    BY ReviewStarts
  <1>2. PushTypeOK /\ Ties /\ JobsTyped /\ Single /\ [ReviewNext]_reviewVars
            => (PushTypeOK /\ Ties /\ JobsTyped /\ Single)'
    BY ReviewStep
  <1>3. Single => NoDoubles
    BY DEF Single, NoDoubles
  <1> QED
    BY <1>1, <1>2, <1>3, PTL DEF ReviewSpec

-----------------------------------------------------------------------------
(* No step of the push or the person makes a hand-added row anything but    *)
(* the person's.                                                            *)
LEMMA PushKeepsThePersons ==
    ASSUME PushTypeOK, Ties, ThePersons(row), [PushNext]_pushVars
    PROVE  ThePersons(row') /\ row'.manual = row.manual
  <1> USE DEF ThePersons, PushTypeOK, Row
  <1>1. CASE UNCHANGED row
    BY <1>1
  <1>2. ASSUME NEW s \in Sender, EditorSave(s)
        PROVE  ThePersons(row') /\ row'.manual = row.manual
    BY <1>2 DEF EditorSave, SaveEdits
  <1>3. ASSUME NEW s \in Sender, Finish(s)
        PROVE  ThePersons(row') /\ row'.manual = row.manual
    BY <1>3 DEF Finish, PutLater
  <1>4. ASSUME NEW s \in Sender, Mark(s)
        PROVE  ThePersons(row') /\ row'.manual = row.manual
    BY <1>4 DEF Mark, MarkPushed
  <1>5. \/ UNCHANGED row
        \/ \E s \in Sender : EditorSave(s) \/ Finish(s) \/ Mark(s)
    BY DEF PushNext, Send, pushVars, SendCard, SendAdmin, EditorUnresolved, EditorCheckHold,
       Fetch, Search, FireflyCreates, FireflyRefuses, AnswerLost, GiveUp, MarkFails,
       UpdateFetch, FireflyUpdates, FireflyCreatesLate, Crash
  <1> QED
    BY <1>1, <1>2, <1>3, <1>4, <1>5

(* Nor does the person. *)
LEMMA PersonKeepsThePersons ==
    ASSUME PushTypeOK, ThePersons(row), NEW t \in Tab, Person(t)
    PROVE  ThePersons(row') /\ row'.manual = row.manual /\ job' = job
  <1> USE DEF ThePersons, PushTypeOK, Row
  <1>1. CASE CardOpens(t) \/ EditorChangesHold(t) \/ CardReadsHold(t)
    BY <1>1 DEF CardOpens, EditorChangesHold, CardReadsHold, pushVars, engineVars
  <1>2. CASE CardEdits(t) \/ EditorSaves(t) \/ CardPutsLater(t)
    BY <1>2 DEF CardEdits, EditorSaves, CardPutsLater, TabWrites, SaveEdits, PutLater, engineVars
  <1>3. CASE CardHolds(t) \/ CardUnholds(t) \/ CardRecordsRelease(t)
    BY <1>3 DEF CardHolds, CardUnholds, CardRecordsRelease, TabWrites, Hold, Unhold, RecordRelease,
       engineVars
  <1>4. CASE CardSkips(t) \/ CardRestores(t) \/ ListSkips(t)
    BY <1>4 DEF CardSkips, CardRestores, ListSkips, TabWrites, SkipCard, Restore, SkipListed,
       engineVars
  <1> QED
    BY <1>1, <1>2, <1>3, <1>4 DEF Person

(* A row that is not hand-added never becomes so. *)
LEMMA ManualIsForGood ==
    ASSUME PushTypeOK, JobsTyped, [ReviewNext]_reviewVars
    PROVE  row'.manual = row.manual
  <1>1. CASE [PushNext]_pushVars
    <2> USE DEF PushTypeOK, Row
    <2>1. \/ UNCHANGED row
          \/ \E c \in Choice : row' = SaveEdits(row, c)
          \/ \E b \in BOOLEAN : row' = PutLater(row, b)
          \/ \E s \in Sender : row' = MarkPushed(row, jid[s])
      BY <1>1 DEF PushNext, Send, pushVars, SendCard, SendAdmin, EditorSave, EditorUnresolved,
         EditorCheckHold, Fetch, Search, FireflyCreates, FireflyRefuses, AnswerLost, GiveUp, Mark,
         MarkFails, Finish, UpdateFetch, FireflyUpdates, FireflyCreatesLate, Crash
    <2> QED
      BY <2>1 DEF SaveEdits, PutLater, MarkPushed
  <1>2. CASE OwnWrite(row, row')
    BY <1>2, OwnWritesKeep DEF PushTypeOK
  <1> QED
    BY <1>1, <1>2, StepIsPushOrOther

(* No job starts on a hand-added row, so none ever writes to it. *)
LEMMA HandsOffStep ==
    ASSUME PushTypeOK, Ties, JobsTyped, HandsOff, [ReviewNext]_reviewVars
    PROVE  HandsOff'
  <1> SUFFICES ASSUME row'.manual PROVE HandsOff'
    BY DEF HandsOff
  <1>m. row.manual /\ ThePersons(row) /\ \A w \in Worker : job[w] = "none"
    BY ManualIsForGood DEF HandsOff
  <1>1. CASE UNCHANGED reviewVars
    BY <1>1, <1>m DEF HandsOff, reviewVars, pushVars
  <1>2. CASE Pushing
    BY <1>2, <1>m, PushKeepsThePersons DEF HandsOff, Pushing, PushNext, engineVars
  <1>3. CASE ReviewCrash
    BY <1>3, <1>m, PushKeepsThePersons DEF HandsOff, ReviewCrash, PushNext
  <1>4. ASSUME NEW t \in Tab, Person(t) PROVE HandsOff'
    BY <1>4, <1>m, PersonKeepsThePersons DEF HandsOff
  <1>5. ASSUME NEW w \in Worker, Engine(w) PROVE FALSE
    BY <1>5, <1>m DEF Engine, ClassifyPending, ReclassifyUnconfirmed, ReclassifyUUIDs,
       ClassifyApplies, ClassifyDefers, ClassifyFails, Classifying, Resuggest, ResuggestRechecks,
       ResuggestApplies, ResuggestFails, Repair, RepairWrites, JobStarts
  <1> QED
    BY <1>1, <1>2, <1>3, <1>4, <1>5 DEF ReviewNext

(* A row the person added by hand stays the person's, through every job.    *)
THEOREM ManualRowsAreThePersons == ReviewSpec => []ManualIsThePersons
  <1>1. ReviewInit => PushTypeOK /\ Ties /\ JobsTyped /\ HandsOff
    BY ReviewStarts
  <1>2. PushTypeOK /\ Ties /\ JobsTyped /\ HandsOff /\ [ReviewNext]_reviewVars
            => (PushTypeOK /\ Ties /\ JobsTyped /\ HandsOff)'
    BY ReviewStep, HandsOffStep
  <1>3. HandsOff => ManualIsThePersons
    BY DEF HandsOff, ManualIsThePersons
  <1> QED
    BY <1>1, <1>2, <1>3, PTL DEF ReviewSpec
=============================================================================
