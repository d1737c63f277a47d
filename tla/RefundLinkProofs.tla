---------------------------- MODULE RefundLinkProofs ----------------------------
(***************************************************************************)
(* What RefundLink keeps for every set of rows, journals and tasks.        *)
(*                                                                         *)
(* PairsAreLinked rests on the order of two writes and two reads: a send   *)
(* marks its own row pushed before it looks at the other side.  OnItsWay   *)
(* says what that buys: a refund whose pair is complete is linked, or some *)
(* task has it before it - as the refund it is linking, in its list, or    *)
(* because it has sent the purchase and has not asked yet.                 *)
(***************************************************************************)
EXTENDS RefundLink, TLAPS

Busy == {"reads", "resolves", "lists", "creates", "records"}

(* What a row refers to is something it was said to refund, and it exists. *)
Sound(r, v) == v \in Given => v.to \in meant[r] /\ Exists(v)

Holds(t) ==
    /\ pc[t] \in Busy => target[t] \in Row
    /\ pc[t] = "asks" => own[t] \in Row
    /\ own[t] # nothing => waiting[t] = {}
    /\ pc[t] \in Busy \ {"reads"} =>
          ref[t] \in Given /\ target[t] \in booked /\ ref[t].to \in meant[target[t]]
    /\ pc[t] = "resolves" => Exists(ref[t])
    /\ pc[t] \in Busy \ {"reads", "resolves"} =>
          ref[t].to # target[t] /\ ref[t].to \in booked \cup Outside
    /\ pc[t] = "records" => found[t] \in Between(target[t], ref[t].to)

Referenced == \A r \in Row : Sound(r, confirmed[r]) /\ Sound(r, proposed[r])

Held == \A t \in Task : Holds(t)

(* Task t will come to link r. *)
Course(t, r) ==
    \/ pc[t] \in Busy \ {"resolves"} /\ target[t] = r
    \/ pc[t] = "resolves" /\ target[t] = r /\ ref[t] = Effective(r)
    \/ own[t] # nothing /\ own[t] # r /\ Refers(r, own[t])
    \/ r \in waiting[t]

OnItsWay ==
    \A r \in owed :
        /\ Complete(r, pushed)
        /\ link[r] # NoLink \/ \E t \in Task : Course(t, r)

LEMMA NothingIsNoJournal == nothing \notin Journal /\ nothing \notin Row /\ NoLink \notin Link
BY LinkAssumption DEF Journal, NoLink, Link

LEMMA RefKinds ==
    /\ Unset \in Ref /\ None \in Ref /\ Given \subseteq Ref
    /\ Unset \notin Given /\ None \notin Given
    /\ \A v \in Given : v.to \in Journal /\ (v.by = "fold" => v.to \in Row)
BY DEF Unset, None, Given, Ref, Journal

-----------------------------------------------------------------------------
(* What a task's turn to the next refund leaves. *)

Labels == {"idle", "asks"} \cup Busy

TaskTypes ==
    /\ pc \in [Task -> Labels] /\ target \in [Task -> Row \cup {nothing}]
    /\ ref \in [Task -> Ref] /\ found \in [Task -> Link \cup {NoLink}]
    /\ waiting \in [Task -> SUBSET Row]

(* Nothing of task t's own has changed. *)
Still(t) ==
    /\ pc'[t] = pc[t] /\ own'[t] = own[t] /\ target'[t] = target[t] /\ ref'[t] = ref[t]
    /\ found'[t] = found[t] /\ waiting'[t] = waiting[t]

LEMMA TypesOfTasks == LinkTypeOK => TaskTypes
BY DEF LinkTypeOK, TaskTypes, Labels, Busy

LEMMA TurnsKeepsTypes ==
    ASSUME TaskTypes, NEW t \in Task, NEW l \in Labels, NEW u \in Row \cup {nothing},
           NEW w \in SUBSET Row, Turns(t, l, u, w)
    PROVE  TaskTypes'
BY RefKinds DEF TaskTypes, Turns, Goes

LEMMA TurnsTakes ==
    ASSUME TaskTypes, NEW t \in Task, NEW l, NEW u, NEW w, Turns(t, l, u, w)
    PROVE  /\ pc'[t] = l /\ target'[t] = u /\ waiting'[t] = w
           /\ \A s \in Task \ {t} :
                 /\ pc'[s] = pc[s] /\ target'[s] = target[s] /\ ref'[s] = ref[s]
                 /\ found'[s] = found[s] /\ waiting'[s] = waiting[s]
BY DEF TaskTypes, Turns, Goes

(* The three ways LinkRefund can end. *)
LEMMA OverTurns ==
    ASSUME LinkTypeOK, NEW t \in Task, Over(t)
    PROVE  \/ own[t] # nothing /\ Turns(t, "asks", nothing, waiting[t])
           \/ own[t] = nothing /\ waiting[t] = {} /\ Turns(t, "idle", nothing, {})
           \/ own[t] = nothing /\ \E u \in waiting[t] : Turns(t, "reads", u, waiting[t] \ {u})
BY DEF Over, Continues

LEMMA OverKeepsTypes ==
    ASSUME LinkTypeOK, NEW t \in Task, Over(t)
    PROVE  TaskTypes'
<1>1. TaskTypes BY TypesOfTasks
<1>2. waiting[t] \in SUBSET Row BY DEF LinkTypeOK
<1>3. CASE own[t] # nothing /\ Turns(t, "asks", nothing, waiting[t])
    BY <1>1, <1>2, <1>3, TurnsKeepsTypes DEF Labels
<1>4. CASE Turns(t, "idle", nothing, {})
    BY <1>1, <1>4, TurnsKeepsTypes DEF Labels
<1>5. CASE \E u \in waiting[t] : Turns(t, "reads", u, waiting[t] \ {u})
    BY <1>1, <1>2, <1>5, TurnsKeepsTypes DEF Labels, Busy
<1> QED BY <1>3, <1>4, <1>5, OverTurns

LEMMA OverLeaves ==
    ASSUME LinkTypeOK, NEW t \in Task, Holds(t), Over(t), own' = own
    PROVE  /\ Holds(t)'
           /\ pc'[t] = "idle" => own'[t] = nothing /\ waiting'[t] = {}
           /\ \A s \in Task \ {t} : Still(s)
<1>1. TaskTypes BY TypesOfTasks
<1>2. waiting[t] \in SUBSET Row /\ own[t] \in Row \cup {nothing} BY DEF LinkTypeOK
<1>3. CASE own[t] # nothing /\ Turns(t, "asks", nothing, waiting[t])
    BY <1>1, <1>2, <1>3, TurnsTakes DEF Holds, Still, Busy
<1>4. CASE own[t] = nothing /\ Turns(t, "idle", nothing, {})
    BY <1>1, <1>4, TurnsTakes DEF Holds, Still, Busy
<1>5. CASE \E u \in waiting[t] : Turns(t, "reads", u, waiting[t] \ {u})
    <2> PICK u \in waiting[t] : Turns(t, "reads", u, waiting[t] \ {u}) BY <1>5
    <2> QED BY <1>1, <1>2, TurnsTakes DEF Holds, Still, Busy
<1> QED BY <1>3, <1>4, <1>5, OverTurns

LEMMA StillHolds ==
    ASSUME LinkTypeOK, NEW t \in Task, Holds(t), Still(t),
           booked \subseteq booked', links \subseteq links',
           \A r \in Row : meant[r] \subseteq meant'[r]
    PROVE  Holds(t)'
BY DEF LinkTypeOK, Holds, Still, Between, Exists, Busy

LEMMA RowsGrow ==
    ASSUME LinkTypeOK, Referenced, LinkIsTrue,
           booked \subseteq booked', links \subseteq links',
           \A r \in Row : meant[r] \subseteq meant'[r],
           link' = link, confirmed' = confirmed, proposed' = proposed
    PROVE  Referenced' /\ LinkIsTrue'
<1>1. Referenced' BY DEF Referenced, Sound, Exists
<1>2. LinkIsTrue' BY DEF LinkIsTrue
<1> QED BY <1>1, <1>2

-----------------------------------------------------------------------------
(* Types, what tasks hold, and what rows record: one lemma per action. *)

Safe == LinkTypeOK /\ Referenced /\ Held /\ LinkIsTrue

LEMMA InitSafe == Init => Safe
<1> SUFFICES ASSUME Init PROVE Safe
    OBVIOUS
<1>1. LinkTypeOK
  <2>1. meant \in [Row -> SUBSET Journal]
      BY NothingIsNoJournal, RefKinds DEF Init, Proposable, Ref
  <2> QED BY <2>1, RefKinds DEF Init, LinkTypeOK
<1>2. Referenced
  <2> SUFFICES ASSUME NEW r \in Row PROVE Sound(r, confirmed[r]) /\ Sound(r, proposed[r])
      BY DEF Referenced
  <2>1. Sound(r, confirmed[r]) BY RefKinds DEF Init, Sound
  <2>2. Sound(r, proposed[r]) BY RefKinds DEF Init, Sound, Proposable, Exists
  <2> QED BY <2>1, <2>2
<1>3. Held /\ LinkIsTrue BY DEF Init, Held, Holds, Busy, LinkIsTrue
<1> QED BY <1>1, <1>2, <1>3 DEF Safe

LEMMA ReferencesSafe ==
    ASSUME Safe, NEW r \in Row, NEW v \in Ref,
           SaveRefundOf(r, v) \/ Proposes(r, v)
    PROVE  Safe'
<1> USE DEF Safe
<1>1. /\ Changes(r, v) /\ Exists(v)
      /\ \/ confirmed' = [confirmed EXCEPT ![r] = v] /\ proposed' = proposed
         \/ proposed' = [proposed EXCEPT ![r] = v] /\ confirmed' = confirmed
    BY RefKinds DEF SaveRefundOf, Proposes, Proposable, Exists, Unset
<1>2. /\ \A x \in Row : meant[x] \subseteq meant'[x]
      /\ v \in Given => v.to \in meant'[r]
      /\ meant' \in [Row -> SUBSET Journal]
    BY <1>1, RefKinds DEF Changes, LinkTypeOK
<1>3. LinkTypeOK' BY <1>1, <1>2 DEF Changes, LinkTypeOK, rowVars, taskVars
<1>4. Held'
    BY <1>1, <1>2, StillHolds DEF Changes, Held, Still, rowVars, taskVars
<1>5. Referenced'
  <2>1. \A x \in Row : Sound(x, confirmed[x])' \/ (x = r /\ confirmed'[r] = v)
      BY <1>1, <1>2 DEF Referenced, Sound, Exists, Changes, rowVars, LinkTypeOK
  <2>2. \A x \in Row : Sound(x, proposed[x])' \/ (x = r /\ proposed'[r] = v)
      BY <1>1, <1>2 DEF Referenced, Sound, Exists, Changes, rowVars, LinkTypeOK
  <2>3. v \in Given => v.to \in meant'[r] /\ Exists(v)'
      BY <1>1, <1>2 DEF Exists, Changes, rowVars
  <2> QED BY <2>1, <2>2, <2>3 DEF Referenced, Sound
<1>6. LinkIsTrue' BY <1>1, <1>2 DEF LinkIsTrue, Changes, rowVars
<1> QED BY <1>3, <1>4, <1>5, <1>6

LEMMA ReopensSafe == ASSUME Safe, NEW r \in Row, Reopens(r) PROVE Safe'
<1> USE DEF Safe, Reopens, refVars, taskVars
<1>1. LinkTypeOK' BY DEF LinkTypeOK
<1>2. Held' BY StillHolds DEF Held, Still
<1> QED BY <1>1, <1>2, RowsGrow

LEMMA LinkedByHandSafe == ASSUME Safe, NEW l \in HandMade, LinkedByHand(l) PROVE Safe'
<1> USE DEF Safe, LinkedByHand, refVars, rowVars, taskVars
<1>1. LinkTypeOK' BY LinkAssumption DEF LinkTypeOK
<1>2. Held' BY StillHolds DEF Held, Still
<1> QED BY <1>1, <1>2, RowsGrow

LEMMA SendsSafe == ASSUME Safe, NEW t \in Task, NEW r \in Row, Sends(t, r) PROVE Safe'
<1> USE DEF Safe, Sends, refVars
<1>1. LinkTypeOK'
    BY DEF LinkTypeOK, Goes, Completed
<1>2. Held'
  <2>1. \A s \in Task \ {t} : Still(s) BY DEF Still, Goes, LinkTypeOK
  <2>2. \A s \in Task \ {t} : Holds(s)' BY <2>1, StillHolds DEF Held
  <2>3. Holds(t)' BY DEF Holds, Goes, LinkTypeOK, Busy
  <2> QED BY <2>2, <2>3 DEF Held
<1> QED BY <1>1, <1>2, RowsGrow

LEMMA ClicksSafe == ASSUME Safe, NEW t \in Task, NEW r \in Row, Clicks(t, r) PROVE Safe'
<1> USE DEF Safe, Clicks, refVars, rowVars
<1>1. LinkTypeOK' BY DEF LinkTypeOK, Goes
<1>2. Held'
  <2>1. \A s \in Task \ {t} : Still(s) BY DEF Still, Goes, LinkTypeOK
  <2>2. \A s \in Task \ {t} : Holds(s)' BY <2>1, StillHolds DEF Held
  <2>3. Holds(t)' BY DEF Holds, Goes, LinkTypeOK, Busy
  <2> QED BY <2>2, <2>3 DEF Held
<1> QED BY <1>1, <1>2, RowsGrow

(* Asking for the waiting refunds, with the list w. *)
LEMMA AskingSafe ==
    ASSUME Safe, NEW t \in Task, pc[t] = "asks", NEW w \in SUBSET Row,
           Continues(t, w), own' = [own EXCEPT ![t] = nothing],
           UNCHANGED <<rowVars, refVars, link, links>>, owed' \subseteq owed
    PROVE  Safe'
<1> USE DEF Safe, refVars, rowVars
<1>1. \/ w = {} /\ Turns(t, "idle", nothing, {})
      \/ \E u \in w : Turns(t, "reads", u, w \ {u})
    BY DEF Continues
<1>2. own'[t] = nothing /\ own' \in [Task -> Row \cup {nothing}] /\ \A s \in Task \ {t} : own'[s] = own[s]
    BY DEF LinkTypeOK
<1>3. TaskTypes' /\ Holds(t)' /\ (pc'[t] = "idle" => waiting'[t] = {}) /\ \A s \in Task \ {t} : Still(s)
  <2>1. CASE Turns(t, "idle", nothing, {})
      BY <1>2, <2>1, TypesOfTasks, TurnsKeepsTypes, TurnsTakes DEF Labels, Holds, Still, Busy
  <2>2. CASE \E u \in w : Turns(t, "reads", u, w \ {u})
    <3> PICK u \in w : Turns(t, "reads", u, w \ {u}) BY <2>2
    <3> QED BY <1>2, TypesOfTasks, TurnsKeepsTypes, TurnsTakes DEF Labels, Holds, Still, Busy
  <2> QED BY <1>1, <2>1, <2>2
<1>4. LinkTypeOK'
  <2>1. \A s \in Task : pc'[s] = "idle" => own'[s] = nothing /\ waiting'[s] = {}
      BY <1>2, <1>3 DEF Still, LinkTypeOK
  <2> QED BY <1>2, <1>3, <2>1 DEF LinkTypeOK, TaskTypes, Labels, Busy
<1>5. Held' BY <1>3, StillHolds DEF Held
<1> QED BY <1>4, <1>5, RowsGrow

(* A step of task t after which it takes its turn: what it has written     *)
(* meanwhile keeps rows and links in order.                                *)
LEMMA OverSafe ==
    ASSUME Safe, NEW t \in Task, Over(t), own' = own,
           UNCHANGED <<rowVars, refVars>>, links \subseteq links', links' \subseteq Link,
           link' \in [Row -> Link \cup {NoLink}], LinkIsTrue', owed' \subseteq owed
    PROVE  Safe'
<1> USE DEF Safe, refVars, rowVars
<1>1. LinkTypeOK'
  <2>1. \A s \in Task : pc'[s] = "idle" => own'[s] = nothing /\ waiting'[s] = {}
      BY OverLeaves DEF Still, LinkTypeOK, Held
  <2> QED BY OverKeepsTypes, <2>1 DEF LinkTypeOK, TaskTypes, Labels, Busy
<1>2. Held' BY OverLeaves, StillHolds DEF Held, LinkTypeOK
<1>3. Referenced' BY DEF Referenced, Sound, Exists
<1> QED BY <1>1, <1>2, <1>3

(* A step of task t that goes on to label l of the same refund.             *)
LEMMA GoesOnSafe ==
    ASSUME Safe, NEW t \in Task, NEW l \in Labels \ {"idle"}, pc[t] # "idle", Goes(t, l),
           ref' \in [Task -> Ref], found' \in [Task -> Link \cup {NoLink}],
           \A s \in Task \ {t} : ref'[s] = ref[s] /\ found'[s] = found[s],
           UNCHANGED <<rowVars, refVars, link, own, target, waiting, owed>>,
           links \subseteq links', links' \subseteq Link, Holds(t)'
    PROVE  Safe'
<1> USE DEF Safe, refVars, rowVars, Goes
<1>1. LinkTypeOK' BY DEF LinkTypeOK, Labels, Busy
<1>2. Held'
  <2>1. \A s \in Task \ {t} : Still(s) BY DEF Still, LinkTypeOK
  <2> QED BY <2>1, StillHolds DEF Held
<1> QED BY <1>1, <1>2, RowsGrow

LEMMA ReadsRowSafe == ASSUME Safe, NEW t \in Task, ReadsRow(t) PROVE Safe'
<1> USE DEF Safe
<1>1. target[t] \in Row BY DEF ReadsRow, Held, Holds, Busy
<1> DEFINE e == Effective(target[t])
<1>2. CASE /\ e \in Given /\ link[target[t]] = NoLink /\ target[t] \in pushed
           /\ ref' = [ref EXCEPT ![t] = e] /\ Goes(t, "resolves")
           /\ UNCHANGED <<target, waiting, found>>
  <2>1. e.to \in meant[target[t]] /\ Exists(e)
      BY <1>1, <1>2 DEF Referenced, Sound, Effective
  <2>2. ref' \in [Task -> Ref] /\ ref'[t] = e /\ \A s \in Task \ {t} : ref'[s] = ref[s]
      BY <1>2, RefKinds DEF LinkTypeOK
  <2>3. Holds(t)'
      BY <1>1, <1>2, <2>1, <2>2 DEF ReadsRow, Held, Holds, Exists, Goes, LinkTypeOK, Busy, rowVars, refVars
  <2> QED BY <1>2, <2>2, <2>3, GoesOnSafe DEF ReadsRow, Labels, Busy, LinkTypeOK
<1>3. CASE Over(t)
  <2>1. LinkIsTrue' BY DEF ReadsRow, LinkIsTrue, rowVars, refVars
  <2> QED BY <1>3, <2>1, OverSafe DEF ReadsRow, LinkTypeOK
<1> QED BY <1>2, <1>3 DEF ReadsRow

LEMMA FindsOriginalSafe == ASSUME Safe, NEW t \in Task, FindsOriginal(t) PROVE Safe'
<1> USE DEF Safe
<1>1. CASE /\ InFirefly(ref[t], pushed) /\ ref[t].to # target[t]
           /\ Goes(t, "lists") /\ UNCHANGED <<target, ref, found, waiting>>
  <2>1. ref[t].to \in booked \cup Outside
      BY <1>1, RefKinds DEF FindsOriginal, InFirefly, Held, Holds, Exists, LinkTypeOK, Given
  <2>2. Holds(t)'
      BY <1>1, <2>1 DEF FindsOriginal, Held, Holds, Goes, LinkTypeOK, Busy, rowVars, refVars
  <2> QED BY <1>1, <2>2, GoesOnSafe DEF FindsOriginal, Labels, Busy, LinkTypeOK
<1>2. CASE Over(t)
  <2>1. LinkIsTrue' BY DEF FindsOriginal, LinkIsTrue, rowVars, refVars
  <2> QED BY <1>2, <2>1, OverSafe DEF FindsOriginal, LinkTypeOK
<1> QED BY <1>1, <1>2 DEF FindsOriginal

LEMMA ListsSafe == ASSUME Safe, NEW t \in Task, Lists(t) \/ ListFails(t) PROVE Safe'
<1> USE DEF Safe
<1>1. pc[t] = "lists" /\ UNCHANGED <<rowVars, refVars, link, links, own, target, ref, waiting, owed>>
    BY DEF Lists, ListFails
<1>2. CASE \E l \in Adoptable(t) : found' = [found EXCEPT ![t] = l] /\ Goes(t, "records")
  <2> PICK l \in Adoptable(t) : found' = [found EXCEPT ![t] = l] /\ Goes(t, "records") BY <1>2
  <2>1. found' \in [Task -> Link \cup {NoLink}] /\ found'[t] = l /\ \A s \in Task \ {t} : found'[s] = found[s]
      BY DEF LinkTypeOK, Adoptable, Between
  <2>2. Holds(t)'
      BY <1>1, <2>1 DEF Held, Holds, Goes, LinkTypeOK, Busy, rowVars, refVars, Adoptable, Between
  <2> QED BY <1>1, <2>1, <2>2, GoesOnSafe DEF Labels, Busy, LinkTypeOK
<1>3. CASE Goes(t, "creates") /\ UNCHANGED found
  <2>1. Holds(t)' BY <1>1, <1>3 DEF Held, Holds, Goes, LinkTypeOK, Busy, rowVars, refVars
  <2> QED BY <1>1, <1>3, <2>1, GoesOnSafe DEF Labels, Busy, LinkTypeOK
<1> QED BY <1>2, <1>3 DEF Lists, ListFails

LEMMA NewLinkIsLink ==
    ASSUME Safe, NEW t \in Task, pc[t] = "creates"
    PROVE  NewLink(t) \in Link
BY RefKinds DEF Safe, Held, Holds, Busy, NewLink, Link, Journal

LEMMA CreatesSafe == ASSUME Safe, NEW t \in Task, Creates(t) PROVE Safe'
<1> USE DEF Safe
<1>1. NewLink(t) \in Link BY NewLinkIsLink DEF Creates
<1>2. found' \in [Task -> Link \cup {NoLink}] /\ found'[t] = NewLink(t) /\ \A s \in Task \ {t} : found'[s] = found[s]
    BY <1>1 DEF Creates, LinkTypeOK
<1>3. Holds(t)'
  <2>1. NewLink(t) \in Between(target[t], ref[t].to)' BY DEF Creates, Between, NewLink
  <2> QED BY <1>2, <2>1 DEF Creates, Held, Holds, Goes, LinkTypeOK, Busy, rowVars, refVars, Between
<1> QED BY <1>1, <1>2, <1>3, GoesOnSafe DEF Creates, Labels, Busy, LinkTypeOK

LEMMA RecordsSafe == ASSUME Safe, NEW t \in Task, Records(t) PROVE Safe'
<1> USE DEF Safe
<1>1. /\ target[t] \in Row /\ target[t] \in booked /\ found[t] \in links
      /\ {found[t].inward, found[t].outward} = {target[t], ref[t].to}
      /\ ref[t].to \in (meant[target[t]] \ {target[t]}) \cap (booked \cup Outside)
    BY DEF Records, Held, Holds, Busy, Between
<1>2. link' \in [Row -> Link \cup {NoLink}] /\ link'[target[t]] = found[t]
      /\ \A r \in Row \ {target[t]} : link'[r] = link[r]
    BY <1>1 DEF Records, LinkTypeOK
<1>3. LinkIsTrue'
  <2> SUFFICES ASSUME NEW r \in Row, link'[r] # NoLink
               PROVE  /\ link'[r] \in links' /\ r \in booked'
                      /\ \E x \in (meant'[r] \ {r}) \cap (booked' \cup Outside) :
                            {link'[r].inward, link'[r].outward} = {r, x}
      BY DEF LinkIsTrue
  <2>1. CASE r = target[t] BY <1>1, <1>2, <2>1 DEF Records, rowVars, refVars
  <2>2. CASE r # target[t] BY <1>2, <2>2 DEF Records, rowVars, refVars, LinkIsTrue
  <2> QED BY <2>1, <2>2
<1> QED BY <1>2, <1>3, OverSafe DEF Records, LinkTypeOK

LEMMA FailsSafe == ASSUME Safe, NEW t \in Task, Fails(t) PROVE Safe'
<1> USE DEF Safe
<1>1. links \subseteq links' /\ links' \subseteq Link
    BY NewLinkIsLink DEF Fails, LinkTypeOK
<1>2. LinkIsTrue' BY <1>1 DEF Fails, LinkIsTrue, rowVars, refVars
<1> QED BY <1>1, <1>2, OverSafe DEF Fails, LinkTypeOK

LEMMA CrashSafe == ASSUME Safe, Crash PROVE Safe'
<1> USE DEF Safe, Crash, refVars, rowVars
<1>1. LinkTypeOK' BY RefKinds DEF LinkTypeOK
<1>2. Held' BY DEF Held, Holds, Busy
<1> QED BY <1>1, <1>2, RowsGrow

LEMMA NextSafe == Safe /\ [Next]_vars => Safe'
<1> SUFFICES ASSUME Safe, [Next]_vars PROVE Safe'
    OBVIOUS
<1>1. CASE Referring BY <1>1, ReferencesSafe, ReopensSafe DEF Referring
<1>2. CASE \E l \in HandMade : LinkedByHand(l) BY <1>2, LinkedByHandSafe
<1>3. CASE \E t \in Task : Starting(t) BY <1>3, SendsSafe, ClicksSafe DEF Starting
<1>4. CASE \E t \in Task : Linking(t)
  <2> PICK t \in Task : Linking(t) BY <1>4
  <2>1. CASE Asks(t)
    <3>1. Waiting(own[t]) \in SUBSET Row BY DEF Waiting, Safe, LinkTypeOK
    <3> QED BY <2>1, <3>1, AskingSafe DEF Asks
  <2>2. CASE AsksFails(t)
    <3>1. Continues(t, {}) BY <2>2 DEF AsksFails, Continues
    <3> QED BY <2>2, <3>1, AskingSafe DEF AsksFails
  <2> QED BY <2>1, <2>2, ReadsRowSafe, FindsOriginalSafe, ListsSafe, CreatesSafe, RecordsSafe, FailsSafe DEF Linking
<1>5. CASE Crash BY <1>5, CrashSafe
<1>6. CASE UNCHANGED vars
  <2> USE DEF vars, rowVars, refVars, taskVars, Safe
  <2>1. LinkTypeOK' BY <1>6 DEF LinkTypeOK
  <2>2. Held' BY <1>6, StillHolds DEF Held, Still
  <2> QED BY <1>6, <2>1, <2>2, RowsGrow
<1> QED BY <1>1, <1>2, <1>3, <1>4, <1>5, <1>6 DEF Next

-----------------------------------------------------------------------------
(* Nobody forgets a refund that is owed its link. *)

Linked(r) == link[r] # NoLink

(* Task t has r before it, beyond the refund it is linking now. *)
Ahead(t, r) ==
    \/ own[t] # nothing /\ own[t] # r /\ Refers(r, own[t])
    \/ r \in waiting[t]

LEMMA CourseSplits ==
    ASSUME NEW t \in Task, NEW r \in Row, Course(t, r), ~Ahead(t, r)
    PROVE  /\ target[t] = r /\ pc[t] \in Busy
           /\ pc[t] = "resolves" => ref[t] = Effective(r)
BY DEF Course, Ahead, Busy

LEMMA StillOnCourse ==
    ASSUME NEW t \in Task, NEW r \in Row, Still(t), Course(t, r), Effective(r)' = Effective(r)
    PROVE  Course(t, r)'
BY DEF Still, Course, Refers

LEMMA OverKeepsAhead ==
    ASSUME LinkTypeOK, NEW t \in Task, NEW r \in Row, Over(t), own' = own,
           Effective(r)' = Effective(r), Ahead(t, r)
    PROVE  Course(t, r)'
<1>1. TaskTypes BY TypesOfTasks
<1>2. CASE own[t] # nothing /\ Turns(t, "asks", nothing, waiting[t])
    BY <1>1, <1>2, TurnsTakes DEF Ahead, Course, Refers
<1>3. CASE own[t] = nothing /\ waiting[t] = {} /\ Turns(t, "idle", nothing, {})
    BY <1>3 DEF Ahead
<1>4. CASE own[t] = nothing /\ \E u \in waiting[t] : Turns(t, "reads", u, waiting[t] \ {u})
  <2> PICK u \in waiting[t] : Turns(t, "reads", u, waiting[t] \ {u}) BY <1>4
  <2>1. pc'[t] = "reads" /\ target'[t] = u /\ waiting'[t] = waiting[t] \ {u} BY <1>1, TurnsTakes
  <2> QED BY <1>4, <2>1 DEF Ahead, Course, Busy
<1> QED BY <1>2, <1>3, <1>4, OverTurns

(* A step of task t that leaves references and the other tasks alone keeps  *)
(* what it owes if it keeps what t itself has before it.                    *)
LEMMA TaskKeepsWay ==
    ASSUME Safe, OnItsWay, NEW t \in Task, UNCHANGED <<rowVars, refVars>>,
           owed' \subseteq owed, \A s \in Task \ {t} : Still(s),
           \A r \in owed' : (Linked(r) => Linked(r)') /\ (Course(t, r) => Linked(r)' \/ Course(t, r)')
    PROVE  OnItsWay'
<1> SUFFICES ASSUME NEW r \in owed'
             PROVE  /\ Complete(r, pushed)'
                    /\ link'[r] # NoLink \/ \E s \in Task : Course(s, r)'
    BY DEF OnItsWay
<1>1. r \in owed /\ r \in Row BY DEF Safe, LinkTypeOK
<1>2. Effective(r)' = Effective(r) /\ pushed' = pushed BY DEF Effective, refVars, rowVars
<1>3. Complete(r, pushed) /\ (Linked(r) \/ \E s \in Task : Course(s, r)) BY <1>1 DEF OnItsWay, Linked
<1>4. Complete(r, pushed)' BY <1>2, <1>3 DEF Complete
<1>5. CASE Linked(r) BY <1>4, <1>5 DEF Linked
<1>6. CASE \E s \in Task : Course(s, r)
  <2> PICK s \in Task : Course(s, r) BY <1>6
  <2>1. CASE s = t BY <1>4, <2>1 DEF Linked
  <2>2. CASE s # t BY <1>1, <1>2, <1>4, <2>2, StillOnCourse
  <2> QED BY <2>1, <2>2
<1> QED BY <1>3, <1>5, <1>6

LEMMA SendsKeepsWay ==
    ASSUME Safe, OnItsWay, NEW t \in Task, NEW x \in Row, Sends(t, x)
    PROVE  OnItsWay'
<1> SUFFICES ASSUME NEW r \in owed'
             PROVE  /\ Complete(r, pushed)'
                    /\ link'[r] # NoLink \/ \E s \in Task : Course(s, r)'
    BY DEF OnItsWay
<1>1. r \in Row BY DEF Sends, Completed, Safe, LinkTypeOK
<1>2. Effective(r)' = Effective(r) BY DEF Sends, Effective, refVars
<1>3. pc'[t] = "reads" /\ target'[t] = x /\ own'[t] = x /\ \A s \in Task \ {t} : Still(s)
    BY DEF Sends, Goes, Still, Safe, LinkTypeOK
<1>4. CASE r \in Completed(x, pushed \cup {x})
  <2>1. Complete(r, pushed)' BY <1>2, <1>4 DEF Completed, Complete, Sends
  <2>2. Course(t, r)'
      BY <1>1, <1>2, <1>3, <1>4, NothingIsNoJournal DEF Completed, Course, Refers, Busy
  <2> QED BY <2>1, <2>2
<1>5. CASE r \in owed
  <2>1. Complete(r, pushed) /\ (link[r] # NoLink \/ \E s \in Task : Course(s, r)) BY <1>5 DEF OnItsWay
  <2>2. Complete(r, pushed)' BY <1>2, <2>1 DEF Complete, InFirefly, Sends
  <2>3. ~Course(t, r) BY DEF Course, Sends, Safe, LinkTypeOK, Busy
  <2> QED BY <1>1, <1>2, <1>3, <2>1, <2>2, <2>3, StillOnCourse DEF Sends
<1> QED BY <1>4, <1>5 DEF Sends

LEMMA ClicksKeepsWay ==
    ASSUME Safe, OnItsWay, NEW t \in Task, NEW x \in Row, Clicks(t, x)
    PROVE  OnItsWay'
<1> SUFFICES ASSUME NEW r \in owed'
             PROVE  /\ Complete(r, pushed)'
                    /\ link'[r] # NoLink \/ \E s \in Task : Course(s, r)'
    BY DEF OnItsWay
<1>1. r \in Row BY DEF Clicks, Safe, LinkTypeOK
<1>2. Effective(r)' = Effective(r) /\ pushed' = pushed BY DEF Clicks, Effective, refVars, rowVars
<1>3. pc'[t] = "reads" /\ target'[t] = x /\ \A s \in Task \ {t} : Still(s)
    BY DEF Clicks, Goes, Still, Safe, LinkTypeOK
<1>4. CASE r = x /\ Complete(x, pushed)
    BY <1>2, <1>3, <1>4 DEF Course, Complete, Busy
<1>5. CASE r \in owed
  <2>1. Complete(r, pushed) /\ (link[r] # NoLink \/ \E s \in Task : Course(s, r)) BY <1>5 DEF OnItsWay
  <2>2. Complete(r, pushed)' BY <1>2, <2>1 DEF Complete
  <2>3. ~Course(t, r) BY DEF Course, Clicks, Safe, LinkTypeOK, Busy
  <2> QED BY <1>1, <1>2, <1>3, <2>1, <2>2, <2>3, StillOnCourse DEF Clicks
<1> QED BY <1>4, <1>5 DEF Clicks

LEMMA ReferringKeepsWay ==
    ASSUME Safe, OnItsWay, NEW x \in Row,
           Reopens(x) \/ \E v \in Ref : SaveRefundOf(x, v) \/ Proposes(x, v)
    PROVE  OnItsWay'
<1> SUFFICES ASSUME NEW r \in owed'
             PROVE  /\ Complete(r, pushed)'
                    /\ link'[r] # NoLink \/ \E s \in Task : Course(s, r)'
    BY DEF OnItsWay
<1>1. /\ r \in owed /\ r \in Row /\ r # x
      /\ Effective(r)' = Effective(r) /\ link' = link /\ \A s \in Task : Still(s)
  <2>1. CASE Reopens(x)
      BY <2>1 DEF Reopens, Safe, LinkTypeOK, Effective, Still, refVars, taskVars
  <2>2. CASE \E v \in Ref : SaveRefundOf(x, v) \/ Proposes(x, v)
    <3> PICK v \in Ref : SaveRefundOf(x, v) \/ Proposes(x, v) BY <2>2
    <3>1. r \in owed /\ r \in Row /\ r # x /\ link' = link /\ \A s \in Task : Still(s)
        BY DEF SaveRefundOf, Proposes, Changes, Safe, LinkTypeOK, Still, taskVars
    <3>2. confirmed'[r] = confirmed[r] /\ proposed'[r] = proposed[r]
        BY <3>1 DEF SaveRefundOf, Proposes, Changes, Safe, LinkTypeOK
    <3> QED BY <3>1, <3>2 DEF Effective
  <2> QED BY <2>1, <2>2
<1>2. Complete(r, pushed) /\ (link[r] # NoLink \/ \E s \in Task : Course(s, r))
    BY <1>1 DEF OnItsWay
<1>3. Complete(r, pushed)'
  <2>1. CASE Reopens(x)
      BY <1>1, <1>2, <2>1 DEF Complete, InFirefly, Reopens, Refers
  <2>2. CASE \E v \in Ref : SaveRefundOf(x, v) \/ Proposes(x, v)
      BY <1>1, <1>2, <2>2 DEF Complete, SaveRefundOf, Proposes, Changes, rowVars
  <2> QED BY <2>1, <2>2
<1> QED BY <1>1, <1>2, <1>3, StillOnCourse

(* Asking finds every refund of the row that is not linked yet.             *)
LEMMA AsksKeepsWay ==
    ASSUME Safe, OnItsWay, NEW t \in Task, Asks(t) \/ AsksFails(t)
    PROVE  OnItsWay'
<1>1. UNCHANGED <<rowVars, refVars, link>> /\ owed' \subseteq owed /\ pc[t] = "asks"
    BY DEF Asks, AsksFails
<1>2. own[t] \in Row /\ TaskTypes BY <1>1, TypesOfTasks DEF Safe, Held, Holds
<1>3. \/ Asks(t) /\ Waiting(own[t]) = {} /\ Turns(t, "idle", nothing, {})
      \/ Asks(t) /\ \E u \in Waiting(own[t]) : Turns(t, "reads", u, Waiting(own[t]) \ {u})
      \/ AsksFails(t) /\ Turns(t, "idle", nothing, {})
    BY DEF Asks, AsksFails, Continues
<1>4. \A s \in Task \ {t} : Still(s)
    BY <1>2, <1>3, TurnsTakes DEF Asks, AsksFails, Still, Safe, LinkTypeOK
<1>5. ASSUME NEW r \in owed', Course(t, r) PROVE Linked(r)' \/ Course(t, r)'
  <2>1. r \in owed /\ r \in Row BY <1>1, <1>5 DEF Safe, LinkTypeOK
  <2>2. Complete(r, pushed) BY <2>1 DEF OnItsWay
  <2>3. Refers(r, own[t]) /\ own[t] # r
    <3>1. waiting[t] = {} BY <1>2, NothingIsNoJournal DEF Safe, Held, Holds
    <3> QED BY <1>1, <1>5, <3>1 DEF Course, Busy
  <2>4. link[r] = NoLink => r \in Waiting(own[t])
      BY <2>1, <2>2, <2>3 DEF Waiting, Complete
  <2>5. CASE Linked(r) BY <1>1, <2>5 DEF Linked
  <2>6. CASE ~Linked(r) /\ AsksFails(t) BY <1>5, <2>4, <2>6 DEF Linked, AsksFails
  <2>7. CASE ~Linked(r) /\ Asks(t)
    <3> PICK u \in Waiting(own[t]) : Turns(t, "reads", u, Waiting(own[t]) \ {u})
        BY <1>3, <2>4, <2>7 DEF Linked, Asks, AsksFails
    <3>1. pc'[t] = "reads" /\ target'[t] = u /\ waiting'[t] = Waiting(own[t]) \ {u}
        BY <1>2, TurnsTakes
    <3> QED BY <2>4, <2>7, <3>1 DEF Linked, Course, Busy
  <2> QED BY <2>5, <2>6, <2>7
<1> QED BY <1>1, <1>4, <1>5, TaskKeepsWay DEF Linked

(* A LinkRefund ends, the refund it was about being linked or out of it.    *)
LEMMA OverKeepsWay ==
    ASSUME Safe, OnItsWay, NEW t \in Task, Over(t), own' = own,
           UNCHANGED <<rowVars, refVars>>, owed' \subseteq owed,
           \A r \in Row : Linked(r) => Linked(r)',
           \A r \in owed' : Course(t, r) /\ ~Ahead(t, r) => Linked(r)'
    PROVE  OnItsWay'
<1>1. \A s \in Task \ {t} : Still(s) BY OverLeaves DEF Safe, Held
<1>2. ASSUME NEW r \in owed' PROVE (Linked(r) => Linked(r)') /\ (Course(t, r) => Linked(r)' \/ Course(t, r)')
  <2>1. r \in Row BY <1>2 DEF Safe, LinkTypeOK
  <2>2. Effective(r)' = Effective(r) BY DEF Effective, refVars
  <2>3. CASE Ahead(t, r) BY <2>1, <2>2, <2>3, OverKeepsAhead DEF Safe
  <2>4. CASE ~Ahead(t, r) BY <1>2, <2>1, <2>4
  <2> QED BY <2>1, <2>3, <2>4
<1> QED BY <1>1, <1>2, TaskKeepsWay

(* A LinkRefund goes on with the same refund.                               *)
LEMMA GoesOnKeepsWay ==
    ASSUME Safe, OnItsWay, NEW t \in Task, NEW l \in Busy, pc[t] \in Busy, Goes(t, l),
           UNCHANGED <<rowVars, refVars, link, own, target, waiting, owed>>,
           \A s \in Task \ {t} : ref'[s] = ref[s] /\ found'[s] = found[s],
           l = "resolves" => ref'[t] = Effective(target[t])
    PROVE  OnItsWay'
<1>1. pc'[t] = l /\ \A s \in Task \ {t} : Still(s) BY DEF Goes, Still, Safe, LinkTypeOK
<1>2. ASSUME NEW r \in owed', Course(t, r) PROVE Course(t, r)'
  <2>1. Effective(r)' = Effective(r) BY DEF Effective, refVars
  <2>2. r \in Row BY <1>2 DEF Safe, LinkTypeOK
  <2>3. CASE Ahead(t, r) BY <2>1, <2>3 DEF Ahead, Course, Refers
  <2>4. CASE ~Ahead(t, r)
      BY <1>1, <1>2, <2>1, <2>2, <2>4, CourseSplits DEF Course
  <2> QED BY <2>3, <2>4
<1> QED BY <1>1, <1>2, TaskKeepsWay DEF Linked

LEMMA LinkRefundKeepsWay ==
    ASSUME Safe, OnItsWay, NEW t \in Task,
           ReadsRow(t) \/ FindsOriginal(t) \/ Lists(t) \/ ListFails(t) \/ Creates(t)
    PROVE  OnItsWay'
<1>1. CASE ReadsRow(t)
  <2>1. CASE /\ ref' = [ref EXCEPT ![t] = Effective(target[t])] /\ Goes(t, "resolves")
             /\ UNCHANGED <<target, waiting, found>>
      BY <1>1, <2>1, GoesOnKeepsWay DEF ReadsRow, Busy, Safe, LinkTypeOK
  <2>2. CASE /\ \/ Effective(target[t]) \notin Given \/ link[target[t]] # NoLink \/ target[t] \notin pushed
             /\ Over(t)
    <3>1. \A r \in owed' : Course(t, r) /\ ~Ahead(t, r) => Linked(r)'
        BY <1>1, <2>2, CourseSplits
        DEF ReadsRow, Safe, LinkTypeOK, OnItsWay, Complete, InFirefly, Linked, refVars, rowVars
    <3> QED BY <1>1, <2>2, <3>1, OverKeepsWay DEF ReadsRow, Linked
  <2> QED BY <1>1, <2>1, <2>2 DEF ReadsRow
<1>2. CASE FindsOriginal(t)
  <2>1. CASE Goes(t, "lists") /\ UNCHANGED <<target, ref, found, waiting>>
      BY <1>2, <2>1, GoesOnKeepsWay DEF FindsOriginal, Busy
  <2>2. CASE ~(InFirefly(ref[t], pushed) /\ ref[t].to # target[t]) /\ Over(t)
    <3>1. \A r \in owed' : Course(t, r) /\ ~Ahead(t, r) => Linked(r)'
        BY <1>2, <2>2, CourseSplits
        DEF FindsOriginal, Safe, LinkTypeOK, OnItsWay, Complete
    <3> QED BY <1>2, <2>2, <3>1, OverKeepsWay DEF FindsOriginal, Linked
  <2> QED BY <1>2, <2>1, <2>2 DEF FindsOriginal
<1>3. CASE Lists(t) \/ ListFails(t)
  <2>1. \/ Goes(t, "records") \/ Goes(t, "creates")
      BY <1>3 DEF Lists, ListFails
  <2>2. \A s \in Task \ {t} : found'[s] = found[s]
      BY <1>3 DEF Lists, ListFails, Safe, LinkTypeOK
  <2> QED BY <1>3, <2>1, <2>2, GoesOnKeepsWay DEF Lists, ListFails, Busy
<1>4. CASE Creates(t)
  <2>1. \A s \in Task \ {t} : found'[s] = found[s] BY <1>4 DEF Creates, Safe, LinkTypeOK
  <2> QED BY <1>4, <2>1, GoesOnKeepsWay DEF Creates, Busy
<1> QED BY <1>1, <1>2, <1>3, <1>4

LEMMA RecordsKeepsWay == ASSUME Safe, OnItsWay, NEW t \in Task, Records(t) PROVE OnItsWay'
<1>1. /\ target[t] \in Row /\ found[t] \in Link
    BY DEF Records, Safe, Held, Holds, Busy, Between, LinkTypeOK
<1>2. link'[target[t]] # NoLink /\ \A r \in Row : Linked(r) => Linked(r)'
    BY <1>1, NothingIsNoJournal DEF Linked, Records, Safe, LinkTypeOK
<1>3. \A r \in owed' : Course(t, r) /\ ~Ahead(t, r) => Linked(r)'
    BY <1>2, CourseSplits DEF Records, Safe, LinkTypeOK, Linked
<1> QED BY <1>2, <1>3, OverKeepsWay DEF Records

LEMMA FailsKeepsWay == ASSUME Safe, OnItsWay, NEW t \in Task, Fails(t) PROVE OnItsWay'
<1>1. \A r \in owed' : Course(t, r) /\ ~Ahead(t, r) => Linked(r)'
    BY CourseSplits DEF Fails, Safe, LinkTypeOK
<1> QED BY <1>1, OverKeepsWay DEF Fails, Linked

LEMMA NextKeepsWay == Safe /\ OnItsWay /\ [Next]_vars => OnItsWay'
<1> SUFFICES ASSUME Safe, OnItsWay, [Next]_vars PROVE OnItsWay'
    OBVIOUS
<1>1. CASE Referring BY <1>1, ReferringKeepsWay DEF Referring
<1>2. CASE (\E l \in HandMade : LinkedByHand(l)) \/ UNCHANGED vars
    BY <1>2 DEF LinkedByHand, vars, rowVars, refVars, taskVars, OnItsWay, Course, Complete,
               InFirefly, Refers, Effective
<1>3. CASE \E t \in Task : Starting(t) BY <1>3, SendsKeepsWay, ClicksKeepsWay DEF Starting
<1>4. CASE \E t \in Task : Linking(t)
    BY <1>4, AsksKeepsWay, LinkRefundKeepsWay, RecordsKeepsWay, FailsKeepsWay DEF Linking
<1>5. CASE Crash BY <1>5 DEF Crash, OnItsWay
<1> QED BY <1>1, <1>2, <1>3, <1>4, <1>5 DEF Next

-----------------------------------------------------------------------------
(* Every variable of the linking requests keeps its type, and a request     *)
(* that has ended has dealt with every refund it found (linkRefunds).       *)
THEOREM LinkTypeCorrect == Spec => []LinkTypeOK
<1>1. Init => Safe BY InitSafe
<1>2. Safe /\ [Next]_vars => Safe' BY NextSafe
<1>3. Safe => LinkTypeOK BY DEF Safe
<1> QED BY <1>1, <1>2, <1>3, PTL DEF Spec

(* The link a refund's row records is in Firefly and joins it to an         *)
(* existing journal it was said to refund, whatever changed while           *)
(* LinkRefund ran (LinkRefund, setLinkID).                                  *)
THEOREM LinksAreTrue == Spec => []LinkIsTrue
<1>1. Init => Safe BY InitSafe
<1>2. Safe /\ [Next]_vars => Safe' BY NextSafe
<1>3. Safe => LinkIsTrue BY DEF Safe
<1> QED BY <1>1, <1>2, <1>3, PTL DEF Spec

(* Whoever completes a pair, by the last of two sends or by a click, sees   *)
(* to it that the refund is linked by the time everybody is done, unless    *)
(* something failed or the reference was changed (linkRefunds).             *)
THEOREM CompletePairsAreLinked == Spec => []PairsAreLinked
<1>1. Init => Safe /\ OnItsWay BY InitSafe DEF Init, OnItsWay
<1>2. Safe /\ OnItsWay /\ [Next]_vars => (Safe /\ OnItsWay)' BY NextSafe, NextKeepsWay
<1>3. Safe /\ OnItsWay => PairsAreLinked
  <2> SUFFICES ASSUME Safe, OnItsWay, \A t \in Task : pc[t] = "idle", NEW r \in owed
               PROVE  link[r] # NoLink
      BY DEF PairsAreLinked
  <2>1. \A t \in Task : ~Course(t, r) BY DEF Course, Safe, LinkTypeOK, Busy
  <2> QED BY <2>1 DEF OnItsWay
<1> QED BY <1>1, <1>2, <1>3, PTL DEF Spec
=============================================================================
