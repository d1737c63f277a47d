------------------------------- MODULE RefundLink -------------------------------
(***************************************************************************)
(* Refund links (refund_link.go).  A refund's row refers to the purchase   *)
(* it gives money back for; once both are in Firefly the relationship is a *)
(* transaction link there.  Whoever sends the later of the two makes it:   *)
(* the sender first marks its row pushed, then looks for what the row      *)
(* refers to, then for the pushed rows that refer to it.  Two sends, a     *)
(* click on "link in firefly", the person's picker and the classifier's    *)
(* proposals interleave between any two of these steps.                    *)
(*                                                                         *)
(* A row's Firefly journal has the row's name (one journal per row is the  *)
(* matter of Push), and a link's id is the link.                           *)
(***************************************************************************)
EXTENDS Naturals

CONSTANTS
    Row,          \* staged rows
    Outside,      \* Firefly journals that were never staged
    Task,         \* requests that link: sends, corrections and clicks
    Picks,        \* bound: <<refund, reference>> pairs that come up
    HandMade,     \* bound: the links a person makes in Firefly
    MaxChanges,   \* bound: changes of references, and reclassifications of sent rows
    MaxFailures   \* bound: failed calls and crashes

nothing == "nothing"
Journal == Row \cup Outside

(* refundref.Parse: what a stored reference can be.                         *)
Unset == [by |-> "unset", to |-> nothing]
None  == [by |-> "none",  to |-> nothing]
Given == [by : {"fold"}, to : Row] \cup [by : {"journal"}, to : Journal]
Ref   == Given \cup {Unset, None}

Link   == [inward : Journal, outward : Journal]
NoLink == [inward |-> nothing, outward |-> nothing]

ASSUME LinkAssumption ==
    /\ nothing \notin Journal
    /\ Picks \subseteq Row \X (Given \cup {None})
    /\ HandMade \subseteq Link
    /\ MaxChanges \in Nat /\ MaxFailures \in Nat

VARIABLES
    pushed,     \* the rows whose status is pushed
    booked,     \* the rows with a journal
    confirmed,  \* row: confirmed_refund_of, the person's
    proposed,   \* row: proposed_refund_of, the classifier's
    link,       \* row: firefly_link_id
    links,      \* Firefly's Refund links
    pc,         \* task: where it is
    own,        \* task: the row it has sent, until it has looked for waiting refunds
    target,     \* task: the refund it is linking
    ref,        \* task: the reference it has read from it
    found,      \* task: the link it is about to record
    waiting,    \* task: the refunds it has yet to link
    owed,       \* ghost: the refunds whose pair was complete at a send or a click
    meant,      \* ghost, row: every journal it has referred to
    changes, failures

rowVars  == <<pushed, booked>>
refVars  == <<confirmed, proposed, meant>>
taskVars == <<pc, own, target, ref, found, waiting>>
vars == <<rowVars, refVars, link, links, taskVars, owed, changes, failures>>

Exists(v) == v.by = "journal" => v.to \in booked \cup Outside

Proposable(r, v) == v = Unset \/ (v # None /\ <<r, v>> \in Picks /\ Exists(v))

(* Rows as classifying them leaves them. *)
Init ==
    /\ pushed = {} /\ booked = {}
    /\ confirmed = [r \in Row |-> Unset]
    /\ proposed \in {f \in [Row -> Ref] : \A r \in Row : Proposable(r, f[r])}
    /\ link = [r \in Row |-> NoLink] /\ links = {}
    /\ pc = [t \in Task |-> "idle"]
    /\ own = [t \in Task |-> nothing] /\ target = [t \in Task |-> nothing]
    /\ ref = [t \in Task |-> Unset] /\ found = [t \in Task |-> NoLink]
    /\ waiting = [t \in Task |-> {}]
    /\ owed = {}
    /\ meant = [r \in Row |-> IF proposed[r] = Unset THEN {} ELSE {proposed[r].to}]
    /\ changes = 0 /\ failures = 0

-----------------------------------------------------------------------------
(* effectiveRefundOfSQL: the human's, else the classifier's. *)
Effective(r) == IF confirmed[r] # Unset THEN confirmed[r] ELSE proposed[r]

Refers(r, x) == Effective(r) \in Given /\ Effective(r).to = x

(* originalJournal: a staged purchase counts once it is pushed.             *)
InFirefly(v, in) == v \in Given /\ (v.by = "fold" => v.to \in in)

Complete(r, in) == r \in in /\ InFirefly(Effective(r), in) /\ Effective(r).to # r

(* What a send of r, with the pushed rows as in "in", completes.            *)
Completed(r, in) == {u \in Row : Complete(u, in) /\ (u = r \/ Refers(u, r))}

Goes(t, l) == pc' = [pc EXCEPT ![t] = l]

-----------------------------------------------------------------------------
(* References. *)

Changes(r, v) ==
    /\ changes < MaxChanges /\ changes' = changes + 1
    /\ owed' = owed \ {r}
    /\ meant' = [meant EXCEPT ![r] = IF v \in Given THEN @ \cup {v.to} ELSE @]
    /\ UNCHANGED <<rowVars, link, links, taskVars, failures>>

(* saveRefundOf: the picker, on any row. *)
SaveRefundOf(r, v) ==
    /\ v = Unset \/ (<<r, v>> \in Picks /\ Exists(v))
    /\ v # confirmed[r]
    /\ confirmed' = [confirmed EXCEPT ![r] = v]
    /\ UNCHANGED proposed /\ Changes(r, v)

(* ApplyDecision and resetToPending on a row that is not sent; MatchRefunds *)
(* on a row nobody has given a reference, sent or not.                      *)
Proposes(r, v) ==
    /\ Proposable(r, v) /\ v # proposed[r]
    /\ r \in pushed => proposed[r] = Unset /\ confirmed[r] = Unset
    /\ proposed' = [proposed EXCEPT ![r] = v]
    /\ UNCHANGED confirmed /\ Changes(r, v)

(* ReclassifyUUIDs takes a sent row back to pending; Update sends it again. *)
Reopens(r) ==
    /\ r \in pushed /\ changes < MaxChanges /\ changes' = changes + 1
    /\ pushed' = pushed \ {r}
    /\ owed' = {u \in owed : u # r /\ ~Refers(u, r)}
    /\ UNCHANGED <<booked, refVars, link, links, taskVars, failures>>

(* A person links two journals in Firefly itself. *)
LinkedByHand(l) ==
    /\ {l.inward, l.outward} \subseteq booked \cup Outside
    /\ links' = links \cup {l}
    /\ UNCHANGED <<rowVars, refVars, link, taskVars, owed, changes, failures>>

-----------------------------------------------------------------------------
(* What leads to a link. *)

(* Push and Update end with linkRefunds: markPushed came first.             *)
Sends(t, r) ==
    /\ pc[t] = "idle"
    /\ pushed' = pushed \cup {r} /\ booked' = booked \cup {r}
    /\ own' = [own EXCEPT ![t] = r] /\ target' = [target EXCEPT ![t] = r]
    /\ Goes(t, "reads")
    /\ owed' = owed \cup Completed(r, pushed \cup {r})
    /\ UNCHANGED <<refVars, link, links, ref, found, waiting, changes, failures>>

(* "Link them as a refund", in the page of a refund. *)
Clicks(t, r) ==
    /\ pc[t] = "idle"
    /\ target' = [target EXCEPT ![t] = r]
    /\ Goes(t, "reads")
    /\ owed' = IF Complete(r, pushed) THEN owed \cup {r} ELSE owed
    /\ UNCHANGED <<rowVars, refVars, link, links, own, ref, found, waiting, changes, failures>>

-----------------------------------------------------------------------------
(* linkRefunds: the row itself, then the refunds that wait for it. *)

Turns(t, l, u, w) ==
    /\ Goes(t, l)
    /\ target' = [target EXCEPT ![t] = u] /\ waiting' = [waiting EXCEPT ![t] = w]
    /\ ref' = [ref EXCEPT ![t] = Unset] /\ found' = [found EXCEPT ![t] = NoLink]

Continues(t, w) ==
    \/ w = {} /\ Turns(t, "idle", nothing, {})
    \/ \E u \in w : Turns(t, "reads", u, w \ {u})

(* LinkRefund has returned. *)
Over(t) ==
    \/ own[t] # nothing /\ Turns(t, "asks", nothing, waiting[t])
    \/ own[t] = nothing /\ Continues(t, waiting[t])

(* Mutant: only references by Fold UUID are looked for.                     *)
Waiting_ByUUID(o) ==
    {u \in pushed \ {o} : link[u] = NoLink /\ Effective(u) = [by |-> "fold", to |-> o]}

Waiting(o) == {u \in pushed \ {o} : link[u] = NoLink /\ Refers(u, o)}

Asks(t) ==
    /\ pc[t] = "asks"
    /\ Continues(t, Waiting(own[t]))
    /\ own' = [own EXCEPT ![t] = nothing]
    /\ UNCHANGED <<rowVars, refVars, link, links, owed, changes, failures>>

AsksFails(t) ==
    /\ pc[t] = "asks" /\ failures < MaxFailures /\ failures' = failures + 1
    /\ Turns(t, "idle", nothing, {})
    /\ own' = [own EXCEPT ![t] = nothing]
    /\ owed' = owed \ Waiting(own[t])
    /\ UNCHANGED <<rowVars, refVars, link, links, changes>>

-----------------------------------------------------------------------------
(* LinkRefund. *)

ReadsRow(t) ==
    /\ pc[t] = "reads"
    /\ LET r == target[t]
           e == Effective(r)
       IN  \/ /\ e \in Given /\ link[r] = NoLink /\ r \in pushed
              /\ ref' = [ref EXCEPT ![t] = e] /\ Goes(t, "resolves")
              /\ UNCHANGED <<target, waiting, found>>
           \/ /\ e \notin Given \/ link[r] # NoLink \/ r \notin pushed
              /\ Over(t)
    /\ UNCHANGED <<rowVars, refVars, link, links, own, owed, changes, failures>>

FindsOriginal(t) ==
    /\ pc[t] = "resolves"
    /\ LET ok == InFirefly(ref[t], pushed) /\ ref[t].to # target[t]
       IN  \/ ok /\ Goes(t, "lists") /\ UNCHANGED <<target, ref, found, waiting>>
           \/ ~ok /\ Over(t)
    /\ UNCHANGED <<rowVars, refVars, link, links, own, owed, changes, failures>>

Between(x, y) == {l \in links : {l.inward, l.outward} = {x, y}}

(* Mutant: any Refund link of the refund's journal is adopted.              *)
Adoptable_AnyLinkOfIt(t) == {l \in links : target[t] \in {l.inward, l.outward}}

Adoptable(t) == Between(target[t], ref[t].to)

(* An existing link is adopted, either way round.                           *)
Lists(t) ==
    /\ pc[t] = "lists"
    /\ \/ \E l \in Adoptable(t) : found' = [found EXCEPT ![t] = l] /\ Goes(t, "records")
       \/ Adoptable(t) = {} /\ Goes(t, "creates") /\ UNCHANGED found
    /\ UNCHANGED <<rowVars, refVars, link, links, own, target, ref, waiting, owed, changes, failures>>

(* An error of the list counts as an empty list.                            *)
ListFails(t) ==
    /\ pc[t] = "lists" /\ failures < MaxFailures /\ failures' = failures + 1
    /\ Goes(t, "creates")
    /\ UNCHANGED <<rowVars, refVars, link, links, own, target, ref, found, waiting, owed, changes>>

NewLink(t) == [inward |-> target[t], outward |-> ref[t].to]

(* Firefly stores the link, and the id comes back.                          *)
Creates(t) ==
    /\ pc[t] = "creates"
    /\ links' = links \cup {NewLink(t)}
    /\ found' = [found EXCEPT ![t] = NewLink(t)] /\ Goes(t, "records")
    /\ UNCHANGED <<rowVars, refVars, link, own, target, ref, waiting, owed, changes, failures>>

Records(t) ==
    /\ pc[t] = "records"
    /\ link' = [link EXCEPT ![target[t]] = found[t]]
    /\ Over(t)
    /\ UNCHANGED <<rowVars, refVars, links, own, owed, changes, failures>>

(* Mutant: the first failure ends the whole of linkRefunds.                 *)
Fails_EndsAll(t) ==
    /\ pc[t] \in {"reads", "resolves", "lists", "creates", "records"}
    /\ failures < MaxFailures /\ failures' = failures + 1
    /\ \/ UNCHANGED links
       \/ pc[t] = "creates" /\ links' = links \cup {NewLink(t)}
    /\ Goes(t, "idle") /\ own' = [own EXCEPT ![t] = nothing]
    /\ owed' = owed \ {target[t]}
    /\ UNCHANGED <<rowVars, refVars, link, target, ref, found, waiting, changes>>

(* A query, the type's look-up, the create or the write fails: this refund  *)
(* is given up, a warning is logged, and the next one's turn comes.  The    *)
(* create may have been carried out although its answer was lost.           *)
Fails(t) ==
    /\ pc[t] \in {"reads", "resolves", "lists", "creates", "records"}
    /\ failures < MaxFailures /\ failures' = failures + 1
    /\ \/ UNCHANGED links
       \/ pc[t] = "creates" /\ links' = links \cup {NewLink(t)}
    /\ Over(t)
    /\ owed' = owed \ {target[t]}
    /\ UNCHANGED <<rowVars, refVars, link, own, changes>>

Crash ==
    /\ failures < MaxFailures /\ failures' = failures + 1
    /\ \E t \in Task : pc[t] # "idle"
    /\ pc' = [t \in Task |-> "idle"]
    /\ own' = [t \in Task |-> nothing] /\ target' = [t \in Task |-> nothing]
    /\ ref' = [t \in Task |-> Unset] /\ found' = [t \in Task |-> NoLink]
    /\ waiting' = [t \in Task |-> {}]
    /\ owed' = {}
    /\ UNCHANGED <<rowVars, refVars, link, links, changes>>

-----------------------------------------------------------------------------
Referring ==
    \E r \in Row :
        \/ Reopens(r)
        \/ \E v \in Ref : SaveRefundOf(r, v) \/ Proposes(r, v)

Starting(t) == \E r \in Row : Sends(t, r) \/ Clicks(t, r)

Linking(t) ==
    \/ Asks(t) \/ AsksFails(t)
    \/ ReadsRow(t) \/ FindsOriginal(t) \/ Lists(t) \/ ListFails(t) \/ Creates(t)
    \/ Records(t) \/ Fails(t)

Next ==
    \/ Referring
    \/ \E l \in HandMade : LinkedByHand(l)
    \/ \E t \in Task : Starting(t) \/ Linking(t)
    \/ Crash

Spec == Init /\ [][Next]_vars

-----------------------------------------------------------------------------
(* Properties. *)

(* Every variable stays in its type, a pushed row has a journal, and a task *)
(* that has ended has dealt with every refund it found.                     *)
LinkTypeOK ==
    /\ pushed \subseteq booked /\ booked \subseteq Row
    /\ confirmed \in [Row -> Ref] /\ proposed \in [Row -> Ref]
    /\ link \in [Row -> Link \cup {NoLink}] /\ links \subseteq Link
    /\ pc \in [Task -> {"idle", "asks", "reads", "resolves", "lists", "creates", "records"}]
    /\ own \in [Task -> Row \cup {nothing}] /\ target \in [Task -> Row \cup {nothing}]
    /\ ref \in [Task -> Ref] /\ found \in [Task -> Link \cup {NoLink}]
    /\ waiting \in [Task -> SUBSET Row]
    /\ owed \subseteq Row /\ meant \in [Row -> SUBSET Journal]
    /\ \A t \in Task : pc[t] = "idle" => own[t] = nothing /\ waiting[t] = {}

(* The link a row records is in Firefly and joins the row's own journal     *)
(* with another existing one that the row was said to refund, whatever was  *)
(* picked, adopted or lost between the reading and the writing              *)
(* (LinkRefund, "adopt ... either way round").                              *)
LinkIsTrue ==
    \A r \in Row : link[r] # NoLink =>
        /\ link[r] \in links
        /\ r \in booked
        /\ \E x \in (meant[r] \ {r}) \cap (booked \cup Outside) :
              {link[r].inward, link[r].outward} = {r, x}

(* "Push creates the link as soon as both sides are in firefly - pushing a  *)
(* purchase also links any refunds that were waiting for it": when the      *)
(* later side is sent, or the button is pressed, and nothing fails, the     *)
(* refund is linked by the time everybody is done, also when both sides are *)
(* sent at once and each looks for the other.                               *)
PairsAreLinked ==
    (\A t \in Task : pc[t] = "idle") => \A r \in owed : link[r] # NoLink
=============================================================================
