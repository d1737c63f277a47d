------------------------------ MODULE RefundMatch ------------------------------
(***************************************************************************)
(* Which purchase a refund gives money back for (classifier/refund.go,     *)
(* classifier/creditback.go).  The refund tier classifies money that comes *)
(* back, several rows at a time; the cron's MatchRefunds proposes the      *)
(* purchase for refunds that have none yet.  Both first add up what other  *)
(* refunds claim of each purchase, then look for a purchase with enough    *)
(* left, then write their proposal, in statements of their own.            *)
(*                                                                         *)
(* RefundLink is what becomes of a reference afterwards.                   *)
(***************************************************************************)
EXTENDS Integers, FiniteSets

CONSTANTS
    Refund,       \* staged rows with money in
    Purchase,     \* money out: staged rows, and Outside
    Outside,      \* purchases that only Firefly has
    CreditBack,   \* refunds that are a card's credit-back, with no merchant in it
    About,        \* of each: its amount, day, card, merchant and fold.money's group
    Cron, Worker, \* the periodic loop, and the goroutines that classify
    MaxChanges    \* bound: what the person does

nothing == "nothing"
Staged == Purchase \ Outside
Job    == Worker \cup {Cron}

ASSUME MatchAssumption ==
    /\ Outside \subseteq Purchase /\ CreditBack \subseteq Refund
    /\ IsFiniteSet(Refund) /\ nothing \notin Refund
    /\ Refund \cap Purchase = {} /\ Cron \notin Worker
    /\ About \in [Refund \cup Purchase ->
                    [amount : Nat, day : Nat, card : STRING, merchant : STRING, group : STRING]]
    /\ \A r \in CreditBack : About[r].merchant = nothing
    /\ MaxChanges \in Nat

(* What a stored reference can be; "none" is the person's word that there   *)
(* is no purchase.                                                          *)
Unset == [by |-> "unset", to |-> nothing]
None  == [by |-> "none", to |-> nothing]
Fold(p)    == [by |-> "fold", to |-> p]
Journal(p) == [by |-> "journal", to |-> p]
Given == {Fold(p) : p \in Staged} \cup {Journal(p) : p \in Purchase}
Ref   == Given \cup {Unset, None}

(* A job has read the claims, and no purchase yet. *)
Unread == [by |-> "unread", to |-> nothing]

VARIABLES
    status,     \* staged row: absent, pending, waiting (two statuses), pushed, skipped
    known,      \* the staged purchases whose firefly_txn_id is set
    mirrored,   \* the purchases in the mirror of Firefly's journals
    proposed,   \* refund: proposed_refund_of
    confirmed,  \* refund: confirmed_refund_of
    task,       \* job: "none", "classify" or "match"
    todo,       \* job: the refunds it has listed
    row,        \* job: the refund it is at
    claims,     \* job: what it read of the other refunds' claims
    choice,     \* job: the reference it is about to write
    changes

rowVars == <<status, known, mirrored, proposed, confirmed>>
jobVars == <<task, todo, row, claims, choice>>
vars == <<rowVars, jobVars, changes>>

NoClaims == {}

Init ==
    /\ status = [x \in Refund \cup Staged |-> IF x \in Refund THEN "pending" ELSE "absent"]
    /\ known = {} /\ mirrored = {}
    /\ proposed = [r \in Refund |-> Unset] /\ confirmed = [r \in Refund |-> Unset]
    /\ task = [w \in Job |-> "none"] /\ todo = [w \in Job |-> {}]
    /\ row = [w \in Job |-> nothing]
    /\ claims = [w \in Job |-> NoClaims] /\ choice = [w \in Job |-> Unset]
    /\ changes = 0

-----------------------------------------------------------------------------
(* What a row refers to, and what is left of a purchase. *)

Effective(r) == IF confirmed[r] # Unset THEN confirmed[r] ELSE proposed[r]

Counts(r) == status[r] \notin {"absent", "skipped"}

(* Mutant: a refund that has been sent no longer counts. *)
RefundClaims_Unsent(r) ==
    {<<q, Effective(q)>> : q \in {u \in Refund \ {r} : status[u] \in {"pending", "waiting"} /\ Effective(u) \in Given}}

(* refundClaims: what the other refunds refer to, whose amounts are summed  *)
(* per reference.                                                           *)
RefundClaims(r) ==
    {<<q, Effective(q)>> : q \in {u \in Refund \ {r} : Counts(u) /\ Effective(u) \in Given}}

Amount(x) == About[x].amount

(* A sum of amounts is the number of their units. *)
Total(S) == Cardinality(UNION {{q} \X (1..Amount(q)) : q \in S})

Claimed(c, x) == Total({r \in Refund : <<r, x>> \in c})

Grouped(r, p) == About[r].group # nothing /\ About[p].group = About[r].group

SameMerchant(r, p) == About[r].merchant # nothing /\ About[p].merchant = About[r].merchant

SameCard(r, p) == About[p].card = About[r].card

DaysBefore(r, p) == About[r].day - About[p].day

(* The staged purchases of this merchant or group, and the journals of this *)
(* merchant on this card that none of them stands for.                      *)
FoldCandidates(r) ==
    {p \in Staged : Counts(p) /\ (SameMerchant(r, p) \/ Grouped(r, p))}

JournalCandidates(r) ==
    {p \in mirrored : SameMerchant(r, p) /\ ~(p \in known /\ p \in FoldCandidates(r))}

(* A candidate's claims are those of its own reference and, if its journal  *)
(* is known, those of the journal: a purchase that only Firefly has is       *)
(* charged twice for each.                                                  *)
Remaining(c, x) ==
    LET p == x.to
    IN  Amount(p) - Claimed(c, x) - (IF x.by = "journal" \/ p \in known THEN Claimed(c, Journal(p)) ELSE 0)

(* findRefundCandidates, given the claims it has read.                      *)
Candidates(r, c) ==
    {x \in {Fold(p) : p \in FoldCandidates(r)} \cup {Journal(p) : p \in JournalCandidates(r)} :
        /\ SameCard(r, x.to)
        /\ \/ x.by = "fold" /\ Grouped(r, x.to)
           \/ /\ DaysBefore(r, x.to) \in 0..180
              /\ Remaining(c, x) >= Amount(r)}

Exact(r, p) == Amount(p) = Amount(r)

(* The order of the candidates, the most recent of equals first; what the   *)
(* database returns first among the rest is open.                           *)
Latest(S) == {x \in S : \A y \in S : About[y.to].day <= About[x.to].day}

(* pickRefundCandidate: the references it may choose and whether it is sure. *)
Sure(S) == {[ref |-> x, sure |-> TRUE] : x \in S}
Weak(S) == {[ref |-> x, sure |-> FALSE] : x \in S}

Pick(r, C) ==
    LET grouped == {x \in C : x.by = "fold" /\ Grouped(r, x.to)}
        exact   == {x \in C : Exact(r, x.to)}
        recent  == {x \in exact : DaysBefore(r, x.to) <= 30}
        partial == Latest(C \ exact)
    IN  IF grouped # {} THEN
            LET g == grouped \cap exact IN Sure(Latest(IF g # {} THEN g ELSE grouped))
        ELSE IF recent # {} THEN Sure(Latest(recent))
        ELSE IF exact # {} THEN Weak(Latest(exact))
        ELSE IF \E x \in partial : DaysBefore(r, x.to) <= 7 THEN Weak(partial)
        ELSE Weak({Unset})

(* findCreditBackCharge: the latest charge of this amount on this card in   *)
(* the month before, whatever its status, that is not given back in full.   *)
Charges(r, c) ==
    Latest({Fold(p) : p \in {q \in Staged :
                /\ status[q] # "absent" /\ SameCard(r, q) /\ Exact(r, q)
                /\ DaysBefore(r, q) \in 0..30
                /\ Claimed(c, Fold(q)) < Amount(q)}})

(* A credit-back without a group has no candidates but its charge; a charge *)
(* the person skipped is named in the hold only.                            *)
TierRefund(r, c) ==
    LET charge == {x \in Charges(r, c) : status[x.to] # "skipped"}
    IN  IF r \in CreditBack /\ charge # {} /\ \A x \in Candidates(r, c) : ~Grouped(r, x.to)
        THEN Sure(charge)
        ELSE Pick(r, Candidates(r, c))

-----------------------------------------------------------------------------
(* Rows and journals come and go. *)

(* A fold sync stages a purchase, after its refund perhaps. *)
Arrives(p) ==
    /\ status[p] = "absent"
    /\ status' = [status EXCEPT ![p] = "waiting"]
    /\ UNCHANGED <<known, mirrored, proposed, confirmed, jobVars, changes>>

(* SyncAll copies a journal that was entered in Firefly. *)
Mirrors(p) ==
    /\ p \in Outside \ mirrored
    /\ mirrored' = mirrored \cup {p}
    /\ UNCHANGED <<status, known, proposed, confirmed, jobVars, changes>>

(* A purchase is sent: marked and mirrored, or, when the mark is lost, only *)
(* mirrored by a later sync.                                                *)
PurchaseIsSent(p) ==
    /\ status[p] = "waiting"
    /\ mirrored' = mirrored \cup {p}
    /\ \/ /\ status' = [status EXCEPT ![p] = "pushed"]
          /\ known' = known \cup {p}
       \/ UNCHANGED <<status, known>>
    /\ UNCHANGED <<proposed, confirmed, jobVars, changes>>

RefundIsSent(r) ==
    /\ status[r] = "waiting"
    /\ status' = [status EXCEPT ![r] = "pushed"]
    /\ UNCHANGED <<known, mirrored, proposed, confirmed, jobVars, changes>>

Person == changes < MaxChanges /\ changes' = changes + 1

(* The picker: a purchase, none, or back to the proposal. *)
SaveRefundOf(r, x) ==
    /\ Person /\ status[r] \in {"waiting", "pushed"} /\ x # confirmed[r]
    /\ confirmed' = [confirmed EXCEPT ![r] = x]
    /\ UNCHANGED <<status, known, mirrored, proposed, jobVars>>

(* The list's skip takes a row in any status.  A skipped purchase is no      *)
(* longer a candidate as a row, but its journal still is.                   *)
Skips(x) ==
    /\ Person /\ status[x] \notin {"absent", "skipped"}
    /\ status' = [status EXCEPT ![x] = "skipped"]
    /\ UNCHANGED <<known, mirrored, proposed, confirmed, jobVars>>

(* A restored refund claims again what it claimed. *)
Restores(x) ==
    /\ status[x] = "skipped"
    /\ status' = [status EXCEPT ![x] = "waiting"]
    /\ UNCHANGED <<known, mirrored, proposed, confirmed, jobVars, changes>>

-----------------------------------------------------------------------------
(* The jobs. *)

Lists(w, t, S) ==
    /\ task[w] = "none" /\ S # {}
    /\ task' = [task EXCEPT ![w] = t]
    /\ todo' = [todo EXCEPT ![w] = S]
    /\ UNCHANGED <<rowVars, row, claims, choice, changes>>

(* Every goroutine of a classify run has one row of what the run listed:    *)
(* new rows, or waiting ones nobody has edited.                             *)
ClassifyLists(w, r) ==
    /\ w \in Worker
    /\ status[r] = "pending" \/ (status[r] = "waiting" /\ confirmed[r] = Unset)
    /\ Lists(w, "classify", {r})

(* Mutant: refunds that have been sent are not looked at again. *)
MatchLists_Unsent ==
    Lists(Cron, "match", {r \in Refund :
        status[r] = "waiting" /\ proposed[r] = Unset /\ confirmed[r] = Unset})

MatchLists ==
    Lists(Cron, "match", {r \in Refund :
        status[r] \in {"waiting", "pushed"} /\ proposed[r] = Unset /\ confirmed[r] = Unset})

(* refundClaims.  MatchRefunds takes its rows oldest first. *)
Looks(w) ==
    /\ todo[w] # {} /\ row[w] = nothing
    /\ \E r \in todo[w] :
        /\ \A q \in todo[w] : About[r].day <= About[q].day
        /\ todo' = [todo EXCEPT ![w] = @ \ {r}]
        /\ row' = [row EXCEPT ![w] = r]
        /\ claims' = [claims EXCEPT ![w] = RefundClaims(r)]
        /\ choice' = [choice EXCEPT ![w] = Unread]
    /\ UNCHANGED <<rowVars, task, changes>>

(* What the job will write, by the claims it has read: MatchRefunds keeps a *)
(* match it is sure of, and its probe is the row's merchant and group,      *)
(* never the charge of a credit-back.                                       *)
Choices(t, r, c) ==
    IF t = "classify"
    THEN {x.ref : x \in TierRefund(r, c)}
    ELSE {IF x.sure THEN x.ref ELSE Unset : x \in Pick(r, Candidates(r, c))}

(* The purchases, and the pick.  (The staged ones and the journals are two  *)
(* queries: a purchase marked between them is offered as both, like one     *)
(* whose mark was lost, PurchaseIsSent.)                                    *)
Chooses(w) ==
    /\ row[w] # nothing /\ choice[w] = Unread
    /\ \E x \in Choices(task[w], row[w], claims[w]) : choice' = [choice EXCEPT ![w] = x]
    /\ UNCHANGED <<rowVars, task, todo, row, claims, changes>>

(* The job is done with its row, and perhaps with its list. *)
Leaves(w) ==
    /\ row' = [row EXCEPT ![w] = nothing]
    /\ claims' = [claims EXCEPT ![w] = NoClaims]
    /\ choice' = [choice EXCEPT ![w] = Unset]
    /\ task' = [task EXCEPT ![w] = IF todo[w] = {} THEN "none" ELSE @]
    /\ UNCHANGED <<todo, known, mirrored, confirmed, changes>>

Writes(w, x) == proposed' = [proposed EXCEPT ![row[w]] = x]

(* ApplyDecision: the row's status and proposal, whatever they have become. *)
ClassifyApplies(w) ==
    /\ task[w] = "classify" /\ row[w] # nothing /\ choice[w] # Unread
    /\ Writes(w, choice[w])
    /\ status' = [status EXCEPT ![row[w]] = "waiting"]
    /\ Leaves(w)

(* Mutant: the proposal that arrived meanwhile is replaced. *)
MatchWrites_Replaces(w) ==
    /\ task[w] = "match" /\ row[w] # nothing /\ choice[w] # Unread
    /\ IF choice[w] # Unset THEN Writes(w, choice[w]) ELSE UNCHANGED proposed
    /\ UNCHANGED status /\ Leaves(w)

(* MatchRefunds writes to a row that still has no proposal. *)
MatchWrites(w) ==
    /\ task[w] = "match" /\ row[w] # nothing /\ choice[w] # Unread
    /\ IF choice[w] # Unset /\ proposed[row[w]] = Unset
        THEN Writes(w, choice[w])
        ELSE UNCHANGED proposed
    /\ UNCHANGED status /\ Leaves(w)

-----------------------------------------------------------------------------
Next ==
    \/ \E x \in Refund \cup Staged : Skips(x) \/ Restores(x)
    \/ \E p \in Outside : Mirrors(p)
    \/ \E p \in Staged : Arrives(p) \/ PurchaseIsSent(p)
    \/ \E r \in Refund : RefundIsSent(r) \/ \E x \in {Unset, None} \cup Candidates(r, RefundClaims(r)) : SaveRefundOf(r, x)
    \/ \E w \in Worker, r \in Refund : ClassifyLists(w, r)
    \/ MatchLists
    \/ \E w \in Job : Looks(w) \/ Chooses(w) \/ ClassifyApplies(w) \/ MatchWrites(w)

(* The cron's loop goes round as long as Fold answers (runOneCycle returns  *)
(* before MatchRefunds when the fold sync fails), and a started             *)
(* classification of a row ends.                                            *)
Fairness ==
    /\ WF_vars(MatchLists)
    /\ \A w \in Job : WF_vars(Looks(w) \/ Chooses(w) \/ ClassifyApplies(w) \/ MatchWrites(w))

Spec == Init /\ [][Next]_vars /\ Fairness

-----------------------------------------------------------------------------
(* Every variable stays in its type, and a job that is at a row has listed  *)
(* it (runClassify, MatchRefunds).                                          *)
MatchTypeOK ==
    /\ status \in [Refund \cup Staged -> {"absent", "pending", "waiting", "pushed", "skipped"}]
    /\ known \subseteq Staged /\ mirrored \subseteq Purchase
    /\ proposed \in [Refund -> Given \cup {Unset}] /\ confirmed \in [Refund -> Ref]
    /\ task \in [Job -> {"none", "classify", "match"}]
    /\ todo \in [Job -> SUBSET Refund] /\ row \in [Job -> Refund \cup {nothing}]
    /\ claims \in [Job -> SUBSET (Refund \X Given)] /\ choice \in [Job -> Given \cup {Unset, Unread}]
    /\ changes \in 0..MaxChanges
    /\ \A w \in Job : task[w] = "none" => todo[w] = {} /\ row[w] = nothing

Claimants(p) == {r \in Refund : Counts(r) /\ Effective(r) \in Given /\ Effective(r).to = p}

(* What fold.money itself has put in one group is given whatever it adds up  *)
(* to (pickRefundCandidate).                                                *)
Overclaimed(p) == Total({r \in Claimants(p) : ~Grouped(r, p)}) > Amount(p)

(* refund.go:643: two refunds never get the same full purchase, and          *)
(* README.md:110: a purchase already refunded in full is passed over, in a   *)
(* system where nobody but the engine gives references.                     *)
NotClaimedTwice == \A p \in Purchase : ~Overclaimed(p)

(* The ungrouped refunds of a purchase come to claim more than it cost only when the  *)
(* person says so or restores a refund, when a claim changed between a      *)
(* job's sum and its write, when the purchase's journal was offered beside  *)
(* its row (the row was skipped, or did not know the journal), or when a    *)
(* credit-back takes a charge of which a part was given back.               *)
OverclaimedOnlyByRace ==
    [][\A p \in Purchase : Overclaimed(p)' /\ ~Overclaimed(p) =>
            \/ changes' # changes
            \/ \E r \in Refund : status[r] = "skipped" /\ status'[r] # "skipped"
            \/ \E w \in Job : row[w] # nothing /\ row'[w] = nothing /\ claims[w] # RefundClaims(row[w])
            \/ p \in Staged /\ \E r \in Refund : Effective(r)' = Journal(p)
            \/ \E r \in CreditBack :
                    Effective(r)' = Fold(p) /\ Total(Claimants(p) \ {r}) \in 1..(Amount(p) - 1)]_vars

(* A refund that has a proposal keeps it until the row itself is classified *)
(* again: MatchRefunds, which listed the row before, never replaces what    *)
(* was proposed or chosen meanwhile.                                        *)
MatchNeverReplaces ==
    [][\A r \in Refund : proposed'[r] # proposed[r] /\ proposed[r] # Unset =>
            \E w \in Worker : row[w] = r /\ row'[w] = nothing]_vars

(* A purchase of the refund's merchant and card, for exactly its amount and *)
(* not more than 30 days before, that nobody else claims.                   *)
Waits(r) ==
    status[r] \in {"waiting", "pushed"} /\ proposed[r] = Unset /\ confirmed[r] = Unset

Obvious(r, p) ==
    /\ Waits(r) /\ Exact(r, p) /\ SameCard(r, p) /\ SameMerchant(r, p)
    /\ DaysBefore(r, p) \in 0..30
    /\ IF p \in Outside THEN p \in mirrored ELSE Counts(p)
    /\ Claimants(p) = {}

(* MatchRefunds (refund.go:612-619): an obvious purchase that turns up      *)
(* after its refund, even after the refund was sent, does not stay          *)
(* unreferred to.                                                           *)
LatePurchaseIsFound == \A r \in Refund, p \in Purchase : []<>~Obvious(r, p)
=============================================================================
