--------------------------- MODULE RefundMatchProofs ---------------------------
(***************************************************************************)
(* What is proved about which purchase a refund is matched with:           *)
(* MatchTypeOK, and the run's two action properties, for any refunds,      *)
(* purchases, amounts and goroutines.  The model is                         *)
(* classifier/refund.go and creditback.go.                                  *)
(***************************************************************************)
EXTENDS RefundMatch, FiniteSetTheorems, TLAPS

----------------------------------------------------------------------------
(* Sums of amounts *)

Units(S) == UNION {{q} \X (1..Amount(q)) : q \in S}

LEMMA AmountIsNat == \A x \in Refund \cup Purchase : Amount(x) \in Nat
BY MatchAssumption DEF Amount

LEMMA UnitsAre ==
    ASSUME NEW S, NEW u
    PROVE  u \in Units(S) <=> \E q \in S : \E i \in 1..Amount(q) : u = <<q, i>>
BY DEF Units

LEMMA UnitsOfOne ==
    ASSUME NEW r \in Refund
    PROVE  IsFiniteSet({r} \X (1..Amount(r))) /\ Cardinality({r} \X (1..Amount(r))) = Amount(r)
<1>1. Amount(r) \in Nat
    BY AmountIsNat
<1>2. IsFiniteSet(1..Amount(r)) /\ Cardinality(1..Amount(r)) = Amount(r)
    BY <1>1, FS_Interval
<1>3. IsFiniteSet({r}) /\ Cardinality({r}) = 1
    BY FS_Singleton
<1>4. QED
    BY <1>1, <1>2, <1>3, FS_Product

LEMMA UnitsAreFinite == ASSUME NEW S \in SUBSET Refund PROVE IsFiniteSet(Units(S))
<1> DEFINE each == {{q} \X (1..Amount(q)) : q \in S}
           unit == [q \in S |-> {q} \X (1..Amount(q))]
<1>1. IsFiniteSet(S)
    BY MatchAssumption, FS_Subset
<1>2. unit \in Surjection(S, each)
    BY DEF Surjection
<1>3. IsFiniteSet(each)
    BY <1>1, <1>2, FS_Surjection
<1>4. \A T \in each : IsFiniteSet(T)
    BY UnitsOfOne
<1>5. QED
    BY <1>3, <1>4, FS_UNION DEF Units

(* A total is a number, and no smaller than the total of fewer refunds.     *)
LEMMA TotalGrows ==
    ASSUME NEW S \in SUBSET Refund, NEW T \in SUBSET S
    PROVE  Total(S) \in Nat /\ Total(T) \in Nat /\ Total(T) <= Total(S)
<1>1. Units(T) \subseteq Units(S)
    BY UnitsAre
<1>2. IsFiniteSet(Units(S)) /\ IsFiniteSet(Units(T))
    BY UnitsAreFinite
<1>3. Cardinality(Units(T)) <= Cardinality(Units(S))
    BY <1>1, <1>2, FS_Subset
<1>4. QED
    BY <1>2, <1>3, FS_CardinalityType DEF Total, Units

(* One more refund adds its amount.                                         *)
LEMMA TotalAdds ==
    ASSUME NEW S \in SUBSET Refund, NEW r \in Refund \ S
    PROVE  Total(S \cup {r}) = Total(S) + Amount(r)
<1> DEFINE own == {r} \X (1..Amount(r))
<1>1. IsFiniteSet(Units(S)) /\ IsFiniteSet(own) /\ Cardinality(own) = Amount(r)
    BY UnitsAreFinite, UnitsOfOne
<1>2. Units(S \cup {r}) = Units(S) \cup own
    BY DEF Units
<1>3. Units(S) \cap own = {}
    BY UnitsAre
<1>4. Cardinality(Units(S) \cap own) = 0
    BY <1>3, FS_EmptySet
<1>5. Cardinality(Units(S) \cup own) = Cardinality(Units(S)) + Cardinality(own) - 0
    BY <1>1, <1>4, FS_Union
<1>6. Cardinality(Units(S)) \in Nat /\ Amount(r) \in Nat
    BY <1>1, FS_CardinalityType, AmountIsNat
<1>7. Total(S) = Cardinality(Units(S)) /\ Total(S \cup {r}) = Cardinality(Units(S \cup {r}))
    BY DEF Total, Units
<1> HIDE DEF own
<1>8. Cardinality(Units(S \cup {r})) = Cardinality(Units(S)) + Cardinality(own) - 0
    BY <1>2, <1>5
<1>9. QED
    BY <1>1, <1>6, <1>7, <1>8

LEMMA ClaimedIsNat == ASSUME NEW c, NEW x PROVE Claimed(c, x) \in Nat
BY TotalGrows DEF Claimed
----------------------------------------------------------------------------
(* What a job may choose *)

LEMMA RefsAreGiven ==
    /\ \A p \in Staged : Fold(p) \in Given /\ Fold(p).by = "fold" /\ Fold(p).to = p
    /\ \A p \in Purchase : Journal(p) \in Given /\ Journal(p).by = "journal" /\ Journal(p).to = p
    /\ \A x \in Given : /\ x.to \in Purchase
                        /\ x = Journal(x.to) \/ (x = Fold(x.to) /\ x.to \in Staged)
    /\ Unset \notin Given /\ None \notin Given /\ Unread \notin Given
    /\ Unset # None /\ Unset # Unread
<1>1. Staged \subseteq Purchase
    BY DEF Staged
<1>2. \A p \in Staged : Fold(p) \in Given /\ Fold(p).by = "fold" /\ Fold(p).to = p
    BY DEF Fold, Given
<1>3. \A p \in Purchase : Journal(p) \in Given /\ Journal(p).by = "journal" /\ Journal(p).to = p
    BY DEF Journal, Given
<1>4. \A x \in Given : \/ \E p \in Staged : x = Fold(p)
                       \/ \E p \in Purchase : x = Journal(p)
    BY DEF Given
<1>5. \A x \in Given : /\ x.to \in Purchase
                       /\ x = Journal(x.to) \/ (x = Fold(x.to) /\ x.to \in Staged)
    BY <1>1, <1>2, <1>3, <1>4
<1>6. Unset # None /\ Unset # Unread /\ \A x \in Given : x # Unset /\ x # None /\ x # Unread
    <2>1. Unset.by = "unset" /\ None.by = "none" /\ Unread.by = "unread"
        BY DEF Unset, None, Unread
    <2>2. \A x \in Given : x.by \in {"fold", "journal"}
        BY <1>2, <1>3, <1>4
    <2>3. QED
        BY <2>1, <2>2
<1>7. QED
    BY <1>2, <1>3, <1>5, <1>6

(* A choice for r, given the claims it was made from: the journal of a      *)
(* staged purchase, one that Fold grouped with r, one with enough left, or  *)
(* the charge of a credit-back.                                             *)
Choosable(r, c, x) ==
    /\ x \in Given
    /\ \/ x = Journal(x.to) /\ x.to \in Staged
       \/ Grouped(r, x.to)
       \/ Claimed(c, x) + Amount(r) <= Amount(x.to)
       \/ r \in CreditBack /\ x = Fold(x.to) /\ Exact(r, x.to) /\ Claimed(c, x) < Amount(x.to)

MatchIInv ==
    /\ MatchTypeOK
    /\ \A r \in Refund : status[r] # "absent"
    /\ task[Cron] # "classify"
    /\ \A w \in Job : row[w] # nothing => task[w] # "none" /\ choice[w] \in {Unset, Unread} \cup {x \in Given : Choosable(row[w], claims[w], x)}

LEMMA ClaimsAreGiven == ASSUME NEW r \in Refund PROVE RefundClaims(r) \subseteq Refund \X Given
BY DEF RefundClaims

LEMMA CandidatesAreChoosable ==
    ASSUME MatchTypeOK, NEW r \in Refund, NEW c, NEW x \in Candidates(r, c)
    PROVE  Choosable(r, c, x)
<1>1. FoldCandidates(r) \subseteq Staged /\ JournalCandidates(r) \subseteq Purchase
    BY DEF FoldCandidates, JournalCandidates, MatchTypeOK
<1>2. x \in Given
    BY <1>1 DEF Candidates, Given
<1>3. CASE Grouped(r, x.to)
    BY <1>2, <1>3 DEF Choosable
<1>4. CASE ~Grouped(r, x.to)
    <2>1. Remaining(c, x) >= Amount(r)
        BY <1>4 DEF Candidates
    <2>2. Claimed(c, x) \in Nat /\ Claimed(c, Journal(x.to)) \in Nat
        BY ClaimedIsNat
    <2>3. Amount(r) \in Nat /\ Amount(x.to) \in Nat
        BY <1>2, AmountIsNat, RefsAreGiven
    <2>4. Claimed(c, x) + Amount(r) <= Amount(x.to)
        <3>1. Amount(x.to) - Claimed(c, x) - 0 >= Amount(r) \/ Amount(x.to) - Claimed(c, x) - Claimed(c, Journal(x.to)) >= Amount(r)
            BY <2>1 DEF Remaining
        <3>2. QED
            BY <2>2, <2>3, <3>1
    <2>5. QED
        BY <1>2, <2>4 DEF Choosable
<1>5. QED
    BY <1>3, <1>4

LEMMA ChargesAreChoosable ==
    ASSUME NEW r \in CreditBack, NEW c, NEW x \in Charges(r, c)
    PROVE  Choosable(r, c, x)
<1>1. PICK p \in Staged : x = Fold(p) /\ Exact(r, p) /\ Claimed(c, Fold(p)) < Amount(p)
    BY DEF Charges, Latest
<1>2. QED
    BY <1>1, RefsAreGiven DEF Choosable

LEMMA PicksAreCandidates ==
    ASSUME NEW r, NEW C, NEW x \in Pick(r, C)
    PROVE  x.ref \in C \cup {Unset}
BY DEF Pick, Sure, Weak, Latest

LEMMA ChoicesAreChoosable ==
    ASSUME MatchTypeOK, NEW t, NEW r \in Refund, NEW c, NEW x \in Choices(t, r, c)
    PROVE  x = Unset \/ Choosable(r, c, x)
<1>1. ASSUME NEW y \in Pick(r, Candidates(r, c)) PROVE y.ref = Unset \/ Choosable(r, c, y.ref)
    BY PicksAreCandidates, CandidatesAreChoosable
<1>2. ASSUME NEW y \in TierRefund(r, c) PROVE y.ref = Unset \/ Choosable(r, c, y.ref)
    <2>1. CASE y \in Pick(r, Candidates(r, c))
        BY <1>1, <2>1
    <2>2. CASE r \in CreditBack /\ \E z \in Charges(r, c) : y = [ref |-> z, sure |-> TRUE]
        BY <2>2, ChargesAreChoosable
    <2>3. QED
        BY <2>1, <2>2 DEF TierRefund, Sure
<1>3. QED
    BY <1>1, <1>2 DEF Choices
----------------------------------------------------------------------------
(* The invariant *)

LEMMA MatchInit == Init => MatchIInv
<1> SUFFICES ASSUME Init PROVE MatchIInv
    OBVIOUS
<1>1. status \in [Refund \cup Staged -> {"absent", "pending", "waiting", "pushed", "skipped"}]
      /\ \A r \in Refund : status[r] = "pending"
    BY DEF Init
<1>2. /\ known = {} /\ mirrored = {}
      /\ proposed \in [Refund -> Given \cup {Unset}] /\ confirmed \in [Refund -> Ref]
    BY DEF Init, Ref
<1>3. /\ task \in [Job -> {"none"}] /\ todo \in [Job -> {{}}] /\ row \in [Job -> {nothing}]
      /\ claims \in [Job -> {NoClaims}] /\ choice \in [Job -> {Unset}]
    BY DEF Init
<1>4. changes \in 0..MaxChanges
    BY MatchAssumption DEF Init
<1>5. Cron \in Job
    BY DEF Job
<1>6. MatchTypeOK
    BY <1>1, <1>2, <1>3, <1>4 DEF MatchTypeOK, NoClaims
<1>7. QED
    BY <1>1, <1>3, <1>5, <1>6 DEF MatchIInv

(* The steps of a job change nothing of another one.                        *)
LEMMA ListsKeeps ==
    ASSUME MatchIInv, NEW w \in Job, NEW t \in {"classify", "match"}, NEW S \in SUBSET Refund,
           Lists(w, t, S), t = "classify" => w # Cron
    PROVE  MatchIInv'
<1> USE DEF MatchIInv
<1>1. /\ task' = [task EXCEPT ![w] = t] /\ todo' = [todo EXCEPT ![w] = S]
      /\ UNCHANGED <<status, known, mirrored, proposed, confirmed, row, claims, choice, changes>>
    BY DEF Lists, rowVars
<1>2. MatchTypeOK'
    BY <1>1 DEF MatchTypeOK
<1>3. task'[Cron] # "classify"
    BY <1>1 DEF MatchTypeOK, Job
<1>4. ASSUME NEW v \in Job, row[v] # nothing PROVE task'[v] # "none"
    BY <1>1, <1>4 DEF MatchTypeOK
<1>5. QED
    BY <1>1, <1>2, <1>3, <1>4 DEF Choosable

LEMMA LooksKeeps ==
    ASSUME MatchIInv, NEW w \in Job, Looks(w)
    PROVE  MatchIInv'
<1> USE DEF MatchIInv
<1>1. PICK r \in todo[w] :
          /\ todo' = [todo EXCEPT ![w] = @ \ {r}] /\ row' = [row EXCEPT ![w] = r]
          /\ claims' = [claims EXCEPT ![w] = RefundClaims(r)]
          /\ choice' = [choice EXCEPT ![w] = Unread]
    BY DEF Looks
<1>2. UNCHANGED <<status, known, mirrored, proposed, confirmed, task, changes>>
    BY DEF Looks, rowVars
<1>3. r \in Refund /\ task[w] # "none" /\ RefundClaims(r) \subseteq Refund \X Given
    BY <1>1, ClaimsAreGiven DEF MatchTypeOK
<1>4. /\ todo' \in [Job -> SUBSET Refund] /\ row' \in [Job -> Refund \cup {nothing}]
      /\ choice' \in [Job -> Given \cup {Unset, Unread}]
    BY <1>1, <1>3 DEF MatchTypeOK
<1>5. claims' \in [Job -> SUBSET (Refund \X Given)]
    BY <1>1, <1>3 DEF MatchTypeOK
<1>6. ASSUME NEW v \in Job, task'[v] = "none" PROVE todo'[v] = {} /\ row'[v] = nothing
    BY <1>1, <1>2, <1>3, <1>6 DEF MatchTypeOK
<1>7. MatchTypeOK'
    BY <1>2, <1>4, <1>5, <1>6 DEF MatchTypeOK
<1>8. ASSUME NEW v \in Job, row'[v] # nothing
      PROVE  task'[v] # "none" /\ choice'[v] \in {Unset, Unread} \cup {y \in Given : Choosable(row'[v], claims'[v], y)}
    <2>1. CASE v = w
        BY <1>1, <1>2, <1>3, <2>1 DEF MatchTypeOK
    <2>2. CASE v # w
        BY <1>1, <1>2, <1>8, <2>2 DEF MatchTypeOK
    <2>3. QED
        BY <2>1, <2>2
<1>9. \A y, c, v : Choosable(v, c, y)' <=> Choosable(v, c, y)
    BY DEF Choosable
<1>10. QED
    BY <1>2, <1>7, <1>8

(* The pick is choosable by the claims the job has read.                    *)
LEMMA ChoosesKeeps ==
    ASSUME MatchIInv, NEW w \in Job, Chooses(w)
    PROVE  MatchIInv'
<1> USE DEF MatchIInv
<1>1. PICK x \in Choices(task[w], row[w], claims[w]) : choice' = [choice EXCEPT ![w] = x]
    BY DEF Chooses
<1>2. UNCHANGED <<status, known, mirrored, proposed, confirmed, task, todo, row, claims, changes>>
    BY DEF Chooses, rowVars
<1>3. row[w] \in Refund
    BY DEF Chooses, MatchTypeOK
<1>4. x = Unset \/ Choosable(row[w], claims[w], x)
    BY <1>1, <1>3, ChoicesAreChoosable
<1>5. x \in Given \cup {Unset}
    BY <1>4 DEF Choosable
<1>6. MatchTypeOK'
    BY <1>1, <1>2, <1>5 DEF MatchTypeOK
<1>7. ASSUME NEW v \in Job, row'[v] # nothing
      PROVE  task'[v] # "none" /\ choice'[v] \in {Unset, Unread} \cup {y \in Given : Choosable(row'[v], claims'[v], y)}
    <2>1. CASE v = w
        <3>1. choice'[v] = x /\ row'[v] = row[w] /\ claims'[v] = claims[w]
            BY <1>1, <1>2, <2>1 DEF MatchTypeOK
        <3>2. QED
            BY <1>2, <1>4, <1>5, <1>7, <2>1, <3>1
    <2>2. CASE v # w
        BY <1>1, <1>2, <1>7, <2>2 DEF MatchTypeOK
    <2>3. QED
        BY <2>1, <2>2
<1>8. \A y, c, v : Choosable(v, c, y)' <=> Choosable(v, c, y)
    BY DEF Choosable
<1>9. QED
    BY <1>2, <1>6, <1>7

LEMMA AppliesKeeps ==
    ASSUME MatchIInv, NEW w \in Job, ClassifyApplies(w) \/ MatchWrites(w)
    PROVE  /\ MatchIInv'
           /\ row[w] \in Refund /\ row' = [row EXCEPT ![w] = nothing] /\ confirmed' = confirmed
           /\ proposed' = proposed \/ proposed' = [proposed EXCEPT ![row[w]] = choice[w]]
           /\ status' = status \/ status' = [status EXCEPT ![row[w]] = "waiting"]
<1> USE DEF MatchIInv
<1>1. /\ row' = [row EXCEPT ![w] = nothing]
      /\ claims' = [claims EXCEPT ![w] = NoClaims] /\ choice' = [choice EXCEPT ![w] = Unset]
      /\ task' = [task EXCEPT ![w] = IF todo[w] = {} THEN "none" ELSE @]
      /\ UNCHANGED <<todo, known, mirrored, confirmed, changes>>
    BY DEF ClassifyApplies, MatchWrites, Leaves
<1>2. row[w] \in Refund /\ choice[w] \in Given \cup {Unset}
    BY DEF ClassifyApplies, MatchWrites, MatchTypeOK
<1>3. proposed' = proposed \/ proposed' = [proposed EXCEPT ![row[w]] = choice[w]]
    BY DEF ClassifyApplies, MatchWrites, Writes
<1>4. status' = status \/ status' = [status EXCEPT ![row[w]] = "waiting"]
    BY DEF ClassifyApplies, MatchWrites
<1>5. /\ row' \in [Job -> Refund \cup {nothing}] /\ choice' \in [Job -> Given \cup {Unset, Unread}]
      /\ task' \in [Job -> {"none", "classify", "match"}]
    BY <1>1 DEF MatchTypeOK
<1>6. claims' \in [Job -> SUBSET (Refund \X Given)]
    BY <1>1 DEF MatchTypeOK, NoClaims
<1>7. proposed' \in [Refund -> Given \cup {Unset}]
    BY <1>2, <1>3 DEF MatchTypeOK
<1>8. /\ status' \in [Refund \cup Staged -> {"absent", "pending", "waiting", "pushed", "skipped"}]
      /\ \A r \in Refund : status'[r] # "absent"
    BY <1>4 DEF MatchTypeOK
<1>9. ASSUME NEW v \in Job, task'[v] = "none" PROVE todo'[v] = {} /\ row'[v] = nothing
    BY <1>1, <1>9 DEF MatchTypeOK
<1>10. MatchTypeOK'
    BY <1>1, <1>5, <1>6, <1>7, <1>8, <1>9 DEF MatchTypeOK
<1>11. task'[Cron] # "classify"
    BY <1>1 DEF MatchTypeOK, Job
<1>12. ASSUME NEW v \in Job, row'[v] # nothing
       PROVE  task'[v] # "none" /\ choice'[v] \in {Unset, Unread} \cup {y \in Given : Choosable(row'[v], claims'[v], y)}
    <2>1. v # w
        BY <1>1, <1>12 DEF MatchTypeOK
    <2>2. row'[v] = row[v] /\ claims'[v] = claims[v] /\ choice'[v] = choice[v] /\ task'[v] = task[v]
        BY <1>1, <2>1 DEF MatchTypeOK
    <2>3. QED
        BY <1>12, <2>2
<1>13. QED
    BY <1>1, <1>2, <1>3, <1>4, <1>8, <1>10, <1>11, <1>12

(* Rows come and go, the person decides: no job moves.                      *)
LEMMA RowsKeep ==
    ASSUME MatchIInv, UNCHANGED jobVars,
           status' \in [Refund \cup Staged -> {"absent", "pending", "waiting", "pushed", "skipped"}],
           \A r \in Refund : status'[r] # "absent",
           known' \subseteq Staged, mirrored' \subseteq Purchase,
           proposed' = proposed, confirmed' \in [Refund -> Ref], changes' \in 0..MaxChanges
    PROVE  MatchIInv'
BY DEF MatchIInv, MatchTypeOK, jobVars, Choosable

(* The steps of rows and of the person, which move no job.                  *)
RowStep ==
    \/ \E x \in Refund \cup Staged : Skips(x) \/ Restores(x)
    \/ \E p \in Outside : Mirrors(p)
    \/ \E p \in Staged : Arrives(p) \/ PurchaseIsSent(p)
    \/ \E r \in Refund : RefundIsSent(r) \/ \E x \in {Unset, None} \cup Candidates(r, RefundClaims(r)) : SaveRefundOf(r, x)

LEMMA PersonCounts == MatchTypeOK /\ Person => changes' \in 0..MaxChanges /\ changes' # changes
BY MatchAssumption DEF Person, MatchTypeOK

LEMMA RowStepKeeps == ASSUME MatchIInv, RowStep PROVE MatchIInv' /\ UNCHANGED <<jobVars, proposed>>
<1> USE DEF MatchIInv
<1> DEFINE Statuses == {"absent", "pending", "waiting", "pushed", "skipped"}
<1>1. Staged \cap Refund = {} /\ Staged \subseteq Purchase /\ Outside \subseteq Purchase
    BY MatchAssumption DEF Staged
<1>2. ASSUME NEW x \in Refund \cup Staged, Skips(x) \/ Restores(x) PROVE MatchIInv' /\ UNCHANGED <<jobVars, proposed>>
    <2>1. PICK s \in {"skipped", "waiting"} : status' = [status EXCEPT ![x] = s]
        BY <1>2 DEF Skips, Restores
    <2>2. UNCHANGED <<jobVars, known, mirrored, proposed, confirmed>> /\ changes' \in 0..MaxChanges
        BY <1>2, PersonCounts DEF Skips, Restores, MatchTypeOK
    <2>3. status' \in [Refund \cup Staged -> Statuses] /\ \A r \in Refund : status'[r] # "absent"
        BY <2>1 DEF MatchTypeOK
    <2>4. QED
        BY <2>2, <2>3, RowsKeep DEF MatchTypeOK
<1>3. ASSUME NEW p \in Outside, Mirrors(p) PROVE MatchIInv' /\ UNCHANGED <<jobVars, proposed>>
    BY <1>1, <1>3, RowsKeep DEF Mirrors, MatchTypeOK
<1>4. ASSUME NEW p \in Staged, Arrives(p) \/ PurchaseIsSent(p) PROVE MatchIInv' /\ UNCHANGED <<jobVars, proposed>>
    <2>1. status' = status \/ \E s \in {"waiting", "pushed"} : status' = [status EXCEPT ![p] = s]
        BY <1>4 DEF Arrives, PurchaseIsSent
    <2>2. UNCHANGED <<jobVars, proposed, confirmed, changes>> /\ known' \subseteq known \cup {p} /\ mirrored' \subseteq mirrored \cup {p}
        BY <1>4 DEF Arrives, PurchaseIsSent
    <2>3. status' \in [Refund \cup Staged -> Statuses] /\ \A r \in Refund : status'[r] # "absent"
        BY <2>1 DEF MatchTypeOK
    <2>4. known' \subseteq Staged /\ mirrored' \subseteq Purchase
        BY <1>1, <2>2 DEF MatchTypeOK
    <2>5. QED
        BY <2>2, <2>3, <2>4, RowsKeep DEF MatchTypeOK
<1>5. ASSUME NEW r \in Refund, RefundIsSent(r) PROVE MatchIInv' /\ UNCHANGED <<jobVars, proposed>>
    <2>1. status' \in [Refund \cup Staged -> Statuses] /\ \A q \in Refund : status'[q] # "absent"
        BY <1>5 DEF RefundIsSent, MatchTypeOK
    <2>2. UNCHANGED <<jobVars, known, mirrored, proposed, confirmed, changes>>
        BY <1>5 DEF RefundIsSent
    <2>3. QED
        BY <2>1, <2>2, RowsKeep DEF MatchTypeOK
<1>6. ASSUME NEW r \in Refund, NEW x \in {Unset, None} \cup Candidates(r, RefundClaims(r)), SaveRefundOf(r, x)
      PROVE  MatchIInv' /\ UNCHANGED <<jobVars, proposed>>
    <2>1. x \in Ref
        BY CandidatesAreChoosable DEF Ref, Choosable
    <2>2. confirmed' \in [Refund -> Ref]
        BY <1>6, <2>1 DEF SaveRefundOf, MatchTypeOK
    <2>3. UNCHANGED <<jobVars, status, known, mirrored, proposed>> /\ changes' \in 0..MaxChanges
        BY <1>6, PersonCounts DEF SaveRefundOf
    <2>4. QED
        BY <2>2, <2>3, RowsKeep DEF MatchTypeOK
<1>7. QED
    BY <1>2, <1>3, <1>4, <1>5, <1>6 DEF RowStep

LEMMA MatchStep == MatchIInv /\ [Next]_vars => MatchIInv'
<1> SUFFICES ASSUME MatchIInv, [Next]_vars PROVE MatchIInv'
    OBVIOUS
<1>1. CASE UNCHANGED vars
    BY <1>1 DEF MatchIInv, MatchTypeOK, vars, rowVars, jobVars, Choosable
<1>2. ASSUME NEW w \in Worker, NEW r \in Refund, ClassifyLists(w, r) PROVE MatchIInv'
    BY <1>2, ListsKeeps, MatchAssumption DEF ClassifyLists, Job
<1>3. CASE MatchLists
    <2>1. Cron \in Job
        BY DEF Job
    <2>2. QED
        BY <1>3, <2>1, ListsKeeps DEF MatchLists
<1>4. ASSUME NEW w \in Job, Looks(w) \/ Chooses(w) \/ ClassifyApplies(w) \/ MatchWrites(w) PROVE MatchIInv'
    BY <1>4, LooksKeeps, ChoosesKeeps, AppliesKeeps
<1>5. CASE RowStep
    BY <1>5, RowStepKeeps
<1>6. QED
    BY <1>1, <1>2, <1>3, <1>4, <1>5 DEF Next, RowStep

\* Every variable stays in its type, and a job that is at a row has listed it
\* (runClassify, MatchRefunds).
THEOREM MatchTypeCorrect == Spec => []MatchTypeOK
<1>1. MatchIInv => MatchTypeOK
    BY DEF MatchIInv
<1>2. QED
    BY <1>1, MatchInit, MatchStep, PTL DEF Spec
----------------------------------------------------------------------------
(* What is written *)

\* Only the classification of the row itself replaces a proposal; MatchRefunds
\* writes to a row that has none (refund.go, the UPDATE of MatchRefunds).
THEOREM ProposalsAreKept == Spec => MatchNeverReplaces
<1> DEFINE Never ==
        \A r \in Refund : proposed'[r] # proposed[r] /\ proposed[r] # Unset =>
            \E w \in Worker : row[w] = r /\ row'[w] = nothing
<1>1. MatchIInv /\ [Next]_vars => [Never]_vars
    <2> SUFFICES ASSUME MatchIInv, Next, NEW r \in Refund, proposed'[r] # proposed[r], proposed[r] # Unset
                 PROVE  \E w \in Worker : row[w] = r /\ row'[w] = nothing
        OBVIOUS
    <2>1. ~RowStep
        BY RowStepKeeps
    <2>2. PICK w \in Job : ClassifyApplies(w) \/ MatchWrites(w)
        BY <2>1 DEF Next, RowStep, ClassifyLists, MatchLists, Lists, Looks, Chooses, rowVars
    <2>3. /\ row[w] \in Refund /\ row' = [row EXCEPT ![w] = nothing]
          /\ proposed' = proposed \/ proposed' = [proposed EXCEPT ![row[w]] = choice[w]]
        BY <2>2, AppliesKeeps
    <2>4. row[w] = r /\ row'[w] = nothing
        BY <2>3 DEF MatchIInv, MatchTypeOK
    <2>5. ~MatchWrites(w)
        BY <2>4 DEF MatchWrites
    <2>6. w \in Worker
        BY <2>2, <2>5 DEF ClassifyApplies, MatchIInv, Job
    <2>7. QED
        BY <2>4, <2>6
<1>2. QED
    BY <1>1, MatchInit, MatchStep, PTL DEF Spec, MatchNeverReplaces
----------------------------------------------------------------------------
(* What is claimed *)

Ungrouped(p) == {r \in Claimants(p) : ~Grouped(r, p)}

LEMMA UngroupedAreRefunds == \A p : Ungrouped(p) \subseteq Refund /\ Ungrouped(p)' \subseteq Refund
BY DEF Ungrouped, Claimants

(* With fewer refunds a purchase that was not overclaimed is not.           *)
LEMMA FewerClaim ==
    ASSUME NEW p \in Purchase, Ungrouped(p)' \subseteq Ungrouped(p), Overclaimed(p)'
    PROVE  Overclaimed(p)
<1>1. Total(Ungrouped(p)') <= Total(Ungrouped(p)) /\ Total(Ungrouped(p)) \in Nat /\ Total(Ungrouped(p)') \in Nat
    BY TotalGrows, UngroupedAreRefunds
<1>2. Total(Ungrouped(p)') > Amount(p)
    BY DEF Overclaimed, Ungrouped, Total, Amount
<1>3. Amount(p) \in Nat
    BY AmountIsNat
<1>4. Total(Ungrouped(p)) > Amount(p)
    BY <1>1, <1>2, <1>3
<1>5. QED
    BY <1>4 DEF Overclaimed, Ungrouped

(* Only r's status and references change: the others claim what they did.   *)
LEMMA OthersClaim ==
    ASSUME NEW r, \A q \in Refund \ {r} : status'[q] = status[q] /\ proposed'[q] = proposed[q] /\ confirmed'[q] = confirmed[q]
    PROVE  \A p : Claimants(p)' \ {r} = Claimants(p) \ {r}
BY DEF Claimants, Counts, Effective

LEMMA ClaimsStay ==
    ASSUME NEW p \in Purchase, Overclaimed(p)', ~Overclaimed(p),
           UNCHANGED <<proposed, confirmed>>,
           \A q \in Refund : status'[q] = status[q] \/ ~(status[q] \in {"absent", "skipped"})
    PROVE  FALSE
<1>1. Claimants(p)' \subseteq Claimants(p)
    BY DEF Claimants, Counts, Effective
<1>2. QED
    BY <1>1, FewerClaim DEF Ungrouped, Grouped

(* What is left when none of the reasons that OverclaimedOnlyByRace gives   *)
(* before the last one applies.                                             *)
NoRace(p) ==
    /\ changes' = changes
    /\ \A r \in Refund : ~(status[r] = "skipped" /\ status'[r] # "skipped")
    /\ \A w \in Job : row[w] # nothing /\ row'[w] = nothing => claims[w] = RefundClaims(row[w])
    /\ p \in Staged => \A r \in Refund : Effective(r)' # Journal(p)

LEMMA OnlyWritesOverclaim ==
    ASSUME MatchIInv, Next, NEW p \in Purchase, NoRace(p), Overclaimed(p)', ~Overclaimed(p)
    PROVE  \E w \in Job : ClassifyApplies(w) \/ MatchWrites(w)
<1>1. ASSUME RowStep PROVE FALSE
    <2>1. changes \in 0..MaxChanges /\ changes' = changes
        BY DEF NoRace, MatchIInv, MatchTypeOK
    <2>2. ~Person
        BY <2>1, PersonCounts DEF MatchIInv
    <2>3. UNCHANGED <<proposed, confirmed>>
        BY <1>1, <2>2 DEF RowStep, Skips, Restores, Mirrors, Arrives, PurchaseIsSent, RefundIsSent, SaveRefundOf
    <2>4. \/ \E x \in Refund \cup Staged : Restores(x)
          \/ \E x \in Staged : \E s \in {"waiting", "pushed"} : status' = [status EXCEPT ![x] = s]
          \/ \E x \in Refund : status[x] = "waiting" /\ status' = [status EXCEPT ![x] = "pushed"]
          \/ status' = status
        BY <1>1, <2>2 DEF RowStep, Skips, Mirrors, Arrives, PurchaseIsSent, RefundIsSent, SaveRefundOf
    <2>5. Staged \cap Refund = {}
        BY MatchAssumption DEF Staged
    <2>6. \A q \in Refund : status'[q] = status[q] \/ ~(status[q] \in {"absent", "skipped"})
        <3>1. CASE \E x \in Refund \cup Staged : Restores(x)
            BY <2>5, <3>1 DEF Restores, NoRace, MatchIInv, MatchTypeOK
        <3>2. CASE \E x \in Staged : \E s \in {"waiting", "pushed"} : status' = [status EXCEPT ![x] = s]
            BY <2>5, <3>2 DEF MatchIInv, MatchTypeOK
        <3>3. CASE \E x \in Refund : status[x] = "waiting" /\ status' = [status EXCEPT ![x] = "pushed"]
            BY <3>3 DEF MatchIInv, MatchTypeOK
        <3>4. QED
            BY <2>4, <3>1, <3>2, <3>3
    <2>7. QED
        BY <2>3, <2>6, ClaimsStay
<1>2. ASSUME UNCHANGED rowVars PROVE FALSE
    BY <1>2, ClaimsStay DEF rowVars
<1>3. QED
    BY <1>1, <1>2 DEF Next, RowStep, ClassifyLists, MatchLists, Lists, Looks, Chooses

(* A write makes the refund that is written the only new claimant.          *)
LEMMA WriteIsChosen ==
    ASSUME MatchIInv, NEW p \in Purchase, NoRace(p), Overclaimed(p)', ~Overclaimed(p),
           NEW w \in Job, ClassifyApplies(w) \/ MatchWrites(w), NEW r \in Refund, r = row[w]
    PROVE  /\ claims[w] = RefundClaims(r)
           /\ Claimants(p)' \ {r} = Claimants(p) \ {r}
           /\ r \in Ungrouped(p)'
           /\ Effective(r)' = choice[w] /\ choice[w].to = p
           /\ Choosable(r, claims[w], choice[w])
<1> USE DEF MatchIInv
<1>1. /\ row' = [row EXCEPT ![w] = nothing] /\ confirmed' = confirmed
      /\ proposed' = proposed \/ proposed' = [proposed EXCEPT ![r] = choice[w]]
      /\ status' = status \/ status' = [status EXCEPT ![r] = "waiting"]
    BY AppliesKeeps
<1>2. claims[w] = RefundClaims(r)
    BY <1>1, MatchAssumption DEF NoRace, MatchTypeOK
<1>3. \A q \in Refund \ {r} : status'[q] = status[q] /\ proposed'[q] = proposed[q] /\ confirmed'[q] = confirmed[q]
    BY <1>1 DEF MatchTypeOK
<1>4. \A q : Claimants(q)' \ {r} = Claimants(q) \ {r}
    BY <1>3, OthersClaim
<1>5. r \in Ungrouped(p)'
    <2>1. SUFFICES ASSUME r \notin Ungrouped(p)' PROVE FALSE
        OBVIOUS
    <2>2. Ungrouped(p)' \subseteq Ungrouped(p)
        BY <1>4, <2>1 DEF Ungrouped, Grouped
    <2>3. QED
        BY <2>2, FewerClaim
<1>6. r \notin Ungrouped(p)
    <2>1. SUFFICES ASSUME r \in Ungrouped(p) PROVE FALSE
        OBVIOUS
    <2>2. Ungrouped(p)' \subseteq Ungrouped(p)
        BY <1>4, <2>1 DEF Ungrouped, Grouped
    <2>3. QED
        BY <2>2, FewerClaim
<1>7. Counts(r)' /\ Effective(r)' \in Given /\ Effective(r)'.to = p
    BY <1>5 DEF Ungrouped, Claimants
<1>8. Counts(r)
    <2>1. status[r] # "skipped" /\ status[r] # "absent"
        BY <1>1, <1>7 DEF NoRace, Counts
    <2>2. QED
        BY <2>1 DEF Counts
<1>9. Effective(r)' # Effective(r)
    BY <1>1, <1>5, <1>6, <1>7, <1>8 DEF Ungrouped, Claimants, Grouped
<1>10. confirmed[r] = Unset /\ proposed'[r] # proposed[r]
    BY <1>1, <1>9 DEF Effective
<1>11. proposed'[r] = choice[w]
    BY <1>1, <1>10 DEF MatchTypeOK
<1>12. Effective(r)' = choice[w]
    BY <1>1, <1>10, <1>11 DEF Effective
<1>13. choice[w] \notin {Unset, Unread}
    BY <1>7, <1>12, RefsAreGiven
<1>14. r # nothing
    BY <1>1, MatchAssumption
<1>15. Choosable(r, claims[w], choice[w])
    BY <1>13, <1>14
<1>16. QED
    BY <1>1, <1>2, <1>4, <1>5, <1>7, <1>12, <1>15

(* The others that claim p are those whose claims were summed.              *)
LEMMA OthersWereSummed ==
    ASSUME MatchIInv, NEW p \in Purchase, NoRace(p), NEW r \in Refund, NEW x \in Given, x.to = p,
           Claimants(p)' \ {r} = Claimants(p) \ {r}, Effective(r)' = x,
           \A q \in Refund \ {r} : Effective(q)' = Effective(q)
    PROVE  Total(Claimants(p) \ {r}) = Claimed(RefundClaims(r), x)
<1>1. \A q \in Refund : <<q, x>> \in RefundClaims(r) <=> q # r /\ Counts(q) /\ Effective(q) = x
    BY DEF RefundClaims
<1>2. ASSUME NEW q \in Claimants(p) \ {r} PROVE Effective(q) = x
    <2>1. q \in Refund \ {r} /\ Effective(q) \in Given /\ Effective(q).to = p
        BY <1>2 DEF Claimants
    <2>2. Effective(q) \in {Journal(p), Fold(p)} /\ x \in {Journal(p), Fold(p)}
        BY <2>1, RefsAreGiven
    <2>3. CASE p \in Staged
        BY <2>1, <2>2, <2>3 DEF NoRace
    <2>4. CASE p \notin Staged
        BY <2>1, <2>4, RefsAreGiven
    <2>5. QED
        BY <2>3, <2>4
<1>3. Claimants(p) \ {r} = {q \in Refund : <<q, x>> \in RefundClaims(r)}
    BY <1>1, <1>2 DEF Claimants
<1>4. QED
    BY <1>3 DEF Claimed

LEMMA OverclaimIsExplained ==
    ASSUME MatchIInv, Next, NEW p \in Purchase, NoRace(p), Overclaimed(p)', ~Overclaimed(p)
    PROVE  \E r \in CreditBack :
               Effective(r)' = Fold(p) /\ Total(Claimants(p) \ {r}) \in 1..(Amount(p) - 1)
<1>1. PICK w \in Job : ClassifyApplies(w) \/ MatchWrites(w)
    BY OnlyWritesOverclaim
<1>r. PICK r \in Refund : r = row[w]
    BY <1>1, AppliesKeeps
<1>x. PICK x : x = choice[w]
    OBVIOUS
<1> DEFINE others == Claimants(p) \ {r}
<1>2. /\ claims[w] = RefundClaims(r)
      /\ Claimants(p)' \ {r} = others /\ r \in Ungrouped(p)'
      /\ Effective(r)' = x /\ x.to = p /\ Choosable(r, claims[w], x)
    BY <1>1, <1>r, <1>x, WriteIsChosen
<1>3. \A q \in Refund \ {r} : Effective(q)' = Effective(q)
    BY <1>1, <1>r, AppliesKeeps DEF Effective, MatchIInv, MatchTypeOK
<1>4. x \in Given
    BY <1>2 DEF Choosable
<1>5. Total(others) = Claimed(claims[w], x)
    BY <1>2, <1>3, <1>4, OthersWereSummed
<1>6. others \in SUBSET Refund /\ r \in Refund \ others
    BY <1>2 DEF Claimants
<1>7. Total(others \cup {r}) = Total(others) + Amount(r)
    BY <1>6, TotalAdds
<1>8. Ungrouped(p)' \subseteq others \cup {r}
    BY <1>2 DEF Ungrouped
<1>9. Total(Ungrouped(p)') <= Total(others \cup {r}) /\ Total(Ungrouped(p)') \in Nat
    BY <1>6, <1>8, TotalGrows
<1>10. Total(Ungrouped(p)') > Amount(p)
    BY DEF Overclaimed, Ungrouped, Total, Amount
<1>11. Total(others) \in Nat /\ Amount(r) \in Nat /\ Amount(p) \in Nat
    BY <1>6, TotalGrows, AmountIsNat
<1>12. Total(others) + Amount(r) > Amount(p)
    BY <1>6, <1>7, <1>9, <1>10, <1>11
<1>13. ~Grouped(r, p)
    BY <1>2 DEF Ungrouped, Grouped
<1>14. ~(x = Journal(p) /\ p \in Staged)
    BY <1>2 DEF NoRace
<1>15. r \in CreditBack /\ x = Fold(p) /\ Exact(r, p) /\ Total(others) < Amount(p)
    BY <1>2, <1>5, <1>11, <1>12, <1>13, <1>14 DEF Choosable
<1>16. Total(others) \in 1..(Amount(p) - 1)
    BY <1>11, <1>12, <1>15 DEF Exact
<1>17. QED
    BY <1>2, <1>15, <1>16

\* The ungrouped refunds of a purchase come to claim more than it cost only
\* for the reasons that the property lists (findRefundCandidates,
\* findCreditBackCharge, and the writes of ApplyDecision and MatchRefunds).
THEOREM OverclaimsAreExplained == Spec => OverclaimedOnlyByRace
<1> DEFINE Explained ==
        \A p \in Purchase : Overclaimed(p)' /\ ~Overclaimed(p) =>
            \/ changes' # changes
            \/ \E r \in Refund : status[r] = "skipped" /\ status'[r] # "skipped"
            \/ \E w \in Job : row[w] # nothing /\ row'[w] = nothing /\ claims[w] # RefundClaims(row[w])
            \/ p \in Staged /\ \E r \in Refund : Effective(r)' = Journal(p)
            \/ \E r \in CreditBack :
                    Effective(r)' = Fold(p) /\ Total(Claimants(p) \ {r}) \in 1..(Amount(p) - 1)
<1>1. MatchIInv /\ [Next]_vars => [Explained]_vars
    BY OverclaimIsExplained DEF NoRace
<1>2. QED
    BY <1>1, MatchInit, MatchStep, PTL DEF Spec, OverclaimedOnlyByRace
=============================================================================
