--------------------------------- MODULE Ladder ---------------------------------
(***************************************************************************)
(* What the engine proposes for a row (classifier/classifier.go, tier3.go,  *)
(* refund.go): the refund rule, the merchant's lookup, the vote of similar   *)
(* transactions, the model above them with its fallbacks, and the account    *)
(* that Fold saw the money move on, which no tier may overrule.  The card    *)
(* and the person work on what it leaves (CardKind).                        *)
(***************************************************************************)
EXTENDS CardKind

CONSTANTS
    Lookups,    \* what the merchant's lookup can say: accounts [src, dst]
    History,    \* the mirrored transactions: [id, type, src, dst]
    Answers,    \* what the model can say: [type, sure, src, dst, name],
                \* of the type "error" or "no model" when it says nothing
    FoldName,   \* names of the account that Fold gives, or NoName
    Shops       \* names that a refund's alert gives

(* The tables name accounts that Firefly has; no account is called like the    *)
(* editor's mark for a field that stays.                                    *)
Hint == [src : Account \cup {NoId}, dst : Account \cup {NoId}]
ASSUME LadderAssumption ==
    /\ Lookups \subseteq Hint
    /\ History \subseteq [id : Nat, type : {"withdrawal", "deposit", "transfer"},
                         src : Used \cup {NoId}, dst : Used \cup {NoId}]
    /\ FoldName \cup Shops \subseteq Name \cup {NoName} /\ Same \notin Name
    /\ \A d \in Direction :
           Answers[d] \subseteq [type : STRING, sure : BOOLEAN, src : Account \cup {NoId},
                                dst : Account \cup {NoId}, name : Name \cup {NoName}]

VARIABLES
    fold,       \* the name of the row's account at Fold
    refund      \* the alert reads like a refund

allVars == <<vars, fold, refund>>

-----------------------------------------------------------------------------
(* A decision: a type, and the accounts as the tables have them, source and  *)
(* destination.                                                             *)

Decision(t, src, dst) == [type |-> t, src |-> src, dst |-> dst]
Nothing == Decision("none", Empty, Empty)

(* An account as a decision has it: with the name that the past has for it,   *)
(* or, if the model says it, the one in the list it was shown.              *)
PastName(a) == IF a = NoId THEN Empty ELSE [id |-> a, name |-> NameOf[a]]
LookupName(a) == IF a \in active THEN [id |-> a, name |-> called[a]] ELSE PastName(a)

ByAccounts(h) == Decision("none", PastName(h.src), PastName(h.dst))

NoHint == [src |-> NoId, dst |-> NoId]

(* The lookup is built from withdrawals and is silent on money that came in.  *)
TierOne(h) == IF dir = "in" THEN NoHint ELSE h

(* modeAccount: the account that most of them have, and none only if that    *)
(* is what more of them have than any account.                              *)
ModeAccount(v) ==
    LET votes(a) == Cardinality({t \in DOMAIN v : v[t] = a})
        most == {v[t] : t \in {u \in DOMAIN v : \A w \in DOMAIN v : votes(v[w]) <= votes(v[u])}}
    IN  IF most = {NoId} THEN most ELSE most \ {NoId}

(* The vote of similar transactions, on each side by itself; silent if they   *)
(* name no destination.                                                     *)
TierTwo(S) ==
    LET dst == ModeAccount([t \in S |-> t.dst])
    IN  IF S = {} \/ dst = {NoId} THEN {NoHint}
        ELSE [src : ModeAccount([t \in S |-> t.src]), dst : dst]

(* retrieveTier3Candidates: transactions of the row's direction whose words   *)
(* are like the row's; which they are is open.  The vote is of the first     *)
(* few of them.                                                             *)
Retrieved == SUBSET {t \in History : t.type = Default(dir)}
Voted(hits) == UNION {TierTwo(S) : S \in SUBSET hits}

(* The person's accounts, by the mirror or, while it has none, by the past.  *)
ListAssets ==
    LET listed == {a \in active : KindOf[a] = "asset"}
    IN  IF listed # {} THEN listed ELSE {a \in Used : KindOf[a] = "asset"}

ListNamed(k) == {a \in active \cup Used : KindOf[a] = k}

(* gatherTier3Inputs: what the model is shown.                              *)
Inputs(hits) ==
    [asset |-> ListAssets, expense |-> ListNamed("expense"), revenue |-> ListNamed("revenue"), hits |-> hits]

(* idsAreFromInventories: it may name accounts of those, or that the similar *)
(* transactions went to; anything else is an error.                         *)
InInventories(a, in) ==
    /\ a.dst \in in.expense \cup in.asset \cup {h.dst : h \in in.hits} \cup {NoId}
    /\ a.src \in in.asset \cup in.revenue \cup {h.src : h \in in.hits} \cup {NoId}

ModelType(a) == IF a.type \in {"withdrawal", "deposit", "transfer"} THEN a.type ELSE Default(dir)

(* A new name counts as a payee on a withdrawal only.                       *)
ModelDest(a) ==
    IF a.dst # NoId THEN LookupName(a.dst)
    ELSE IF ModelType(a) = "withdrawal" THEN Called(a.name) ELSE Empty

Accepted(a) ==
    /\ a.sure
    /\ dir = "in" => a.src # NoId
    /\ ModelDest(a) # Empty

TierThree(a) ==
    Decision(ModelType(a), LookupName(a.src), ModelDest(a))

(* declinedDecision: the model's type, and never its accounts.              *)
Declined(a) == Decision(ModelType(a), Empty, Empty)

Deferred == Decision("deferred", Empty, Empty)

(* classifyOne: the lookup before the vote; with neither, an error of the    *)
(* model leaves the row for later.                                          *)
ClassifyOne(one, two, hits, answer) ==
    LET hint == IF TierOne(one) # NoHint THEN ByAccounts(TierOne(one)) ELSE ByAccounts(two)
        hinted == TierOne(one) # NoHint \/ two # NoHint
    IN  IF answer.type = "no model" THEN IF hinted THEN hint ELSE Nothing
        ELSE IF answer.type = "error" \/ ~InInventories(answer, Inputs(hits))
        THEN IF hinted THEN hint ELSE Deferred
        ELSE IF Accepted(answer) THEN TierThree(answer)
        ELSE IF hinted THEN hint
        ELSE Declined(answer)

(* tierRefund: a deposit from the merchant, by the payer of that name if      *)
(* there is one.                                                            *)
TierRefund(shop) ==
    LET twin == Either(Listed("revenue", shop), Booked("revenue", shop))
    IN  Decision("deposit", [id |-> twin, name |-> shop], Empty)

(* Mutant: only what was paid out is pinned to its account. *)
ResolveOwnSide_OutOnly(d) ==
    IF fold = NoName \/ dir = "in" THEN d
    ELSE [d EXCEPT !.src = [id |-> AssetByName(fold), name |-> fold]]

(* resolveOwnSide: the account that Fold saw, by its id if one of the         *)
(* person's accounts matches it, else by its name.                          *)
ResolveOwnSide(d) ==
    LET seen == [id |-> AssetByName(fold), name |-> fold]
    IN  IF fold = NoName THEN d
        ELSE IF dir = "in" THEN [d EXCEPT !.dst = seen]
        ELSE [d EXCEPT !.src = seen]

(* ApplyDecision: the name of a source is stored beside its id, that of a      *)
(* destination only without one.                                            *)
Applied(d) ==
    LET dst == IF d.dst.id # NoId THEN Id(d.dst.id) ELSE d.dst
    IN  [type |-> d.type, own |-> IF dir = "in" THEN dst ELSE d.src, other |-> IF dir = "in" THEN d.src ELSE dst]

(* resetToPending: the names stay.                                          *)
Reset == [type |-> "none", own |-> Called(own.proposed.name), other |-> Called(other.proposed.name)]

Proposes(p) ==
    /\ type'  = [type EXCEPT !.proposed = p.type]
    /\ own'   = [own EXCEPT !.proposed = p.own]
    /\ other' = [other EXCEPT !.proposed = p.other]
    /\ UNCHANGED <<dir, accounts, touched, fold, refund>>

-----------------------------------------------------------------------------
Init ==
    /\ dir \in Direction /\ fold \in FoldName
    /\ refund \in IF dir = "in" THEN BOOLEAN ELSE {FALSE}
    /\ type = [proposed |-> "none", confirmed |-> "none"]
    /\ own = [proposed |-> Empty, confirmed |-> Empty] /\ other = own
    /\ mirror = Account \ Unseen /\ active = mirror /\ called = NameOf /\ touched = FALSE

(* classifyAndApply, for a row that no person has edited.                    *)
Classify ==
    /\ ~touched /\ ~refund
    /\ \E hits \in Retrieved :
        \E d \in {ClassifyOne(one, two, hits, a) : one \in Lookups, two \in Voted(hits), a \in Answers[dir]} :
            Proposes(IF d = Deferred THEN Reset ELSE Applied(ResolveOwnSide(d)))

ClassifyRefund ==
    /\ ~touched /\ refund
    /\ \E shop \in Shops : Proposes(Applied(ResolveOwnSide(TierRefund(shop))))

Person == PersonSaves /\ UNCHANGED <<fold, refund>>
AccountsSync ==
    /\ \/ \E a \in Unseen : MirrorGrows(a)
       \/ \E a \in Closing : Archives(a)
       \/ \E r \in Renames : Renamed(r[1], r[2])
    /\ UNCHANGED <<fold, refund>>

Next == Classify \/ ClassifyRefund \/ Person \/ AccountsSync

Spec == Init /\ [][Next]_allVars

-----------------------------------------------------------------------------
(* classifier.go:1025-1037: where Fold says which account the money moved on, *)
(* the own side that is proposed is that account or its name, whatever the   *)
(* tiers and the model said and whichever way the money went.               *)
OwnIsFolds ==
    [][own'.proposed # own.proposed /\ own'.proposed # Empty /\ fold # NoName =>
            Party(PushSide([proposed |-> own.proposed, confirmed |-> Empty]))'.name = fold]_allVars
=============================================================================
