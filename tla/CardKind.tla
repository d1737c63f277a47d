-------------------------------- MODULE CardKind --------------------------------
(***************************************************************************)
(* What kind of move a row is, and between which accounts: txntype.go's     *)
(* rules, the card that shows them (ui/review.go), the edits that change    *)
(* them (ui/ui.go, ui/static/review.js) and the transaction that push       *)
(* builds from them (push.go).  The card reads the row one way and push     *)
(* another; meanwhile the mirror of Firefly's accounts learns of new ones,  *)
(* of archived ones and of new names.                                       *)
(*                                                                         *)
(* A row's sides are named from the person's own point of view: own is the  *)
(* source of money that went out and the destination of money that came in. *)
(***************************************************************************)
EXTENDS Integers, FiniteSets

CONSTANTS
    Account, Name, KindOf,   \* Firefly's accounts: asset, expense or revenue
    NameOf,     \* what they are called at first, and on the mirrored transactions
    Unseen,     \* accounts that the mirror does not have yet
    Closing,    \* accounts that Firefly may archive, and open again
    Renames,    \* <<account, name>>: the names that Firefly may give them
    Used,       \* accounts on the mirrored transactions
    Typed       \* the names that are put in the editor's fields

NoId == "no account"
NoName == ""

Direction == {"in", "out"}
Default(dir) == IF dir = "in" THEN "deposit" ELSE "withdrawal"
TypesFor(dir) == {Default(dir), "transfer"}

ASSUME KindAssumption ==
    /\ NoId \notin Account /\ NoName \notin Name
    /\ NameOf \in [Account -> Name] /\ KindOf \in [Account -> {"asset", "expense", "revenue"}]
    /\ Unseen \subseteq Account /\ Used \subseteq Account /\ Typed \subseteq Name \cup {NoName}
    /\ Closing \subseteq Account /\ Renames \subseteq Account \X Name

Side  == [id : Account \cup {NoId}, name : Name \cup {NoName}]
Empty == [id |-> NoId, name |-> NoName]
Id(a) == [id |-> a, name |-> NoName]
Called(n) == [id |-> NoId, name |-> n]

VARIABLES
    dir,                \* the bank's direction
    type,               \* proposed_txn_type and confirmed_txn_type, or "none"
    own, other,         \* the two sides, proposed and confirmed
    mirror,             \* the accounts in firefly_accounts
    active,             \* those of them that are not archived
    called,             \* their names there
    touched             \* a person has saved the row

accounts == <<mirror, active, called>>
vars == <<dir, type, own, other, accounts, touched>>

-----------------------------------------------------------------------------
(* CheckType. *)

Listed(k, n) == {a \in active : KindOf[a] = k /\ called[a] = n}

AssetByName(n) ==
    IF Listed("asset", n) = {} THEN NoId ELSE CHOOSE a \in Listed("asset", n) : TRUE

(* An archived account is the person's only by an active one of its name.     *)
SideAsset(s) ==
    IF s.id \in active /\ KindOf[s.id] = "asset" THEN s.id
    ELSE IF s.id \in mirror THEN AssetByName(called[s.id])
    ELSE AssetByName(s.name)

SideKnown(s) == s.id = NoId \/ s.id \in mirror \/ AssetByName(s.name) # NoId

(* The chosen type; else a transfer if both sides are the person's; else     *)
(* what was proposed, if the direction allows it.                           *)
MoveType(t, a, b) ==
    IF t.confirmed # "none" THEN t.confirmed
    ELSE IF a # NoId /\ b # NoId THEN "transfer"
    ELSE IF t.proposed \in TypesFor(dir) THEN t.proposed
    ELSE Default(dir)

OtherKind(tt) == IF tt = "withdrawal" THEN "revenue" ELSE "expense"

Problem(tt, o, x) ==
    LET a == SideAsset(o)  b == SideAsset(x)
    IN  IF tt # "transfer" /\ o # Empty /\ SideKnown(o) /\ a = NoId /\ b # NoId THEN "swapped"
        ELSE IF o.id # NoId /\ SideKnown(o) /\ a = NoId THEN "own-not-mine"
        ELSE IF x = Empty THEN "none"
        ELSE IF tt = "transfer" /\ SideKnown(x) /\ b = NoId THEN "other-not-mine"
        ELSE IF tt = "transfer" /\ b # NoId /\ a = b THEN "same-account"
        ELSE IF tt # "transfer" /\ b # NoId THEN "other-is-mine"
        ELSE IF tt # "transfer" /\ x.id \in mirror /\ KindOf[x.id] = OtherKind(tt) THEN "other-kind"
        ELSE "none"

CheckType(t, o, x) ==
    LET tt == MoveType(t, SideAsset(o), SideAsset(x))
    IN  [type |-> tt, chosen |-> t.confirmed # "none", problem |-> Problem(tt, o, x),
         own |-> SideAsset(o), other |-> SideAsset(x)]

-----------------------------------------------------------------------------
(* Mutant: a new name that a person gave does not displace the account that  *)
(* was proposed.                                                            *)
PushSide_Stale(s) ==
    IF s.confirmed.id # NoId THEN s.confirmed
    ELSE IF s.proposed.id # NoId THEN Id(s.proposed.id)
    ELSE IF s.confirmed.name # NoName THEN s.confirmed ELSE s.proposed

(* The row as push reads it: a choice is a unit, and overrides the proposal. *)
(* The card reads an id and a name column each by itself (effectiveAccountID): *)
(* it checks the id alone if there is one (cardSide), and shows the name      *)
(* where no one knows the id.                                               *)
PushSide(s) ==
    IF s.confirmed # Empty THEN s.confirmed
    ELSE IF s.proposed.id # NoId THEN Id(s.proposed.id) ELSE s.proposed

CardId(s) ==
    IF s.confirmed.id # NoId THEN s.confirmed.id
    ELSE IF s.confirmed.name = NoName THEN s.proposed.id ELSE NoId

CardName(s) == IF s.confirmed.name # NoName THEN s.confirmed.name ELSE s.proposed.name

CardSide(s) == IF CardId(s) # NoId THEN Id(CardId(s)) ELSE Called(CardName(s))

CardParty(s) == [id |-> CardId(s), name |-> CardName(s)]

HasName(a) == a \in mirror \cup Used

(* isAssetName: archived accounts too. *)
IsAssetName(n) == \E a \in mirror : KindOf[a] = "asset" /\ called[a] = n

(* accountParty: the name it shows, and whether it is the person's account.  *)
Party(s) ==
    LET n == IF s.id \in mirror THEN called[s.id] ELSE IF s.id \in Used THEN NameOf[s.id] ELSE s.name
    IN  [name |-> n,
         mine |-> IF s.id \in mirror THEN KindOf[s.id] = "asset"
                  ELSE s.id \in Used \cup {NoId} /\ IsAssetName(n)]

(* buildCard.  A card saved the wrong way round reads the right way.        *)
Card(t, o, x) ==
    LET tc == CheckType(t, CardSide(o), CardSide(x))
        sw == tc.problem = "swapped"
        mine  == IF sw THEN tc.other ELSE tc.own
        yours == IF sw THEN NoId ELSE tc.other
        self  == IF mine # NoId THEN Party(Id(mine)) ELSE Party(CardParty(IF sw THEN x ELSE o))
        them  == IF tc.type = "transfer" /\ yours # NoId THEN Party(Id(yours))
                 ELSE Party(CardParty(IF sw THEN o ELSE x))
    IN  [type |-> tc.type, chosen |-> tc.chosen, problem |-> tc.problem, own |-> self, other |-> them]

(* What must change before the card can be sent, the hold and the title      *)
(* aside.                                                                   *)
Blockers(c) ==
    {b \in {"swap", "mine", "payee", "source"} :
        \/ b = "swap" /\ c.problem = "swapped"
        \/ b = "mine" /\ c.problem = "other-is-mine"
        \/ b = "payee" /\ (c.other.name = NoName \/ c.problem \in {"other-not-mine", "same-account", "other-kind"})
        \/ b = "source" /\ (c.own.name = NoName \/ c.problem = "own-not-mine")}

(* Mutant: the other side of a transfer goes as it is stored. *)
Body_AsStored(t, o, x) ==
    LET ps == PushSide(o)  px == PushSide(x)
        tc == CheckType(t, ps, px)
    IN  [type |-> tc.type, problem |-> tc.problem,
         own   |-> IF tc.own # NoId THEN Id(tc.own) ELSE ps, other |-> px]

(* buildCreateRequest. *)
Body(t, o, x) ==
    LET ps == PushSide(o)  px == PushSide(x)
        tc == CheckType(t, ps, px)
    IN  [type |-> tc.type, problem |-> tc.problem,
         own   |-> IF tc.own # NoId THEN Id(tc.own) ELSE ps,
         other |-> IF tc.type = "transfer" /\ tc.other # NoId THEN Id(tc.other) ELSE px]

-----------------------------------------------------------------------------
(* Saving. An edit has a type, an own account's name and an other side's     *)
(* name, each of which may be left as it is.                                *)

Same == "as it is"
EditOf(t, a, p) == [type |-> t, account |-> a, payee |-> p]

(* fetchDetail: the names that the row has now, of an account its name in     *)
(* the past before the one it has (lookupAccountName).                      *)
FormName(s) ==
    LET e == PushSide(s)
    IN  IF e.id = NoId THEN e.name
        ELSE IF e.id \in Used THEN NameOf[e.id]
        ELSE IF e.id \in mirror THEN called[e.id] ELSE NoName

OwnNamed(e)   == IF e.account = Same THEN FormName(own) ELSE e.account
OtherNamed(e) == IF e.payee = Same THEN FormName(other) ELSE e.payee

Booked(k, n) == {a \in Used : KindOf[a] = k /\ NameOf[a] = n}
Either(S, T) == IF S # {} THEN CHOOSE a \in S : TRUE ELSE IF T # {} THEN CHOOSE a \in T : TRUE ELSE NoId

(* resolveAccountID, for the own side: an asset of this name, or an account  *)
(* that the history has on that side (a payer is a source, and a payee a    *)
(* destination, as one's own account is), or any account, as a destination.  *)
OwnResolved(n) ==
    LET side == {"asset", IF dir = "out" THEN "revenue" ELSE "expense"}
        booked == UNION {Booked(k, n) : k \in side}
        any == IF dir = "out" THEN {} ELSE {a \in active : called[a] = n}
        x == IF AssetByName(n) # NoId THEN AssetByName(n) ELSE Either(booked, any)
    IN  IF x = NoId THEN Empty ELSE Id(x)

OtherResolved(tt, n) ==
    IF n = NoName THEN Empty
    ELSE IF tt = "transfer" THEN IF AssetByName(n) = NoId THEN Empty ELSE Id(AssetByName(n))
    ELSE LET k == IF tt = "deposit" THEN "revenue" ELSE "expense"
             a == Either(Listed(k, n), Booked(k, n))
         IN  IF a = NoId THEN Called(n) ELSE Id(a)

Now == Card(type, own, other)

(* formType: the type a save is for; the editor's "none" hands it back to    *)
(* what would be inferred.                                                  *)
SavedType(c, e) ==
    IF e.type = "none"
    THEN CheckType([type EXCEPT !.confirmed = "none"], CardSide(own), CardSide(other)).type
    ELSE IF e.type # Same THEN e.type ELSE c.type

(* Mutant: the card's edits are saved as the editor's are. *)
EditFits_Always(c, e) == e = e

(* editFits: whether a card's edit may be saved.                            *)
EditFits(c, e) ==
    LET tt == SavedType(c, e)
        conf == IF e.type # Same THEN e.type ELSE IF c.chosen THEN c.type ELSE "none"
        o == OwnResolved(OwnNamed(e))
        x == OtherResolved(tt, OtherNamed(e))
        lost == (OwnNamed(e) # NoName /\ o = Empty) \/ (OtherNamed(e) # NoName /\ x = Empty)
    IN  /\ ~(tt = "transfer" /\ lost)
        /\ CheckType([confirmed |-> conf, proposed |-> "none"], o, x).problem \in {"none", "own-not-mine"}

(* The row after saveEdits.                                                 *)
Saved(c, e) ==
    [type  |-> [type EXCEPT !.confirmed = IF e.type # Same THEN e.type ELSE @],
     own   |-> [own EXCEPT !.confirmed = OwnResolved(OwnNamed(e))],
     other |-> [other EXCEPT !.confirmed = OtherResolved(SavedType(c, e), OtherNamed(e))]]

Save(c, e) ==
    /\ \E r \in {Saved(c, e)} : type' = r.type /\ own' = r.own /\ other' = r.other
    /\ touched' = TRUE
    /\ UNCHANGED <<dir, accounts>>

-----------------------------------------------------------------------------
(* What the card's button offers next (nextStep and the pickers). *)

Assets == {called[a] : a \in {b \in active : KindOf[b] = "asset"}}

TransferPicks(c) == {EditOf("transfer", Same, n) : n \in Assets \ {c.own.name}}

(* openPayee: someone known, or any new name; a name of an own account is    *)
(* offered as a transfer.                                                   *)
PayeePicks(c, t) == {EditOf(t, Same, n) : n \in Name \ Assets} \cup TransferPicks(c)

(* A tap on the other side: who was paid, or which account (openPayee,        *)
(* openTransferAccount).                                                    *)
Others(c) == IF c.type = "transfer" THEN TransferPicks(c) ELSE PayeePicks(c, c.type)

SwapPicks(c) == {EditOf(c.type, c.own.name, c.other.name)}

OwnPicks(c) ==
    {EditOf(Same, n, Same) : n \in Assets \ (IF c.type = "transfer" THEN {c.other.name} ELSE {})}

(* Mutant: the account before who it went to. *)
Step_SourceFirst(c) ==
    LET b == Blockers(c)
    IN  IF "source" \in b THEN "source" ELSE IF "swap" \in b THEN "swap"
        ELSE IF "mine" \in b THEN "mine" ELSE IF "payee" \in b THEN "payee" ELSE "send"

Step(c) ==
    LET b == Blockers(c)
    IN  IF "swap" \in b THEN "swap"
        ELSE IF "mine" \in b THEN "mine"
        ELSE IF "payee" \in b THEN "payee"
        ELSE IF "source" \in b THEN "source"
        ELSE "send"

(* Money between one's own accounts is a transfer, unless a person said that  *)
(* it is not: then the name is what is wrong.                               *)
Picks(c, step) ==
    CASE step = "swap" -> SwapPicks(c)
      [] step = "mine" -> IF c.chosen THEN PayeePicks(c, c.type)
                          ELSE IF c.other.mine THEN {EditOf("transfer", Same, c.other.name)}
                          ELSE TransferPicks(c)
      [] step = "payee" -> Others(c)
      [] step = "source" -> OwnPicks(c)
      [] step = "send" -> {}

(* switchType: the other type of the card's direction.                      *)
Switches(c) ==
    LET t == CHOOSE x \in TypesFor(dir) : x # c.type
    IN  IF t = "transfer"
        THEN IF c.other.mine THEN {EditOf(t, Same, c.other.name)}
             ELSE IF "payee" \in Blockers(c) /\ c.problem = "none" THEN {EditOf(t, Same, Same)}
             ELSE TransferPicks(c)
        ELSE IF c.other.mine THEN PayeePicks(c, t) ELSE {EditOf(t, Same, Same)}

-----------------------------------------------------------------------------
(* handleCardEdit, from a picker or the type control.                       *)
CardEdit(c, e) == EditFits(c, e) /\ Save(c, e)

(* handleSave: the editor's form, whose fields need not fit one another.    *)
EditorSave(c, e) == Save(c, e)

(* The accounts sync finds a new account, archived or not; or that one was    *)
(* archived, or opened again; or that one has a new name.                   *)
MirrorGrows(a) ==
    /\ a \notin mirror
    /\ mirror' = mirror \cup {a}
    /\ active' \in {active \cup {a}} \cup IF a \in Closing THEN {active} ELSE {}
    /\ UNCHANGED <<dir, type, own, other, called, touched>>

Archives(a) ==
    /\ a \in mirror
    /\ active' = IF a \in active THEN active \ {a} ELSE active \cup {a}
    /\ UNCHANGED <<dir, type, own, other, mirror, called, touched>>

Renamed(a, n) ==
    /\ a \in mirror /\ called[a] # n
    /\ called' = [called EXCEPT ![a] = n]
    /\ UNCHANGED <<dir, type, own, other, mirror, active, touched>>

PersonSaves ==
    \E c \in {Now} :
        \/ \E e \in Picks(c, Step(c)) \cup Others(c) \cup Switches(c) \cup OwnPicks(c) : CardEdit(c, e)
        \/ \E t \in TypesFor(dir) \cup {"none"}, n, m \in Typed : EditorSave(c, EditOf(t, n, m))

-----------------------------------------------------------------------------
(* review.js: the button names the one thing standing in the way.  It is     *)
(* never a dead end: among what it offers there is an edit that the server   *)
(* takes.  (False where the row's own side is a name that Firefly does not   *)
(* have: editFits refuses each account offered for the other side.)          *)
NoDeadEnd ==
    \A c \in {Now} : \A step \in {Step(c)} :
        step # "send" /\ SideKnown(CardSide(other)) => \E e \in Picks(c, step) : EditFits(c, e)

(* Where the own side is an account of the person's or nothing yet, and the  *)
(* mirror has the other, the button is no dead end, and whatever the server  *)
(* takes of what it offers settles what it was for.  (False of a transfer to *)
(* an account that has another name in the past than it has now: the form    *)
(* hands that name back, and no own account is called so.)                  *)
OwnFits(c) == CardSide(own) = Empty \/ SideAsset(CardSide(own)) # NoId \/ c.problem = "swapped"

StillCalled(s) == PushSide(s).id \in mirror => FormName(s) = called[PushSide(s).id]

StepsLead ==
    \A c \in {Now} : \A step \in {Step(c)} :
        step # "send" /\ SideKnown(CardSide(other)) /\ OwnFits(c) /\ StillCalled(other) =>
            LET taken == {e \in Picks(c, step) : EditFits(c, e)}
                after == {Saved(c, e) : e \in taken}
            IN  after # {} /\ \A r \in after : step \notin Blockers(Card(r.type, r.own, r.other))

(* Nothing half-right reaches the card (review.go:1059-1060): after an edit   *)
(* that editFits lets through, the row as stored, where a side that was not  *)
(* saved falls back to what was proposed, reads without a misfit.            *)
NothingHalfRight ==
    \A c \in {Now} : \A e \in Picks(c, Step(c)) \cup Others(c) \cup Switches(c) \cup OwnPicks(c) :
        EditFits(c, e) => \A r \in {Saved(c, e)} :
            Card(r.type, r.own, r.other).problem \in {"none", "own-not-mine"}

(* What Firefly calls a side, as far as the mirror can tell.                 *)
FireflyName(s) == IF s.id # NoId THEN called[s.id] ELSE s.name

(* txntype.go:25-26: the kind of move and the accounts that a card shows are *)
(* what push sends.                                                         *)
ShowsWhatIsSent ==
    \A c \in {Now} : Blockers(c) = {} =>
        \A b \in {Body(type, own, other)} :
            b.type = c.type /\ FireflyName(b.own) = c.own.name /\ FireflyName(b.other) = c.other.name

(* Firefly's rules for a transaction between accounts that it has.          *)
FireflyTakes(b) ==
    LET k(s) == IF s.id # NoId THEN KindOf[s.id] ELSE "new"
    IN  /\ k(b.own) = "asset"
        /\ CASE b.type = "transfer"   -> k(b.other) = "asset" /\ b.other # b.own
             [] b.type = "withdrawal" -> k(b.other) \in {"expense", "new"}
             [] b.type = "deposit"    -> k(b.other) \in {"revenue", "new"}

(* What txntype.go:17-20 promises and CheckType lets pass: on the other side  *)
(* of a withdrawal or deposit is an own account that was archived.          *)
ToArchived(b) ==
    b.type # "transfer" /\ b.other.id \in mirror \ active /\ KindOf[b.other.id] = "asset"

(* A card with nothing in its way passes push's own check, and what push     *)
(* builds is something Firefly takes, as far as the mirror can tell and the *)
(* own account exists; but for an account archived on the other side.       *)
ReadyIsBookable ==
    \A c \in {Now} : Blockers(c) = {} =>
        \A b \in {Body(type, own, other)} :
            /\ b.problem = "none"
            /\ {b.own.id, b.other.id} \subseteq mirror \cup {NoId} /\ b.own.id # NoId =>
                    FireflyTakes(b) \/ ToArchived(b)
=============================================================================
