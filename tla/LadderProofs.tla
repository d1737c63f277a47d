------------------------------ MODULE LadderProofs ------------------------------
(***************************************************************************)
(* What holds of a row and its card for any accounts, names, proposals and  *)
(* edits (CardKind, Ladder).                                                *)
(***************************************************************************)
EXTENDS Ladder, TLAPS

(* A choice is an account or a name, never both: then the card, which reads   *)
(* the two columns each by itself, and push, to which a choice is a unit,    *)
(* read the same side.                                                      *)
Kind == {"none", "withdrawal", "deposit", "transfer"}

Choice == {s \in Side : s.id = NoId \/ s.name = NoName}

Row == [proposed : Side, confirmed : Choice]

KindTypeOK ==
    /\ dir \in Direction /\ fold \in Name \cup {NoName}
    /\ type \in [proposed : Kind, confirmed : {"none"} \cup TypesFor(dir)]
    /\ own \in Row /\ other \in Row
    /\ mirror \subseteq Account /\ active \subseteq mirror /\ called \in [Account -> Name]

(* A name that is proposed for the own side is the one that Fold has; it      *)
(* stays when the account is forgotten (resetToPending).                    *)
Pinned == fold # NoName => own.proposed.name \in {fold, NoName}

(* An account that a person chose is one that has a name.                    *)
Chosen == \A s \in {own, other} : s.confirmed.id # NoId => HasName(s.confirmed.id)

(* An account that nobody has a name for is proposed without one, or with     *)
(* the one that it has at Firefly.                                          *)
Titled(s) == s.id # NoId /\ ~HasName(s.id) => s.name \in {NoName, NameOf[s.id]}
Named == Titled(own.proposed) /\ Titled(other.proposed)

(* The mirror loses no account, archives only those that Firefly closes, and  *)
(* has each by its first name or by one that Firefly gave it.               *)
Mirrored ==
    /\ Account \ Unseen \subseteq mirror /\ mirror \ Closing \subseteq active
    /\ \A a \in Account : called[a] = NameOf[a] \/ (a \in mirror /\ <<a, called[a]>> \in Renames)

IInv == KindTypeOK /\ Pinned /\ Chosen /\ Named /\ Mirrored

-----------------------------------------------------------------------------
(* The operators stay in their types. *)

LEMMA SidesAreSides ==
    /\ Empty \in Choice /\ Choice \subseteq Side
    /\ \A n \in Name \cup {NoName} : Called(n) \in Choice
    /\ \A a \in Account \cup {NoId} : Id(a) \in Choice
BY DEF Empty, Choice, Side, Called, Id

LEMMA AssetNamed ==
    ASSUME mirror \subseteq Account, active \subseteq mirror, NEW n
    PROVE  /\ AssetByName(n) \in Account \cup {NoId}
           /\ AssetByName(n) # NoId =>
                /\ AssetByName(n) \in active \cap mirror /\ KindOf[AssetByName(n)] = "asset"
                /\ called[AssetByName(n)] = n
<1>1. CASE Listed("asset", n) = {}
    BY <1>1 DEF AssetByName
<1>2. CASE Listed("asset", n) # {}
    <2>1. AssetByName(n) \in Listed("asset", n)
        BY <1>2 DEF AssetByName
    <2> QED
        BY <2>1 DEF Listed
<1> QED
    BY <1>1, <1>2

LEMMA SideAssetIsMine ==
    ASSUME mirror \subseteq Account, active \subseteq mirror, NEW s \in Side
    PROVE  /\ SideAsset(s) \in Account \cup {NoId}
           /\ SideAsset(s) # NoId => SideAsset(s) \in active \cap mirror /\ KindOf[SideAsset(s)] = "asset"
<1>1. CASE s.id \in active /\ KindOf[s.id] = "asset"
    BY <1>1 DEF SideAsset
<1>2. CASE s.id \in mirror /\ ~(s.id \in active /\ KindOf[s.id] = "asset")
    BY <1>2, AssetNamed DEF SideAsset
<1>3. CASE s.id \notin mirror
    BY <1>3, AssetNamed DEF SideAsset
<1> QED
    BY <1>1, <1>2, <1>3

LEMMA MoveTypeIsAllowed ==
    ASSUME KindTypeOK, NEW t \in [proposed : Kind, confirmed : {"none"} \cup TypesFor(dir)], NEW a, NEW b
    PROVE  MoveType(t, a, b) \in TypesFor(dir)
BY DEF KindTypeOK, MoveType, TypesFor, Default, Direction

LEMMA EitherListed ==
    ASSUME NEW S \in SUBSET Account, NEW T \in SUBSET Account
    PROVE  Either(S, T) \in Account \cup {NoId}
BY DEF Either

LEMMA OwnResolves ==
    ASSUME KindTypeOK, NEW n
    PROVE  /\ OwnResolved(n) \in Choice
           /\ OwnResolved(n).id # NoId => HasName(OwnResolved(n).id)
           /\ AssetByName(n) # NoId => OwnResolved(n) = Id(AssetByName(n))
           /\ n = NoName => OwnResolved(n) = Empty
           /\ \A a \in Used : KindOf[a] = "asset" /\ NameOf[a] = n => OwnResolved(n) # Empty
<1> DEFINE side == {"asset", IF dir = "out" THEN "revenue" ELSE "expense"}
           booked == UNION {Booked(k, n) : k \in side}
           any == IF dir = "out" THEN {} ELSE {a \in active : called[a] = n}
           x == IF AssetByName(n) # NoId THEN AssetByName(n) ELSE Either(booked, any)
<1>1. /\ booked \subseteq Used /\ any \subseteq mirror
      /\ \A a \in booked \cup any : n \in {NameOf[a], called[a]}
    BY DEF Booked, KindTypeOK
<1>2. OwnResolved(n) = IF x = NoId THEN Empty ELSE Id(x)
    BY DEF OwnResolved
<1>9. \A a \in Used : KindOf[a] = "asset" /\ NameOf[a] = n => a \in booked
    BY DEF Booked
<1>10. booked \subseteq Account
    BY KindAssumption DEF Booked
<1> HIDE DEF booked, any
<1>11. booked # {} => x # NoId
    BY <1>10, KindAssumption DEF Either
<1>3. Either(booked, any) \in booked \cup any \cup {NoId}
    BY DEF Either
<1>4. AssetByName(n) \in mirror \cup {NoId}
    BY AssetNamed DEF KindTypeOK
<1>5. x \in mirror \cup Used \cup {NoId} /\ (x # NoId => n \in {NameOf[x], called[x]})
    BY <1>1, <1>3, <1>4, AssetNamed DEF KindTypeOK
<1>6. mirror \cup Used \subseteq Account /\ \A a \in Account : NameOf[a] # NoName /\ called[a] # NoName
    BY KindAssumption DEF KindTypeOK
<1> HIDE DEF x
<1>7. OwnResolved(n) \in Choice
    BY <1>2, <1>5, <1>6, SidesAreSides
<1>8. OwnResolved(n).id = x
    BY <1>2 DEF Empty, Id
<1>12. \A a \in Used : KindOf[a] = "asset" /\ NameOf[a] = n => OwnResolved(n) # Empty
    BY <1>8, <1>9, <1>11 DEF Empty
<1> QED
    BY <1>2, <1>5, <1>6, <1>7, <1>8, <1>12 DEF HasName, x

LEMMA OtherResolves ==
    ASSUME KindTypeOK, NEW tt, NEW n \in Name \cup {NoName}
    PROVE  /\ OtherResolved(tt, n) \in Choice
           /\ OtherResolved(tt, n).id # NoId => HasName(OtherResolved(tt, n).id)
           /\ n = NoName => OtherResolved(tt, n) = Empty
           /\ tt = "transfer" /\ AssetByName(n) # NoId => OtherResolved(tt, n) = Id(AssetByName(n))
           /\ tt = "transfer" /\ AssetByName(n) = NoId => OtherResolved(tt, n) = Empty
           /\ tt # "transfer" /\ n # NoName =>
                \/ OtherResolved(tt, n) = Called(n)
                \/ \E a \in mirror \cup Used :
                    /\ OtherResolved(tt, n) = Id(a) /\ n \in {NameOf[a], called[a]}
                    /\ KindOf[a] = IF tt = "deposit" THEN "revenue" ELSE "expense"
<1> DEFINE k == IF tt = "deposit" THEN "revenue" ELSE "expense"
           S == Listed(k, n)  T == Booked(k, n)
           a == Either(S, T)
           x == OtherResolved(tt, n)
<1>1. S \subseteq mirror /\ T \subseteq Used /\ \A c \in S \cup T : n \in {NameOf[c], called[c]} /\ KindOf[c] = k
    BY DEF Listed, Booked, KindTypeOK
<1>2. x = IF n = NoName THEN Empty
          ELSE IF tt = "transfer" THEN IF AssetByName(n) = NoId THEN Empty ELSE Id(AssetByName(n))
          ELSE IF a = NoId THEN Called(n) ELSE Id(a)
    BY DEF OtherResolved
<1> HIDE DEF S, T, x
<1>3. a \in S \cup T \cup {NoId}
    BY DEF Either
<1>4. AssetByName(n) \in mirror \cup {NoId} /\ (AssetByName(n) # NoId => called[AssetByName(n)] = n)
    BY AssetNamed DEF KindTypeOK
<1>5. /\ mirror \cup Used \subseteq Account /\ NoId \notin Account
      /\ \A c \in Account : NameOf[c] # NoName /\ called[c] # NoName
    BY KindAssumption DEF KindTypeOK
<1> HIDE DEF a
<1>6. CASE n = NoName
    <2>1. x = Empty /\ AssetByName(n) = NoId
        BY <1>2, <1>4, <1>5, <1>6
    <2> QED
        BY <2>1, <1>6, SidesAreSides DEF Empty, x
<1>7. CASE n # NoName /\ tt = "transfer"
    BY <1>2, <1>4, <1>5, <1>7, SidesAreSides DEF Empty, Id, HasName, x
<1>8. CASE n # NoName /\ tt # "transfer" /\ a = NoId
    <2>1. x = Called(n)
        BY <1>2, <1>8
    <2> QED
        BY <2>1, <1>8, SidesAreSides DEF Called, x
<1>9. CASE n # NoName /\ tt # "transfer" /\ a # NoId
    <2>1. x = Id(a) /\ a \in mirror \cup Used /\ n \in {NameOf[a], called[a]} /\ KindOf[a] = k
        BY <1>1, <1>2, <1>3, <1>9
    <2> QED
        BY <2>1, <1>5, <1>9, SidesAreSides DEF Id, HasName, x
<1> QED
    BY <1>6, <1>7, <1>8, <1>9

(* What the card shows, and the edits that it and the editor offer. *)
Anyone == [name : Name \cup {NoName}, mine : BOOLEAN]

Edits == [type : {"none", Same} \cup TypesFor(dir),
          account : Name \cup {NoName, Same}, payee : Name \cup {NoName, Same}]

LEMMA NamesOfSides ==
    ASSUME KindTypeOK, NEW s \in Side
    PROVE  Party(s) \in Anyone
<1>1. HasName(s.id) => NameOf[s.id] \in Name /\ called[s.id] \in Name
    BY KindAssumption DEF HasName, KindTypeOK
<1>2. s.name \in Name \cup {NoName}
    BY DEF Side
<1> QED
    BY <1>1, <1>2 DEF Party, Anyone, HasName

(* The card and push read one side. *)
LEMMA SameReading ==
    ASSUME NEW s \in Row
    PROVE  PushSide(s) = CardSide(s) /\ CardSide(s) \in Choice
<1>1. s.confirmed \in Side /\ s.proposed \in Side /\ (s.confirmed.id = NoId \/ s.confirmed.name = NoName)
    BY DEF Row, Choice
<1>2. CASE s.confirmed.id # NoId
    <2>1. s.confirmed = Id(s.confirmed.id) /\ s.confirmed # Empty
        BY <1>1, <1>2 DEF Side, Id, Empty
    <2> QED
        BY <1>2, <2>1 DEF PushSide, CardSide, CardId, CardName, Row
<1>3. CASE s.confirmed.id = NoId /\ s.confirmed.name # NoName
    <2>1. s.confirmed = Called(s.confirmed.name) /\ s.confirmed # Empty
        BY <1>1, <1>3 DEF Side, Called, Empty
    <2> QED
        BY <1>3, <2>1 DEF PushSide, CardSide, CardId, CardName, Row
<1>4. CASE s.confirmed.id = NoId /\ s.confirmed.name = NoName
    <2>1. s.confirmed = Empty
        BY <1>1, <1>4 DEF Side, Empty
    <2>2. s.proposed.id = NoId => s.proposed = Called(s.proposed.name)
        BY <1>1 DEF Side, Called
    <2>3. s.proposed.id \in Account \cup {NoId} /\ s.proposed.name \in Name \cup {NoName}
        BY <1>1 DEF Side
    <2> QED
        BY <1>4, <2>1, <2>2, <2>3, SidesAreSides DEF PushSide, CardSide, CardId, CardName
<1> QED
    BY <1>2, <1>3, <1>4

(* What the card shows of a side is what it reads of it, where the mirror has *)
(* the account.                                                             *)
LEMMA SideShown ==
    ASSUME KindTypeOK, NEW s \in Row
    PROVE  /\ CardParty(s) \in Side /\ CardParty(s).id = CardSide(s).id
           /\ CardSide(s).id = NoId => CardParty(s).name = CardSide(s).name
           /\ CardSide(s).id \in mirror \cup {NoId} => Party(CardParty(s)) = Party(CardSide(s))
<1> DEFINE p == CardParty(s)  x == CardSide(s)
<1>1. /\ p.id = CardId(s) /\ p.name = CardName(s)
      /\ x.id = CardId(s) /\ (x.id = NoId => x.name = CardName(s))
    BY DEF CardParty, CardSide, Id, Called
<1>2. p \in Side
    <2>1. CardId(s) \in Account \cup {NoId} /\ CardName(s) \in Name \cup {NoName}
        BY DEF CardId, CardName, Row, Choice, Side
    <2> QED
        BY <2>1 DEF CardParty, Side
<1> HIDE DEF p, x
<1>3. x.id \in mirror \cup {NoId} => Party(p) = Party(x)
    BY <1>1, KindAssumption DEF Party, KindTypeOK
<1> QED
    BY <1>1, <1>2, <1>3 DEF p, x

LEMMA NowIsTyped ==
    ASSUME KindTypeOK
    PROVE  Now.type \in TypesFor(dir) /\ Now.own \in Anyone /\ Now.other \in Anyone
<1> DEFINE cs == CardSide(own)  cx == CardSide(other)  tc == CheckType(type, cs, cx)
           sw == tc.problem = "swapped"
           mine  == IF sw THEN tc.other ELSE tc.own
           yours == IF sw THEN NoId ELSE tc.other
           self  == IF mine # NoId THEN Party(Id(mine)) ELSE Party(CardParty(IF sw THEN other ELSE own))
           them  == IF tc.type = "transfer" /\ yours # NoId THEN Party(Id(yours))
                    ELSE Party(CardParty(IF sw THEN own ELSE other))
<1>1. cs \in Side /\ cx \in Side /\ CardParty(own) \in Side /\ CardParty(other) \in Side
    BY SameReading, SideShown, SidesAreSides DEF KindTypeOK
<1>2. tc.type \in TypesFor(dir) /\ tc.own \in Account \cup {NoId} /\ tc.other \in Account \cup {NoId}
    BY <1>1, MoveTypeIsAllowed, SideAssetIsMine DEF CheckType, KindTypeOK
<1> HIDE DEF cs, cx, tc
<1>3. mine \in Account \cup {NoId} /\ yours \in Account \cup {NoId}
    BY <1>2
<1> HIDE DEF mine, yours
<1>4. Id(mine) \in Side /\ Id(yours) \in Side
    BY <1>3, SidesAreSides
<1>5. self \in Anyone /\ them \in Anyone
    BY <1>1, <1>4, NamesOfSides
<1>6. Now = [type |-> tc.type, chosen |-> tc.chosen, problem |-> tc.problem, own |-> self, other |-> them]
    BY DEF Now, Card, cs, cx, tc, mine, yours
<1> QED
    BY <1>2, <1>5, <1>6

LEMMA OffersAreTyped ==
    ASSUME KindTypeOK,
           NEW e \in Picks(Now, Step(Now)) \cup Others(Now) \cup Switches(Now) \cup OwnPicks(Now)
    PROVE  e \in Edits
<1> DEFINE c == Now
<1>1. c.type \in TypesFor(dir) /\ c.own.name \in Name \cup {NoName} /\ c.other.name \in Name \cup {NoName}
    BY NowIsTyped DEF Anyone
<1> HIDE DEF c
<1>2. "transfer" \in TypesFor(dir) /\ Assets \subseteq Name
    BY KindAssumption DEF TypesFor, Assets, KindTypeOK
<1>3. TransferPicks(c) \subseteq Edits
    BY <1>2 DEF TransferPicks, Edits, EditOf
<1>4. \A t \in TypesFor(dir) : PayeePicks(c, t) \subseteq Edits
    BY <1>3 DEF PayeePicks, Edits, EditOf
<1>5. Others(c) \subseteq Edits
    BY <1>1, <1>3, <1>4 DEF Others
<1>6. OwnPicks(c) \subseteq Edits
    BY <1>2 DEF OwnPicks, Edits, EditOf
<1>7. SwapPicks(c) \subseteq Edits
    BY <1>1 DEF SwapPicks, Edits, EditOf
<1>8. EditOf("transfer", Same, c.other.name) \in Edits
    BY <1>1, <1>2 DEF Edits, EditOf
<1>9. \A t \in TypesFor(dir) : EditOf(t, Same, Same) \in Edits
    BY DEF Edits, EditOf
<1>10. Switches(c) \subseteq Edits
    <2> DEFINE t == CHOOSE x \in TypesFor(dir) : x # c.type
    <2>1. t \in TypesFor(dir)
        BY DEF TypesFor, Default, KindTypeOK, Direction
    <2> HIDE DEF t
    <2>2. Switches(c) =
            IF t = "transfer"
            THEN IF c.other.mine THEN {EditOf(t, Same, c.other.name)}
                 ELSE IF "payee" \in Blockers(c) /\ c.problem = "none" THEN {EditOf(t, Same, Same)}
                 ELSE TransferPicks(c)
            ELSE IF c.other.mine THEN PayeePicks(c, t) ELSE {EditOf(t, Same, Same)}
        BY DEF Switches, t
    <2> QED
        BY <2>1, <2>2, <1>3, <1>4, <1>8, <1>9
<1>11. Step(c) \in {"swap", "mine", "payee", "source", "send"}
    BY DEF Step
<1>12. Picks(c, Step(c)) \subseteq Edits
    BY <1>1, <1>3, <1>4, <1>5, <1>6, <1>7, <1>8, <1>11 DEF Picks
<1> QED
    BY <1>5, <1>6, <1>10, <1>12 DEF c

LEMMA NamedInEdit ==
    ASSUME KindTypeOK, NEW e \in Edits
    PROVE  /\ OwnNamed(e) \in Name \cup {NoName} /\ OtherNamed(e) \in Name \cup {NoName}
           /\ SavedType(Now, e) \in TypesFor(dir)
<1>1. \A s \in {own, other} : FormName(s) \in Name \cup {NoName}
    <2>1. \A s \in {own, other} : PushSide(s) \in Side
        BY SameReading, SidesAreSides DEF KindTypeOK
    <2>2. \A a : HasName(a) => NameOf[a] \in Name /\ called[a] \in Name
        BY KindAssumption DEF HasName, KindTypeOK
    <2> QED
        BY <2>1, <2>2 DEF FormName, Side, HasName
<1>2. OwnNamed(e) \in Name \cup {NoName} /\ OtherNamed(e) \in Name \cup {NoName}
    BY <1>1 DEF OwnNamed, OtherNamed, Edits
<1>3. [type EXCEPT !.confirmed = "none"] \in [proposed : Kind, confirmed : {"none"} \cup TypesFor(dir)]
    BY DEF KindTypeOK
<1>4. SavedType(Now, e) \in TypesFor(dir)
    BY <1>3, MoveTypeIsAllowed, NowIsTyped DEF SavedType, CheckType, Edits
<1> QED
    BY <1>2, <1>4

-----------------------------------------------------------------------------
LEMMA InitTyped == Init => IInv
<1> SUFFICES ASSUME Init PROVE IInv
    OBVIOUS
<1>1. /\ own = [proposed |-> Empty, confirmed |-> Empty] /\ other = own
      /\ type = [proposed |-> "none", confirmed |-> "none"]
      /\ mirror = Account \ Unseen /\ active = mirror /\ called = NameOf
    BY DEF Init
<1>2. KindTypeOK
    BY <1>1, KindAssumption, LadderAssumption, SidesAreSides DEF Init, KindTypeOK, Row, Kind, TypesFor
<1>3. Pinned /\ Chosen /\ Named /\ Mirrored
    BY <1>1 DEF Pinned, Chosen, Named, Titled, Mirrored, Empty
<1> QED
    BY <1>2, <1>3 DEF IInv

LEMMA SaveKeeps ==
    ASSUME IInv, NEW e \in Edits, Save(Now, e), UNCHANGED <<fold, refund>>
    PROVE  IInv'
<1> DEFINE r == Saved(Now, e)
<1>1. type' = r.type /\ own' = r.own /\ other' = r.other /\ UNCHANGED <<dir, mirror, active, called, fold>>
    BY DEF Save, accounts
<1>2. own' = [own EXCEPT !.confirmed = OwnResolved(OwnNamed(e))]
    BY <1>1 DEF Saved
<1>3. other' = [other EXCEPT !.confirmed = OtherResolved(SavedType(Now, e), OtherNamed(e))]
    BY <1>1 DEF Saved
<1>4. type' = [type EXCEPT !.confirmed = IF e.type # Same THEN e.type ELSE type.confirmed]
    BY <1>1 DEF Saved, IInv, KindTypeOK
<1>5. OwnResolved(OwnNamed(e)) \in Choice
    BY OwnResolves DEF IInv
<1>6. OtherResolved(SavedType(Now, e), OtherNamed(e)) \in Choice
    BY OtherResolves, NamedInEdit DEF IInv
<1>7. own' \in Row /\ other' \in Row
    BY <1>2, <1>3, <1>5, <1>6 DEF Row, IInv, KindTypeOK
<1>8. type' \in [proposed : Kind, confirmed : {"none"} \cup TypesFor(dir)]
    BY <1>4 DEF IInv, KindTypeOK, Edits
<1>9. own'.proposed = own.proposed /\ other'.proposed = other.proposed
    BY <1>2, <1>3 DEF IInv, KindTypeOK, Row
<1>10. KindTypeOK'
    BY <1>1, <1>7, <1>8 DEF IInv, KindTypeOK, TypesFor, Default
<1>11. Pinned'
    BY <1>1, <1>9 DEF IInv, Pinned
<1>12. own'.confirmed = OwnResolved(OwnNamed(e)) /\ other'.confirmed = OtherResolved(SavedType(Now, e), OtherNamed(e))
    BY <1>2, <1>3 DEF IInv, KindTypeOK, Row
<1>13. \A s \in {own', other'} : s.confirmed.id # NoId => HasName(s.confirmed.id)
    BY <1>12, OwnResolves, OtherResolves, NamedInEdit DEF IInv
<1>14. Chosen'
    BY <1>1, <1>13 DEF Chosen, HasName
<1>15. Named'
    BY <1>1, <1>9 DEF IInv, Named, Titled, HasName
<1> QED
    BY <1>1, <1>10, <1>11, <1>14, <1>15 DEF IInv, Mirrored

(* A decision that a tier may reach. *)
Parties == {s \in Side : Titled(s)}
Decisions == [type : Kind, src : Parties, dst : Parties]

LEMMA SidesAreParties ==
    /\ Empty \in Parties
    /\ \A n \in Name \cup {NoName} : Called(n) \in Parties
    /\ \A a \in Account \cup {NoId} : Id(a) \in Parties
BY SidesAreSides DEF Parties, Titled, Choice, Empty, Called, Id

LEMMA NamesAreFound ==
    ASSUME KindTypeOK, NEW a \in Account \cup {NoId}
    PROVE  PastName(a) \in Parties /\ LookupName(a) \in Parties
<1>1. PastName(a) \in Parties
    BY KindAssumption, SidesAreParties DEF PastName, Parties, Titled, Side
<1>2. a \in active => LookupName(a) \in Parties
    BY DEF LookupName, Parties, Titled, Side, HasName, KindTypeOK
<1> QED
    BY <1>1, <1>2 DEF LookupName

LEMMA HintsDecide ==
    ASSUME KindTypeOK, NEW h \in Hint
    PROVE  ByAccounts(h) \in Decisions
BY NamesAreFound DEF Hint, ByAccounts, Decision, Decisions, Kind

(* The mode of a vote is something that was voted for. *)
LEMMA ModeIsOfTheVotes ==
    ASSUME NEW S, NEW T, NEW v \in [S -> T]
    PROVE  ModeAccount(v) \subseteq T
BY DEF ModeAccount

(* Whichever transactions vote, their vote is a hint. *)
LEMMA VotesAreHints == ASSUME NEW hits \in Retrieved PROVE Voted(hits) \subseteq Hint
<1> SUFFICES ASSUME NEW S \in SUBSET hits PROVE TierTwo(S) \subseteq Hint
    BY DEF Voted
<1> DEFINE side == Account \cup {NoId}
           src == [t \in S |-> t.src]
           dst == [t \in S |-> t.dst]
<1>1. \A t \in S : t.src \in side /\ t.dst \in side
    BY LadderAssumption, KindAssumption DEF Retrieved
<1>2. src \in [S -> side] /\ dst \in [S -> side]
    BY <1>1
<1>3. TierTwo(S) \subseteq {NoHint} \cup [src : ModeAccount(src), dst : ModeAccount(dst)]
    BY DEF TierTwo
<1> HIDE DEF src, dst
<1>4. ModeAccount(src) \subseteq side /\ ModeAccount(dst) \subseteq side
    BY <1>2, ModeIsOfTheVotes
<1> QED
    BY <1>3, <1>4 DEF Hint, NoHint

LEMMA ModelDecides ==
    ASSUME KindTypeOK, NEW a \in Answers[dir]
    PROVE  TierThree(a) \in Decisions /\ Declined(a) \in Decisions
<1>1. /\ a.src \in Account \cup {NoId} /\ a.dst \in Account \cup {NoId}
      /\ a.name \in Name \cup {NoName}
    BY LadderAssumption DEF KindTypeOK
<1>2. ModelType(a) \in Kind
    BY DEF ModelType, Kind, Default
<1>3. ModelDest(a) \in Parties
    BY <1>1, SidesAreParties, NamesAreFound DEF ModelDest
<1>4. LookupName(a.src) \in Parties
    BY <1>1, NamesAreFound
<1> QED
    BY <1>2, <1>3, <1>4, SidesAreParties DEF TierThree, Declined, Decision, Decisions

LEMMA TiersDecide ==
    ASSUME KindTypeOK, NEW one \in Lookups, NEW hits \in Retrieved, NEW two \in Voted(hits), NEW a \in Answers[dir]
    PROVE  ClassifyOne(one, two, hits, a) \in Decisions \cup {Deferred}
<1> DEFINE hint == IF TierOne(one) # NoHint THEN ByAccounts(TierOne(one)) ELSE ByAccounts(two)
           hinted == TierOne(one) # NoHint \/ two # NoHint
<1>1. one \in Hint /\ two \in Hint /\ TierOne(one) \in Hint
    BY LadderAssumption, VotesAreHints DEF TierOne, NoHint, Hint
<1>2. hint \in Decisions
    BY <1>1, HintsDecide
<1>3. Nothing \in Decisions
    BY SidesAreParties DEF Nothing, Decision, Decisions, Kind
<1>4. ClassifyOne(one, two, hits, a) \in {hint, Nothing, Deferred, TierThree(a), Declined(a)}
    <2> HIDE DEF hint, hinted
    <2>1. ClassifyOne(one, two, hits, a) =
            IF a.type = "no model" THEN IF hinted THEN hint ELSE Nothing
            ELSE IF a.type = "error" \/ ~InInventories(a, Inputs(hits))
            THEN IF hinted THEN hint ELSE Deferred
            ELSE IF Accepted(a) THEN TierThree(a)
            ELSE IF hinted THEN hint
            ELSE Declined(a)
        BY DEF ClassifyOne, hint, hinted
    <2> QED
        BY <2>1
<1> QED
    BY <1>2, <1>3, <1>4, ModelDecides

(* What is written of a decision has Fold's account on the own side: an        *)
(* account of that name, or the name.                                       *)
LEMMA DecisionIsPinned ==
    ASSUME KindTypeOK, NEW d \in Decisions
    PROVE  LET p == Applied(ResolveOwnSide(d))
           IN  /\ p.type \in Kind /\ p.own \in Parties /\ p.other \in Parties
               /\ fold # NoName =>
                    /\ p.own.name \in {fold, NoName}
                    /\ p.own.id = NoId => p.own.name = fold
                    /\ p.own.id # NoId => p.own.id \in mirror /\ called[p.own.id] = fold
<1> DEFINE seen == [id |-> AssetByName(fold), name |-> fold]
           e == ResolveOwnSide(d)
           dst == IF e.dst.id # NoId THEN Id(e.dst.id) ELSE e.dst
           p == Applied(e)
<1>1. seen \in Parties
    BY AssetNamed DEF KindTypeOK, Side, Parties, Titled, HasName
<1>2. e = IF fold = NoName THEN d
          ELSE IF dir = "in" THEN [d EXCEPT !.dst = seen]
          ELSE [d EXCEPT !.src = seen]
    BY DEF ResolveOwnSide
<1>3. /\ e \in Decisions
      /\ fold # NoName => IF dir = "in" THEN e.dst = seen ELSE e.src = seen
    BY <1>1, <1>2 DEF Decisions
<1> HIDE DEF e
<1>4. dst \in Parties
    BY <1>3, SidesAreParties DEF Decisions, Parties, Side
<1>5. p = [type |-> e.type, own |-> IF dir = "in" THEN dst ELSE e.src, other |-> IF dir = "in" THEN e.src ELSE dst]
    BY DEF Applied
<1>6. p.type \in Kind /\ p.own \in Parties /\ p.other \in Parties
    BY <1>3, <1>4, <1>5 DEF Decisions
<1>7. ASSUME fold # NoName
      PROVE  /\ p.own.name \in {fold, NoName}
             /\ p.own.id = NoId => p.own.name = fold
             /\ p.own.id # NoId => p.own.id \in mirror /\ called[p.own.id] = fold
    <2>1. p.own = seen \/ (p.own = Id(AssetByName(fold)) /\ AssetByName(fold) # NoId)
        BY <1>3, <1>5, <1>7
    <2>2. AssetByName(fold) # NoId => AssetByName(fold) \in mirror /\ called[AssetByName(fold)] = fold
        BY AssetNamed DEF KindTypeOK
    <2> QED
        BY <2>1, <2>2 DEF Id
<1> QED
    BY <1>6, <1>7 DEF e

LEMMA ProposalKeeps ==
    ASSUME IInv, NEW p, Proposes(p),
           p.type \in Kind, p.own \in Parties, p.other \in Parties,
           fold # NoName => p.own.name \in {fold, NoName}
    PROVE  IInv'
<1>1. /\ type' = [type EXCEPT !.proposed = p.type]
      /\ own' = [own EXCEPT !.proposed = p.own]
      /\ other' = [other EXCEPT !.proposed = p.other]
      /\ UNCHANGED <<dir, mirror, active, called, touched, fold, refund>>
    BY DEF Proposes, accounts
<1>2. KindTypeOK'
    BY <1>1 DEF IInv, KindTypeOK, Row, TypesFor, Default, Parties
<1>3. /\ own'.proposed = p.own /\ other'.proposed = p.other
      /\ own'.confirmed = own.confirmed /\ other'.confirmed = other.confirmed
    BY <1>1 DEF IInv, KindTypeOK, Row
<1>4. Named'
    BY <1>1, <1>3 DEF Named, Titled, Parties, HasName
<1> QED
    BY <1>1, <1>2, <1>3, <1>4 DEF IInv, Pinned, Chosen, Mirrored, HasName

(* A proposal is what a decision says, or what is left of the one before it    *)
(* when the row has to wait for the model.                                  *)
LEMMA WhatIsProposed ==
    ASSUME KindTypeOK, Classify \/ ClassifyRefund
    PROVE  Proposes(Reset) \/ \E d \in Decisions : Proposes(Applied(ResolveOwnSide(d)))
<1>1. CASE Classify
    <2>0. PICK hits \in Retrieved : \E one \in Lookups, two \in Voted(hits), a \in Answers[dir] :
            LET d == ClassifyOne(one, two, hits, a)
            IN  Proposes(IF d = Deferred THEN Reset ELSE Applied(ResolveOwnSide(d)))
        BY <1>1 DEF Classify
    <2>1. PICK one \in Lookups, two \in Voted(hits), a \in Answers[dir] :
            LET d == ClassifyOne(one, two, hits, a)
            IN  Proposes(IF d = Deferred THEN Reset ELSE Applied(ResolveOwnSide(d)))
        BY <2>0
    <2> DEFINE d == ClassifyOne(one, two, hits, a)
    <2>2. d \in Decisions \cup {Deferred}
        BY TiersDecide
    <2> HIDE DEF d
    <2>3. CASE d = Deferred
        BY <2>1, <2>3 DEF d
    <2>4. CASE d # Deferred
        <3>1. Proposes(Applied(ResolveOwnSide(d))) /\ d \in Decisions
            BY <2>1, <2>2, <2>4 DEF d
        <3> QED
            BY <3>1
    <2> QED
        BY <2>3, <2>4
<1>2. CASE ClassifyRefund
    <2>1. PICK shop \in Shops : Proposes(Applied(ResolveOwnSide(TierRefund(shop))))
        BY <1>2 DEF ClassifyRefund
    <2> DEFINE twin == Either(Listed("revenue", shop), Booked("revenue", shop))
    <2>2. Listed("revenue", shop) \subseteq mirror /\ Booked("revenue", shop) \subseteq Used
        BY DEF KindTypeOK, Listed, Booked
    <2>3. twin = NoId \/ HasName(twin)
        BY <2>2 DEF Either, HasName
    <2> HIDE DEF twin
    <2>4. TierRefund(shop) = Decision("deposit", [id |-> twin, name |-> shop], Empty)
        BY DEF TierRefund, twin
    <2>5. [id |-> twin, name |-> shop] \in Parties
        BY <2>3, LadderAssumption, KindAssumption DEF HasName, Parties, Titled, Side, KindTypeOK
    <2>6. TierRefund(shop) \in Decisions
        BY <2>4, <2>5, SidesAreParties DEF Decision, Decisions, Kind
    <2> QED
        BY <2>1, <2>6
<1> QED
    BY <1>1, <1>2

(* Forgetting leaves the names. *)
LEMMA ResetLeavesNames ==
    ASSUME KindTypeOK
    PROVE  /\ Reset.type \in Kind /\ Reset.own \in Parties /\ Reset.other \in Parties
           /\ Reset.own.name = own.proposed.name /\ Reset.own.id = NoId
<1>1. own.proposed.name \in Name \cup {NoName} /\ other.proposed.name \in Name \cup {NoName}
    BY DEF KindTypeOK, Row, Side
<1>2. Called(own.proposed.name) \in Parties /\ Called(other.proposed.name) \in Parties
    BY <1>1, SidesAreParties
<1> QED
    BY <1>2 DEF Reset, Kind, Called

LEMMA StepTyped == ASSUME IInv, [Next]_allVars PROVE IInv'
<1>1. CASE Classify \/ ClassifyRefund
    <2>1. CASE Proposes(Reset)
        BY <2>1, ResetLeavesNames, ProposalKeeps DEF IInv, Pinned
    <2>2. CASE \E d \in Decisions : Proposes(Applied(ResolveOwnSide(d)))
        BY <2>2, DecisionIsPinned, ProposalKeeps DEF IInv
    <2> QED
        BY <1>1, <2>1, <2>2, WhatIsProposed DEF IInv
<1>3. CASE Person
    <2>1. CASE \E e \in Picks(Now, Step(Now)) \cup Others(Now) \cup Switches(Now) \cup OwnPicks(Now) : Save(Now, e)
        BY <2>1, <1>3, OffersAreTyped, SaveKeeps DEF Person, IInv
    <2>2. CASE \E t \in TypesFor(dir) \cup {"none"}, n, m \in Typed : Save(Now, EditOf(t, n, m))
        <3>1. PICK t \in TypesFor(dir) \cup {"none"}, n \in Typed, m \in Typed : Save(Now, EditOf(t, n, m))
            BY <2>2
        <3>2. EditOf(t, n, m) \in Edits
            BY KindAssumption DEF EditOf, Edits
        <3> QED
            BY <3>1, <3>2, <1>3, SaveKeeps DEF Person
    <2> QED
        BY <1>3, <2>1, <2>2 DEF Person, PersonSaves, CardEdit, EditorSave
<1>4. CASE AccountsSync
    <2>1. UNCHANGED <<dir, type, own, other, fold, refund>>
        BY <1>4 DEF AccountsSync, MirrorGrows, Archives, Renamed
    <2>2. mirror \subseteq mirror' /\ KindTypeOK' /\ Mirrored'
        <3>1. CASE \E a \in Unseen : MirrorGrows(a)
            <4>1. PICK a \in Unseen : MirrorGrows(a)
                BY <3>1
            <4>2. /\ a \in Account /\ mirror' = mirror \cup {a} /\ called' = called
                  /\ active' = active \cup {a} \/ (a \in Closing /\ active' = active)
                BY <4>1, KindAssumption DEF MirrorGrows
            <4> QED
                BY <4>2, <2>1 DEF IInv, KindTypeOK, Mirrored, TypesFor, Default
        <3>2. CASE \E a \in Closing : Archives(a)
            <4>1. PICK a \in Closing : Archives(a)
                BY <3>2
            <4>2. /\ a \in mirror /\ UNCHANGED <<mirror, called>>
                  /\ active' \in {active \cup {a}, active \ {a}}
                BY <4>1 DEF Archives
            <4> QED
                BY <4>2, <2>1 DEF IInv, KindTypeOK, Mirrored, TypesFor, Default
        <3>3. CASE \E q \in Renames : Renamed(q[1], q[2])
            <4>1. PICK q \in Renames : Renamed(q[1], q[2])
                BY <3>3
            <4>2. q[1] \in Account /\ q[2] \in Name /\ q = <<q[1], q[2]>>
                BY KindAssumption
            <4>3. /\ q[1] \in mirror /\ UNCHANGED <<mirror, active>>
                  /\ called' = [called EXCEPT ![q[1]] = q[2]]
                BY <4>1 DEF Renamed
            <4>4. KindTypeOK'
                BY <4>2, <4>3, <2>1 DEF IInv, KindTypeOK, TypesFor, Default
            <4>5. \A a \in Account : called'[a] = NameOf[a] \/ (a \in mirror' /\ <<a, called'[a]>> \in Renames)
                <5> TAKE a \in Account
                <5>1. CASE a = q[1]
                    BY <5>1, <4>2, <4>3 DEF IInv, KindTypeOK
                <5>2. CASE a # q[1]
                    BY <5>2, <4>3 DEF IInv, KindTypeOK, Mirrored
                <5> QED
                    BY <5>1, <5>2
            <4> QED
                BY <4>3, <4>4, <4>5 DEF IInv, Mirrored
        <3> QED
            BY <1>4, <3>1, <3>2, <3>3 DEF AccountsSync
    <2> QED
        BY <2>1, <2>2 DEF IInv, Pinned, Chosen, Named, Titled, HasName
<1>5. CASE UNCHANGED allVars
    BY <1>5 DEF allVars, vars, accounts, IInv, KindTypeOK, Pinned, Chosen, Named, Titled, Mirrored, HasName,
                TypesFor, Default
<1> QED
    BY <1>1, <1>3, <1>4, <1>5 DEF Next

(* The row, the mirror and the proposals stay what they can be, and a choice  *)
(* stays an account or a name.                                              *)
THEOREM KindTypeCorrect == Spec => []KindTypeOK
<1>1. IInv => KindTypeOK
    BY DEF IInv
<1> QED
    BY <1>1, InitTyped, StepTyped, PTL DEF Spec

(* Whatever the tiers say, the own side that is proposed is Fold's account    *)
(* (resolveOwnSide), by the name that the mirror has for it then.           *)
THEOREM OwnSideIsFolds == Spec => OwnIsFolds
<1> DEFINE Proposed == [proposed |-> own.proposed, confirmed |-> Empty]
           A == own'.proposed # own.proposed /\ own'.proposed # Empty /\ fold # NoName =>
                    Party(PushSide(Proposed))'.name = fold
<1>1. ASSUME IInv, [Next]_allVars, own'.proposed # own.proposed, own'.proposed # Empty, fold # NoName
      PROVE  Party(PushSide(Proposed))'.name = fold
    <2>1. Classify \/ ClassifyRefund
        <3>1. Person => own'.proposed = own.proposed
            <4>1. Person => \E c, e : Save(c, e)
                BY DEF Person, PersonSaves, CardEdit, EditorSave
            <4>2. ASSUME NEW c, NEW e, Save(c, e) PROVE own'.proposed = own.proposed
                <5>1. own' = Saved(c, e).own
                    BY <4>2 DEF Save
                <5>2. own' = [own EXCEPT !.confirmed = OwnResolved(OwnNamed(e))]
                    BY <5>1 DEF Saved
                <5> QED
                    BY <1>1, <5>2 DEF IInv, KindTypeOK, Row
            <4> QED
                BY <4>1, <4>2
        <3>2. AccountsSync => own' = own
            BY DEF AccountsSync, MirrorGrows, Archives, Renamed
        <3>3. UNCHANGED allVars => own' = own
            BY DEF allVars, vars
        <3> QED
            BY <1>1, <3>1, <3>2, <3>3 DEF Next
    <2> DEFINE q == own'.proposed
    <2>2. /\ q.id = NoId => q.name = fold
          /\ q.id # NoId => q.id \in mirror /\ called[q.id] = fold
          /\ q \in Side /\ UNCHANGED <<mirror, called>>
        <3>1. ASSUME NEW p, Proposes(p) PROVE q = p.own /\ UNCHANGED <<mirror, called>>
            BY <3>1, <1>1 DEF Proposes, accounts, IInv, KindTypeOK, Row
        <3>2. CASE Proposes(Reset)
            <4>1. q = Reset.own /\ q \in Side /\ UNCHANGED <<mirror, called>>
                BY <1>1, <3>1, <3>2, ResetLeavesNames DEF Parties, IInv
            <4>2. q.id = NoId /\ q.name \in {fold, NoName}
                BY <1>1, <4>1, ResetLeavesNames DEF IInv, Pinned
            <4>3. q.name # NoName
                BY <1>1, <4>1, <4>2 DEF Side, Empty
            <4> QED
                BY <4>1, <4>2, <4>3
        <3>3. CASE \E d \in Decisions : Proposes(Applied(ResolveOwnSide(d)))
            <4>1. PICK d \in Decisions : Proposes(Applied(ResolveOwnSide(d)))
                BY <3>3
            <4>2. q = Applied(ResolveOwnSide(d)).own /\ UNCHANGED <<mirror, called>>
                BY <3>1, <4>1
            <4> QED
                BY <1>1, <4>2, DecisionIsPinned DEF IInv, Parties
        <3> QED
            BY <1>1, <2>1, <3>2, <3>3, WhatIsProposed DEF IInv
    <2>3. PushSide(Proposed)' = IF q.id # NoId THEN Id(q.id) ELSE q
        BY DEF PushSide
    <2> HIDE DEF q, Proposed
    <2>4. CASE q.id # NoId
        BY <2>2, <2>3, <2>4 DEF Party, Id
    <2>5. CASE q.id = NoId
        <3>1. NoId \notin mirror \cup Used
            BY <1>1, KindAssumption DEF IInv, KindTypeOK
        <3> QED
            BY <2>2, <2>3, <2>5, <3>1 DEF Party
    <2> QED
        BY <2>4, <2>5
<1>2. IInv /\ [Next]_allVars => [A]_allVars
    BY <1>1
<1> QED
    BY <1>2, InitTyped, StepTyped, PTL DEF Spec, OwnIsFolds

-----------------------------------------------------------------------------
(* The card and what is sent. *)

(* What a card with nothing in its way says of the reading that it and push   *)
(* share.                                                                   *)
LEMMA NothingInTheWay ==
    ASSUME KindTypeOK, Blockers(Now) = {}
    PROVE  LET ps == CardSide(own)  px == CardSide(other)
               tc == CheckType(type, ps, px)
           IN  /\ tc.problem = "none"
               /\ Body(type, own, other) =
                    [type |-> tc.type, problem |-> tc.problem,
                     own   |-> IF tc.own # NoId THEN Id(tc.own) ELSE ps,
                     other |-> IF tc.type = "transfer" /\ tc.other # NoId THEN Id(tc.other) ELSE px]
               /\ Now.type = tc.type
               /\ Now.own = Party(IF tc.own # NoId THEN Id(tc.own) ELSE CardParty(own))
               /\ Now.other = Party(IF tc.type = "transfer" /\ tc.other # NoId THEN Id(tc.other) ELSE CardParty(other))
               /\ Now.own.name # NoName /\ Now.other.name # NoName
<1> DEFINE ps == CardSide(own)  px == CardSide(other)  tc == CheckType(type, ps, px)
           sw == tc.problem = "swapped"
           mine  == IF sw THEN tc.other ELSE tc.own
           yours == IF sw THEN NoId ELSE tc.other
           self  == IF mine # NoId THEN Party(Id(mine)) ELSE Party(CardParty(IF sw THEN other ELSE own))
           them  == IF tc.type = "transfer" /\ yours # NoId THEN Party(Id(yours))
                    ELSE Party(CardParty(IF sw THEN own ELSE other))
           b == Body(type, own, other)
<1>1. PushSide(own) = ps /\ PushSide(other) = px
    BY SameReading DEF KindTypeOK
<1>2. b = [type |-> tc.type, problem |-> tc.problem,
           own   |-> IF tc.own # NoId THEN Id(tc.own) ELSE ps,
           other |-> IF tc.type = "transfer" /\ tc.other # NoId THEN Id(tc.other) ELSE px]
    BY <1>1 DEF Body
<1>3. tc.problem \in {"none", "swapped", "own-not-mine", "other-not-mine", "same-account",
                      "other-is-mine", "other-kind"}
    BY DEF CheckType, Problem
<1> HIDE DEF ps, px, tc
<1>4. Now = [type |-> tc.type, chosen |-> tc.chosen, problem |-> tc.problem, own |-> self, other |-> them]
    BY DEF Now, Card, ps, px, tc
<1> HIDE DEF self, them
<1>5. /\ Now.type = tc.type /\ Now.problem = tc.problem /\ Now.own = self /\ Now.other = them
    BY <1>4
<1>6. tc.problem = "none" /\ Now.own.name # NoName /\ Now.other.name # NoName
    BY <1>3, <1>5 DEF Blockers
<1>7. /\ self = Party(IF tc.own # NoId THEN Id(tc.own) ELSE CardParty(own))
      /\ them = Party(IF tc.type = "transfer" /\ tc.other # NoId THEN Id(tc.other) ELSE CardParty(other))
    BY <1>6 DEF self, them
<1> QED
    BY <1>2, <1>5, <1>6, <1>7 DEF ps, px, tc

(* The name that the card shows of a side that is sent as it is stored.        *)
LEMMA StoredName ==
    ASSUME IInv, NEW s \in {own, other}, Party(CardParty(s)).name # NoName
    PROVE  FireflyName(CardSide(s)) = Party(CardParty(s)).name
<1> DEFINE p == CardParty(s)  x == CardSide(s)
<1>1. s \in Row /\ KindTypeOK
    BY DEF IInv, KindTypeOK
<1>2. p.id = x.id /\ (x.id = NoId => p.name = x.name)
    BY <1>1, SideShown
<1>3. CASE x.id = NoId
    <2>1. x.id \notin mirror \cup Used
        BY <1>1, <1>3, KindAssumption DEF KindTypeOK
    <2> QED
        BY <2>1, <1>2, <1>3 DEF FireflyName, Party
<1>4. CASE x.id \in mirror
    <2>1. x.id # NoId
        BY <1>1, <1>4, KindAssumption DEF KindTypeOK
    <2> HIDE DEF x, p
    <2>2. FireflyName(x) = called[x.id]
        BY <2>1 DEF FireflyName
    <2>3. Party(p).name = called[x.id]
        BY <1>2, <1>4 DEF Party
    <2> QED
        BY <2>2, <2>3 DEF x, p
<1>5. CASE x.id # NoId /\ x.id \notin mirror
    <2>1. x.id \in Account
        BY <1>1, <1>5, SameReading, SidesAreSides DEF Side
    <2>2. called[x.id] = NameOf[x.id]
        BY <1>5, <2>1 DEF IInv, Mirrored
    <2>3. Party(p).name = NameOf[x.id]
        <3>1. CASE x.id \in Used
            BY <3>1, <1>2, <1>5 DEF Party
        <3>2. CASE x.id \notin Used
            <4>1. Party(p).name = p.name
                BY <3>2, <1>2, <1>5 DEF Party
            <4>2. x.id = CardId(s) /\ p.name = CardName(s)
                BY <1>2 DEF CardParty
            <4>3. ~HasName(x.id)
                BY <3>2, <1>5 DEF HasName
            <4>4. s.confirmed.id = NoId
                BY <4>2, <4>3, <1>5 DEF CardId, IInv, Chosen
            <4>5. s.confirmed.name = NoName /\ x.id = s.proposed.id
                BY <4>2, <4>4, <1>5 DEF CardId
            <4>6. p.name = s.proposed.name
                BY <4>2, <4>5 DEF CardName
            <4>7. s.proposed.name \in {NoName, NameOf[x.id]}
                BY <4>3, <4>5, <1>5 DEF IInv, Named, Titled
            <4> QED
                BY <4>1, <4>6, <4>7
        <3> QED
            BY <3>1, <3>2
    <2>4. FireflyName(x) = called[x.id]
        BY <1>5 DEF FireflyName
    <2> QED
        BY <2>2, <2>3, <2>4
<1> QED
    BY <1>3, <1>4, <1>5

(* What a card shows as ready to send is what push sends: its kind and, by     *)
(* their names at Firefly, its two parties (txntype.go:25-26).              *)
THEOREM CardsShowWhatIsSent == Spec => []ShowsWhatIsSent
<1>1. IInv => ShowsWhatIsSent
    <2> DEFINE tc == CheckType(type, CardSide(own), CardSide(other))  b == Body(type, own, other)
               ready(a, s) == IF a # NoId THEN Id(a) ELSE CardParty(s)
               sent(a, s)  == IF a # NoId THEN Id(a) ELSE CardSide(s)
               them == IF tc.type = "transfer" THEN tc.other ELSE NoId
    <2> SUFFICES ASSUME IInv, Blockers(Now) = {}
                 PROVE  b.type = Now.type /\ FireflyName(b.own) = Now.own.name /\ FireflyName(b.other) = Now.other.name
        BY DEF ShowsWhatIsSent
    <2>1. /\ b.type = tc.type /\ b.own = sent(tc.own, own) /\ b.other = sent(them, other)
          /\ Now.type = tc.type /\ Now.own = Party(ready(tc.own, own)) /\ Now.other = Party(ready(them, other))
          /\ Now.own.name # NoName /\ Now.other.name # NoName
        BY NothingInTheWay DEF IInv
    <2>2. /\ tc.own # NoId => tc.own \in mirror
          /\ them # NoId => them \in mirror
        <3>1. \A s \in {own, other} : CardSide(s) \in Side
            BY SameReading, SidesAreSides DEF IInv, KindTypeOK
        <3> QED
            BY <3>1, SideAssetIsMine DEF IInv, KindTypeOK, CheckType
    <2>3. \A a : a # NoId /\ a \in mirror => FireflyName(Id(a)) = Party(Id(a)).name
        BY DEF FireflyName, Party, Id
    <2>4. ASSUME NEW a, a # NoId => a \in mirror, NEW s \in {own, other}, Party(ready(a, s)).name # NoName
          PROVE  FireflyName(sent(a, s)) = Party(ready(a, s)).name
        BY <2>3, <2>4, StoredName
    <2> HIDE DEF tc, b, ready, sent, them
    <2> QED
        BY <2>1, <2>2, <2>4
<1> QED
    BY <1>1, InitTyped, StepTyped, PTL DEF Spec

(* An account that the mirror has, on a side without a problem, is of the     *)
(* kind that Firefly wants there, or is the person's and was archived.      *)
LEMMA ReadyIsTaken ==
    ASSUME KindTypeOK, Blockers(Now) = {},
           Body(type, own, other).own.id \in mirror, Body(type, own, other).other.id \in mirror \cup {NoId}
    PROVE  FireflyTakes(Body(type, own, other)) \/ ToArchived(Body(type, own, other))
<1> DEFINE o == CardSide(own)  x == CardSide(other)  tc == CheckType(type, o, x)
           b == Body(type, own, other)
           k(s) == IF s.id # NoId THEN KindOf[s.id] ELSE "new"
<1>1. o \in Side /\ x \in Side
    BY SameReading, SidesAreSides DEF KindTypeOK
<1>2. /\ tc.problem = Problem(tc.type, o, x) /\ tc.own = SideAsset(o) /\ tc.other = SideAsset(x)
      /\ tc.type \in TypesFor(dir)
    BY MoveTypeIsAllowed DEF CheckType, KindTypeOK
<1>3. /\ tc.problem = "none"
      /\ b.type = tc.type
      /\ b.own = IF tc.own # NoId THEN Id(tc.own) ELSE o
      /\ b.other = IF tc.type = "transfer" /\ tc.other # NoId THEN Id(tc.other) ELSE x
      /\ tc.type # "transfer" \/ tc.other = NoId => Party(CardParty(other)).name # NoName
    <2>1. /\ Now.other = Party(IF tc.type = "transfer" /\ tc.other # NoId THEN Id(tc.other) ELSE CardParty(other))
          /\ Now.other.name # NoName
        BY NothingInTheWay
    <2> QED
        BY <2>1, NothingInTheWay
<1> HIDE DEF o, x, tc, b
<1>4. NoId \notin mirror /\ mirror \subseteq Account
    BY KindAssumption DEF KindTypeOK
<1>5. /\ tc.own # NoId => tc.own \in mirror /\ KindOf[tc.own] = "asset"
      /\ tc.other # NoId => tc.other \in mirror /\ KindOf[tc.other] = "asset"
    BY <1>1, <1>2, SideAssetIsMine DEF KindTypeOK
<1>6. tc.own # NoId
    <2> SUFFICES ASSUME tc.own = NoId PROVE FALSE
        OBVIOUS
    <2>1. o.id \in mirror
        BY <1>3 DEF b
    <2> QED
        BY <2>1, <1>2, <1>3, <1>4 DEF Problem, SideKnown
<1>7. b.own.id = tc.own /\ k(b.own) = "asset"
    BY <1>3, <1>4, <1>5, <1>6 DEF Id
<1>8. x # Empty
    <2> SUFFICES ASSUME x = Empty PROVE FALSE
        OBVIOUS
    <2>1. x.id = NoId /\ x.name = NoName
        BY DEF Empty
    <2>2. tc.other = NoId
        <3>1. \A a \in active : called[a] # NoName
            BY KindAssumption DEF KindTypeOK
        <3> QED
            BY <2>1, <1>2, <1>4, <3>1 DEF SideAsset, AssetByName, Listed, KindTypeOK
    <2>3. CardParty(other).id = NoId /\ CardParty(other).name = NoName
        BY <2>1, SideShown DEF x, KindTypeOK
    <2>4. NoId \notin mirror \cup Used
        BY <1>4, KindAssumption
    <2> QED
        BY <1>3, <2>2, <2>3, <2>4 DEF Party
<1>9. CASE tc.type = "transfer"
    <2>1. tc.other # NoId
        <3> SUFFICES ASSUME tc.other = NoId PROVE FALSE
            OBVIOUS
        <3>1. x.id \in mirror \cup {NoId}
            BY <1>3 DEF b
        <3> QED
            BY <3>1, <1>2, <1>3, <1>6, <1>8, <1>9 DEF Problem, SideKnown
    <2>2. tc.own # tc.other
        BY <2>1, <1>2, <1>3, <1>6, <1>8, <1>9 DEF Problem
    <2>3. b.other = Id(tc.other) /\ b.own = Id(tc.own)
        BY <2>1, <1>3, <1>6, <1>9
    <2>4. k(b.other) = "asset" /\ b.other # b.own
        BY <2>1, <2>2, <2>3, <1>4, <1>5 DEF Id
    <2> QED
        BY <2>4, <1>3, <1>7, <1>9 DEF FireflyTakes, b
<1>10. CASE tc.type # "transfer"
    <2>1. b.other = x /\ x.id \in mirror \cup {NoId}
        BY <1>3, <1>10 DEF b
    <2>2. tc.other = NoId
        BY <1>2, <1>3, <1>6, <1>8, <1>10 DEF Problem
    <2>3. tc.type \in {"withdrawal", "deposit"}
        BY <1>2, <1>10 DEF TypesFor, Default
    <2>4. CASE x.id \in mirror /\ KindOf[x.id] = "asset"
        <3>1. x.id \notin active
            BY <2>2, <2>4, <1>2, <1>4 DEF SideAsset
        <3> QED
            BY <2>1, <2>4, <3>1, <1>3, <1>10 DEF ToArchived, b
    <2>5. CASE x.id \notin mirror \/ KindOf[x.id] # "asset"
        <3>1. Problem(tc.type, o, x) = "none" /\ SideAsset(x) = NoId /\ SideAsset(o) # NoId
            BY <2>2, <1>2, <1>3, <1>6
        <3>2. x.id \in mirror => KindOf[x.id] # OtherKind(tc.type)
            BY <3>1, <1>8, <1>10 DEF Problem
        <3>3. x.id \in mirror => KindOf[x.id] \in {"expense", "revenue"}
            BY <2>5, <1>4, KindAssumption
        <3>4. k(x) = "new" \/ (tc.type = "withdrawal" /\ k(x) = "expense") \/ (tc.type = "deposit" /\ k(x) = "revenue")
            BY <2>1, <2>3, <3>2, <3>3, <1>4 DEF OtherKind
        <3> QED
            BY <2>1, <2>3, <3>4, <1>3, <1>7 DEF FireflyTakes, b
    <2> QED
        BY <2>4, <2>5
<1> QED
    BY <1>9, <1>10

(* A card with nothing in its way passes push's own check, and what push      *)
(* builds of accounts that the mirror has is what Firefly takes, whichever    *)
(* are archived, opened or renamed; or it is a withdrawal or deposit whose    *)
(* other side is an own account that was archived.                          *)
THEOREM ReadyCardsAreBookable == Spec => []ReadyIsBookable
<1>1. IInv => ReadyIsBookable
    <2> SUFFICES ASSUME IInv, Blockers(Now) = {}
                 PROVE  LET b == Body(type, own, other)
                        IN  /\ b.problem = "none"
                            /\ {b.own.id, b.other.id} \subseteq mirror \cup {NoId} /\ b.own.id # NoId =>
                                    FireflyTakes(b) \/ ToArchived(b)
        BY DEF ReadyIsBookable
    <2>1. Body(type, own, other).problem = "none"
        BY NothingInTheWay DEF IInv
    <2> QED
        BY <2>1, ReadyIsTaken DEF IInv
<1> QED
    BY <1>1, InitTyped, StepTyped, PTL DEF Spec

-----------------------------------------------------------------------------
(* What an offer of the card asks for, and what the row reads once it is      *)
(* taken.                                                                   *)

(* The side as it reads where nothing was chosen for it. *)
Fallback(s) == IF s.proposed.id # NoId THEN Id(s.proposed.id) ELSE Called(s.proposed.name)

(* Nobody can put a name to it. *)
Nameless(s) == s.name = NoName /\ ~HasName(s.id)

LEMMA NoAssetWithoutName ==
    ASSUME KindTypeOK
    PROVE  AssetByName(NoName) = NoId
BY KindAssumption DEF KindTypeOK, AssetByName, Listed

LEMMA AssetsAreFound ==
    ASSUME KindTypeOK
    PROVE  /\ \A n : n \in Assets <=> AssetByName(n) # NoId
           /\ \A n : AssetByName(n) # NoId => n \in Name /\ SideAsset(Id(AssetByName(n))) = AssetByName(n)
<1>1. NoId \notin active /\ \A a \in active : called[a] \in Name
    BY KindAssumption DEF KindTypeOK
<1>2. ASSUME NEW n \in Assets PROVE AssetByName(n) # NoId
    <2>1. Listed("asset", n) # {}
        BY DEF Assets, Listed
    <2>2. AssetByName(n) \in Listed("asset", n)
        BY <2>1 DEF AssetByName
    <2> QED
        BY <1>1, <2>2 DEF Listed
<1>3. ASSUME NEW n, AssetByName(n) # NoId PROVE n \in Assets
    BY <1>3, AssetNamed DEF Assets, KindTypeOK
<1>4. ASSUME NEW n, AssetByName(n) # NoId
      PROVE  n \in Name /\ SideAsset(Id(AssetByName(n))) = AssetByName(n)
    BY <1>1, <1>4, AssetNamed DEF KindTypeOK, SideAsset, Id
<1> QED
    BY <1>2, <1>3, <1>4

LEMMA NamelessIsNobodys ==
    ASSUME KindTypeOK, NEW s \in Side, Nameless(s)
    PROVE  SideAsset(s) = NoId /\ s.id \notin mirror /\ (s # Empty => ~SideKnown(s))
<1>1. s.id \notin mirror /\ s.name = NoName
    BY DEF Nameless, HasName
<1>2. s # Empty => s.id # NoId
    BY <1>1 DEF Side, Empty
<1> QED
    BY <1>1, <1>2, NoAssetWithoutName DEF SideAsset, SideKnown, KindTypeOK

(* A side that the form shows without a name was not chosen. *)
LEMMA NoNameNoChoice ==
    ASSUME IInv, NEW s \in {own, other}, FormName(s) = NoName
    PROVE  s.confirmed = Empty /\ Nameless(Fallback(s)) /\ Fallback(s) \in Side
<1>1. s \in Row /\ (s.confirmed.id # NoId => HasName(s.confirmed.id))
    BY DEF IInv, KindTypeOK, Chosen
<1>2. \A a : HasName(a) => NameOf[a] # NoName /\ called[a] # NoName /\ a # NoId
    BY KindAssumption DEF HasName, IInv, KindTypeOK
<1>3. s.confirmed = Empty
    BY <1>1, <1>2 DEF FormName, PushSide, Row, Choice, Side, Empty, HasName
<1>4. FormName(s) = LET e == IF s.proposed.id # NoId THEN Id(s.proposed.id) ELSE s.proposed
                    IN IF e.id = NoId THEN e.name ELSE IF e.id \in Used THEN NameOf[e.id]
                       ELSE IF e.id \in mirror THEN called[e.id] ELSE NoName
    BY <1>3 DEF FormName, PushSide
<1>5. s.proposed \in Side
    BY <1>1 DEF Row
<1>6. Fallback(s) \in Side
    BY <1>5 DEF Fallback, Id, Called, Side
<1>7. CASE s.proposed.id # NoId
    BY <1>2, <1>3, <1>4, <1>6, <1>7 DEF Fallback, Nameless, Id, HasName
<1>8. CASE s.proposed.id = NoId
    BY <1>2, <1>3, <1>4, <1>6, <1>8 DEF Fallback, Nameless, Called, HasName
<1> QED
    BY <1>7, <1>8

LEMMA MineHasAName ==
    ASSUME KindTypeOK, NEW s \in Side, Party(s).mine
    PROVE  Party(s).name \in Name
<1>1. CASE s.id \in mirror
    BY <1>1 DEF Party, KindTypeOK
<1>2. CASE s.id \notin mirror
    <2>1. IsAssetName(Party(s).name)
        BY <1>2 DEF Party
    <2> QED
        BY <2>1 DEF IsAssetName, KindTypeOK
<1> QED
    BY <1>1, <1>2

(* The other party of a card that reads the wrong way round is the one that   *)
(* was saved as the row's own.                                              *)
LEMMA TheOtherOfTheCard ==
    ASSUME KindTypeOK
    PROVE  /\ Now.other.mine => Now.other.name \in Name
           /\ Now.problem = "swapped" =>
                /\ Now.type # "transfer" /\ Now.other.name \in Name \ Assets
                /\ Now.own.name = called[SideAsset(CardSide(other))]
                /\ SideAsset(CardSide(other)) # NoId
           /\ Now.type = CheckType(type, CardSide(own), CardSide(other)).type
           /\ Now.problem = CheckType(type, CardSide(own), CardSide(other)).problem
           /\ Now.chosen <=> type.confirmed # "none"
<1> DEFINE cs == CardSide(own)  cx == CardSide(other)  tc == CheckType(type, cs, cx)
           sw == tc.problem = "swapped"
           mine  == IF sw THEN tc.other ELSE tc.own
           yours == IF sw THEN NoId ELSE tc.other
           self  == IF mine # NoId THEN Party(Id(mine)) ELSE Party(CardParty(IF sw THEN other ELSE own))
           them  == IF tc.type = "transfer" /\ yours # NoId THEN Party(Id(yours))
                    ELSE Party(CardParty(IF sw THEN own ELSE other))
<1>1. cs \in Side /\ cx \in Side /\ CardParty(own) \in Side /\ CardParty(other) \in Side
    BY SameReading, SideShown, SidesAreSides DEF KindTypeOK
<1>2. /\ tc.own = SideAsset(cs) /\ tc.other = SideAsset(cx)
      /\ tc.problem = Problem(tc.type, cs, cx) /\ (tc.chosen <=> type.confirmed # "none")
    BY DEF CheckType
<1>3. tc.own \in Account \cup {NoId} /\ tc.other \in Account \cup {NoId}
    BY <1>1, <1>2, SideAssetIsMine DEF KindTypeOK
<1> HIDE DEF cs, cx, tc
<1>4. Now = [type |-> tc.type, chosen |-> tc.chosen, problem |-> tc.problem, own |-> self, other |-> them]
    BY DEF Now, Card, cs, cx, tc
<1>5. them = Party(Id(yours)) \/ them = Party(CardParty(own)) \/ them = Party(CardParty(other))
    OBVIOUS
<1>6. Id(yours) \in Side
    BY <1>3, SidesAreSides
<1>7. them.mine => them.name \in Name
    BY <1>1, <1>5, <1>6, MineHasAName
<1>8. ASSUME sw PROVE tc.type # "transfer" /\ tc.other # NoId /\ cs # Empty /\ SideKnown(cs) /\ tc.own = NoId
    BY <1>2, <1>8 DEF Problem
<1>9. ASSUME sw PROVE them.name \in Name \ Assets
    <2>1. them = Party(CardParty(own))
        BY <1>8, <1>9
    <2>2. cs.id \in mirror \cup {NoId}
        <3>1. cs.id # NoId => cs.name = NoName
            BY SidesAreSides, SameReading DEF cs, KindTypeOK, Choice
        <3> QED
            BY <3>1, <1>8, <1>9, NoAssetWithoutName DEF SideKnown
    <2>3. them = Party(cs)
        BY <2>1, <2>2, SideShown DEF cs, KindTypeOK
    <2>4. CASE cs.id \in mirror
        <3>1. them.name = called[cs.id] /\ them.name \in Name
            BY <2>3, <2>4 DEF Party, KindTypeOK
        <3>2. NoId \notin mirror
            BY KindAssumption DEF KindTypeOK
        <3>3. AssetByName(called[cs.id]) = NoId
            BY <3>2, <1>2, <1>8, <1>9, <2>4 DEF SideAsset
        <3> QED
            BY <3>1, <3>3, AssetsAreFound
    <2>5. CASE cs.id = NoId
        <3>1. NoId \notin mirror \cup Used
            BY KindAssumption DEF KindTypeOK
        <3>2. cs.name \in Name
            BY <1>1, <1>8, <1>9, <2>5 DEF Side, Empty
        <3>3. AssetByName(cs.name) = NoId
            BY <1>2, <1>8, <1>9, <2>5, <3>1 DEF SideAsset, KindTypeOK
        <3>4. them.name = cs.name
            BY <2>3, <2>5, <3>1 DEF Party
        <3> QED
            BY <3>2, <3>3, <3>4, AssetsAreFound
    <2> QED
        BY <2>2, <2>4, <2>5
<1>10. ASSUME sw PROVE self.name = called[tc.other]
    <2>1. self = Party(Id(tc.other)) /\ tc.other \in mirror
        BY <1>1, <1>2, <1>8, <1>10, SideAssetIsMine DEF KindTypeOK
    <2> QED
        BY <2>1 DEF Party, Id
<1> HIDE DEF self, them
<1>11. /\ Now.other = them /\ Now.own = self /\ Now.problem = tc.problem /\ Now.type = tc.type
       /\ Now.chosen = tc.chosen
    BY <1>4
<1> QED
    BY <1>2, <1>7, <1>8, <1>9, <1>10, <1>11 DEF tc, cs, cx

(* An offer names a type, and then leaves the own side alone or is no          *)
(* transfer, or it names an account of the person's and nothing else.       *)
Offers == Picks(Now, Step(Now)) \cup Others(Now) \cup Switches(Now) \cup OwnPicks(Now)

LEMMA OfferShape ==
    ASSUME KindTypeOK, NEW e \in Offers
    PROVE  \/ e.type = Same /\ e.account \in Assets /\ e.payee = Same
           \/ /\ e.type \in TypesFor(dir) /\ e.payee \in Name \cup {Same}
              /\ e.account = Same \/ e.type # "transfer"
<1> DEFINE c == Now
           Good(f) == \/ f.type = Same /\ f.account \in Assets /\ f.payee = Same
                      \/ /\ f.type \in TypesFor(dir) /\ f.payee \in Name \cup {Same}
                         /\ f.account = Same \/ f.type # "transfer"
<1>1. c.type \in TypesFor(dir)
    BY NowIsTyped
<1>2. "transfer" \in TypesFor(dir) /\ Assets \subseteq Name
    BY AssetsAreFound DEF TypesFor
<1>3. c.other.mine => c.other.name \in Name
    BY TheOtherOfTheCard
<1>4. c.problem = "swapped" => c.type # "transfer" /\ c.other.name \in Name
    BY TheOtherOfTheCard
<1> HIDE DEF c
<1>5. \A f \in TransferPicks(c) : Good(f)
    BY <1>2 DEF TransferPicks, EditOf
<1>6. \A t \in TypesFor(dir) : \A f \in PayeePicks(c, t) : Good(f)
    <2> SUFFICES ASSUME NEW t \in TypesFor(dir), NEW f \in PayeePicks(c, t) PROVE Good(f)
        OBVIOUS
    <2>1. CASE f \in {EditOf(t, Same, n) : n \in Name \ Assets}
        BY <2>1 DEF EditOf
    <2>2. CASE f \in TransferPicks(c)
        BY <2>2, <1>5
    <2> QED
        BY <2>1, <2>2 DEF PayeePicks
<1>7. \A f \in Others(c) : Good(f)
    BY <1>1, <1>5, <1>6 DEF Others
<1>8. \A f \in OwnPicks(c) : Good(f)
    BY DEF OwnPicks, EditOf
<1>9. c.problem = "swapped" => \A f \in SwapPicks(c) : Good(f)
    BY <1>1, <1>4 DEF SwapPicks, EditOf
<1>10. c.other.mine => Good(EditOf("transfer", Same, c.other.name))
    BY <1>2, <1>3 DEF EditOf
<1>11. \A t \in TypesFor(dir) : Good(EditOf(t, Same, Same))
    BY DEF EditOf
<1>12. \A f \in Switches(c) : Good(f)
    <2> DEFINE t == CHOOSE y \in TypesFor(dir) : y # c.type
    <2>1. t \in TypesFor(dir)
        BY DEF TypesFor, Default, KindTypeOK, Direction
    <2> HIDE DEF t
    <2>2. Switches(c) =
            IF t = "transfer"
            THEN IF c.other.mine THEN {EditOf(t, Same, c.other.name)}
                 ELSE IF "payee" \in Blockers(c) /\ c.problem = "none" THEN {EditOf(t, Same, Same)}
                 ELSE TransferPicks(c)
            ELSE IF c.other.mine THEN PayeePicks(c, t) ELSE {EditOf(t, Same, Same)}
        BY DEF Switches, t
    <2> HIDE DEF Good
    <2> QED
        BY <2>1, <2>2, <1>5, <1>6, <1>10, <1>11
<1>13. Step(c) \in {"swap", "mine", "payee", "source", "send"}
    BY DEF Step
<1>14. Step(c) = "swap" => c.problem = "swapped"
    BY DEF Step, Blockers
<1> HIDE DEF Good
<1>15. \A f \in Picks(c, Step(c)) : Good(f)
    BY <1>1, <1>5, <1>6, <1>7, <1>8, <1>9, <1>10, <1>13, <1>14 DEF Picks
<1>16. Good(e)
    BY <1>7, <1>8, <1>12, <1>15 DEF Offers, c
<1> QED
    BY <1>16 DEF Good

(* The row after a save: what was chosen, else what was proposed. *)
LEMMA AfterSave ==
    ASSUME IInv, NEW e \in Edits
    PROVE  LET r == Saved(Now, e)
               O == OwnResolved(OwnNamed(e))
               X == OtherResolved(SavedType(Now, e), OtherNamed(e))
           IN  /\ CardSide(r.own) = IF O = Empty THEN Fallback(own) ELSE O
               /\ CardSide(r.other) = IF X = Empty THEN Fallback(other) ELSE X
               /\ r.type = [type EXCEPT !.confirmed = IF e.type # Same THEN e.type ELSE type.confirmed]
               /\ CardSide(r.own) \in Side /\ CardSide(r.other) \in Side /\ r.other \in Row
<1> DEFINE r == Saved(Now, e)  O == OwnResolved(OwnNamed(e))
           X == OtherResolved(SavedType(Now, e), OtherNamed(e))
<1>1. O \in Choice /\ X \in Choice
    BY OwnResolves, OtherResolves, NamedInEdit DEF IInv
<1>2. /\ r.own = [own EXCEPT !.confirmed = O] /\ r.other = [other EXCEPT !.confirmed = X]
      /\ r.type = [type EXCEPT !.confirmed = IF e.type # Same THEN e.type ELSE type.confirmed]
    BY DEF Saved, IInv, KindTypeOK
<1> HIDE DEF O, X, r
<1>3. ASSUME NEW s \in Row, NEW C \in Choice
      PROVE  LET q == [s EXCEPT !.confirmed = C]
             IN  q \in Row /\ CardSide(q) = IF C = Empty THEN Fallback(s) ELSE C
    <2> DEFINE q == [s EXCEPT !.confirmed = C]
    <2>1. q \in Row /\ q.confirmed = C /\ q.proposed = s.proposed
        BY DEF Row
    <2> HIDE DEF q
    <2>2. PushSide(q) = IF C # Empty THEN C
                        ELSE IF s.proposed.id # NoId THEN Id(s.proposed.id) ELSE s.proposed
        BY <2>1 DEF PushSide
    <2>3. s.proposed.id = NoId => s.proposed = Called(s.proposed.name)
        BY DEF Row, Side, Called
    <2> QED
        BY <2>1, <2>2, <2>3, SameReading DEF Fallback, q
<1>4. own \in Row /\ other \in Row
    BY DEF IInv, KindTypeOK
<1>5. /\ r.own \in Row /\ CardSide(r.own) = IF O = Empty THEN Fallback(own) ELSE O
      /\ r.other \in Row /\ CardSide(r.other) = IF X = Empty THEN Fallback(other) ELSE X
    BY <1>1, <1>2, <1>3, <1>4
<1>6. CardSide(r.own) \in Side /\ CardSide(r.other) \in Side
    BY <1>5, SameReading, SidesAreSides
<1> QED
    BY <1>2, <1>5, <1>6 DEF r, O, X

LEMMA TakenFits ==
    ASSUME IInv, NEW e \in Offers, EditFits(Now, e)
    PROVE  LET r == Saved(Now, e)
           IN  Card(r.type, r.own, r.other).problem \in {"none", "own-not-mine"}
<1> DEFINE c == Now  r == Saved(c, e)  tt == SavedType(c, e)
           O == OwnResolved(OwnNamed(e))  X == OtherResolved(tt, OtherNamed(e))
           conf == IF e.type # Same THEN e.type ELSE IF c.chosen THEN c.type ELSE "none"
           t == MoveType([confirmed |-> conf, proposed |-> "none"], SideAsset(O), SideAsset(X))
           O2 == CardSide(r.own)  X2 == CardSide(r.other)
           t2 == MoveType(r.type, SideAsset(O2), SideAsset(X2))
           lost == (OwnNamed(e) # NoName /\ O = Empty) \/ (OtherNamed(e) # NoName /\ X = Empty)
           Fine(p) == p \in {"none", "own-not-mine"}
<1>1. KindTypeOK /\ e \in Edits
    BY OffersAreTyped DEF IInv, Offers
<1>2. Card(r.type, r.own, r.other).problem = Problem(t2, O2, X2)
    BY DEF Card, CheckType
<1>3. ~(tt = "transfer" /\ lost) /\ Fine(Problem(t, O, X))
    BY DEF EditFits, CheckType
<1>4. /\ O2 = IF O = Empty THEN Fallback(own) ELSE O
      /\ X2 = IF X = Empty THEN Fallback(other) ELSE X
      /\ O2 \in Side /\ X2 \in Side
      /\ r.type = [type EXCEPT !.confirmed = IF e.type # Same THEN e.type ELSE type.confirmed]
    BY AfterSave, <1>1
<1>5. /\ \/ e.type = Same /\ e.account \in Assets /\ e.payee = Same
         \/ /\ e.type \in TypesFor(dir) /\ e.payee \in Name \cup {Same}
            /\ e.account = Same \/ e.type # "transfer"
      /\ "none" \notin TypesFor(dir) /\ Same \notin TypesFor(dir)
    BY <1>1, OfferShape DEF TypesFor, Default, Same
<1>6. r.type.confirmed = conf /\ r.type.proposed = type.proposed
    <2>1. c.chosen => c.type = type.confirmed
        BY <1>1, TheOtherOfTheCard DEF CheckType, MoveType
    <2>2. (c.chosen <=> type.confirmed # "none")
        BY <1>1, TheOtherOfTheCard
    <2>3. r.type.confirmed = (IF e.type # Same THEN e.type ELSE type.confirmed) /\ r.type.proposed = type.proposed
        BY <1>1, <1>4 DEF KindTypeOK
    <2> QED
        BY <2>1, <2>2, <2>3
<1>7. e.type # Same => tt = e.type
    BY <1>5 DEF SavedType
<1>8. SideAsset(Empty) = NoId
    BY <1>1, NoAssetWithoutName, KindAssumption DEF SideAsset, Empty, KindTypeOK
<1>9. (X = Empty /\ ~(tt = "transfer" /\ lost)) => OtherNamed(e) = NoName
    <2> SUFFICES ASSUME X = Empty, ~(tt = "transfer" /\ lost), OtherNamed(e) # NoName PROVE FALSE
        OBVIOUS
    <2>1. OtherNamed(e) \in Name \cup {NoName} /\ tt # "transfer"
        BY <1>1, NamedInEdit
    <2>2. \A a \in mirror \cup Used : Id(a) # Empty
        BY <1>1, KindAssumption DEF KindTypeOK, Id, Empty
    <2>3. Called(OtherNamed(e)) # Empty
        BY DEF Called, Empty
    <2> HIDE DEF X, tt
    <2> QED
        BY <2>1, <2>2, <2>3, <1>1, OtherResolves DEF X
<1> SUFFICES Fine(Problem(t2, O2, X2))
    BY <1>2
<1> HIDE DEF O, X, O2, X2, r, t, t2, conf, tt, c
<1>10. CASE X = Empty
    <2>1. OtherNamed(e) = NoName
        BY <1>3, <1>9, <1>10
    <2>2. FormName(other) = NoName
        BY <2>1, <1>5, KindAssumption DEF OtherNamed
    <2>3. Nameless(X2)
        BY <2>2, <1>4, <1>10, NoNameNoChoice
    <2>4. SideAsset(X2) = NoId /\ X2.id \notin mirror /\ (X2 # Empty => ~SideKnown(X2))
        BY <2>3, <1>1, <1>4, NamelessIsNobodys
    <2> QED
        BY <2>4 DEF Problem
<1>11. CASE X # Empty /\ O = Empty
    <2>1. e.type # Same
        <3>1. e.account \in Assets => OwnNamed(e) = e.account /\ e.account # Same
            BY <1>1, AssetsAreFound, LadderAssumption DEF OwnNamed
        <3>2. e.account \in Assets => O # Empty
            BY <3>1, <1>1, AssetsAreFound, OwnResolves DEF O, Id, Empty
        <3> QED
            BY <3>2, <1>5, <1>11
    <2>2. conf = e.type /\ tt = e.type /\ X2 = X
        BY <2>1, <1>4, <1>7, <1>11 DEF conf
    <2>3. t = e.type /\ t2 = e.type
        BY <2>1, <2>2, <1>5, <1>6 DEF t, t2, MoveType
    <2>4. Problem(e.type, Empty, X) = "none"
        BY <2>3, <1>3, <1>11 DEF Problem, Empty
    <2>5. CASE e.type = "transfer"
        <3>1. OwnNamed(e) = NoName
            BY <2>2, <2>5, <1>3, <1>11
        <3>2. FormName(own) = NoName
            BY <3>1, <2>1, <2>5, <1>5 DEF OwnNamed
        <3>3. SideAsset(O2) = NoId
            BY <3>2, <1>1, <1>4, <1>11, NoNameNoChoice, NamelessIsNobodys
        <3>4. ~(SideKnown(X) /\ SideAsset(X) = NoId)
            BY <2>4, <2>5, <1>8, <1>11 DEF Problem
        <3> QED
            BY <3>3, <3>4, <2>2, <2>3, <2>5 DEF Problem
    <2>6. CASE e.type # "transfer"
        <3>1. SideAsset(X) = NoId /\ ~(X.id \in mirror /\ KindOf[X.id] = OtherKind(e.type))
            <4>1. SideAsset(X) = NoId
                BY <2>4, <2>6, <1>8, <1>11 DEF Problem, Empty
            <4> QED
                BY <4>1, <2>4, <2>6, <1>8, <1>11 DEF Problem, Empty
        <3> QED
            BY <3>1, <2>2, <2>3, <2>6 DEF Problem
    <2> QED
        BY <2>5, <2>6
<1>12. CASE X # Empty /\ O # Empty
    <2>1. O2 = O /\ X2 = X
        BY <1>4, <1>12
    <2>2. t2 = t
        <3>1. CASE conf # "none"
            BY <3>1, <1>6 DEF t, t2, MoveType
        <3>2. CASE conf = "none"
            <4>1. e.type = Same /\ e.account \in Assets /\ ~c.chosen /\ type.confirmed = "none"
                <5>1. e.type = Same
                    BY <3>2, <1>5 DEF conf
                <5>2. c.chosen <=> type.confirmed # "none"
                    BY <1>1, TheOtherOfTheCard DEF c
                <5>3. c.type \in TypesFor(dir)
                    BY <1>1, NowIsTyped DEF c
                <5> QED
                    BY <3>2, <5>1, <5>2, <5>3, <1>5 DEF conf
            <4>2. O = Id(AssetByName(e.account)) /\ SideAsset(O) # NoId
                <5>1. OwnNamed(e) = e.account /\ AssetByName(e.account) # NoId
                    BY <4>1, <1>1, AssetsAreFound, LadderAssumption DEF OwnNamed
                <5> QED
                    BY <5>1, <1>1, OwnResolves, AssetsAreFound DEF O
            <4>3. CASE type.proposed # "transfer" \/ SideAsset(X) # NoId
                BY <4>2, <4>3, <2>1, <3>2, <1>6 DEF t, t2, MoveType, TypesFor, Default
            <4>4. CASE type.proposed = "transfer" /\ SideAsset(X) = NoId
                <5>1. tt = "transfer"
                    <6>1. c.type = MoveType(type, SideAsset(CardSide(own)), SideAsset(CardSide(other)))
                        BY <1>1, TheOtherOfTheCard DEF c, CheckType
                    <6>2. c.type = "transfer"
                        BY <6>1, <4>1, <4>4 DEF MoveType, TypesFor
                    <6> QED
                        BY <6>2, <4>1, <1>5 DEF tt, SavedType, Same
                <5>2. \E n : AssetByName(n) # NoId /\ X = Id(AssetByName(n))
                    BY <5>1, <1>1, <1>12, NamedInEdit, OtherResolves DEF X
                <5>3. SideAsset(X) # NoId
                    BY <5>2, <1>1, AssetsAreFound
                <5> QED
                    BY <5>3, <4>4
            <4> QED
                BY <4>3, <4>4
        <3> QED
            BY <3>1, <3>2
    <2> QED
        BY <2>1, <2>2, <1>3
<1> QED
    BY <1>10, <1>11, <1>12

(* Whatever the card offers and the server takes, the row as stored reads      *)
(* without a misfit, also where a side falls back to what was proposed        *)
(* (review.go:1059-1060).                                                   *)
THEOREM EditsAreWholeAfterSaving == Spec => []NothingHalfRight
<1>1. IInv => NothingHalfRight
    BY TakenFits DEF NothingHalfRight, Offers
<1> QED
    BY <1>1, InitTyped, StepTyped, PTL DEF Spec

-----------------------------------------------------------------------------
(* The button leads on. *)

(* The person can type a name that no account ever has; has two accounts of   *)
(* different names that stay as they are; and Firefly gives an account no    *)
(* name that another has or had.                                            *)
NewName == \E n \in Name : \A a \in Account : NameOf[a] # n /\ <<a, n>> \notin Renames
Staying == {a \in Account \ (Unseen \cup Closing) : \A n \in Name : <<a, n>> \notin Renames}
TwoAccounts ==
    \E a, b \in Staying : NameOf[a] # NameOf[b] /\ KindOf[a] = "asset" /\ KindOf[b] = "asset"
FreshNames ==
    \A q \in Renames : \A a \in Account : NameOf[a] # q[2] /\ (a # q[1] => <<a, q[2]>> \notin Renames)

LEMMA SomethingToPick ==
    ASSUME IInv
    PROVE  /\ NewName => \E n \in Name : n \notin Assets
           /\ TwoAccounts => \A m : \E n \in Assets : n # m
           /\ TwoAccounts => \A m : m \notin {NameOf[a] : a \in Account} =>
                \A c : \E n \in Assets : n # m /\ AssetByName(n) # c
<1>1. KindTypeOK /\ Mirrored
    BY DEF IInv
<1>2. NewName => \E n \in Name : n \notin Assets
    BY <1>1 DEF NewName, Assets, KindTypeOK, Mirrored
<1>3. ASSUME TwoAccounts
      PROVE  \E n, m \in Assets : n # m /\ {n, m} \subseteq {NameOf[a] : a \in Account}
    <2>1. PICK a \in Staying, b \in Staying :
              NameOf[a] # NameOf[b] /\ KindOf[a] = "asset" /\ KindOf[b] = "asset"
        BY <1>3 DEF TwoAccounts
    <2>2. \A c \in Staying : c \in active /\ called[c] = NameOf[c] /\ c \in Account
        BY <1>1 DEF Staying, Mirrored, KindTypeOK
    <2>3. NameOf[a] \in Assets /\ NameOf[b] \in Assets
        BY <2>1, <2>2 DEF Assets
    <2> QED
        BY <2>1, <2>2, <2>3
<1>4. \A n, m \in Assets : n # m => AssetByName(n) # AssetByName(m)
    <2> SUFFICES ASSUME NEW n \in Assets, NEW m \in Assets, n # m PROVE AssetByName(n) # AssetByName(m)
        OBVIOUS
    <2>1. AssetByName(n) # NoId /\ AssetByName(m) # NoId
        BY <1>1, AssetsAreFound
    <2> QED
        BY <2>1, <1>1, AssetNamed DEF KindTypeOK
<1> QED
    BY <1>2, <1>3, <1>4

(* With fresh names, nobody else has the name of a renamed account. *)
LEMMA NamesApart ==
    ASSUME IInv, FreshNames, NEW a \in Account, NEW b \in Account, a # b, called[b] # NameOf[b]
    PROVE  called[a] # called[b] /\ NameOf[a] # called[b]
<1>1. <<b, called[b]>> \in Renames
    BY DEF IInv, Mirrored
<1>2. called[a] = NameOf[a] \/ <<a, called[a]>> \in Renames
    BY DEF IInv, Mirrored
<1>3. NameOf[a] # called[b] /\ <<a, called[b]>> \notin Renames
    <2> DEFINE q == <<b, called[b]>>
    <2>1. q[1] = b /\ q[2] = called[b] /\ q \in Renames
        BY <1>1
    <2> HIDE DEF q
    <2> QED
        BY <2>1 DEF FreshNames
<1> QED
    BY <1>2, <1>3

(* How a side reads in the form and on the card. *)
LEMMA SideReads ==
    ASSUME KindTypeOK, NEW s \in {own, other}, StillCalled(s)
    PROVE  LET x == CardSide(s)
           IN  /\ x = Empty => FormName(s) = NoName
               /\ SideAsset(x) # NoId => FormName(s) = called[SideAsset(x)] /\ FormName(s) \in Assets
               /\ SideKnown(x) => /\ FormName(s) = Party(x).name
                                  /\ SideAsset(x) = NoId => FormName(s) \notin Assets
               /\ SideKnown(x) <=> x.id \in mirror \cup {NoId}
<1> DEFINE x == CardSide(s)
<1>1. PushSide(s) = x /\ x \in Side /\ (x.id = NoId \/ x.name = NoName)
    BY SameReading DEF KindTypeOK, Choice
<1>2. x.id = NoId => FormName(s) = x.name
    BY <1>1 DEF FormName
<1>3. NoId \notin mirror \cup Used /\ AssetByName(NoName) = NoId /\ active \subseteq mirror
    BY KindAssumption, NoAssetWithoutName DEF KindTypeOK
<1>4. x.id \in mirror => FormName(s) = called[x.id]
    BY <1>1 DEF StillCalled
<1> HIDE DEF x
<1>5. SideKnown(x) <=> x.id \in mirror \cup {NoId}
    BY <1>1, <1>3 DEF SideKnown
<1>6. x = Empty => FormName(s) = NoName
    BY <1>2 DEF Empty
<1>7. CASE x.id \in mirror
    <2>1. FormName(s) = called[x.id] /\ Party(x).name = called[x.id]
        BY <1>4, <1>7 DEF Party
    <2>2. CASE x.id \in active /\ KindOf[x.id] = "asset"
        <3>1. SideAsset(x) = x.id /\ called[x.id] \in Assets
            BY <2>2 DEF SideAsset, Assets
        <3> QED
            BY <2>1, <3>1, <1>3, <1>5, <1>6, <1>7 DEF x
    <2>3. CASE ~(x.id \in active /\ KindOf[x.id] = "asset")
        <3>1. SideAsset(x) = AssetByName(called[x.id])
            BY <1>7, <2>3 DEF SideAsset
        <3> QED
            BY <2>1, <3>1, <1>5, <1>6, AssetNamed, AssetsAreFound DEF x, KindTypeOK
    <2> QED
        BY <2>2, <2>3
<1>8. CASE x.id \notin mirror
    <2>1. SideAsset(x) = AssetByName(x.name)
        BY <1>3, <1>8 DEF SideAsset
    <2>2. CASE x.id = NoId
        <3>1. FormName(s) = x.name /\ Party(x).name = x.name
            BY <1>2, <1>3, <2>2 DEF Party
        <3> QED
            BY <2>1, <3>1, <1>5, <1>6, AssetNamed, AssetsAreFound DEF x, KindTypeOK
    <2>3. CASE x.id # NoId
        <3>1. SideAsset(x) = NoId /\ ~SideKnown(x)
            BY <1>1, <1>3, <1>5, <1>8, <2>1, <2>3
        <3> QED
            BY <3>1, <1>5, <1>6 DEF x
    <2> QED
        BY <2>2, <2>3
<1> QED
    BY <1>7, <1>8

(* A card that reads the right way round. *)
LEMMA CardReads ==
    ASSUME NEW t, NEW s, NEW u, Card(t, s, u).problem # "swapped"
    PROVE  LET o == CardSide(s)  x == CardSide(u)  c == Card(t, s, u)
           IN  /\ c.type = MoveType(t, SideAsset(o), SideAsset(x))
               /\ c.problem = Problem(c.type, o, x)
               /\ c.own = IF SideAsset(o) # NoId THEN Party(Id(SideAsset(o))) ELSE Party(CardParty(s))
               /\ c.other = IF c.type = "transfer" /\ SideAsset(x) # NoId
                            THEN Party(Id(SideAsset(x))) ELSE Party(CardParty(u))
<1> DEFINE cs == CardSide(s)  cx == CardSide(u)  tc == CheckType(t, cs, cx)
           sw == tc.problem = "swapped"
           mine  == IF sw THEN tc.other ELSE tc.own
           yours == IF sw THEN NoId ELSE tc.other
           self  == IF mine # NoId THEN Party(Id(mine)) ELSE Party(CardParty(IF sw THEN u ELSE s))
           them  == IF tc.type = "transfer" /\ yours # NoId THEN Party(Id(yours))
                    ELSE Party(CardParty(IF sw THEN s ELSE u))
           c == Card(t, s, u)
<1>1. /\ tc.type = MoveType(t, SideAsset(cs), SideAsset(cx)) /\ tc.problem = Problem(tc.type, cs, cx)
      /\ tc.own = SideAsset(cs) /\ tc.other = SideAsset(cx)
    BY DEF CheckType
<1> HIDE DEF cs, cx, tc
<1>2. c = [type |-> tc.type, chosen |-> tc.chosen, problem |-> tc.problem, own |-> self, other |-> them]
    BY DEF Card, cs, cx, tc
<1> HIDE DEF self, them, c
<1>3. c.type = tc.type /\ c.problem = tc.problem /\ c.own = self /\ c.other = them
    BY <1>2
<1>4. ~sw
    BY <1>3 DEF c
<1>5. /\ self = IF tc.own # NoId THEN Party(Id(tc.own)) ELSE Party(CardParty(s))
      /\ them = IF tc.type = "transfer" /\ tc.other # NoId THEN Party(Id(tc.other)) ELSE Party(CardParty(u))
    BY <1>4 DEF self, them
<1> QED
    BY <1>1, <1>3, <1>5 DEF cs, cx, c

(* An edit that names its type is taken if its sides fit that type. *)
LEMMA NamedTypeFits ==
    ASSUME NEW e, e.type \in TypesFor(dir),
           LET O == OwnResolved(OwnNamed(e))  X == OtherResolved(e.type, OtherNamed(e))
           IN  /\ Problem(e.type, O, X) \in {"none", "own-not-mine"}
               /\ e.type = "transfer" => (OwnNamed(e) # NoName => O # Empty) /\ (OtherNamed(e) # NoName => X # Empty)
    PROVE  EditFits(Now, e)
<1>1. e.type # Same /\ e.type # "none"
    BY DEF TypesFor, Default, Same
<1>2. SavedType(Now, e) = e.type
    BY <1>1 DEF SavedType
<1>3. \A a, b : MoveType([confirmed |-> e.type, proposed |-> "none"], a, b) = e.type
    BY <1>1 DEF MoveType
<1> QED
    BY <1>1, <1>2, <1>3 DEF EditFits, CheckType

(* Somebody who is not the person fits the other side of what is no transfer, *)
(* whatever the own side is.                                                *)
LEMMA StrangerFits ==
    ASSUME IInv, FreshNames, NEW tt \in TypesFor(dir), tt # "transfer", NEW n \in Name \ Assets, NEW o
    PROVE  LET X == OtherResolved(tt, n)
           IN  X # Empty /\ SideAsset(X) = NoId /\ Problem(tt, o, X) \in {"none", "own-not-mine"}
<1> DEFINE X == OtherResolved(tt, n)
<1>0. KindTypeOK
    BY DEF IInv
<1>1. n # NoName /\ AssetByName(n) = NoId /\ tt \in {"deposit", "withdrawal"}
    BY <1>0, KindAssumption, AssetsAreFound DEF TypesFor, Default
<1>2. NoId \notin mirror \cup Used
    BY <1>0, KindAssumption DEF KindTypeOK
<1>3. \/ X = Called(n)
      \/ \E a \in mirror \cup Used :
            X = Id(a) /\ n \in {NameOf[a], called[a]} /\ KindOf[a] = IF tt = "deposit" THEN "revenue" ELSE "expense"
    BY <1>0, <1>1, OtherResolves
<1> HIDE DEF X
<1>4. X # Empty /\ SideAsset(X) = NoId /\ ~(X.id \in mirror /\ KindOf[X.id] = OtherKind(tt))
    <2>1. CASE X = Called(n)
        BY <2>1, <1>0, <1>1, <1>2 DEF Called, Empty, SideAsset, KindTypeOK
    <2>2. CASE \E a \in mirror \cup Used :
                X = Id(a) /\ n \in {NameOf[a], called[a]} /\ KindOf[a] = IF tt = "deposit" THEN "revenue" ELSE "expense"
        <3>1. PICK a \in mirror \cup Used :
                X = Id(a) /\ n \in {NameOf[a], called[a]} /\ KindOf[a] = IF tt = "deposit" THEN "revenue" ELSE "expense"
            BY <2>2
        <3>2. X # Empty /\ X.id = a /\ X.name = NoName
            BY <3>1, <1>2 DEF Id, Empty
        <3>3. SideAsset(X) = NoId
            <4> SUFFICES ASSUME SideAsset(X) # NoId PROVE FALSE
                OBVIOUS
            <4>1. a \in mirror /\ SideAsset(X) = AssetByName(called[a])
                BY <3>1, <3>2, <1>0, <1>1, NoAssetWithoutName DEF SideAsset, KindTypeOK
            <4> DEFINE b == AssetByName(called[a])
            <4>2. b \in Account /\ a \in Account /\ called[b] = called[a] /\ KindOf[b] = "asset"
                BY <4>1, <1>0, AssetNamed DEF KindTypeOK
            <4>3. a # b /\ called[a] # n
                BY <3>1, <4>1, <4>2, <1>1
            <4>4. called[a] # NameOf[a]
                BY <3>1, <4>3
            <4> HIDE DEF b
            <4> QED
                BY <4>2, <4>3, <4>4, NamesApart
        <3>4. KindOf[a] # OtherKind(tt)
            BY <3>1, <1>1 DEF OtherKind
        <3> QED
            BY <3>2, <3>3, <3>4
    <2> QED
        BY <1>3, <2>1, <2>2
<1>5. Problem(tt, o, X) \in {"none", "own-not-mine"}
    BY <1>4 DEF Problem
<1> QED
    BY <1>4, <1>5 DEF X

(* An account of the person's fits the other side of a transfer that is not    *)
(* from itself.                                                             *)
LEMMA OwnAccountFits ==
    ASSUME KindTypeOK, NEW n \in Assets, NEW o, SideAsset(o) # AssetByName(n)
    PROVE  LET X == OtherResolved("transfer", n)
           IN  /\ X # Empty /\ Problem("transfer", o, X) \in {"none", "own-not-mine"}
               /\ X = Id(AssetByName(n)) /\ SideAsset(X) # NoId
<1> DEFINE X == OtherResolved("transfer", n)
<1>1. n \in Name /\ n # NoName /\ AssetByName(n) # NoId /\ SideAsset(Id(AssetByName(n))) = AssetByName(n)
    BY KindAssumption, AssetsAreFound
<1>2. X = Id(AssetByName(n))
    BY <1>1, OtherResolves
<1>3. X # Empty
    BY <1>1, <1>2 DEF Id, Empty
<1>4. SideAsset(X) # SideAsset(o) /\ SideAsset(X) # NoId
    BY <1>1, <1>2
<1> HIDE DEF X
<1>5. Problem("transfer", o, X) \in {"none", "own-not-mine"}
    BY <1>3, <1>4 DEF Problem
<1> QED
    BY <1>2, <1>3, <1>4, <1>5 DEF X

(* What was taken settles what it was for. *)
LEMMA TakenSettles ==
    ASSUME IInv, NEW e \in Offers, EditFits(Now, e)
    PROVE  LET r == Saved(Now, e)  b == Blockers(Card(r.type, r.own, r.other))
           IN  /\ "swap" \notin b /\ "mine" \notin b
               /\ e.payee \in Name => "payee" \notin b
               /\ e.account \in Assets => "source" \notin b
<1> DEFINE r == Saved(Now, e)  tt == SavedType(Now, e)
           O == OwnResolved(OwnNamed(e))  X == OtherResolved(tt, OtherNamed(e))
           o == CardSide(r.own)  x == CardSide(r.other)  c == Card(r.type, r.own, r.other)
<1>1. KindTypeOK /\ e \in Edits
    BY OffersAreTyped DEF IInv, Offers
<1>2. c.problem \in {"none", "own-not-mine"}
    BY TakenFits
<1>3. /\ O # Empty => o = O
      /\ X # Empty => x = X
      /\ o \in Side /\ x \in Side /\ r.other \in Row
    BY AfterSave, <1>1
<1>4. /\ c.problem = Problem(c.type, o, x)
      /\ c.own = IF SideAsset(o) # NoId THEN Party(Id(SideAsset(o))) ELSE Party(CardParty(r.own))
      /\ c.other = IF c.type = "transfer" /\ SideAsset(x) # NoId THEN Party(Id(SideAsset(x))) ELSE Party(CardParty(r.other))
    BY <1>2, CardReads
<1>5. \A s \in {o, x} : SideAsset(s) # NoId => Party(Id(SideAsset(s))).name # NoName
    <2> HIDE DEF o, x
    <2>1. \A s \in {o, x} : SideAsset(s) # NoId => SideAsset(s) \in mirror
        BY <1>1, <1>3, SideAssetIsMine DEF KindTypeOK
    <2> QED
        BY <2>1, <1>1, KindAssumption DEF Party, Id, KindTypeOK
<1>8. CardParty(r.other).id = x.id /\ (x.id = NoId => CardParty(r.other).name = x.name)
    BY <1>1, <1>3, SideShown
<1> HIDE DEF r, o, x, c
<1>6. ASSUME e.payee \in Name PROVE c.other.name # NoName
    <2>1. OtherNamed(e) = e.payee /\ e.payee # NoName
        BY <1>6, LadderAssumption, KindAssumption DEF OtherNamed
    <2>2. X # Empty
        <3> SUFFICES ASSUME X = Empty PROVE FALSE
            OBVIOUS
        <3>1. tt = "transfer" \/ X = Called(e.payee) \/ \E a \in mirror \cup Used : X = Id(a)
            BY <2>1, <1>1, NamedInEdit, OtherResolves
        <3>2. \A a \in mirror \cup Used : Id(a) # Empty
            BY <1>1, KindAssumption DEF KindTypeOK, Id, Empty
        <3>3. Called(e.payee) # Empty
            BY <2>1 DEF Called, Empty
        <3>4. tt = "transfer"
            BY <3>1, <3>2, <3>3
        <3> QED
            BY <2>1, <3>4 DEF EditFits
    <2>3. X = Called(e.payee) \/ HasName(X.id)
        <3> HIDE DEF X, tt
        <3>1. X.id # NoId => HasName(X.id)
            BY <1>1, NamedInEdit, OtherResolves DEF X, tt
        <3>2. X = Called(e.payee) \/ X.id # NoId
            <4>1. \/ X = Empty \/ X = Called(e.payee)
                  \/ X = Id(AssetByName(e.payee)) /\ AssetByName(e.payee) # NoId
                  \/ \E a \in mirror \cup Used : X = Id(a)
                BY <2>1, <1>1, NamedInEdit, OtherResolves DEF X, tt
            <4>2. NoId \notin mirror \cup Used
                BY <1>1, KindAssumption DEF KindTypeOK
            <4> QED
                BY <2>2, <4>1, <4>2 DEF Id
        <3> QED
            BY <3>1, <3>2
    <2>4. Party(CardParty(r.other)).name # NoName
        <3> DEFINE p == CardParty(r.other)
        <3>1. p.id = X.id /\ (X.id = NoId => p.name = X.name)
            BY <2>2, <1>3, <1>8
        <3> HIDE DEF p
        <3>2. CASE HasName(X.id)
            BY <3>1, <3>2, <1>1, KindAssumption DEF Party, HasName, KindTypeOK, p
        <3>3. CASE X = Called(e.payee)
            <4>1. p.id = NoId /\ p.name = e.payee /\ NoId \notin mirror \cup Used
                BY <3>1, <3>3, <1>1, KindAssumption DEF Called, KindTypeOK
            <4> QED
                BY <4>1, <2>1 DEF Party, p
        <3> QED
            BY <2>3, <3>2, <3>3 DEF p
    <2> HIDE DEF X
    <2> QED
        BY <2>2, <2>4, <1>3, <1>4, <1>5
<1>7. ASSUME e.account \in Assets PROVE c.own.name # NoName /\ c.problem # "own-not-mine"
    <2>1. OwnNamed(e) = e.account /\ AssetByName(e.account) # NoId
        BY <1>1, <1>7, AssetsAreFound, LadderAssumption DEF OwnNamed
    <2>2. O = Id(AssetByName(e.account)) /\ SideAsset(O) # NoId
        BY <2>1, <1>1, OwnResolves, AssetsAreFound
    <2>3. O # Empty
        BY <2>1, <2>2 DEF Id, Empty
    <2>4. o = O
        BY <2>3, <1>3
    <2> HIDE DEF O
    <2> QED
        BY <2>2, <2>4, <1>4, <1>5 DEF Problem
<1> QED
    BY <1>2, <1>6, <1>7 DEF Blockers, r, c

(* There is an account to name that is not the one on the row's own side, as   *)
(* the card shows that one and as the form hands it back.                   *)
LEMMA AnotherAccount ==
    ASSUME IInv, TwoAccounts, FreshNames, OwnFits(Now), Now.problem # "swapped"
    PROVE  LET O == OwnResolved(FormName(own))
           IN  /\ FormName(own) # NoName => O # Empty
               /\ \E n \in Assets : n # Now.own.name /\ SideAsset(O) # AssetByName(n)
<1> DEFINE o == CardSide(own)  O == OwnResolved(FormName(own))
<1>1. KindTypeOK /\ o \in Side /\ PushSide(own) = o
    BY SameReading, SidesAreSides DEF IInv, KindTypeOK
<1>2. o = Empty \/ SideAsset(o) # NoId
    BY DEF OwnFits
<1>3. Now.own = IF SideAsset(o) # NoId THEN Party(Id(SideAsset(o))) ELSE Party(CardParty(own))
    BY CardReads DEF Now
<1>4. NoId \notin mirror /\ SideAsset(Empty) = NoId
    BY <1>1, NoAssetWithoutName, KindAssumption DEF SideAsset, Empty, KindTypeOK
<1> HIDE DEF o
<1>5. CASE SideAsset(o) = NoId
    <2>1. StillCalled(own) /\ o = Empty
        BY <1>1, <1>2, <1>4, <1>5 DEF StillCalled, Empty
    <2>2. FormName(own) = NoName
        BY <2>1, <1>1, SideReads DEF o
    <2>3. O = Empty
        BY <2>2, <1>1, OwnResolves
    <2>4. PICK n \in Assets : n # Now.own.name
        BY SomethingToPick
    <2> QED
        BY <2>2, <2>3, <2>4, <1>1, <1>4, AssetsAreFound
<1>6. CASE SideAsset(o) # NoId /\ StillCalled(own)
    <2>1. FormName(own) = called[SideAsset(o)] /\ FormName(own) \in Assets
        BY <1>1, <1>6, SideReads DEF o
    <2>2. SideAsset(o) \in mirror
        BY <1>1, <1>6, SideAssetIsMine DEF KindTypeOK
    <2>3. Now.own.name = FormName(own)
        BY <1>3, <1>6, <2>1, <2>2 DEF Party, Id
    <2>4. O = Id(AssetByName(FormName(own))) /\ AssetByName(FormName(own)) # NoId
        BY <2>1, <1>1, AssetsAreFound, OwnResolves
    <2>5. O # Empty /\ SideAsset(O) = AssetByName(FormName(own))
        BY <2>4, <1>1, AssetsAreFound DEF Id, Empty
    <2>6. PICK n \in Assets : n # Now.own.name
        BY SomethingToPick
    <2>7. AssetByName(n) # NoId
        BY <1>1, AssetsAreFound
    <2>8. AssetByName(n) # SideAsset(O)
        BY <2>3, <2>4, <2>5, <2>6, <2>7, <1>1, AssetNamed DEF KindTypeOK
    <2> QED
        BY <2>5, <2>6, <2>8
<1>7. CASE SideAsset(o) # NoId /\ ~StillCalled(own)
    <2>1. o.id \in mirror /\ o.id \in Used /\ FormName(own) = NameOf[o.id] /\ called[o.id] # NameOf[o.id]
        BY <1>1, <1>4, <1>7 DEF StillCalled, FormName
    <2>2. o.id \in Account /\ \A a \in Account : NameOf[a] # called[o.id] /\ (a # o.id => called[a] # called[o.id])
        BY <2>1, <1>1, NamesApart DEF KindTypeOK
    <2>3. SideAsset(o) = o.id /\ KindOf[o.id] = "asset"
        <3> SUFFICES ASSUME ~(o.id \in active /\ KindOf[o.id] = "asset") PROVE FALSE
            BY DEF SideAsset
        <3> DEFINE b == AssetByName(called[o.id])
        <3>1. SideAsset(o) = b
            BY <2>1, <1>1 DEF SideAsset
        <3>2. b \in Account /\ b \in active /\ KindOf[b] = "asset" /\ called[b] = called[o.id]
            BY <3>1, <1>1, <1>7, AssetNamed DEF KindTypeOK
        <3> HIDE DEF b
        <3> QED
            BY <3>2, <2>2
    <2>4. Now.own.name = called[o.id]
        BY <1>3, <1>7, <2>1, <2>3 DEF Party, Id
    <2>5. O # Empty
        BY <2>1, <2>3, <1>1, OwnResolves
    <2>6. called[o.id] \notin {NameOf[a] : a \in Account}
        BY <2>2
    <2>7. PICK n \in Assets : n # called[o.id] /\ AssetByName(n) # SideAsset(O)
        BY <2>6, SomethingToPick
    <2> QED
        BY <2>4, <2>5, <2>7
<1> QED
    BY <1>5, <1>6, <1>7

LEMMA SwapLeads ==
    ASSUME IInv, FreshNames, Now.problem = "swapped"
    PROVE  \E e \in SwapPicks(Now) : EditFits(Now, e)
<1> DEFINE c == Now  e == EditOf(c.type, c.own.name, c.other.name)
<1>1. KindTypeOK
    BY DEF IInv
<1>2. /\ c.type \in TypesFor(dir) /\ c.type # "transfer" /\ c.other.name \in Name \ Assets
    BY <1>1, TheOtherOfTheCard, NowIsTyped
<1>3. c.other.name # Same
    BY <1>2, LadderAssumption
<1> HIDE DEF c
<1>4. e.type = c.type /\ OtherNamed(e) = c.other.name
    BY <1>3 DEF EditOf, OtherNamed
<1>5. EditFits(Now, e)
    <2> HIDE DEF e
    <2> QED
        BY <1>1, <1>2, <1>4, StrangerFits, NamedTypeFits
<1> QED
    BY <1>5 DEF SwapPicks, c

LEMMA MineLeads ==
    ASSUME IInv, NewName, TwoAccounts, FreshNames, Now.problem = "other-is-mine",
           SideKnown(CardSide(other)), OwnFits(Now), StillCalled(other)
    PROVE  \E e \in IF Now.chosen THEN PayeePicks(Now, Now.type)
                    ELSE IF Now.other.mine THEN {EditOf("transfer", Same, Now.other.name)}
                    ELSE TransferPicks(Now) :
                EditFits(Now, e)
<1> DEFINE c == Now  o == CardSide(own)  x == CardSide(other)
<1>1. KindTypeOK
    BY DEF IInv
<1>2. /\ c.type = MoveType(type, SideAsset(o), SideAsset(x)) /\ c.type \in TypesFor(dir)
      /\ c.problem = Problem(c.type, o, x)
      /\ c.own = IF SideAsset(o) # NoId THEN Party(Id(SideAsset(o))) ELSE Party(CardParty(own))
      /\ c.other = IF c.type = "transfer" /\ SideAsset(x) # NoId THEN Party(Id(SideAsset(x))) ELSE Party(CardParty(other))
      /\ c.chosen <=> type.confirmed # "none"
    BY <1>1, CardReads, NowIsTyped, TheOtherOfTheCard DEF Now
<1>3. c.type # "transfer" /\ SideAsset(x) # NoId
    BY <1>2 DEF Problem
<1>4. CASE c.chosen
    <2>1. PICK n \in Name : n \notin Assets
        BY SomethingToPick
    <2> DEFINE e == EditOf(c.type, Same, n)
    <2>2. e.type = c.type /\ OtherNamed(e) = n
        BY <2>1, LadderAssumption DEF EditOf, OtherNamed
    <2>3. e \in PayeePicks(c, c.type)
        BY <2>1 DEF PayeePicks
    <2> HIDE DEF e, c
    <2>4. EditFits(Now, e)
        BY <1>1, <1>2, <1>3, <2>1, <2>2, StrangerFits, NamedTypeFits
    <2> QED
        BY <2>3, <2>4, <1>4 DEF c
<1>5. CASE ~c.chosen
    <2>1. type.confirmed = "none"
        BY <1>2, <1>5
    <2>2. SideAsset(o) = NoId
        BY <2>1, <1>2, <1>3 DEF MoveType
    <2>3. o = Empty
        BY <2>2, <1>2 DEF OwnFits
    <2>4. FormName(own) = NoName
        <3>1. PushSide(own) = Empty
            BY <2>3, SameReading, <1>1 DEF KindTypeOK
        <3> QED
            BY <3>1 DEF FormName, Empty
    <2>5. ASSUME NEW n \in Assets
          PROVE  EditFits(Now, EditOf("transfer", Same, n))
        <3> DEFINE e == EditOf("transfer", Same, n)
        <3>1. e.type = "transfer" /\ OwnNamed(e) = NoName /\ OtherNamed(e) = n
            BY <1>1, <2>4, AssetsAreFound, LadderAssumption DEF EditOf, OwnNamed, OtherNamed
        <3>2. OwnResolved(OwnNamed(e)) = Empty
            BY <3>1, <1>1, OwnResolves
        <3>3. "transfer" \in TypesFor(dir)
            BY DEF TypesFor
        <3> HIDE DEF e
        <3>4. SideAsset(Empty) # AssetByName(n)
            BY <1>1, AssetsAreFound, NoAssetWithoutName, KindAssumption DEF SideAsset, Empty, KindTypeOK
        <3>5. /\ Problem("transfer", OwnResolved(OwnNamed(e)), OtherResolved("transfer", OtherNamed(e))) \in {"none", "own-not-mine"}
              /\ OtherResolved("transfer", OtherNamed(e)) # Empty
            BY <3>1, <3>2, <3>4, <1>1, OwnAccountFits
        <3>6. EditFits(Now, e)
            BY <3>1, <3>3, <3>5, NamedTypeFits
        <3> QED
            BY <3>6 DEF e
    <2>6. CASE c.other.mine
        <3>1. c.other.name = FormName(other)
            BY <1>1, <1>2, <1>3, SideReads, SideShown DEF KindTypeOK
        <3>2. c.other.name \in Assets
            BY <3>1, <1>1, <1>3, SideReads
        <3> QED
            BY <3>2, <2>5, <2>6, <1>5
    <2>7. CASE ~c.other.mine
        <3>1. PICK n \in Assets : n # c.own.name
            BY SomethingToPick
        <3>2. EditOf("transfer", Same, n) \in TransferPicks(Now)
            BY <3>1 DEF TransferPicks
        <3> QED
            BY <3>1, <3>2, <2>5, <2>7, <1>5
    <2> QED
        BY <2>6, <2>7
<1> QED
    BY <1>4, <1>5

LEMMA PayeeLeads ==
    ASSUME IInv, NewName, TwoAccounts, FreshNames, Now.problem # "swapped", OwnFits(Now)
    PROVE  \E e \in Others(Now) : EditFits(Now, e)
<1>1. KindTypeOK /\ Now.type \in TypesFor(dir)
    BY NowIsTyped DEF IInv
<1>2. CASE Now.type # "transfer"
    <2>1. PICK n \in Name : n \notin Assets
        BY SomethingToPick
    <2> DEFINE e == EditOf(Now.type, Same, n)
    <2>2. e.type = Now.type /\ OtherNamed(e) = n
        BY <2>1, LadderAssumption DEF EditOf, OtherNamed
    <2>3. e \in Others(Now)
        BY <2>1, <1>2 DEF Others, PayeePicks
    <2> HIDE DEF e
    <2>4. EditFits(Now, e)
        BY <1>1, <1>2, <2>1, <2>2, StrangerFits, NamedTypeFits
    <2> QED
        BY <2>3, <2>4
<1>3. CASE Now.type = "transfer"
    <2> DEFINE O == OwnResolved(FormName(own))
    <2>1. PICK n \in Assets : n # Now.own.name /\ SideAsset(O) # AssetByName(n)
        BY AnotherAccount
    <2>2. FormName(own) # NoName => O # Empty
        BY AnotherAccount
    <2> DEFINE e == EditOf("transfer", Same, n)
    <2>3. e \in Others(Now)
        BY <2>1, <1>3 DEF Others, TransferPicks
    <2>4. e.type = "transfer" /\ OtherNamed(e) = n /\ OwnNamed(e) = FormName(own)
        BY <1>1, <2>1, AssetsAreFound, LadderAssumption DEF EditOf, OtherNamed, OwnNamed
    <2> HIDE DEF e, O
    <2>5. /\ Problem("transfer", O, OtherResolved("transfer", n)) \in {"none", "own-not-mine"}
          /\ OtherResolved("transfer", n) # Empty
        BY <1>1, <2>1, OwnAccountFits
    <2>6. EditFits(Now, e)
        BY <1>1, <1>3, <2>2, <2>4, <2>5, NamedTypeFits DEF O
    <2> QED
        BY <2>3, <2>6
<1> QED
    BY <1>2, <1>3

LEMMA SourceLeads ==
    ASSUME IInv, TwoAccounts, FreshNames, Step(Now) = "source",
           SideKnown(CardSide(other)), OwnFits(Now), StillCalled(other)
    PROVE  \E e \in OwnPicks(Now) : EditFits(Now, e)
<1> DEFINE c == Now  o == CardSide(own)  x == CardSide(other)
<1>1. KindTypeOK
    BY DEF IInv
<1>2. /\ c.problem \notin {"swapped", "other-is-mine", "other-not-mine", "same-account", "other-kind"}
      /\ c.other.name # NoName
      /\ c.own.name = NoName \/ c.problem = "own-not-mine"
    BY DEF Step, Blockers
<1>3. /\ c.type = MoveType(type, SideAsset(o), SideAsset(x)) /\ c.type \in TypesFor(dir)
      /\ c.problem = Problem(c.type, o, x)
      /\ c.own = IF SideAsset(o) # NoId THEN Party(Id(SideAsset(o))) ELSE Party(CardParty(own))
      /\ c.other = IF c.type = "transfer" /\ SideAsset(x) # NoId THEN Party(Id(SideAsset(x))) ELSE Party(CardParty(other))
      /\ c.chosen <=> type.confirmed # "none"
    BY <1>1, <1>2, CardReads, NowIsTyped, TheOtherOfTheCard DEF Now
<1>4. o \in Side /\ x \in Side
    BY <1>1, SameReading, SidesAreSides DEF KindTypeOK
<1>5. \A s \in {o, x} : SideAsset(s) # NoId =>
            SideAsset(s) \in mirror /\ Party(Id(SideAsset(s))).name = called[SideAsset(s)]
                /\ called[SideAsset(s)] # NoName
    <2> HIDE DEF o, x
    <2>1. \A s \in {o, x} : SideAsset(s) # NoId => SideAsset(s) \in mirror
        BY <1>1, <1>4, SideAssetIsMine DEF KindTypeOK
    <2> QED
        BY <2>1, <1>1, KindAssumption DEF Party, Id, HasName, KindTypeOK
<1>6. o = Empty
    <2> SUFFICES ASSUME SideAsset(o) # NoId PROVE FALSE
        BY <1>2 DEF OwnFits
    <2>1. c.own.name # NoName
        BY <1>3, <1>5
    <2>2. Problem(c.type, o, x) # "own-not-mine"
        BY DEF Problem
    <2> QED
        BY <1>2, <1>3, <2>1, <2>2
<1>7. SideAsset(o) = NoId /\ c.problem = "none"
    <2>1. SideAsset(Empty) = NoId
        BY <1>1, NoAssetWithoutName, KindAssumption DEF SideAsset, Empty, KindTypeOK
    <2>2. SideAsset(o) = NoId
        BY <1>6, <2>1
    <2>3. Problem(c.type, o, x) \notin {"own-not-mine", "swapped"}
        BY <1>6, <2>2 DEF Problem, Empty
    <2>4. Problem(c.type, o, x) \in {"none", "swapped", "own-not-mine", "other-not-mine", "same-account",
                                     "other-is-mine", "other-kind"}
        BY DEF Problem
    <2> QED
        BY <1>2, <1>3, <2>2, <2>3, <2>4
<1>8. c.other.name = FormName(other)
    <2>1. CASE c.type = "transfer" /\ SideAsset(x) # NoId
        BY <2>1, <1>1, <1>3, <1>5, SideReads
    <2>2. CASE ~(c.type = "transfer" /\ SideAsset(x) # NoId)
        BY <2>2, <1>1, <1>3, SideReads, SideShown DEF KindTypeOK
    <2> QED
        BY <2>1, <2>2
<1>9. x # Empty
    BY <1>1, <1>2, <1>8, SideReads
<1>10. PICK n \in Assets : n # c.other.name
    BY SomethingToPick
<1> DEFINE e == EditOf(Same, n, Same)  O == OwnResolved(OwnNamed(e))  X == OtherResolved(c.type, OtherNamed(e))
           conf == IF c.chosen THEN c.type ELSE "none"
           t == MoveType([confirmed |-> conf, proposed |-> "none"], SideAsset(O), SideAsset(X))
<1>11. e \in OwnPicks(c)
    BY <1>10 DEF OwnPicks
<1>12. e.type = Same /\ OwnNamed(e) = n /\ OtherNamed(e) = FormName(other)
    BY <1>1, <1>10, AssetsAreFound, LadderAssumption DEF EditOf, OwnNamed, OtherNamed
<1>13. O = Id(AssetByName(n)) /\ SideAsset(O) # NoId /\ O # Empty
    <2>1. AssetByName(n) # NoId
        BY <1>1, <1>10, AssetsAreFound
    <2> QED
        BY <2>1, <1>1, <1>12, OwnResolves, AssetsAreFound DEF Id, Empty
<1>14. SavedType(c, e) = c.type
    BY <1>12 DEF SavedType, Same
<1> HIDE DEF e, c
<1>15. X # Empty /\ t = c.type /\ Problem(c.type, O, X) \in {"none", "own-not-mine"}
    <2> HIDE DEF O, o, x
    <2>1. CASE c.type = "transfer"
        <3>1. SideAsset(x) # NoId
            BY <2>1, <1>3, <1>6, <1>7, <1>9 DEF Problem, x, Empty
        <3>2. FormName(other) \in Assets /\ FormName(other) # n
            BY <3>1, <1>1, <1>8, <1>10, SideReads DEF x
        <3>3. SideAsset(O) # AssetByName(FormName(other))
            <4>1. SideAsset(O) = AssetByName(n) /\ AssetByName(n) # NoId
                BY <1>1, <1>10, <1>13, AssetsAreFound
            <4> QED
                BY <4>1, <3>2, <1>1, AssetNamed DEF KindTypeOK
        <3>4. X # Empty /\ SideAsset(X) # NoId /\ Problem("transfer", O, X) \in {"none", "own-not-mine"}
            BY <3>2, <3>3, <2>1, <1>1, <1>12, OwnAccountFits
        <3> HIDE DEF X
        <3>5. t = "transfer"
            BY <3>4, <2>1, <1>13 DEF MoveType
        <3> QED
            BY <3>4, <3>5, <2>1
    <2>2. CASE c.type # "transfer"
        <3>1. SideAsset(x) = NoId
            BY <2>2, <1>3, <1>6, <1>7, <1>9 DEF Problem, Empty
        <3>2. FormName(other) \notin Assets /\ FormName(other) # NoName
            BY <3>1, <1>1, <1>2, <1>8, SideReads DEF x, c
        <3>3. FormName(other) \in Name
            BY <3>2, <1>1, <1>8, NowIsTyped DEF Anyone, c
        <3>4. X # Empty /\ SideAsset(X) = NoId /\ Problem(c.type, O, X) \in {"none", "own-not-mine"}
            BY <3>2, <3>3, <2>2, <1>1, <1>3, <1>12, StrangerFits
        <3> HIDE DEF X
        <3>5. t = c.type
            <4>1. c.type # "none" /\ c.type = Default(dir)
                BY <2>2, <1>3 DEF TypesFor, Default
            <4> QED
                BY <3>4, <4>1 DEF MoveType, TypesFor, Default
        <3> QED
            BY <3>4, <3>5
    <2> QED
        BY <2>1, <2>2
<1>16. EditFits(Now, e)
    BY <1>12, <1>13, <1>14, <1>15 DEF EditFits, CheckType, c
<1> QED
    BY <1>11, <1>16 DEF c

(* Each step of the button has something that the server takes, and whatever   *)
(* it takes of what the step offers settles what the step was for, where the  *)
(* mirror has the other side and the form hands back the name that it has     *)
(* for it, and the own side is the person's or nothing yet.                 *)
THEOREM StepsLeadOn == NewName /\ TwoAccounts /\ FreshNames => (Spec => []StepsLead)
<1>1. IInv /\ NewName /\ TwoAccounts /\ FreshNames => StepsLead
    <2> SUFFICES ASSUME IInv, NewName, TwoAccounts, FreshNames, Step(Now) # "send",
                        SideKnown(CardSide(other)), OwnFits(Now), StillCalled(other)
                 PROVE  /\ \E e \in Picks(Now, Step(Now)) : EditFits(Now, e)
                        /\ \A e \in Picks(Now, Step(Now)) : EditFits(Now, e) =>
                            LET r == Saved(Now, e)
                            IN  Step(Now) \notin Blockers(Card(r.type, r.own, r.other))
        BY DEF StepsLead
    <2> DEFINE step == Step(Now)
               Settled(e) == LET r == Saved(Now, e) IN step \notin Blockers(Card(r.type, r.own, r.other))
    <2>1. step \in {"swap", "mine", "payee", "source"} /\ step \in Blockers(Now)
        BY DEF Step, Blockers
    <2>2. \A e \in Picks(Now, step) : e \in Offers
        BY DEF Offers
    <2>3. KindTypeOK
        BY DEF IInv
    <2>4. CASE step = "swap"
        <3>1. Now.problem = "swapped" /\ Picks(Now, step) = SwapPicks(Now)
            BY <2>1, <2>4 DEF Blockers, Picks
        <3> QED
            BY <3>1, <2>2, <2>4, SwapLeads, TakenSettles
    <2>5. CASE step = "mine"
        <3>1. /\ Now.problem = "other-is-mine"
              /\ Picks(Now, step) = IF Now.chosen THEN PayeePicks(Now, Now.type)
                                    ELSE IF Now.other.mine THEN {EditOf("transfer", Same, Now.other.name)}
                                    ELSE TransferPicks(Now)
            BY <2>1, <2>5 DEF Blockers, Picks
        <3> QED
            BY <3>1, <2>2, <2>5, MineLeads, TakenSettles
    <2>6. CASE step = "payee"
        <3>1. Now.problem # "swapped" /\ Picks(Now, step) = Others(Now)
            BY <2>6 DEF Step, Blockers, Picks
        <3>2. \A e \in Others(Now) : e.payee \in Name
            <4>1. Assets \subseteq Name
                BY <2>3, AssetsAreFound
            <4> QED
                BY <4>1 DEF Others, PayeePicks, TransferPicks, EditOf
        <3> QED
            BY <3>1, <3>2, <2>2, <2>6, PayeeLeads, TakenSettles
    <2>7. CASE step = "source"
        <3>1. Picks(Now, step) = OwnPicks(Now)
            BY <2>7 DEF Picks
        <3>2. \A e \in OwnPicks(Now) : e.account \in Assets
            BY DEF OwnPicks, EditOf
        <3> QED
            BY <3>1, <3>2, <2>2, <2>7, SourceLeads, TakenSettles
    <2> QED
        BY <2>1, <2>4, <2>5, <2>6, <2>7
<1>2. ASSUME NewName, TwoAccounts, FreshNames PROVE Spec => []StepsLead
    <2>1. IInv => StepsLead
        BY <1>1, <1>2
    <2> QED
        BY <2>1, InitTyped, StepTyped, PTL DEF Spec
<1> QED
    BY <1>2
=============================================================================
