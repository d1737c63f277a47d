---------------------------------- MODULE Deck ----------------------------------
(***************************************************************************)
(* The review deck's page (ui/static/review.js) and the handlers it talks  *)
(* to (ui/review.go, ui/sureness.go).  The page holds a hand of cards that *)
(* it reads page by page, takes the person's decisions at once, sends each *)
(* of them later or in the background, and can take the last one back.     *)
(* Requests are carried out and answered in any order, and may fail.       *)
(*                                                                         *)
(* What a decision does to a row beyond its pile is Review's.              *)
(***************************************************************************)
EXTENDS Integers, Sequences, FiniteSets, Functions

CONSTANTS
    Cards,         \* how many cards there are; their order is their number
    InLater,       \* those that start in the Later pile
    Blocked,       \* those that need something first
    PageSize,      \* deckPageSize (40)
    MaxDecisions, MaxOther   \* bounds: swipes, and what else happens

Card == 1..Cards
None == 0

ASSUME DeckAssumption ==
    /\ Cards \in Nat /\ InLater \cup Blocked \subseteq Card /\ PageSize \in Nat \ {0}
    /\ {MaxDecisions, MaxOther} \subseteq Nat

VARIABLES
    (* the server *)
    pileOf,    \* of each card: "review", "later", or "gone" (sent or skipped)
    block,     \* what stands in its way: "none", "fix" or "hold"
    at,        \* its place in the deck's order
    (* the page *)
    open,      \* it has not been left
    pile,      \* the pile it shows
    hand,      \* state.cards: the cards as they were read
    next,      \* where the following page starts, None on the last one
    loaded, error, resynced,
    decided,   \* every decision, in order; state.pending is those that Pend
    last,      \* the one that U takes back
    (* requests for a page of the deck, and the one edit under way *)
    pages, edit,
    (* what the deck owes the person: cards that have been in the pile since  *)
    (* its first page was read, but for two known races (Lose)               *)
    owed, other

serverVars == <<pileOf, block, at>>
pageVars   == <<pile, hand, next, loaded, error, resynced>>
vars == <<serverVars, pageVars, open, decided, last, pages, edit, owed, other>>

Snapshot(c, p) == [card |-> c, block |-> block[c], pile |-> p]
NoEdit == [card |-> None, to |-> "none", stage |-> "none", block |-> "none", pile |-> "review"]

CardsIn(s) == {s[i].card : i \in DOMAIN s}
HandCards == CardsIn(hand)

(* The entries of s whose card is in C, in their order.                      *)
Keep(s, C) ==
    LET f[n \in 0..Len(s)] ==
            IF n = 0 THEN <<>> ELSE IF s[n].card \in C THEN Append(f[n-1], s[n]) ELSE f[n-1]
    IN  f[Len(s)]

Without(h, c) == Keep(h, Card \ {c})

(* unsettled, for decisions that are still in state.pending.                *)
Pend(d) == d.stage \in {"waiting", "asked", "done", "refused"} /\ ~d.undone
Unsettled(c) == \E i \in DOMAIN decided : decided[i].card = c /\ Pend(decided[i])

-----------------------------------------------------------------------------
(* Reading the deck. *)

Loading == \E q \in pages : q.current

Asks(first, p, after, had) ==
    [current |-> TRUE, first |-> first, pile |-> p, after |-> after, had |-> had,
     listed |-> FALSE, cards |-> <<>>, next |-> None]

(* load(true): the hand is emptied, and a load in flight no longer counts.  *)
Reset(p, had) ==
    /\ pile' = p /\ hand' = <<>> /\ next' = None /\ loaded' = FALSE /\ error' = FALSE
    /\ pages' = {[q EXCEPT !.current = FALSE] : q \in pages} \cup {Asks(TRUE, p, None, had)}
    /\ owed' = {}

(* The hand becomes h; then maybePrefetch, and resync, which asks again if   *)
(* the pile's count has more than the hand.  The counts drift with every     *)
(* answer that overtakes another, so whether they do is left open.  A hand   *)
(* never has the ten cards at which the deck stops reading ahead.            *)
CanResync(h, n) ==
    loaded /\ ~error /\ n = None /\ ~resynced /\ \A i \in DOMAIN h : h[i].block = "hold"

GoOn(h) ==
    \/ /\ next # None /\ ~Loading
       /\ hand' = h /\ pages' = pages \cup {Asks(FALSE, pile, next, {})}
       /\ UNCHANGED <<pile, next, loaded, error, resynced, owed>>
    \/ /\ CanResync(h, next) /\ ~Loading
       /\ Reset(pile, CardsIn(h))
       /\ resynced' = TRUE
    \/ /\ next = None \/ Loading
       /\ hand' = h
       /\ UNCHANGED <<pile, next, loaded, error, resynced, pages, owed>>

InOrder(s) == \A i, j \in DOMAIN s : i < j => at[s[i]] < at[s[j]]

(* The first cards of S in the deck's order, as many as a page holds.        *)
FirstPage(S) ==
    {s \in UNION {[1..n -> S] : n \in 0..PageSize} :
        /\ InOrder(s)
        /\ \A c \in S \ Range(s) : Len(s) = PageSize /\ at[s[PageSize]] < at[c]}

(* A request that the server answers with such a page.                      *)
Listing(q, s, after) ==
    [q EXCEPT !.listed = TRUE, !.cards = [i \in DOMAIN s |-> Snapshot(s[i], q.pile)], !.next = after]

PileCards(p) == {c \in Card : pileOf[c] = p}

(* Mutant: the next page starts after as many cards as have been read. *)
ServerLists_Offset(q) ==
    /\ open /\ q \in pages /\ ~q.listed
    /\ LET all  == PileCards(q.pile)
           rest == {c \in all : Cardinality({d \in all : at[d] <= at[c]}) > q.after}
       IN  \E s \in FirstPage(rest) :
            pages' = (pages \ {q}) \cup {Listing(q, s, IF Range(s) = rest THEN None ELSE q.after + PageSize)}
    /\ owed' = IF q.current /\ q.first THEN PileCards(q.pile) ELSE owed
    /\ UNCHANGED <<serverVars, pageVars, open, decided, last, edit, other>>

(* handleDeck: a page of the pile after the cursor, which is the place of    *)
(* the last card of the page before.                                        *)
ServerLists(q) ==
    /\ open /\ q \in pages /\ ~q.listed
    /\ LET rest == {c \in PileCards(q.pile) : at[c] > q.after}
       IN  \E s \in FirstPage(rest) :
            pages' = (pages \ {q}) \cup {Listing(q, s, IF Range(s) = rest THEN None ELSE at[s[PageSize]])}
    /\ owed' = IF q.current /\ q.first THEN PileCards(q.pile) ELSE owed
    /\ UNCHANGED <<serverVars, pageVars, open, decided, last, edit, other>>

(* Cards that the answer leaves out because of a decision that will not      *)
(* bring them back here: made in the other pile, or already carried out.    *)
LeftOut(q) ==
    {c \in Card : \E i \in DOMAIN decided :
        /\ decided[i].card = c /\ Pend(decided[i])
        /\ decided[i].pile # q.pile \/ decided[i].stage = "done"}

(* The deck has the answer: what is not decided and not in the hand goes     *)
(* behind it.  When it had asked again, it may do so once more only if that  *)
(* found something.                                                         *)
Takes(q, h) ==
    /\ hand' = h /\ next' = q.next /\ loaded' = TRUE /\ error' = FALSE
    /\ pages' = pages \ {q}
    /\ owed' = owed \ (LeftOut(q) \cap CardsIn(q.cards))
    /\ resynced' = (resynced /\ (q.first => CardsIn(h) \subseteq q.had))
    /\ UNCHANGED pile

(* Mutant: cards whose decision has not been settled come back. *)
Answered_ShowsDecided(q) ==
    /\ open /\ q \in pages /\ q.listed
    /\ IF ~q.current
        THEN pages' = pages \ {q} /\ UNCHANGED <<pageVars, owed>>
        ELSE Takes(q, hand \o Keep(q.cards, Card \ HandCards))
    /\ UNCHANGED <<serverVars, open, decided, last, edit, other>>

(* Mutant: the answer of a load that was given up is taken too. *)
Answered_AnyLoad(q) ==
    /\ open /\ q \in pages /\ q.listed
    /\ Takes(q, hand \o Keep(q.cards, {c \in Card \ HandCards : ~Unsettled(c)}))
    /\ UNCHANGED <<serverVars, open, decided, last, edit, other>>

Answered(q) ==
    /\ open /\ q \in pages /\ q.listed
    /\ IF ~q.current
        THEN pages' = pages \ {q} /\ UNCHANGED <<pageVars, owed>>
        ELSE Takes(q, hand \o Keep(q.cards, {c \in Card \ HandCards : ~Unsettled(c)}))
    /\ UNCHANGED <<serverVars, open, decided, last, edit, other>>

(* At the end of the hand, load itself asks again.                          *)
Resyncs ==
    /\ open /\ ~Loading /\ CanResync(hand, next)
    /\ Reset(pile, HandCards) /\ resynced' = TRUE
    /\ UNCHANGED <<serverVars, open, decided, last, edit, other>>

LoadFails(q) ==
    /\ open /\ q \in pages
    /\ pages' = pages \ {q}
    /\ error' = (error \/ q.current)
    /\ UNCHANGED <<serverVars, pile, hand, next, loaded, resynced, open, decided, last, edit, owed, other>>

(* Bound: at most one load that was given up is still in flight.            *)
Other == other < MaxOther /\ other' = other + 1
OneStale == \A q \in pages : q.current

Retry ==
    /\ open /\ error /\ hand = <<>> /\ OneStale
    /\ Reset(pile, {})
    /\ UNCHANGED <<serverVars, resynced, open, decided, last, edit, other>>

SwitchPile ==
    /\ open /\ OneStale /\ Other
    /\ Reset(IF pile = "review" THEN "later" ELSE "review", {})
    /\ resynced' = FALSE
    /\ UNCHANGED <<serverVars, open, decided, last, edit>>

(* Another order or account: here, the same cards again.                    *)
SetScope ==
    /\ open /\ OneStale /\ Other
    /\ Reset(pile, {})
    /\ resynced' = FALSE
    /\ UNCHANGED <<serverVars, open, decided, last, edit>>

-----------------------------------------------------------------------------
(* Decisions.  A send or skip waits for its timer; a Later goes at once.    *)

Decision(c, kind) ==
    [card |-> c.card, block |-> c.block, kind |-> kind, pile |-> pile,
     stage |-> IF kind = "later" THEN "asked" ELSE "waiting",
     undone |-> FALSE, back |-> "no", asks |-> IF kind = "later" THEN 1 ELSE 0]

(* A swipe to the right sends a card that is ready, and skips a held one.   *)
Decide(kind) ==
    /\ open /\ hand # <<>> /\ Len(decided) < MaxDecisions
    /\ kind = "send" => Head(hand).block = "none"
    /\ kind = "later" => pile = "review"
    /\ decided' = Append(decided, Decision(Head(hand), kind))
    /\ last' = Len(decided) + 1
    /\ GoOn(Tail(hand))
    /\ UNCHANGED <<serverVars, open, edit, other>>

(* Left in the Later pile: to the back of the hand.                         *)
NotYet ==
    /\ open /\ pile = "later" /\ Len(hand) > 1
    /\ hand' = Append(Tail(hand), Head(hand))
    /\ UNCHANGED <<serverVars, pile, next, loaded, error, resynced,
                   open, decided, last, pages, edit, owed, other>>

BringToTop(c) ==
    /\ open /\ \E i \in 2..Len(hand) : hand[i].card = c
    /\ hand' = Keep(hand, {c}) \o Without(hand, c)
    /\ UNCHANGED <<serverVars, pile, next, loaded, error, resynced,
                   open, decided, last, pages, edit, owed, other>>

(* run: once, whoever starts it.                                            *)
Runs(S) ==
    decided' = [i \in DOMAIN decided |->
        IF i \in S
        THEN [decided[i] EXCEPT !.stage = "asked", !.asks = @ + 1]
        ELSE decided[i]]

(* The decisions that wait for their timer.                                 *)
Waiting == {i \in DOMAIN decided : decided[i].stage = "waiting"}

TimerFires(i) ==
    /\ open /\ i \in Waiting
    /\ Runs({i})
    /\ UNCHANGED <<serverVars, pageVars, open, last, pages, edit, owed, other>>

(* Mutant: leaving the page forgets what waits. *)
Hides_Forgets ==
    /\ open /\ open' = FALSE
    /\ UNCHANGED <<serverVars, pageVars, decided, last, pages, edit, owed, other>>

(* flushPending, when the page is hidden and perhaps left for good.  The     *)
(* requests are sent so that they outlive the page.                         *)
Hides ==
    /\ open /\ Runs(Waiting)
    /\ open' \in BOOLEAN
    /\ UNCHANGED <<serverVars, pageVars, last, pages, edit, owed, other>>

(* Mutant: the card may be there already. *)
PutBack_Keeps(d) == <<[card |-> d.card, block |-> d.block, pile |-> d.pile]>> \o hand

PutBack(d) == <<[card |-> d.card, block |-> d.block, pile |-> d.pile]>> \o Without(hand, d.card)

(* Mutant: the timer goes on. *)
Undo_LeavesTimer ==
    /\ open /\ last # None
    /\ LET d == decided[last]
       IN  /\ d.kind = "later" \/ d.stage = "waiting"
           /\ decided' = [decided EXCEPT ![last].undone = TRUE,
                                         ![last].back = IF d.kind = "later" THEN "queued" ELSE "no"]
           /\ hand' = IF d.pile = pile THEN PutBack(d) ELSE hand
    /\ last' = None
    /\ UNCHANGED <<serverVars, pile, next, loaded, error, resynced, open, pages, edit, owed, other>>

(* undo: a waiting decision is dropped, a Later is answered by its opposite *)
(* after its own request, and what has been sent stays sent.                *)
Undo ==
    /\ open /\ last # None
    /\ LET d == decided[last]
           taken == d.kind = "later" \/ d.stage = "waiting"
       IN  /\ decided' = IF ~taken THEN decided
                ELSE IF d.kind = "later"
                THEN [decided EXCEPT ![last].undone = TRUE, ![last].back = "queued"]
                ELSE [decided EXCEPT ![last].undone = TRUE, ![last].stage = "dropped"]
           /\ hand' = IF taken /\ d.pile = pile THEN PutBack(d) ELSE hand
    /\ last' = None
    /\ UNCHANGED <<serverVars, pile, next, loaded, error, resynced, open, pages, edit, owed, other>>

-----------------------------------------------------------------------------
(* The server carries decisions out, and the page has their answers. *)

MovesTo(c, p) == pileOf' = [pileOf EXCEPT ![c] = p] /\ owed' = owed \ {c}

Target(kind) == IF kind = "later" THEN "later" ELSE "gone"

(* isDecidable, and for a send the blockers; Firefly may refuse it too.      *)
Serves(i) ==
    LET d == decided[i]
        can == pileOf[d.card] # "gone" /\ (d.kind = "send" => block[d.card] = "none")
    IN  /\ d.stage = "asked"
        /\ \/ /\ can
              /\ MovesTo(d.card, Target(d.kind))
              /\ decided' = [decided EXCEPT ![i].stage = "done"]
           \/ /\ ~can \/ d.kind = "send"
              /\ decided' = [decided EXCEPT ![i].stage = "refused"]
              /\ UNCHANGED <<pileOf, owed>>
        /\ UNCHANGED <<block, at, pageVars, open, last, pages, edit, other>>

Settles(i) ==
    /\ open /\ decided[i].stage = "done"
    /\ decided' = [decided EXCEPT ![i].stage = "settled"]
    /\ UNCHANGED <<serverVars, pageVars, open, last, pages, edit, owed, other>>

(* failed: refused, not sent at all, or the answer lost.  The card comes     *)
(* back, as the server's answer has it if there is one.                     *)
Failed(i) ==
    /\ open /\ decided[i].stage \in {"asked", "done", "refused"}
    /\ LET d == decided[i]
           fresh == IF d.stage = "refused" THEN [d EXCEPT !.block = block[d.card]] ELSE d
       IN  hand' = IF d.pile = pile THEN PutBack(fresh) ELSE hand
    /\ decided' = [decided EXCEPT ![i].stage = "failed"]
    /\ last' = IF last = i THEN None ELSE last
    /\ UNCHANGED <<serverVars, pile, next, loaded, error, resynced, open, pages, edit, owed, other>>

(* A Later that was taken back: the opposite request, once its own is        *)
(* answered, and the server.                                                *)
AsksBack(i) ==
    /\ open /\ decided[i].back = "queued" /\ decided[i].stage \in {"settled", "failed"}
    /\ decided' = [decided EXCEPT ![i].back = "asked"]
    /\ UNCHANGED <<serverVars, pageVars, open, last, pages, edit, owed, other>>

ServesBack(i) ==
    /\ decided[i].back = "asked"
    /\ decided' = [decided EXCEPT ![i].back = "done"]
    /\ IF pileOf[decided[i].card] = "later"
        THEN MovesTo(decided[i].card, "review")
        ELSE UNCHANGED <<pileOf, owed>>
    /\ UNCHANGED <<block, at, pageVars, open, last, pages, edit, other>>

-----------------------------------------------------------------------------
(* Edits of the card, its hold, and back from Later: the page waits for the  *)
(* answer, which has the card as it now is.  One at a time.                 *)

EditAsked(c, to) ==
    /\ open /\ Other /\ edit.stage = "none" /\ c \in HandCards
    /\ to = "back" => pile = "later"
    /\ edit' = [card |-> c, to |-> to, stage |-> "asked", block |-> "none", pile |-> pile]
    /\ UNCHANGED <<serverVars, pageVars, open, decided, last, pages, owed>>

EditServed ==
    /\ edit.stage = "asked"
    /\ LET c == edit.card
       IN  IF pileOf[c] = "gone"
           THEN edit' = [edit EXCEPT !.stage = "refused"] /\ UNCHANGED <<pileOf, block, owed>>
           ELSE IF edit.to = "back"
           THEN /\ IF pileOf[c] = "later" THEN MovesTo(c, "review") ELSE UNCHANGED <<pileOf, owed>>
                /\ edit' = [edit EXCEPT !.stage = "done", !.block = block[c]]
                /\ UNCHANGED block
           ELSE /\ block' = [block EXCEPT ![c] = edit.to]
                /\ edit' = [edit EXCEPT !.stage = "done", !.block = edit.to]
                /\ UNCHANGED <<pileOf, owed>>
    /\ UNCHANGED <<at, pageVars, open, decided, last, pages, other>>

(* replaceCard, or moveBack's end.  moveBack takes the card out of whatever  *)
(* hand is there by then: Lose, when the person has gone to Review, where   *)
(* the card now is.                                                         *)
EditAnswered ==
    /\ open /\ edit.stage = "done"
    /\ edit' = NoEdit
    /\ IF edit.to = "back"
        THEN hand' = Without(hand, edit.card) /\ owed' = owed \ {edit.card}
        ELSE /\ hand' = [i \in DOMAIN hand |->
                    IF hand[i].card = edit.card THEN [hand[i] EXCEPT !.block = edit.block] ELSE hand[i]]
             /\ UNCHANGED owed
    /\ UNCHANGED <<serverVars, pile, next, loaded, error, resynced, open, decided, last, pages, other>>

EditFails ==
    /\ open /\ edit.stage \in {"asked", "done", "refused"}
    /\ edit' = NoEdit
    /\ UNCHANGED <<serverVars, pageVars, open, decided, last, pages, owed, other>>

(* Surest first: a correction makes fold surer of a card, which moves ahead  *)
(* of where the deck has read to.                                           *)
MovesAhead(c) ==
    /\ open /\ Other /\ pileOf[c] # "gone" /\ \A d \in Card : at[d] # 1
    /\ at' = [at EXCEPT ![c] = 1]
    /\ owed' = owed \ {c}
    /\ UNCHANGED <<pileOf, block, pageVars, open, decided, last, pages, edit>>

(* Another tab decides.                                                     *)
Elsewhere(c) ==
    /\ open /\ Other /\ pileOf[c] # "gone"
    /\ MovesTo(c, "gone")
    /\ UNCHANGED <<block, at, pageVars, open, decided, last, pages, edit>>

-----------------------------------------------------------------------------
(* The page has just been opened, and asks for its first cards.             *)
Init ==
    /\ pileOf = [c \in Card |-> IF c \in InLater THEN "later" ELSE "review"]
    /\ block = [c \in Card |-> IF c \in Blocked THEN "fix" ELSE "none"]
    /\ at = [c \in Card |-> c + 1]
    /\ open = TRUE /\ pile \in {"review", "later"} /\ hand = <<>> /\ next = None
    /\ loaded = FALSE /\ error = FALSE /\ resynced = FALSE
    /\ decided = <<>> /\ last = None
    /\ pages = {Asks(TRUE, pile, None, {})} /\ edit = NoEdit
    /\ owed = {} /\ other = 0

Next ==
    \/ \E q \in pages : ServerLists(q) \/ Answered(q) \/ LoadFails(q)
    \/ Resyncs \/ Retry \/ SwitchPile \/ SetScope
    \/ \E kind \in {"send", "skip", "later"} : Decide(kind)
    \/ NotYet \/ Hides \/ Undo
    \/ \E i \in DOMAIN decided :
            \/ TimerFires(i) \/ Serves(i) \/ Settles(i) \/ Failed(i)
            \/ AsksBack(i) \/ ServesBack(i)
    \/ EditServed \/ EditAnswered \/ EditFails
    \/ \E c \in Card :
            \/ BringToTop(c) \/ MovesAhead(c) \/ Elsewhere(c)
            \/ \E to \in {"none", "hold", "back"} : EditAsked(c, to)

(* A browser fires the timers of a page that is open.                       *)
Fairness == WF_vars(\E i \in DOMAIN decided : TimerFires(i))

Spec == Init /\ [][Next]_vars /\ Fairness

-----------------------------------------------------------------------------
Pile  == {"review", "later"}
Block == {"none", "fix", "hold"}
Place == 0..(Cards + 1)
Entry == [card : Card, block : Block, pile : Pile]
Request ==
    [current : BOOLEAN, first : BOOLEAN, pile : Pile, after : Place, had : SUBSET Card,
     listed : BOOLEAN, cards : Seq(Entry), next : Place]
Swipe ==
    [card : Card, block : Block, kind : {"send", "skip", "later"}, pile : Pile,
     stage : {"waiting", "dropped", "asked", "done", "refused", "settled", "failed"},
     undone : BOOLEAN, back : {"no", "queued", "asked", "done"}, asks : {0, 1}]

(* Every variable stays in its type, one load counts at a time, and no card *)
(* is twice in the hand (load's have, failed's and undo's filter).          *)
DeckTypeOK ==
    /\ pileOf \in [Card -> Pile \cup {"gone"}] /\ block \in [Card -> Block]
    /\ at \in [Card -> Place \ {None}]
    /\ pile \in Pile /\ open \in BOOLEAN /\ loaded \in BOOLEAN
    /\ error \in BOOLEAN /\ resynced \in BOOLEAN
    /\ hand \in Seq(Entry) /\ \A i, j \in DOMAIN hand : hand[i].card = hand[j].card => i = j
    /\ next \in Place /\ decided \in Seq(Swipe) /\ last \in {None, Len(decided)}
    /\ pages \subseteq Request /\ \A q, r \in pages : q.current /\ r.current => q = r
    /\ edit \in [card : Card \cup {None}, to : {"none", "hold", "back"}, block : Block, pile : Pile,
                 stage : {"none", "asked", "done", "refused"}]
    /\ edit.stage # "none" => edit.card \in Card
    /\ owed \subseteq Card

(* A decision is sent once, whatever starts it (its timer, the page being    *)
(* hidden, or both), and one that was taken back in its five seconds never. *)
AskedOnce ==
    \A i \in DOMAIN decided :
        LET d == decided[i]
        IN  d.asks <= (IF d.kind # "later" /\ d.undone THEN 0 ELSE 1)

(* What is in the hand was read from, or decided in, the pile the page shows *)
(* (review.js:717: a load that was overtaken is dropped).                  *)
HandIsOfThePile == \A i \in DOMAIN hand : hand[i].pile = pile

(* A card that is being decided is not in the hand to be decided again, in   *)
(* any order of answers, unless a Later of it that had been taken back has   *)
(* failed since (review.js:718-721).                                       *)
DecidedStaysOut ==
    \A c \in HandCards : Unsettled(c) =>
        \E i \in DOMAIN decided :
            LET d == decided[i]
            IN  d.card = c /\ d.kind = "later" /\ d.undone /\ d.stage = "failed"

(* Reading ahead skips no card: one that has been in the pile since its      *)
(* first page was read is in the hand, still ahead, or being decided,       *)
(* however many cards before it have left (review.go:902-904).             *)
NoneSkipped ==
    loaded => \A c \in owed :
        c \in HandCards \/ Unsettled(c) \/ (next # None /\ at[c] > next)

(* The swipe was the decision: each one is sent or taken back, even if the   *)
(* page is left in its five seconds (review.js:905-911).                   *)
SwipeIsSent == \A i \in 1..MaxDecisions : []<>(i \notin Waiting)
=============================================================================
