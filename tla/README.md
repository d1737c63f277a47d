# texas-fold-em in TLA+

texas-fold-em keeps a Fold (bank aggregator) login alive, stages the
transactions Fold reports in SQLite, lets a classifier and a person decide what
each one is, and books it in Firefly III. Money moves in one direction and
nothing in the program takes a booking back, so the questions worth a proof are
about what may happen twice, never, too late or to the wrong row.

The modules below are translated from the Go sources (paths are relative to the
repository; `src/internal/integration/` is shortened to `i/`). `PROJECT.json`
maps each definition to its lines, lists the runs, the mutants that show each
property can fail, the hazards, the findings and the theorems.

    tlc  -config broker.cfg MCBroker.tla            # one run
    tlapm BrokerProofs.tla                          # one set of proofs

## 1. Inventory

### Components, their state and how they meet

| Component | Source | State it keeps | Operations |
|---|---|---|---|
| Token broker | `broker.go`, `store.go`, `fold.go`, `server.go` | the refresh token, access token and tombstone in memory and in a state file; one mutex | `Token`, `Init`, keep-warm tick, refresh, tombstone, restart |
| Fold sync | `i/fold_sync.go`, `i/fold/` | inserts and refreshes `staged_fold_txns`; reads the newest date of the mirror | `SyncSinceFirefly`, `SyncRecent` |
| Firefly mirror | `i/sync.go` | `firefly_txns`, merchant lookup | `SyncAll`, `MirrorJournal` |
| Account and category mirrors | `i/firefly_accounts_sync.go`, `i/fold_accounts_sync.go` | account tables | full upserts |
| Classifier, orchestration | `i/classifier/classifier.go`, `resuggest.go`, `repair.go` | the proposed columns, status and hold of a row | classify, reclassify, second look, own-account repair |
| Classifier, decision ladder | `i/classifier/tier3.go`, `source.go`, `classifier.go` | none of its own | one decision per row |
| Refund matching | `i/classifier/refund.go`, `creditback.go` | the proposed reference of a refund | the refund tier, the cron's `MatchRefunds` |
| Places | `i/classifier/places.go`, `places_lookup.go`, `i/ui/engine.go` | lookups in memory and in a table, slots of the model | suggest a place, look it up on the web |
| Learning | `i/classifier/learn.go`, `learning.go` | learned merchants and aliases | after every push and from the audit log |
| LLM client | `i/llm/` | what the model has refused, a streak of failures, a rest | chat calls and searches, several at a time |
| Review deck and list | `i/ui/review.go`, `ui.go`, `manual.go` | the confirmed columns, status, hold, later | edit, send, hold, later, skip, restore, save, add by hand |
| Deck page script | `i/ui/static/review.js` | a hand of cards, the pages still to read, the decisions on their way, one payee picker | swipe, undo, edit, switch pile, type a payee, leave |
| Kind of move | `i/txntype.go` | none | `CheckType`, the side an account may be on |
| Push | `i/push.go`, `i/firefly/write.go` | status, journal and group id of a row; Firefly's transactions | `Push`, `Update` |
| Refund links | `i/refund_link.go`, `i/ui/refund.go` | reference and link id of a row; Firefly's links | `linkRefunds`, `LinkRefund`, the picker |
| Periodic loops | `i/cron/` | none | the order in which all of this runs |

Everything after the broker shares one SQLite table, through a pool of **one
connection** and without any lock above it: a statement is atomic, a
transaction keeps everybody else out, and a handler or job that reads, calls
the network and then writes does so over whatever the row has become. The
components call each other as follows: the loops run mirror, accounts, repair,
Fold sync, classify and refund matching in this order; a push calls Firefly,
then mirrors, learns, records feedback and links refunds; the deck's handlers
call push; the Fold sync and the operator's endpoints ask the broker for
tokens. The page holds copies of cards that the server may have changed since,
and its requests are answered in any order. The ladder, the jobs and the
pickers share one client of the language model.

### What is hard here

* **Rotation.** An accepted refresh token is dead at once. A lost answer, a
  failed write or a crash at the wrong moment loses the login.
* **Check, call, write.** Every handler of the deck and every job of the engine
  checks a row and writes it some statements, or some seconds of a network
  call, later. Nothing repeats the check.
* **At most once.** Firefly does not refuse a second transaction; a push
  searches for Fold's UUID and then creates.
* **A walk over a list that moves.** Pages of Fold's list are fetched while the
  list grows and is corrected.
* **Two ends of one pair.** A refund and its purchase are sent independently,
  and the later one must make the link.
* **Partial failure** at every network call and at every write after one, and a
  restart between any two.
* **Coming back.** A deferred row, a queued request, a failed walk must get
  their turn again.
* **Two readings of one row.** The card, the push's check and the body that is
  sent each resolve a row's accounts by their own rules, against a mirror that
  learns of accounts, archives and renames them meanwhile.
* **Sums over what others claim.** What is left of a purchase is added up in
  one statement and used two statements later.
* **Late answers in the browser.** A page of the deck, a decision's failure, a
  suggestion can arrive when the person is somewhere else.

### What makes each component right

* Broker: one refresh at a time; only the stored token is sent; a chain is lost
  only through a missed rotation; tombstones are true and stay; the file never
  goes back; every queued request is answered.
* Push: one booking per transaction at most; a pushed row points to a booking
  that exists; a journal is never forgotten; every request ends.
* Review and engine: nobody's write, however stale, leads to a second booking;
  a row added by hand stays the person's; a row a person decided is left alone;
  a new row does not stay pending.
* Fold sync: a walk misses nothing it set out for; what was decided is not
  touched; the loop fills the gap.
* Refund links: a recorded link is the right one; the later side of a pair
  makes it.
* Kind of move: what a card shows as sendable is what push sends; the button
  leads on; no edit leaves a row half-right.
* Deck script: a send that was undone is not made, one that was not is made
  once; the hand is of the pile shown; reading ahead skips no card.
* Decision ladder: the account Fold saw the money move on stays.
* Refund matching: claims stay within what was paid; a proposal is not
  replaced; an obvious purchase is found, however late it comes.
* Places: a late answer offers nothing that does not fit; what is known is not
  searched for again; the picker comes to rest.
* LLM client: nothing is refused twice; only failures bring a rest, and it ends.
* Learning: one lesson per transaction.
* Mirror: a full sync and an eager mirror of one journal end in the newer one.

## 2. Plan

| Order | Module | Builds on | State |
|---|---|---|---|
| 1 | `Broker`, `BrokerProofs` | | done |
| 2 | `StagedRow` (a row and every statement that writes it) | | done |
| 3 | `Booking` (abstract: booked once, then pointed to) | | done |
| 4 | `Push` | `StagedRow`, implements `Booking` | done |
| 5 | `Review`, `ReviewProofs` (of `Push` and of `Review`) | `Push`, with the person and the engine | done |
| 6 | `FoldSync`, `FoldSyncProofs` | | done |
| 7 | `RefundLink`, `RefundLinkProofs` | | done |
| 8 | `RefundMatch`, `RefundMatchProofs` | | done |
| 9 | `CardKind` (the rules of `txntype.go`, the card, its edits and what push sends), `Ladder` (what the engine proposes), `LadderProofs` (of both) | `Ladder` on `CardKind` | done |
| 10 | `Deck`, `DeckProofs` (the browser's hand, pages and decisions, and the handlers that answer them) | | done |
| 11 | `Places` (the payee picker, its requests and searches) | | done |
| 12 | `LLMClient`, `PlacesProofs` (of `Places` and of `LLMClient`) | | done |
| - | `Mirror`, `Learning` | | left out, see 6 |

Abstract specifications: `Booking` is stated and `Push` is shown to implement
it. Worth stating next: a
small `Swipes` that `Deck` implements ("each swipe takes effect once or is
undone"; its safety half is `AskedOnce`), for the broker a single cell "alive
or lost" that the two-layer store implements, and `CardKind`'s
`ReadyIsBookable` as the fact `Push` assumes about a value it sends.

## 3. The modules and the code

### Broker

One process per request (`Caller`: `Broker.Token`; `Admin`: `Broker.Init`;
`Warmer`: `Broker.KeepWarm`). `pc` follows `refreshLocked`: waiting for
`refreshMu`, calling Fold, saving, burying. `mem` and `disk` are the `State` in
memory and in the file; `Set` writes both or neither, as `Store.Set` does. A
token is a chain (a login) and a generation; `head` is the generation Fold
accepts. A call that times out becomes an orphan that Fold may still act on.
`Age` makes an access token due; nothing else about time matters to the code.

### StagedRow, Push, Booking

`Row` keeps the columns a decision depends on, the proposed and the confirmed
ones as one value each. Each statement that writes a row is one operator.
`Push` has one pc per request through `Pusher.Push` and `Update`: fetch (with
the guards on status and journal), search, create or update, mark, finish; and
the four ways in, each with its own checks: a card, the editor, the admin
endpoint and a correction. Firefly is the sequence of transactions with the
row's UUID; `SearchByExternalID` is what a search by it lists. The editor ends
at once where a side it was given names no account (`EditorUnresolved`). What a
row is sent as is one value, which may be none: the code lets a row without an
other side pass and leaves it to Firefly. Two things are simpler than the code.
A create that Firefly accepts answers with its journal: an accepted answer that
listed none would mark the row pushed with number 0 (`i/push.go:250`,
`i/firefly/write.go:172`), and `PushedIsBooked` rests on Firefly's promise that
there is one. And the five columns that tell whether a person has edited a row
(`i/classifier/classifier.go:860`) are the one confirmed value here
(`NoHumanEdits`): an edit of another column alone (the type, a new payee's name),
which leaves the row to a bulk reclassification, is no edit here. The names that `ResetToPending` leaves are in
`Ladder`'s `Reset`.

`Booking` is what this promises: nothing, then one booking, then a pointer to
it. `ImplementsBooking` maps `bookings` to the length of Firefly's list and
`pointer` to the row's journal.

### Review

The person's requests (`Tab`) and the engine's jobs (`Worker`) around `Push`.
A handler that checks first (`isDecidable`, `heldByFold`) has one action for
the check and one for the write; a job has one for its listing and one for its
write, a second look also one for its re-check. What a decision says is any
value; what the code does with it is exact.

### FoldSync

`known` and `reported` are Fold's list and how often each amount was changed;
a row keeps which of these it has taken over (`seen`). `ReadCutoff`, `Begin`,
`WalkPage` and `Commit` are `SyncSinceFirefly`; `holder` is the pool's one
connection, which a walk keeps from `BeginTx` to `Commit`, so `ReadCutoff`,
which needs a connection too, comes before and a request in between waits.
`WalkPage` is one page with its cutoff, cap and cursor. `Fails` is any error,
cancelled request or end of the process. `RecentLists` and `RecentStages` are
`SyncRecent`. The money of a transaction is only its age: the properties are
about which report a row has, not about what it says.

### RefundLink

`Sends` is the moment `markPushed` has been done and `linkRefunds` begins; `Asks`
is its second half, the query for waiting refunds; `ReadsRow`, `FindsOriginal`,
`Lists`, `Creates` and `Records` are `LinkRefund`, each a statement or call of
its own. `SaveRefundOf` and `Proposes` change the two columns a reference is
made of; `Reopens` is a reclassification of a sent row. A journal has its row's
name, a link is its two ends, so a second link between the same two journals is
not told apart from the first: whether Firefly stores it twice is not known
from this code. A link that a person deletes in Firefly is not modelled; the
code never looks again.

### RefundMatch

`TierRefund` is a classification's look at one refund, `MatchLists` and
`MatchWrites` are the cron's `MatchRefunds`. A job first takes the sum of what
other refunds claim (`Looks`, with `RefundClaims` over proposed and confirmed
references by `Effective`), then picks a purchase with enough left (`Chooses`,
with `FoldCandidates`, `JournalCandidates`, the order of `Charges` and a
credit-back as its own case), then writes (`ClassifyApplies`, `MatchWrites`):
three steps, between which the person (`SaveRefundOf`, `Skips`, `Restores`,
sends) and other jobs act. The staged purchases and the journals are two queries
of one step: what could happen between them is that a purchase is marked as
sent, so that it is offered under both names, and a purchase whose mark was lost
is offered so in any case (`PurchaseIsSent`). Amounts, days, cards and merchants of a row are
fixed data (`About`); how much two names resemble each other is whether they
are the same. `Overclaimed` counts the refunds that Fold has not put into one
group with the purchase: a group is believed whatever it adds up to
(`pickRefundCandidate`), so that with grouped refunds among the claimants the
plain sum may exceed the price by design.

### CardKind and Ladder

A row has a type and two sides from the person's own point of view, each an
account's number or a name. `CheckType` and `Problem` are the rules;
`CardSide`/`Card`/`Blockers` is what the card reads, `PushSide`/`Body` what
push reads and sends; `Step` and `Picks` are the button of `review.js` and what
its sheets offer; `EditFits` and `Saved` are the server's check of an edit and
what is stored. The accounts' sync is `MirrorGrows`, `Archives` and `Renamed`:
what was a name to the card may be an account to the push, an account in use may
be archived or opened again (`active`), and it may get another name (`called`).
Which of these a rule looks at is the rule's own: `AssetByName` and `SideAsset`
only know active accounts, `IsAssetName` and the check of kinds archived ones
too, `Party` takes the name of today before that of the past, and the editor's
form the other way round (`FormName`). `Ladder` gives the starting rows: the
lookup, the vote, the model with its fallbacks, the refund rule, each resolved
to accounts by its own rule, and `ResolveOwnSide` after all of them, which pins
the account Fold named. `History` is the mirror's transactions: `Retrieved` and
`Voted` are those a tier looks at, `ModeAccount` is the account most of them
have, `TierTwo` their vote on each side, and `Inputs` (with `ListAssets` and
`ListNamed`) the accounts the model may answer with; an answer outside them is
dropped (`InInventories`). Which transactions resemble a row, what the lookup
says and what the model answers are any of a table's values.

### Deck

`hand` is `state.cards`, each card as it was read; `pages` are the loads under
way, of which one is `current` and the others have been overtaken; `decided`
has every decision with the stage its request is in, `Waiting` those whose five
seconds are not over. `Decide`, `Undo`, `TimerFires`, `Hides` are the script's;
`Serves`, `Settles`, `Failed` are the server's answer and what the script makes
of it; `ServerLists` is a page after the cursor, as any `FirstPage` of the cards
behind it, turned into an answer by `Listing`; `Keep` is what a filter leaves
of a list of cards. `owed` is an auxiliary
variable: the cards that have been in the pile since its first page was read,
less those for which a reason is named where it is removed. A hand never
reaches the ten cards at which reading ahead stops, so the next page is asked
for whenever there is one.

### Places

The picker (text, timer, the request it waits for and the one for its lookup),
the two requests of `engine.go` (`places`, `lookup`), the model's slots, and
per place what is in memory, in the table and being searched. `AskPlaces` is
the timer, `PlacesArrive` and `LookupArrives` are the answers; an aborted
request goes on at the server until it notices. `Looks` is `withLookup`,
`Starts` a background search, `Keeps` its write; `Restart` loses the memory and
the searches.

### LLMClient

`call` is a request with its tries left and what it sends; `learnt` is what the
client knows that the model refuses. `rest` counts down to the end of the
breaker's rest, `streak` counts failures, `struck` says whether there was one.
`Answered`, `Adapts`, `BacksOff`, `Fails`, `RunsLate` and `GoesAway` are the
ways a request ends or goes on (that a key or a prompt is empty is not among
them: `main.go` builds a client only with a key, and every prompt has a text); `HostTurns` changes the host at any time.
Minutes are scaled to units that keep their order.

## 4. The runs

| Run | Property | What it says |
|---|---|---|
| `broker` | `MutualExclusion`, `CallUsesStoredToken`, `ChainKept`, `TombstoneTruthful`, `BuriedOnlyIfBroken`, `LiftedOnlyByInit`, `NoRollback`, `ServesOnlyPersisted`, `Answered`, `KeptWarm` | the stored token is alive unless a rotation was missed, tombstones are true and lasting, every queued request is answered |
| `push_faults` | `PushedIsBooked`, `JournalIsKept`, `SendEnds` | two senders, every fault, late creates included |
| `review` | `NoDoubles`, `ManualIsThePersons`, `ImplementsBooking`, `PendingIsClassified` | one sender, everybody else |
| `fold_sync` | `WalkIsComplete`, `DecidedIsLeftAlone`, `GapIsFilled` | the loop and an operator's request |
| `refund_link` | `LinkIsTrue`, `PairsAreLinked` | two refunds of one purchase, two requests |
| `refund_match` | `OverclaimedOnlyByRace`, `MatchNeverReplaces`, `LatePurchaseIsFound` | a classification and the cron, whose sums, looks and writes interleave |
| `deck` | `AskedOnce`, `HandIsOfThePile`, `NoneSkipped`, `SwipeIsSent` | swipes, undo, late and failing answers, leaving the page |
| `card_kind` | `StepsLead`, `NothingHalfRight`, `ShowsWhatIsSent`, `ReadyIsBookable`, `OwnIsFolds` | every proposal, every edit, a mirror that learns of accounts, archives and renames them |
| `places` | `OffersFit`, `SearchedAgainOnlyByRace`, `PickerSettles` | typing, slow answers, background searches, a restart |
| `model_client` | `RefusedOnce`, `RestNeedsAFault`, `RestEnds` | a chat call and a search, every model, a host that changes |

`OverclaimedOnlyByRace`, `SearchedAgainOnlyByRace` and `NoneSkipped` name in
their formulas the races in which the code does not keep the plain promise, so
that a further one would show. In the same way `ReadyIsBookable` names an account
archived on the other side (`ToArchived`), `StepsLead` one renamed since it was
last booked (`StillCalled`), both further down, and `GapIsFilled` the
transactions that lie behind the cap of a walk: that each of those gets its turn
in the end is checked by nothing. Two runs end in a counterexample; each is a
disagreement between the code and what the repository says of it:

* `push_late_retry` (`NoDoubles`): Firefly may carry out a create after the
  client's 30 seconds; a retry that searched before that books again, against
  `README.md:206` "retries can't create doubles".
* `review_unsend` (`ResuggestLeavesDecidedAlone`): the second look re-checks a
  card under "a person may have decided this card while the model was thinking"
  and does not look at the status; a card sent meanwhile returns to the deck.

Type invariants spend no property of a run, because each of them is a theorem
(`TypeCorrect`, `PushTypeCorrect`, `ReviewTypeCorrect`, `SyncTypeCorrect`,
`LinkTypeCorrect`, `MatchTypeCorrect`, `KindTypeCorrect`, `DeckTypeCorrect`,
`PlacesTypeCorrect`, `ClientTypeCorrect`). `DecidedStaysOut` of `Deck` (a card
that is being decided is not in the hand, but for one case) is proved too and
spends no property. TLC found all of them to hold on the runs' instances.

Further disagreements are stated in the modules and refuted by TLC on the same
small instances, without a run of their own:

* `NoRetryAfterRejection` (`Broker`): if the disk fails while a tombstone is
  written, `Store.Set` changes neither file nor memory, although
  `broker.go:198` says the memory is updated, and the rejected token is sent
  again at every tick.
* `SyncCatchesUp` (`FoldSync`): the walk's cutoff is Firefly's newest date, not
  the end of the last walk. A transaction that Fold lists only after Firefly
  has a later one is never staged, and the amount of an unsent row behind that
  date is never refreshed, against "re-running it after any outage catches up
  automatically" and "the next sync updates it" (`README.md:181`).
* `NoDeadEnd` (`CardKind`): where the row's own side is a name Firefly does not
  have, the button offers only accounts for the other side, each of which
  `editFits` refuses (`i/ui/review.go:1110`, `review.js:187`).
* `ReadyIsBookable` without `ToArchived` (`CardKind`): "a withdrawal or deposit
  never has one of them on the other side" (`txntype.go:17`), "them" being the
  person's own accounts. `sideAsset` asks for an active account, so a withdrawal
  proposed to an own account that Firefly then archives is no longer a transfer,
  has no problem and no blocker, and a withdrawal to an asset account is sent.
* `StepsLead` without `StillCalled` (`CardKind`): the form gives an account the
  name it had on its transactions before the one it has (`i/ui/ui.go:1994`).
  Of a transfer to an own account that was renamed, an edit of the source hands
  the old name back, no account is called so, and `editFits` refuses every one.
* `NotClaimedTwice` (`RefundMatch`): rows are classified in parallel, and two
  refunds that took their sums before either wrote claim one purchase in full
  (`refund.go:643`, `README.md:110`).
* `LookupIsWaitedOn` (`Places`): type a text, shorten it, type it again: the
  lookup's request has been stopped and the answer in memory still says
  "checking", so nothing asks again (`review.js:1427`).

Others were seen while reading:

* Sending: `POST /admin/push` sends a row on hold (`README.md:138`); skipping a
  pending row from the list is overwritten by the next classification
  (`classifier.go:821`); a decision between the clearing of fold's hold and the
  record of its release holds the row again (`README.md:92`); two simultaneous
  senders of one row can both create; `resetToPending` leaves the proposed
  account names.
* Sync: a failed Fold sync ends the cycle although the log says it continues;
  a rebuild by `SyncAll` forgets learned aliases, and `SyncAll` runs only from
  the operator's endpoint and never removes a journal Firefly has lost.
* Learning: `learn.go:32` says idempotent, and a correction counts a second
  use; a category that was cleared is kept by `COALESCE`; a correction of only
  a name teaches the stale proposal.
* Matching: a candidate that only Firefly has can be counted twice in the
  claims; a credit-back takes a charge that is partly returned already.
* Model: of calls that fail together each further one lengthens the rest, and
  retries go on during it (`i/llm/client.go:102`); an empty answer given while
  the client rests is cached by the browser for ten minutes
  (`i/ui/engine.go:57`).
* Deck: a page that was listed before a decision and is answered after its
  reply brings the card back as a ghost; the failure of a Later that had been
  taken back puts its card into the hand even while a new decision about it
  waits; the counts drift; an answer to "back from Later" that comes
  after a change of pile takes the card from the hand it is now in.

### Bounds, and why they are enough

* Broker: one caller, one operator, the loop; two logins for safety and one for
  liveness; three generations (`MaxGen = 2`), so that a token can be stale by
  one and by two. The mutex makes every further caller behave like the first
  while it waits; the proofs remove the bound.
* Push: two senders, two transactions in Firefly (a double is the second).
* Review: one sender, one tab, one worker, every operation and starting row.
  Two of the same kind add no step that one of each does not interleave with,
  since all of them share the one row and nothing else; the proofs are for any
  number.
* Fold sync: three transactions, two of one minute, pages of one and a cap of
  two: the cap can be reached with one left, and a page boundary falls between
  equal times. One corrected and decided transaction, one correction, one
  failure. The proofs remove all of these.
* Refund matching: a refund and a credit-back, a staged purchase and one that
  only Firefly has, one worker and the cron, one change by the person: two
  claimants of one purchase, both kinds of candidate, and a race of two jobs.
  No row of the instance is grouped: a candidate of a group needs no sum, and
  the proofs have groups of any kind.
* Card and ladder: seven accounts of all three kinds with a name that is an
  own account's and a payee's, and one (an own account that the past has) that
  the mirror learns of later and that is archived, opened and renamed; every
  table entry the rules tell apart. The proofs remove the bounds; only the
  theorem about the button needs two own accounts that stay, one new name, and
  that no account takes over another's.
* Deck: two cards, pages of one card, one card that starts in Later and needs
  something, two swipes and one other event (an edit, a change of pile, another
  tab), at most one overtaken load. Two cards are what a page boundary and an
  overtaking answer need; two swipes what an undo and a late failure need.
  The proofs remove the bounds.
* Places: two texts, three keystrokes (type, type on, type back), two requests
  for one slot, one place to look up, one upset (a restart, an expiry or a
  failed write). The proofs of the two safety properties remove them.
* Model: a chat call and a search, one retry, every setting of `main.go` and
  every combination of refusals; rests of one to three units, and pauses asked
  for that are below and above the limit. The proofs of the two invariants
  remove these.
* Refund links: two refunds and one purchase, because a list of waiting refunds
  has to hold two for the second to be forgotten; one change of a reference or
  reclassification after the start (any references at the start); one failure;
  two links made by hand, one of them to something else. The two requests are
  interchangeable, so their permutations are a symmetry.

Runs with liveness use no symmetry. Deadlock is checked in every run but
`refund_match`, `deck` and `places`: there, what the person does is bounded,
and the system may rest when everything has been answered.

### Fairness, and what justifies it

* Broker: strong fairness of taking the mutex (Go's `sync.Mutex` gives it to a
  waiter after 1 ms of starvation), weak fairness of Fold's answer *or* the
  client's timeout, of the writes, and of the ticker. No fairness that Fold
  accepts.
* Push: weak fairness of each step of a request; Firefly's answer *or* the
  timeout.
* Review: weak fairness of the hourly job's listing and of each started job.
  `PendingIsClassified` also assumes that deferrals and crashes stop at some
  point; the person never has to do anything.
* Fold sync: strong fairness of the loop's next tick and of its turn for the
  connection (`database/sql` serves waiting requests in order), weak fairness
  of a walk's own steps. Neither the operator nor Fold has to do anything.
  `MaxFailures` bounds failures.
* Refund matching: weak fairness of the hourly `MatchRefunds` and of a job's
  own steps.
* Deck: weak fairness of the timers of an open page; a page that is left has
  flushed them. Nothing is assumed of the server.
* Places: weak fairness of the picker's timer, of each request's steps (an
  answer *or* a timeout) and of each search's.
* Model: weak fairness of time and of each call's steps. `RestEnds` assumes
  that the host stays well from some moment on. From then on no failure
  lengthens a rest; what can keep it from ending is a rest that was set wrongly
  before.

## 5. What is proved

Every theorem holds for all values of the constants under the assumptions
named in the modules (`ConstantsAssumption`, `ValuesAssumption`,
`PushAssumption`, `ReviewAssumption`, `SyncAssumption`, `LinkAssumption`,
`PlacesAssumption`, `ClientAssumption`, `DeckAssumption`, `KindAssumption`,
`LadderAssumption`, `MatchAssumption`); TLC
evaluates each of them on every run of its module. They say that bounds are
numbers, that markers such as `nobody` are none of the things they mark the
absence of, in `SyncAssumption` that Fold's order agrees with its timestamps
(Fold answers newest first), and in `MatchAssumption` that there are finitely
many refunds, so that what they claim has a sum. Names of accounts need not be
unique: where the code takes the first of several, the models take any one of
them, always the same of the same set. Four
theorems have a further hypothesis, named in their statement: `OneAtATime`,
and `NewName /\ TwoAccounts /\ FreshNames` of `StepsLeadOn`.

Every type invariant and every safety property of the passing runs is the
statement of a theorem, by the component:

**Broker** (`BrokerProofs`): type correctness, `Serialised`, `NoStaleRefresh`,
`ChainIsKept`, `TombstonesAreTruthful`, `DiskMovesForward`, `TombstonesStay`,
`BuriedWithReason`, `AnswersArePersisted`.
The inductive invariant has two layers. `Shape`: a process is in the section
exactly if the mutex names it, and what it holds fits its label. `Ledger`: file
and memory agree, no token is newer than Fold's head, an answer still under way
is exactly one ahead of the token it was asked with unless the chain is broken.
Without `Shape` none of `Ledger` is inductive, since a second process in the
section could write between.

**Push** (`ReviewProofs`): type correctness, `PushedRowsAreBooked` and
`JournalsAreKept` hold with any number of senders and any faults, from `Ties`:
every journal a request is about to record, or a row has, is in Firefly.
`NoDoubleBooking` and `PushImplementsBooking` hold under `OneAtATime` (one
sender, no create that outlives it) from `Single`: while a request is about to
create, Firefly has nothing, because the search that said so is still true. The
two ways this assumption fails are the run `push_late_retry` and two senders at
once.

**Review** (`ReviewProofs`): every statement of the person and the engine is,
to the push, a write of somebody else that keeps the journal and makes no row
pushed (`OwnWritesKeep`), so `Ties` and `Single` carry over
(`ReviewedRowsAreBooked`, `NoDoubleBookingUnderReview`). `HandsOff`, a row added
by hand is the person's *and* no job has it, gives `ManualRowsAreThePersons`;
the second half is what makes it inductive against jobs that write late.
`ReviewTypeCorrect` adds that a request of the person and a job is always at a
step of its own (`TabsTyped`, `JobsTyped`).

**Fold sync** (`FoldSyncProofs`): `SyncTypeCorrect`, `WalksAreComplete`,
`DecisionsStand`. The invariant says of an open walk that everything Fold had at
its beginning, newer than its cutoff, is either still ahead of its cursor or in
the rows of its transaction with at least that amount (`Promised`, `Progress`);
that cursor only moves past what the page contained is a lemma about the newest
`n` of a finite set (`PassedIsInPage`), proved from `NewestIsUpward` and
`NewestHasOne`.

**Refund links** (`RefundLinkProofs`): `LinkTypeCorrect`, `LinksAreTrue`,
`CompletePairsAreLinked`. The last is the argument of two flags: each side first
marks itself pushed and then looks for the other, so of two concurrent sends
one must see the other. `OnItsWay` states what is left of it at every moment: a
refund that is owed its link is linked, or some request has it before it - as
the one it is linking (with a reference that is still the row's), in its list,
or as a refund of the row it has sent and not asked about yet. The claim is
about refunds whose pair was complete when the later side was sent or the
button pressed, and from then on until the reference changes, a side is
reopened, or the request that has it fails; the code promises no more.

**Refund matching** (`RefundMatchProofs`): `MatchTypeCorrect`,
`ProposalsAreKept`, `OverclaimsAreExplained`. A job reads the claims, chooses,
and writes later. `MatchIInv` says of what a job holds that it is `Choosable`
with the claims *it read*; so when those are still the claims at the write, the
others that claim the purchase are exactly the ones it summed
(`OthersWereSummed`), and the purchase is not overclaimed by that write. Every
other way to come to overclaim is one the property lists: `OnlyWritesOverclaim`
takes them one by one, over two facts of sums, that a total shrinks with its set
and grows by one refund's amount (`TotalGrows`, `TotalAdds`). The attempt to
prove it showed that `Overclaimed`, as first stated, could come true because a
*grouped* claimant left; it counts the ungrouped refunds alone, since a group
of Fold's is given whatever it adds up to (`pickRefundCandidate`).

**Card and ladder** (`LadderProofs`): `KindTypeCorrect`, `OwnSideIsFolds`,
`CardsShowWhatIsSent`, `ReadyCardsAreBookable`, `EditsAreWholeAfterSaving`,
`StepsLeadOn`. The mirror of accounts changes at any time, so none of these is
about the state in which the person or the engine decided. `IInv` has what
survives it: a choice is an account or a name, never both (`Choice`, in the
types: the card reads the two columns each by itself and push reads the side as
a unit, and only on such sides do they agree); a name proposed for the own side
is Fold's (`Pinned`); a chosen account has a name, so that nothing later hides
it (`Chosen`); an account that nobody has a name for yet was proposed without
one, or with the one that the mirror will give it (`Named`); and the mirror
loses nothing, archives only what Firefly closes and has every account by a name
that Firefly gave it (`Mirrored`). `OwnSideIsFolds` is about steps: the account
that a step proposes is called as Fold calls it then, whatever it is called
later. `ReadyCardsAreBookable` splits on whose the two sides are, as `TypesFor`
and `CheckType` do, and names what is left of the code's promise: everything but
an account archived on the other side (`ToArchived`). `StepsLeadOn`, that the
button's next step always has something to offer and taking it gets on, needs
that a person can type a name which no account has or gets, that they have two
accounts of their own that are not archived, of different names (without which
the step "to which account" has no answer), and that no account is renamed to
what another is called.

**Deck** (`DeckProofs`): `DeckTypeCorrect`, `SwipesAreAskedOnce`,
`HandShowsItsPile`, `NothingIsDecidedTwice`, `ReadingAheadSkipsNone`.
`Sound` is the invariant in four parts: the server's rows (`World`), the page
and a hand without repetition (`Page`), loads that count only if they are of the
pile shown and read on where it has come (`Loads`), and decisions of which a
waiting one is neither sent nor taken back, whichever of the timer, the leaving
of the page and the undo comes first (`Swipes`). `NothingIsDecidedTwice` needs
`Twice` and `Out` together - of two decisions of a card the earlier is settled,
and an unsettled card is out of the hand, a Later that was taken back and then
failed excepted - and that no step but a swipe makes a decision unsettled again
(`Onward`). `ReadingAheadSkipsNone` is `Owing`: every card owed is in hand, or a
decision will bring it back, or it is ahead of the cursor; and an answer on its
way has it or a place before it. What the hand keeps of an answer (`Keep`, a
fold) is known for every length by induction on the set of prefixes
(`AllNumbers`, `PrefixesExist`).

**Places** (`PlacesProofs`): `PlacesTypeCorrect`, `OnlyFittingOffers`,
`KnownPlacesAreNotSearched`. An offer that fits was once only an answer on its
way, so `IInv` says of each request still under way which text it was asked for
(`Carried`), of what the page keeps that it fits that text (`Kept`), of the
screen that it was filtered by what is typed (`OnScreen`), and of the lookup it
waits on that it belongs to the text it remembers (`Waited`). For the lookups,
`Unknown`: a request about to start a search, neither late nor given up, still
knows nothing of its place, or a search of it is under way; that no step but its
own looking brings a request there (`NoneComes`) makes it inductive.

**Model client** (`PlacesProofs`): `ClientTypeCorrect`, `RefusalsAreLearnt`,
`RestsAreEarned`. A call that was told of a refusal has left it out since, and
so has every call that began after any other was told. `Lengths` has that a
rest is never longer than the longest of the limits, whatever the host asks
for, and that no call gets more tries than it was given.

**Only model-checked.** Liveness (`Answered`, `KeptWarm`, `SendEnds`,
`PendingIsClassified`, `GapIsFilled`, `LatePurchaseIsFound`, `SwipeIsSent`,
`PickerSettles`, `RestEnds`): it rests on fairness, so on ENABLED, which is out
of the prover's reach. The two runs that expect a violation refute a statement
and have nothing to prove.

## 6. What is not modelled

* Contents: descriptions, categories, prompts, scores, the wire formats of
  Fold, Firefly and the model, text matching, rounding. The steps at which
  rupees become paise (`fold_sync.go:541`) and dates are compared as text
  (`fold_sync.go:322`) are of this kind.
* In `Review` a decision is any value; which one the ladder finds is `Ladder`'s
  and `RefundMatch`'s. The modules are not composed: a product of the deck, the
  card, the row and the jobs is out of reach, and each of them meets the others
  only in a row's status, sides and reference.
* The mirror (`SyncAll`): it runs only from an operator's endpoint, in one
  transaction of the one connection, so that an eager mirror of one journal
  waits; what can be stale is the listing it made before, and the next full
  sync is the only repair. `FoldSync` has the mirror's newest date,
  `RefundMatch` the arrival of a purchase in it, `CardKind` its accounts, their
  archiving and their names. An account that Firefly deletes stays in the mirror,
  and what is then sent to it is Firefly's to refuse.
* Learning: its use counts and aliases only order suggestions, and no promise
  of the repository relates them to another part's state.
* Fold's recent mode and amounts refreshed during a push
  (`fold_sync.go:61`, `:459`): `FoldSync` has the first as `RecentLists` and
  `RecentStages`, without a property about stale amounts; the second would need a row's
  amount in `Push`.
* The browser's cache of answers and the times that outlast a picker; gestures,
  rendering and the sheets besides the payee's.
* Whereabouts, page options, sureness and formatting: they read and render.
* Configuration, start-up and the read-only switch, which turns off Push and
  linking as a whole.
* A row is one row throughout `Push` and `Review`: pushes of different rows
  share nothing but the connection, except through refund links and claims,
  which have their own modules. In `RefundLink` a send is the tail of a push
  that succeeded; in `FoldSync` a decision on a row is one step.
