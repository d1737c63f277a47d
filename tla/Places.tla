------------------------------- MODULE Places -------------------------------
(***************************************************************************)
(* Naming who was paid (classifier/places.go, places_lookup.go, the two    *)
(* handlers of ui/engine.go, openPayee of review.js): a picker in which    *)
(* someone types, the questions it asks, the server's answers from a model *)
(* with few slots and a cache, and the web lookups that go on in the       *)
(* background, kept in memory and in a table.                              *)
(*                                                                         *)
(* One card and one picker. A name is a value with the texts it fits; the  *)
(* order of a list and the wording of prompts are left out, and so are the *)
(* browser's own ten minutes of cache and the times that outlast a picker: *)
(* the quarter of an hour of an answer, the hours after a refusal and the  *)
(* days after which what was found is looked up again.                     *)
(***************************************************************************)
EXTENDS Naturals, FiniteSets

CONSTANTS
    Text,        \* what may be typed, long enough to ask about
    Short,       \* anything shorter, or the name the card has
    Name,        \* names the model or a search may come up with
    Fits,        \* the texts each name completes or corrects
    Mine,        \* the names that are payees already
    Placed,      \* the names that say where
    Key,         \* places to look up
    KeyOf,       \* the place each name is a name of, or NoKey
    NoKey,
    KeyTyped,    \* the place a text is the whole name of, or NoKey
    Branches,    \* what a search that finds the place names
    Raw,         \* what the model may answer
    Req,         \* requests the server may be busy with at once
    Slots,       \* placesSlots
    MaxTyped,    \* how often the text changes
    MaxUpsets    \* restarts, expiries and lost writes in a behaviour

ASSUME PlacesAssumption ==
    /\ Fits \in [Name -> SUBSET Text] /\ Short \notin Text
    /\ Mine \subseteq Name /\ Placed \subseteq Name
    /\ KeyOf \in [Name -> Key \cup {NoKey}] /\ NoKey \notin Key
    /\ KeyTyped \in [Text -> Key \cup {NoKey}]
    /\ Branches \in [Key -> SUBSET Name] /\ Raw \subseteq SUBSET Name
    /\ 0 \notin Req /\ Slots \in Nat \ {0} /\ MaxTyped \in Nat /\ MaxUpsets \in Nat

VARIABLES
    text,       \* what the box says
    picker,     \* timer, the two questions under way (ctrl, lctrl), loading,
                \* lookingUp, and the items with the text they answer (forQ)
    seen,       \* the answers this picker has had, with the lookup they wait for
    req,        \* the requests
    cache,      \* placesCache: the answers and their plans
    mem, table, \* lookupStore.mem and place_lookups
    search,     \* the searches under way (lookupStore.inflight)
    off,        \* the host refused to search (offUntil)
    typed,      \* how often the text has changed
    upsets,     \* restarts, expiries and lost writes so far
    late        \* requests that looked before a search of their place ended
vars == <<text, picker, seen, req, cache, mem, table, search, off, typed, upsets, late>>

NotSeen == [items |-> {}, lookup |-> "unseen"]
NoEntry == [items |-> {}, plan |-> NoKey, quiet |-> FALSE, kept |-> FALSE]
NoReq == [pc |-> "idle", kind |-> "places", q |-> Short, gone |-> FALSE,
          items |-> {}, lookup |-> "", plan |-> NoKey, quiet |-> FALSE]
Lookups == {"", "pending", "checking"}

TypeOK ==
    /\ text \in Text \cup {Short}
    /\ picker \in [timer: BOOLEAN, ctrl: Req \cup {0}, loading: BOOLEAN, forQ: Text \cup {Short},
                   items: SUBSET Name, lctrl: Req \cup {0}, lookingUp: BOOLEAN]
    /\ seen \in [Text -> [items: SUBSET Name, lookup: Lookups \cup {"unseen"}]]
    /\ req \in [Req -> [pc: {"idle", "new", "slot", "model", "looks", "starts", "waits", "answers", "broken"},
                        kind: {"places", "lookup"}, q: Text \cup {Short}, gone: BOOLEAN,
                        items: SUBSET Name, lookup: Lookups, plan: Key \cup {NoKey}, quiet: BOOLEAN]]
    /\ cache \in [Text -> [items: SUBSET Name, plan: Key \cup {NoKey}, quiet: BOOLEAN, kept: BOOLEAN]]
    /\ mem \in [Key -> {"none", "failed", "missed", "found"}]
    /\ table \in [Key -> {"none", "missed", "found"}]
    /\ search \in [Key -> {"idle", "asks", "missed", "found", "ends"}]
    /\ off \in BOOLEAN /\ typed \in 0..MaxTyped /\ upsets \in 0..MaxUpsets /\ late \subseteq Req

Init ==
    /\ text = Short
    /\ picker = [timer |-> FALSE, ctrl |-> 0, loading |-> FALSE, forQ |-> Short,
                 items |-> {}, lctrl |-> 0, lookingUp |-> FALSE]
    /\ seen = [q \in Text |-> NotSeen]
    /\ req = [r \in Req |-> NoReq]
    /\ cache = [q \in Text |-> NoEntry]
    /\ mem = [k \in Key |-> "none"]
    /\ table = [k \in Key |-> "none"]
    /\ search = [k \in Key |-> "idle"]
    /\ off = FALSE /\ typed = 0 /\ upsets = 0 /\ late = {}

server == <<cache, mem, table, search, off>>

----------------------------------------------------------------------------
(* The picker *)

Fitting(names, q) == {n \in names : q \in Fits[n]}

\* the requests with those the picker gives up cancelled: an answer on its
\* way is dropped, a handler may notice later
Aborted(given) ==
    [r \in Req |-> CASE r \notin given -> req[r]
                     [] req[r].pc \in {"idle", "answers", "broken"} -> NoReq
                     [] OTHER -> [req[r] EXCEPT !.gone = TRUE]]

\* a place for the next request (which does not matter)
Idle == {r \in Req : req[r].pc = "idle"}
Free == {r \in Idle : \A other \in Idle : r <= other}

Question(kind, q) == [NoReq EXCEPT !.pc = "new", !.kind = kind, !.q = q]

\* the second question, in place of r: the answer once the search is in
AskLookup(p, r, q, lookup) == [p EXCEPT !.lctrl = r, !.lookingUp = lookup = "pending"]
StopLookup(p) == [p EXCEPT !.lctrl = 0, !.lookingUp = FALSE]

Typed(q) == typed < MaxTyped /\ typed' = typed + 1 /\ text' = q
Upset == upsets < MaxUpsets /\ upsets' = upsets + 1

Given == {picker.ctrl, picker.lctrl}

\* too little is typed to ask about: both questions are dropped
TypesShort ==
    /\ text # Short /\ Typed(Short)
    /\ picker' = StopLookup([picker EXCEPT !.timer = FALSE, !.ctrl = 0, !.loading = FALSE])
    /\ req' = Aborted(Given)
    /\ UNCHANGED <<seen, upsets, late, server>>

\* back to the text whose answer is on screen
TypesBack(q) ==
    /\ q # text /\ Typed(q)
    /\ q = picker.forQ /\ ~picker.loading
    /\ picker' = [picker EXCEPT !.timer = FALSE]
    /\ UNCHANGED <<seen, req, upsets, late, server>>

\* a text answered before in this picker: at once, its lookup waited on again
TypesSeen(q) ==
    /\ q # text /\ Typed(q)
    /\ ~(q = picker.forQ /\ ~picker.loading) /\ seen[q] # NotSeen
    /\ \E p \in {[picker EXCEPT !.timer = FALSE, !.ctrl = 0, !.items = seen[q].items, !.forQ = q, !.loading = FALSE]} :
          IF seen[q].lookup = ""
          THEN /\ picker' = StopLookup(p)
               /\ req' = Aborted(Given)
          ELSE \E r \in Free :
               /\ picker' = AskLookup(p, r, q, seen[q].lookup)
               /\ req' = [Aborted(Given) EXCEPT ![r] = Question("lookup", q)]
    /\ UNCHANGED <<seen, upsets, late, server>>

\* a new text: asked about once the typing pauses
TypesNew(q) ==
    /\ q # text /\ Typed(q)
    /\ ~(q = picker.forQ /\ ~picker.loading) /\ seen[q] = NotSeen
    /\ picker' = [picker EXCEPT !.timer = TRUE]
    /\ UNCHANGED <<seen, req, upsets, late, server>>

\* it does not stop a lookup that is still awaited
AskPlaces_KeepsLookup ==
    /\ picker.timer
    /\ \E r \in Free :
        /\ picker' = [picker EXCEPT !.timer = FALSE, !.ctrl = r, !.loading = TRUE]
        /\ req' = [Aborted({picker.ctrl}) EXCEPT ![r] = Question("places", text)]
    /\ UNCHANGED <<text, seen, typed, upsets, late, server>>

\* askPlaces, when the timer of schedulePlaces fires
AskPlaces ==
    /\ picker.timer
    /\ \E r \in Free :
        /\ picker' = StopLookup([picker EXCEPT !.timer = FALSE, !.ctrl = r, !.loading = TRUE])
        /\ req' = [Aborted(Given) EXCEPT ![r] = Question("places", text)]
    /\ UNCHANGED <<text, seen, typed, upsets, late, server>>

\* the first answer arrives; a lookup it announces is asked for
PlacesArrive(r) ==
    /\ req[r].pc = "answers" /\ r = picker.ctrl
    /\ \E q \in {req[r].q}, p \in {[picker EXCEPT !.ctrl = 0, !.items = req[r].items, !.forQ = req[r].q, !.loading = FALSE]} :
        /\ seen' = [seen EXCEPT ![q] = [items |-> req[r].items, lookup |-> req[r].lookup]]
        /\ IF req[r].lookup = ""
           THEN picker' = p /\ req' = [req EXCEPT ![r] = NoReq]
           ELSE /\ picker' = AskLookup(p, r, q, req[r].lookup)
                /\ req' = [req EXCEPT ![r] = Question("lookup", q)]
    /\ UNCHANGED <<text, typed, upsets, late, server>>

\* the second answer: what is new goes below what is there
LookupArrives(r) ==
    /\ req[r].pc = "answers" /\ r = picker.lctrl
    /\ \E q \in {req[r].q}, merged \in {picker.items \cup req[r].items} :
        /\ seen' = [seen EXCEPT ![q] = [items |-> merged, lookup |-> ""]]
        /\ picker' = StopLookup([picker EXCEPT !.items = IF picker.forQ = q THEN merged ELSE @])
    /\ req' = [req EXCEPT ![r] = NoReq]
    /\ UNCHANGED <<text, typed, upsets, late, server>>

\* the server went away: the fetch is rejected
FetchFails(r) ==
    /\ req[r].pc = "broken"
    /\ picker' = CASE r = picker.ctrl -> [picker EXCEPT !.ctrl = 0, !.loading = FALSE]
                   [] OTHER -> StopLookup(picker)
    /\ req' = [req EXCEPT ![r] = NoReq]
    /\ UNCHANGED <<text, seen, typed, upsets, late, server>>

----------------------------------------------------------------------------
(* The server's answer *)

browser == <<text, picker, seen>>

\* r is answered with these names, and the lookup it announces; the answer
\* to a request that was given up goes nowhere
Answers(r, names, lookup) ==
    req' = [req EXCEPT ![r] = IF @.gone THEN NoReq
                              ELSE [NoReq EXCEPT !.pc = "answers", !.kind = req[r].kind, !.q = req[r].q,
                                                 !.items = names, !.lookup = lookup]]

Nothing(r) == Answers(r, {}, "")

\* r has the model's answer e, from the cache or from the model
Has(r, e) ==
    IF e.plan = NoKey THEN Answers(r, e.items, "")
    ELSE req' = [req EXCEPT ![r].pc = "looks", ![r].items = e.items, ![r].plan = e.plan, ![r].quiet = e.quiet]

\* from the cache; else the model is asked unless it rests, for a row that
\* can still be read
Begins(r) ==
    /\ req[r].pc = "new"
    /\ IF cache[req[r].q].kept THEN Has(r, cache[req[r].q])
       ELSE \/ Nothing(r)
            \/ ~req[r].gone /\ req' = [req EXCEPT ![r].pc = "slot"]
    /\ UNCHANGED <<browser, typed, upsets, late, server>>

Busy == {r \in Req : req[r].pc = "model"}

TakesSlot(r) ==
    /\ req[r].pc = "slot"
    /\ Cardinality(Busy) < Slots
    /\ req' = [req EXCEPT ![r].pc = "model"]
    /\ UNCHANGED <<browser, typed, upsets, late, server>>

\* a cancelled request ends while it waits for a slot, or in the model's call
GivesUp(r) ==
    /\ req[r].gone
    /\ req[r].pc \in {"slot", "model"}
    /\ Nothing(r)
    /\ UNCHANGED <<browser, typed, upsets, late, server>>

\* planLookup: the first new place the answer names, unless a payee of theirs
\* comes before it; with no answer at all, the name typed if it is a whole one
Plans(names, q) ==
    LET new == {n \in names : KeyOf[n] # NoKey} IN
    {[plan |-> KeyOf[n], quiet |-> n \in Placed] : n \in new}
      \cup IF names = {} THEN {[plan |-> KeyTyped[q], quiet |-> FALSE]}
           ELSE IF new = {} \/ names \cap Mine # {} THEN {[plan |-> NoKey, quiet |-> FALSE]} ELSE {}

\* the model answers a request that is still wanted, or it fails or rests
ModelAnswers(r) ==
    /\ req[r].pc = "model" /\ ~req[r].gone
    /\ \E raw \in Raw : \E names \in {Fitting(raw, req[r].q)} : \E p \in Plans(names, req[r].q) :
        \E e \in {[items |-> names, plan |-> p.plan, quiet |-> p.quiet, kept |-> TRUE]} :
            /\ cache' = [cache EXCEPT ![req[r].q] = e]
            /\ Has(r, e)
    /\ UNCHANGED <<browser, mem, table, search, off, typed, upsets, late>>

ModelFails(r) ==
    /\ req[r].pc = "model"
    /\ Nothing(r)
    /\ UNCHANGED <<browser, typed, upsets, late, server>>

----------------------------------------------------------------------------
(* The lookup *)

\* only what this process has seen
Known_MemoryOnly(k, gone) == mem[k]

\* what is known of a place: from memory, else from the table, which a
\* cancelled request cannot read
Known(k, gone) == IF mem[k] # "none" THEN mem[k] ELSE IF gone THEN "none" ELSE table[k]

\* what r answers once it knows, in the picker's words
Grounded(r, facts) ==
    req[r].items \cup IF facts = "found" THEN Fitting(Branches[req[r].plan], req[r].q) ELSE {}

\* withLookup, first half: is it known?
Looks(r) ==
    /\ req[r].pc = "looks"
    /\ \E k \in {req[r].plan} : \E facts \in {Known(k, req[r].gone)} :
        /\ mem' = [mem EXCEPT ![k] = facts]
        /\ IF facts = "none" THEN req' = [req EXCEPT ![r].pc = "starts"]
           ELSE Answers(r, Grounded(r, facts), "")
    /\ late' = late \ {r}
    /\ UNCHANGED <<browser, cache, table, search, off, typed, upsets>>

\* startLookup, unless the host refuses to search or a search is under way;
\* then a first question is answered, a second one waits
Starts(r) ==
    /\ req[r].pc = "starts"
    /\ \E k \in {req[r].plan} :
        IF off THEN Answers(r, req[r].items, "") /\ search' = search
        ELSE /\ search' = [search EXCEPT ![k] = IF @ = "idle" THEN "asks" ELSE @]
             /\ IF req[r].kind = "lookup" THEN req' = [req EXCEPT ![r].pc = "waits"]
                ELSE Answers(r, req[r].items, IF req[r].quiet THEN "checking" ELSE "pending")
    /\ UNCHANGED <<browser, cache, mem, table, off, typed, upsets, late>>

\* awaitLookup: the search has ended
Awaits(r) ==
    /\ req[r].pc = "waits" /\ search[req[r].plan] = "idle"
    /\ \E k \in {req[r].plan} : \E facts \in {Known(k, req[r].gone)} :
        /\ mem' = [mem EXCEPT ![k] = facts]
        /\ Answers(r, Grounded(r, facts), "")
    /\ UNCHANGED <<browser, cache, table, search, off, typed, upsets, late>>

\* the picker gave up waiting
StopsWaiting(r) ==
    /\ req[r].pc = "waits" /\ req[r].gone
    /\ Answers(r, req[r].items, "")
    /\ UNCHANGED <<browser, typed, upsets, late, server>>

\* what the search brought is remembered first, then kept in the table
SearchAnswers(k) ==
    /\ search[k] = "asks"
    /\ \E facts \in {"found", "missed"} :
        /\ mem' = [mem EXCEPT ![k] = facts]
        /\ search' = [search EXCEPT ![k] = facts]
    /\ UNCHANGED <<browser, req, cache, table, off, typed, upsets, late>>

Keeps(k) ==
    /\ search[k] \in {"found", "missed"}
    /\ table' = [table EXCEPT ![k] = search[k]]
    /\ search' = [search EXCEPT ![k] = "ends"]
    /\ UNCHANGED <<browser, req, cache, mem, off, typed, upsets, late>>

\* the table could not be written: its error is ignored
KeepFails(k) ==
    /\ search[k] \in {"found", "missed"}
    /\ Upset
    /\ search' = [search EXCEPT ![k] = "ends"]
    /\ UNCHANGED <<browser, req, cache, mem, table, off, typed, late>>

\* a failed search counts as known for a while; a host that has no search is
\* not asked again for some hours
SearchFails(k) ==
    /\ search[k] = "asks"
    /\ off' \in {off, TRUE}
    /\ mem' = [mem EXCEPT ![k] = "failed"]
    /\ search' = [search EXCEPT ![k] = "ends"]
    /\ UNCHANGED <<browser, req, cache, table, typed, upsets, late>>

\* a search that failed leaves its waiters waiting
SearchEnds_OnSuccess(k) ==
    /\ search[k] = "ends" /\ mem[k] # "failed"
    /\ search' = [search EXCEPT ![k] = "idle"]
    /\ late' = late \cup {r \in Req : req[r].pc = "starts" /\ req[r].plan = k}
    /\ UNCHANGED <<browser, req, cache, mem, table, off, typed, upsets>>

\* it leaves inflight and lets its waiters go
SearchEnds(k) ==
    /\ search[k] = "ends"
    /\ search' = [search EXCEPT ![k] = "idle"]
    /\ late' = late \cup {r \in Req : req[r].pc = "starts" /\ req[r].plan = k}
    /\ UNCHANGED <<browser, req, cache, mem, table, off, typed, upsets>>

----------------------------------------------------------------------------
(* Time and restarts *)

\* ten minutes have passed
FailureExpires(k) ==
    /\ Upset
    /\ mem[k] = "failed"
    /\ mem' = [mem EXCEPT ![k] = "none"]
    /\ UNCHANGED <<browser, req, cache, table, search, off, typed, late>>

\* the process ends and starts again: only the table is left
Restart ==
    /\ Upset
    /\ req' = [r \in Req |-> IF r \in Given THEN [NoReq EXCEPT !.pc = "broken"] ELSE NoReq]
    /\ cache' = [q \in Text |-> NoEntry]
    /\ mem' = [k \in Key |-> "none"]
    /\ search' = [k \in Key |-> "idle"]
    /\ off' = FALSE /\ late' = {}
    /\ UNCHANGED <<browser, table, typed>>

----------------------------------------------------------------------------
Types == TypesShort \/ \E q \in Text : TypesBack(q) \/ TypesSeen(q) \/ TypesNew(q)

Serves(r) ==
    \/ Begins(r) \/ TakesSlot(r) \/ GivesUp(r) \/ ModelAnswers(r) \/ ModelFails(r)
    \/ Looks(r) \/ Starts(r) \/ Awaits(r) \/ StopsWaiting(r)
    \/ PlacesArrive(r) \/ LookupArrives(r) \/ FetchFails(r)

Searches(k) == SearchAnswers(k) \/ Keeps(k) \/ KeepFails(k) \/ SearchFails(k) \/ SearchEnds(k)

Next ==
    \/ Types \/ AskPlaces
    \/ \E r \in Req : Serves(r)
    \/ \E k \in Key : Searches(k) \/ FailureExpires(k)
    \/ Restart

\* timers fire, each call has a deadline, handlers run on; nobody has to type
Fairness ==
    /\ WF_vars(AskPlaces)
    /\ \A r \in Req : WF_vars(Serves(r))
    /\ \A k \in Key : WF_vars(Searches(k))

Spec == Init /\ [][Next]_vars /\ Fairness

----------------------------------------------------------------------------
(* Properties *)

Shown == {n \in picker.items : picker.forQ = text \/ text \in Fits[n]}

\* Nothing is offered, or remembered for a text, that does not complete or
\* correct it (places.go fitting, review.js stillFits), whichever of the
\* answers to earlier texts and of the lookups started for them come late.
OffersFit ==
    /\ text # Short => Shown = Fitting(Shown, text)
    /\ \A q \in Text : seen[q].items = Fitting(seen[q].items, q)

\* A place that is known, or whose search failed a moment ago, is searched
\* for again only by a request that looked before that search had ended, or
\* one that was given up and could not read the table: not after a restart,
\* for another text, or by the second question.
SearchedAgainOnlyByRace ==
    [][\A k \in Key : search[k] = "idle" /\ search'[k] = "asks" =>
          \/ mem[k] = "none" /\ table[k] = "none"
          \/ \E r \in Req : /\ req[r].pc = "starts" /\ req'[r].pc # "starts" /\ req[r].plan = k
                            /\ req[r].gone \/ r \in late]_vars

\* Once the typing stops, the picker stops looking: an answer or a failure
\* comes, whatever the requests given up before hold, and "Looking it up
\* online" goes away.
PickerSettles == <>[](~picker.timer /\ ~picker.loading /\ ~picker.lookingUp)

\* The text in the box was answered with a lookup under way: the picker waits
\* for it, as it says it does for a text typed before (review.js:1428).
LookupIsWaitedOn ==
    text # Short /\ text = picker.forQ /\ ~picker.timer /\ ~picker.loading /\ seen[text].lookup # ""
        => picker.lctrl # 0
=============================================================================
