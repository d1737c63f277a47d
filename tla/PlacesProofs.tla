---------------------------- MODULE PlacesProofs ----------------------------
(***************************************************************************)
(* What is proved of naming who was paid: of the picker and its lookups    *)
(* (Places.tla), and of the model's client that answers it and everybody   *)
(* else (LLMClient.tla).                                                   *)
(*                                                                         *)
(* The picker offers only what fits, for any texts, names, places,         *)
(* requests and slots, any number of keystrokes and restarts, and whatever *)
(* the model and the searches answer.  OffersFit is not inductive.  A      *)
(* second answer is merged into the items on screen and remembered for its *)
(* own text, so the request the picker waits for must be about the text    *)
(* those items answer (Waited); and what is on its way, or in the server's *)
(* cache, must fit what it was asked for (Carried).                        *)
(*                                                                         *)
(* A place is searched again only by a race: what a request found out when *)
(* it looked is still true when it starts a search (Unknown).              *)
(*                                                                         *)
(* The client's promises hold for any number of calls of both kinds, any   *)
(* settings of main.go, any model and any lengths of the rests.            *)
(* RefusedOnce is not inductive: a call could be refused again if its body *)
(* did not show what it was told (BodyIsLearnt).                           *)
(***************************************************************************)
EXTENDS Places, LLMClient, TLAPS

ReqState == [pc: {"idle", "new", "slot", "model", "looks", "starts", "waits", "answers", "broken"},
             kind: {"places", "lookup"}, q: Text \cup {Short}, gone: BOOLEAN,
             items: SUBSET Name, lookup: Lookups, plan: Key \cup {NoKey}, quiet: BOOLEAN]
PickerState == [timer: BOOLEAN, ctrl: Req \cup {0}, loading: BOOLEAN, forQ: Text \cup {Short},
                items: SUBSET Name, lctrl: Req \cup {0}, lookingUp: BOOLEAN]
SeenState == [items: SUBSET Name, lookup: Lookups \cup {"unseen"}]
CacheState == [items: SUBSET Name, plan: Key \cup {NoKey}, quiet: BOOLEAN, kept: BOOLEAN]

Shape ==
    /\ text \in Text \cup {Short}
    /\ picker \in PickerState
    /\ seen \in [Text -> SeenState]
    /\ cache \in [Text -> CacheState]

Fit(names, q) == \A n \in names : q \in Fits[n]

(* A request with what it carries; one that looks a place up has a place. *)
Good(b) ==
    /\ b \in ReqState
    /\ Fit(b.items, b.q)
    /\ b.pc \notin {"idle", "broken"} => b.q \in Text
    /\ b.pc \in {"looks", "starts", "waits"} => b.plan # NoKey

Carried == req \in [Req -> ReqState] /\ \A r \in Req : Good(req[r])
Kept == \A q \in Text : Fit(seen[q].items, q) /\ Fit(cache[q].items, q)
OnScreen == Fit(picker.items, picker.forQ)

(* What a request that the picker waits for, as its second question, says. *)
About(b, q) == b.pc # "idle" /\ ~b.gone /\ (b.pc = "broken" \/ b.q = q)
Waited ==
    /\ picker.timer => text \in Text
    /\ picker.ctrl # 0 => picker.lctrl = 0
    /\ picker.lctrl # 0 => About(req[picker.lctrl], picker.forQ)

IInv == Shape /\ Carried /\ Kept /\ OnScreen /\ Waited

LEMMA NoReqIsGood == Good(NoReq) /\ NoReq.pc = "idle"
BY DEF Good, NoReq, ReqState, Fit, Lookups

LEMMA QuestionIsGood ==
    ASSUME NEW kind \in {"places", "lookup"}, NEW q \in Text
    PROVE  Good(Question(kind, q)) /\ About(Question(kind, q), q)
BY DEF Good, Question, NoReq, ReqState, Fit, Lookups, About

(* What fits is offered, and only that. *)
LEMMA FitIsShown == IInv => OffersFit
<1> SUFFICES ASSUME IInv PROVE OffersFit
    OBVIOUS
<1>1. text # Short => Shown = Fitting(Shown, text)
    BY DEF IInv, OnScreen, Fit, Shown, Fitting
<1>2. ASSUME NEW q \in Text PROVE seen[q].items = Fitting(seen[q].items, q)
    BY DEF IInv, Kept, Fit, Fitting
<1>3. QED
    BY <1>1, <1>2 DEF OffersFit

LEMMA InitFits == Init => IInv
<1> SUFFICES ASSUME Init PROVE IInv
    OBVIOUS
<1>1. Shape
    BY DEF Init, Shape, PickerState, SeenState, CacheState, NotSeen, NoEntry, Lookups
<1>2. Carried
    BY NoReqIsGood DEF Init, Carried, Good
<1>3. Kept
    BY DEF Init, Kept, Fit, NotSeen, NoEntry
<1>4. OnScreen
    BY DEF Init, OnScreen, Fit
<1>5. Waited
    BY DEF Init, Waited
<1>6. QED
    BY <1>1, <1>2, <1>3, <1>4, <1>5 DEF IInv

----------------------------------------------------------------------------
(* The server *)

(* One request moves on, and still is about what it was asked for. *)
LEMMA OneMoves ==
    ASSUME IInv, NEW r \in Req, NEW b, Good(b), req' = [req EXCEPT ![r] = b],
           UNCHANGED browser, cache' \in [Text -> CacheState],
           \A q \in Text : Fit(cache'[q].items, q),
           req[r].pc # "broken",
           ~req[r].gone => b.pc # "idle" /\ ~b.gone /\ b.q = req[r].q
    PROVE  IInv'
<1> USE DEF IInv
<1>1. b \in ReqState
    BY DEF Good
<1>2. Shape'
    BY DEF Shape, browser
<1>3. Carried'
    <2>1. req' \in [Req -> ReqState]
        BY <1>1 DEF Carried
    <2>2. ASSUME NEW s \in Req PROVE Good(req'[s])
        <3>1. CASE s = r
            BY <3>1 DEF Carried
        <3>2. CASE s # r
            BY <3>2 DEF Carried
        <3>3. QED
            BY <3>1, <3>2
    <2>3. QED
        BY <2>1, <2>2 DEF Carried, Good
<1>4. Kept'
    BY DEF Kept, browser, Fit
<1>5. OnScreen'
    BY DEF OnScreen, browser, Fit
<1>6. Waited'
    <2>1. picker' = picker /\ text' = text
        BY DEF browser
    <2>2. ASSUME picker.lctrl # 0 PROVE About(req'[picker.lctrl], picker.forQ)
        <3>1. picker.lctrl \in Req /\ About(req[picker.lctrl], picker.forQ)
            BY <2>2 DEF Shape, PickerState, Waited
        <3>2. CASE picker.lctrl # r
            BY <3>1, <3>2 DEF Carried
        <3>3. CASE picker.lctrl = r
            BY <3>1, <3>3 DEF Carried, About
        <3>4. QED
            BY <3>2, <3>3
    <2>3. QED
        BY <2>1, <2>2 DEF Waited
<1>7. QED
    BY <1>2, <1>3, <1>4, <1>5, <1>6

LEMMA ReqIsGood == ASSUME IInv, NEW r \in Req PROVE Good(req[r]) /\ req[r] \in ReqState
BY DEF IInv, Carried, Good

(* An answer is handed over, or goes nowhere. *)
LEMMA AnswerKeeps ==
    ASSUME IInv, NEW r \in Req, NEW names \in SUBSET Name, Fit(names, req[r].q), NEW lookup \in Lookups,
           req[r].pc \notin {"idle", "broken"}, Answers(r, names, lookup),
           UNCHANGED browser, cache' \in [Text -> CacheState], \A q \in Text : Fit(cache'[q].items, q)
    PROVE  IInv'
<1>1. Good(req[r]) /\ req[r] \in ReqState
    BY ReqIsGood
<1>2. CASE req[r].gone
    <2>1. req' = [req EXCEPT ![r] = NoReq]
        BY <1>2, <1>1 DEF Answers, IInv, Carried
    <2>2. QED
        BY <1>2, <2>1, NoReqIsGood, OneMoves
<1>3. CASE ~req[r].gone
    <2> DEFINE b == [NoReq EXCEPT !.pc = "answers", !.kind = req[r].kind, !.q = req[r].q,
                                  !.items = names, !.lookup = lookup]
    <2>1. req' = [req EXCEPT ![r] = b]
        BY <1>3, <1>1 DEF Answers, IInv, Carried
    <2>2. b \in ReqState /\ b.pc = "answers" /\ b.q = req[r].q /\ b.items = names /\ ~b.gone
        BY <1>1 DEF ReqState, NoReq, Lookups
    <2>3. Good(b)
        BY <1>1, <2>2 DEF Good
    <2> HIDE DEF b
    <2>4. QED
        BY <2>1, <2>2, <2>3, OneMoves
<1>4. QED
    BY <1>2, <1>3

LEMMA NothingKeeps ==
    ASSUME IInv, NEW r \in Req, req[r].pc \notin {"idle", "broken"}, Nothing(r), UNCHANGED <<browser, cache>>
    PROVE  IInv'
<1>1. Fit({}, req[r].q) /\ {} \in SUBSET Name /\ "" \in Lookups
    BY DEF Fit, Lookups
<1>2. cache' \in [Text -> CacheState] /\ \A q \in Text : Fit(cache'[q].items, q)
    BY DEF IInv, Shape, Kept
<1>3. QED
    BY <1>1, <1>2, AnswerKeeps DEF Nothing

(* A request goes on with the same question and what it carries. *)
LEMMA StepKeeps ==
    ASSUME IInv, NEW r \in Req, NEW pc \in {"slot", "model", "starts", "waits"},
           req[r].pc \notin {"idle", "broken"}, pc \in {"starts", "waits"} => req[r].plan # NoKey,
           req' = [req EXCEPT ![r].pc = pc], UNCHANGED <<browser, cache>>
    PROVE  IInv'
<1> DEFINE b == [req[r] EXCEPT !.pc = pc]
<1>1. Good(req[r]) /\ req[r] \in ReqState
    BY ReqIsGood
<1>2. req' = [req EXCEPT ![r] = b]
    BY DEF IInv, Carried
<1>3. /\ b \in ReqState /\ b.pc = pc /\ b.q = req[r].q /\ b.items = req[r].items
      /\ b.gone = req[r].gone /\ b.plan = req[r].plan
    BY <1>1 DEF ReqState
<1>4. Good(b)
    BY <1>1, <1>3 DEF Good
<1>5. cache' \in [Text -> CacheState] /\ \A q \in Text : Fit(cache'[q].items, q)
    BY DEF IInv, Shape, Kept
<1>6. UNCHANGED browser
    OBVIOUS
<1> HIDE DEF b
<1>7. QED
    BY <1>2, <1>3, <1>4, <1>5, <1>6, OneMoves

(* The model's answer, new or from the cache, fits what was asked. *)
LEMMA HasKeeps ==
    ASSUME IInv, NEW r \in Req, req[r].pc \in {"new", "model"}, NEW e \in CacheState,
           Fit(e.items, req[r].q), Has(r, e),
           UNCHANGED browser, cache' \in [Text -> CacheState], \A q \in Text : Fit(cache'[q].items, q)
    PROVE  IInv'
<1>1. Good(req[r]) /\ req[r] \in ReqState
    BY ReqIsGood
<1>2. e.items \in SUBSET Name /\ e.plan \in Key \cup {NoKey} /\ e.quiet \in BOOLEAN /\ "" \in Lookups
    BY DEF CacheState, Lookups
<1>3. CASE e.plan = NoKey
    BY <1>2, <1>3, AnswerKeeps DEF Has
<1>4. CASE e.plan # NoKey
    <2> DEFINE b == [req[r] EXCEPT !.pc = "looks", !.items = e.items, !.plan = e.plan, !.quiet = e.quiet]
    <2>1. req' = [req EXCEPT ![r] = b]
        BY <1>4 DEF Has, IInv, Carried
    <2>2. /\ b \in ReqState /\ b.pc = "looks" /\ b.q = req[r].q /\ b.items = e.items
          /\ b.gone = req[r].gone /\ b.plan = e.plan
        BY <1>1, <1>2 DEF ReqState
    <2>3. Good(b)
        BY <1>1, <1>4, <2>2 DEF Good
    <2> HIDE DEF b
    <2>4. QED
        BY <2>1, <2>2, <2>3, OneMoves
<1>5. QED
    BY <1>3, <1>4

LEMMA BeginsKeeps == ASSUME IInv, NEW r \in Req, Begins(r) PROVE IInv'
<1>1. Good(req[r]) /\ req[r] \in ReqState /\ req[r].pc = "new" /\ UNCHANGED <<browser, cache>>
    BY ReqIsGood DEF Begins, server
<1>2. cache' \in [Text -> CacheState] /\ \A q \in Text : Fit(cache'[q].items, q)
    BY <1>1 DEF IInv, Shape, Kept
<1>3. req[r].q \in Text
    BY <1>1 DEF Good
<1>4. CASE cache[req[r].q].kept
    <2>1. Has(r, cache[req[r].q])
        BY <1>4 DEF Begins
    <2>2. cache[req[r].q] \in CacheState /\ Fit(cache[req[r].q].items, req[r].q)
        BY <1>3 DEF IInv, Shape, Kept
    <2>3. QED
        BY <1>1, <1>2, <2>1, <2>2, HasKeeps
<1>5. CASE ~cache[req[r].q].kept
    <2>1. Nothing(r) \/ req' = [req EXCEPT ![r].pc = "slot"]
        BY <1>5 DEF Begins
    <2>2. QED
        BY <1>1, <2>1, NothingKeeps, StepKeeps
<1>6. QED
    BY <1>4, <1>5

LEMMA WaitsForModelKeep ==
    ASSUME IInv, NEW r \in Req, TakesSlot(r) \/ GivesUp(r) \/ ModelFails(r) PROVE IInv'
<1>1. UNCHANGED <<browser, cache>> /\ req[r].pc \in {"slot", "model"}
    BY DEF TakesSlot, GivesUp, ModelFails, server
<1>2. CASE TakesSlot(r)
    BY <1>1, <1>2, StepKeeps DEF TakesSlot
<1>3. CASE GivesUp(r) \/ ModelFails(r)
    BY <1>1, <1>3, NothingKeeps DEF GivesUp, ModelFails
<1>4. QED
    BY <1>2, <1>3

(* What a plan is, whatever the answer names. *)
LEMMA PlanIsAKey ==
    ASSUME NEW names \in SUBSET Name, NEW q \in Text, NEW p \in Plans(names, q)
    PROVE  p.plan \in Key \cup {NoKey} /\ p.quiet \in BOOLEAN
<1>1. CASE \E n \in names : p = [plan |-> KeyOf[n], quiet |-> n \in Placed]
    BY <1>1, PlacesAssumption
<1>2. CASE p = [plan |-> KeyTyped[q], quiet |-> FALSE]
    BY <1>2, PlacesAssumption
<1>3. CASE p = [plan |-> NoKey, quiet |-> FALSE]
    BY <1>3
<1>4. QED
    BY <1>1, <1>2, <1>3 DEF Plans

LEMMA ModelAnswersKeeps == ASSUME IInv, NEW r \in Req, ModelAnswers(r) PROVE IInv'
<1>1. Good(req[r]) /\ req[r].pc = "model" /\ UNCHANGED browser
    BY ReqIsGood DEF ModelAnswers
<1>2. req[r].q \in Text
    BY <1>1 DEF Good
<1>3. PICK raw \in Raw : \E names \in {Fitting(raw, req[r].q)} : \E p \in Plans(names, req[r].q) :
        \E e \in {[items |-> names, plan |-> p.plan, quiet |-> p.quiet, kept |-> TRUE]} :
            cache' = [cache EXCEPT ![req[r].q] = e] /\ Has(r, e)
    BY DEF ModelAnswers
<1> DEFINE names == Fitting(raw, req[r].q)
<1>4. names \in SUBSET Name /\ Fit(names, req[r].q)
    BY <1>3, PlacesAssumption DEF Fitting, Fit
<1> HIDE DEF names
<1>5. PICK p \in Plans(names, req[r].q) : \E e \in {[items |-> names, plan |-> p.plan, quiet |-> p.quiet, kept |-> TRUE]} :
        cache' = [cache EXCEPT ![req[r].q] = e] /\ Has(r, e)
    BY <1>3 DEF names
<1> DEFINE e == [items |-> names, plan |-> p.plan, quiet |-> p.quiet, kept |-> TRUE]
<1>6. e \in CacheState /\ e.items = names
    BY <1>2, <1>4, PlanIsAKey DEF CacheState
<1>7. cache' = [cache EXCEPT ![req[r].q] = e] /\ Has(r, e)
    BY <1>5
<1> HIDE DEF e
<1>8. cache' \in [Text -> CacheState] /\ \A q \in Text : Fit(cache'[q].items, q)
    BY <1>2, <1>4, <1>6, <1>7 DEF IInv, Shape, Kept
<1>9. QED
    BY <1>1, <1>4, <1>6, <1>7, <1>8, HasKeeps

(* What was found is added as far as it fits. *)
LEMMA GroundedFits ==
    ASSUME IInv, NEW r \in Req, req[r].pc \in {"looks", "starts", "waits"}, NEW facts
    PROVE  Grounded(r, facts) \in SUBSET Name /\ Fit(Grounded(r, facts), req[r].q)
<1>1. Good(req[r]) /\ req[r] \in ReqState
    BY ReqIsGood
<1>2. req[r].items \in SUBSET Name /\ req[r].plan \in Key /\ Fit(req[r].items, req[r].q)
    BY <1>1 DEF Good, ReqState
<1>3. Branches[req[r].plan] \in SUBSET Name
    BY <1>2, PlacesAssumption
<1>4. Fitting(Branches[req[r].plan], req[r].q) \in SUBSET Name
        /\ Fit(Fitting(Branches[req[r].plan], req[r].q), req[r].q)
    BY <1>3 DEF Fitting, Fit
<1>5. QED
    BY <1>2, <1>4 DEF Grounded, Fit

LEMMA LooksKeeps == ASSUME IInv, NEW r \in Req, Looks(r) \/ Awaits(r) PROVE IInv'
<1>1. UNCHANGED <<browser, cache>> /\ req[r].pc \in {"looks", "waits"}
    BY DEF Looks, Awaits
<1>2. PICK facts : req' = [req EXCEPT ![r].pc = "starts"] \/ Answers(r, Grounded(r, facts), "")
    BY DEF Looks, Awaits
<1>3. Good(req[r])
    BY ReqIsGood
<1>4. CASE req' = [req EXCEPT ![r].pc = "starts"]
    BY <1>1, <1>3, <1>4, StepKeeps DEF Good
<1>5. CASE Answers(r, Grounded(r, facts), "")
    <2>1. cache' \in [Text -> CacheState] /\ \A q \in Text : Fit(cache'[q].items, q)
        BY <1>1 DEF IInv, Shape, Kept
    <2>2. Grounded(r, facts) \in SUBSET Name /\ Fit(Grounded(r, facts), req[r].q) /\ "" \in Lookups
        BY <1>1, GroundedFits DEF Lookups
    <2>3. QED
        BY <1>1, <1>5, <2>1, <2>2, AnswerKeeps
<1>6. QED
    BY <1>2, <1>4, <1>5

LEMMA StartsKeeps == ASSUME IInv, NEW r \in Req, Starts(r) \/ StopsWaiting(r) PROVE IInv'
<1>1. UNCHANGED <<browser, cache>> /\ req[r].pc \in {"starts", "waits"}
    BY DEF Starts, StopsWaiting, server
<1>2. Good(req[r]) /\ req[r] \in ReqState
    BY ReqIsGood
<1>3. req[r].items \in SUBSET Name /\ Fit(req[r].items, req[r].q) /\ {"", "pending", "checking"} \subseteq Lookups
    BY <1>2 DEF Good, ReqState, Lookups
<1>4. cache' \in [Text -> CacheState] /\ \A q \in Text : Fit(cache'[q].items, q)
    BY <1>1 DEF IInv, Shape, Kept
<1>5. \/ req' = [req EXCEPT ![r].pc = "waits"]
      \/ Answers(r, req[r].items, "") \/ Answers(r, req[r].items, "checking") \/ Answers(r, req[r].items, "pending")
    BY DEF Starts, StopsWaiting
<1>6. CASE req' = [req EXCEPT ![r].pc = "waits"]
    BY <1>1, <1>2, <1>6, StepKeeps DEF Good
<1>7. ASSUME NEW lookup \in {"", "pending", "checking"}, Answers(r, req[r].items, lookup) PROVE IInv'
    BY <1>1, <1>3, <1>4, <1>7, AnswerKeeps
<1>8. QED
    BY <1>5, <1>6, <1>7

----------------------------------------------------------------------------
(* The picker *)

(* Cancelled requests still carry what they carried. *)
LEMMA AbortedIsGood ==
    ASSUME IInv, NEW given
    PROVE  /\ Aborted(given) \in [Req -> ReqState]
           /\ \A r \in Req : Good(Aborted(given)[r])
<1>1. ASSUME NEW r \in Req PROVE Good(Aborted(given)[r])
    <2>1. Good(req[r]) /\ req[r] \in ReqState
        BY ReqIsGood
    <2> DEFINE b == [req[r] EXCEPT !.gone = TRUE]
    <2>2. b \in ReqState /\ b.pc = req[r].pc /\ b.q = req[r].q /\ b.items = req[r].items /\ b.plan = req[r].plan
        BY <2>1 DEF ReqState
    <2>3. Good(b)
        BY <2>1, <2>2 DEF Good
    <2>4. Aborted(given)[r] \in {req[r], NoReq, b}
        BY DEF Aborted
    <2>5. QED
        BY <2>1, <2>3, <2>4, NoReqIsGood
<1>2. Aborted(given) \in [Req -> ReqState]
    BY <1>1 DEF Aborted, Good
<1>3. QED
    BY <1>1, <1>2

(* One request is replaced by a new question, or by none. *)
LEMMA ReplacedIsGood ==
    ASSUME NEW f \in [Req -> ReqState], \A s \in Req : Good(f[s]), NEW r \in Req, NEW b, Good(b)
    PROVE  /\ [f EXCEPT ![r] = b] \in [Req -> ReqState]
           /\ \A s \in Req : Good([f EXCEPT ![r] = b][s])
           /\ [f EXCEPT ![r] = b][r] = b
<1>1. b \in ReqState
    BY DEF Good
<1>2. QED
    BY <1>1

(* The text gets too short: nothing is waited for. *)
LEMMA TypesShortKeeps == ASSUME IInv, TypesShort PROVE IInv'
<1> USE DEF IInv
<1> DEFINE p == StopLookup([picker EXCEPT !.timer = FALSE, !.ctrl = 0, !.loading = FALSE])
<1>1. picker' = p /\ req' = Aborted(Given) /\ seen' = seen /\ cache' = cache /\ text' = Short
    BY DEF TypesShort, Typed, server
<1>2. /\ p \in PickerState /\ p.items = picker.items /\ p.forQ = picker.forQ
      /\ p.lctrl = 0 /\ p.ctrl = 0 /\ p.timer = FALSE
    BY DEF StopLookup, Shape, PickerState
<1> HIDE DEF p
<1>3. Shape'
    BY <1>1, <1>2 DEF Shape
<1>4. Carried'
    BY <1>1, AbortedIsGood DEF Carried, Good
<1>5. Kept' /\ OnScreen' /\ Waited'
    BY <1>1, <1>2 DEF Kept, OnScreen, Waited, Fit
<1>6. QED
    BY <1>3, <1>4, <1>5

(* Back to the text on screen, or a new one: only the timer changes. *)
LEMMA TimerKeeps == ASSUME IInv, NEW q \in Text, TypesBack(q) \/ TypesNew(q) PROVE IInv'
<1> USE DEF IInv
<1>1. PICK timer \in BOOLEAN : picker' = [picker EXCEPT !.timer = timer]
    BY DEF TypesBack, TypesNew
<1>2. req' = req /\ seen' = seen /\ cache' = cache /\ text' = q
    BY DEF TypesBack, TypesNew, Typed, server
<1>3. /\ picker' \in PickerState /\ picker'.items = picker.items /\ picker'.forQ = picker.forQ
      /\ picker'.lctrl = picker.lctrl /\ picker'.ctrl = picker.ctrl
    BY <1>1 DEF Shape, PickerState
<1>4. Shape' /\ Carried'
    BY <1>2, <1>3 DEF Shape, Carried, Good
<1>5. Kept' /\ OnScreen'
    BY <1>2, <1>3 DEF Kept, OnScreen, Fit
<1>6. Waited'
    BY <1>2, <1>3 DEF Waited, About
<1>7. QED
    BY <1>4, <1>5, <1>6

(* A text answered before shows its own items, and waits for its own lookup. *)
LEMMA TypesSeenKeeps == ASSUME IInv, NEW q \in Text, TypesSeen(q) PROVE IInv'
<1> USE DEF IInv
<1> DEFINE p == [picker EXCEPT !.timer = FALSE, !.ctrl = 0, !.items = seen[q].items, !.forQ = q, !.loading = FALSE]
<1>1. seen' = seen /\ cache' = cache /\ text' = q
    BY DEF TypesSeen, Typed, server
<1>2. seen[q] \in SeenState /\ Fit(seen[q].items, q) /\ seen[q].items \in SUBSET Name
    BY DEF Shape, Kept, SeenState
<1>3. p \in PickerState /\ p.items = seen[q].items /\ p.forQ = q /\ p.ctrl = 0
    BY <1>2 DEF Shape, PickerState
<1>4. \/ picker' = StopLookup(p) /\ req' = Aborted(Given)
      \/ \E r \in Free : /\ picker' = AskLookup(p, r, q, seen[q].lookup)
                         /\ req' = [Aborted(Given) EXCEPT ![r] = Question("lookup", q)]
    BY DEF TypesSeen
<1> HIDE DEF p
<1>5. Kept'
    BY <1>1 DEF Kept, Fit
<1>6. CASE picker' = StopLookup(p) /\ req' = Aborted(Given)
    <2>1. /\ picker' \in PickerState /\ picker'.items = p.items /\ picker'.forQ = q
          /\ picker'.lctrl = 0 /\ picker'.ctrl = 0
        BY <1>3, <1>6 DEF StopLookup, PickerState
    <2>2. Shape'
        BY <1>1, <2>1 DEF Shape
    <2>3. Carried'
        BY <1>6, AbortedIsGood DEF Carried, Good
    <2>4. OnScreen' /\ Waited'
        BY <1>1, <1>2, <1>3, <2>1 DEF OnScreen, Waited, Fit
    <2>5. QED
        BY <1>5, <2>2, <2>3, <2>4
<1>7. ASSUME NEW r \in Free, picker' = AskLookup(p, r, q, seen[q].lookup),
             req' = [Aborted(Given) EXCEPT ![r] = Question("lookup", q)]
      PROVE  IInv'
    <2>1. r \in Req
        BY DEF Free, Idle
    <2>2. /\ picker' \in PickerState /\ picker'.items = p.items /\ picker'.forQ = q
          /\ picker'.lctrl = r /\ picker'.ctrl = 0
        BY <1>3, <1>7, <2>1 DEF AskLookup, PickerState
    <2>3. Shape'
        BY <1>1, <2>2 DEF Shape
    <2>4. Good(Question("lookup", q)) /\ About(Question("lookup", q), q)
        BY QuestionIsGood
    <2>5. Carried' /\ req'[r] = Question("lookup", q)
        BY <1>7, <2>1, <2>4, AbortedIsGood, ReplacedIsGood DEF Carried, Good
    <2>6. OnScreen' /\ Waited'
        BY <1>1, <1>2, <1>3, <2>2, <2>4, <2>5 DEF OnScreen, Waited, Fit, About
    <2>7. QED
        BY <1>5, <2>3, <2>5, <2>6
<1>8. QED
    BY <1>4, <1>6, <1>7

(* A new question takes the place of both. *)
LEMMA AskPlacesKeeps == ASSUME IInv, AskPlaces PROVE IInv'
<1> USE DEF IInv
<1>0. PICK r \in Free :
        /\ picker' = StopLookup([picker EXCEPT !.timer = FALSE, !.ctrl = r, !.loading = TRUE])
        /\ req' = [Aborted(Given) EXCEPT ![r] = Question("places", text)]
    BY DEF AskPlaces
<1>1. seen' = seen /\ cache' = cache /\ text' = text /\ text \in Text /\ r \in Req
    BY <1>0 DEF AskPlaces, server, Free, Idle, Waited
<1>2. /\ picker' \in PickerState /\ picker'.items = picker.items /\ picker'.forQ = picker.forQ
      /\ picker'.lctrl = 0 /\ picker'.timer = FALSE
    BY <1>0, <1>1 DEF StopLookup, Shape, PickerState
<1>3. Shape'
    BY <1>1, <1>2 DEF Shape
<1>4. Carried'
    BY <1>0, <1>1, QuestionIsGood, AbortedIsGood, ReplacedIsGood DEF Carried, Good
<1>5. Kept' /\ OnScreen' /\ Waited'
    BY <1>1, <1>2 DEF Kept, OnScreen, Waited, Fit
<1>6. QED
    BY <1>3, <1>4, <1>5

(* The first answer takes the screen; what it announces is asked for. *)
LEMMA PlacesArriveKeeps == ASSUME IInv, NEW r \in Req, PlacesArrive(r) PROVE IInv'
<1> USE DEF IInv
<1> DEFINE q == req[r].q
           p == [picker EXCEPT !.ctrl = 0, !.items = req[r].items, !.forQ = q, !.loading = FALSE]
<1>1. Good(req[r]) /\ req[r] \in ReqState /\ req[r].pc = "answers" /\ r = picker.ctrl
    BY ReqIsGood DEF PlacesArrive
<1>2. q \in Text /\ req[r].items \in SUBSET Name /\ Fit(req[r].items, q) /\ req[r].lookup \in Lookups
    BY <1>1 DEF Good, ReqState
<1>3. cache' = cache /\ text' = text
    BY DEF PlacesArrive, server
<1>4. seen' = [seen EXCEPT ![q] = [items |-> req[r].items, lookup |-> req[r].lookup]]
    BY DEF PlacesArrive
<1>5. \/ picker' = p /\ req' = [req EXCEPT ![r] = NoReq]
      \/ picker' = AskLookup(p, r, q, req[r].lookup) /\ req' = [req EXCEPT ![r] = Question("lookup", q)]
    BY DEF PlacesArrive
<1>6. /\ p \in PickerState /\ p.items = req[r].items /\ p.forQ = q /\ p.ctrl = 0
      /\ p.lctrl = picker.lctrl /\ p.timer = picker.timer
    BY <1>2 DEF Shape, PickerState
<1>7. picker.lctrl = 0
    BY <1>1, PlacesAssumption DEF Waited
<1>8. seen' \in [Text -> SeenState] /\ Kept'
    BY <1>2, <1>3, <1>4 DEF Shape, SeenState, Kept, Fit
<1> HIDE DEF p, q
<1>9. CASE picker' = p /\ req' = [req EXCEPT ![r] = NoReq]
    <2>1. Shape'
        BY <1>3, <1>6, <1>8, <1>9 DEF Shape
    <2>2. Carried'
        BY <1>9, NoReqIsGood, ReplacedIsGood DEF Carried, Good
    <2>3. OnScreen' /\ Waited'
        BY <1>2, <1>3, <1>6, <1>7, <1>9 DEF OnScreen, Waited, Fit
    <2>4. QED
        BY <1>8, <2>1, <2>2, <2>3
<1>10. CASE picker' = AskLookup(p, r, q, req[r].lookup) /\ req' = [req EXCEPT ![r] = Question("lookup", q)]
    <2>1. /\ picker' \in PickerState /\ picker'.items = p.items /\ picker'.forQ = q
          /\ picker'.lctrl = r /\ picker'.ctrl = 0 /\ picker'.timer = picker.timer
        BY <1>6, <1>10 DEF AskLookup, PickerState
    <2>2. Shape'
        BY <1>3, <1>8, <2>1 DEF Shape
    <2>3. Good(Question("lookup", q)) /\ About(Question("lookup", q), q)
        BY <1>2, QuestionIsGood
    <2>4. Carried' /\ req'[r] = Question("lookup", q)
        BY <1>10, <2>3, ReplacedIsGood DEF Carried, Good
    <2>5. OnScreen' /\ Waited'
        BY <1>2, <1>3, <1>6, <2>1, <2>3, <2>4 DEF OnScreen, Waited, Fit, About
    <2>6. QED
        BY <1>8, <2>2, <2>4, <2>5
<1>11. QED
    BY <1>5, <1>9, <1>10

(* The second answer is about the text that the items on screen answer. *)
LEMMA LookupArrivesKeeps == ASSUME IInv, NEW r \in Req, LookupArrives(r) PROVE IInv'
<1> USE DEF IInv
<1> DEFINE q == req[r].q
           merged == picker.items \cup req[r].items
<1>1. Good(req[r]) /\ req[r] \in ReqState /\ req[r].pc = "answers" /\ r = picker.lctrl
    BY ReqIsGood DEF LookupArrives
<1>2. q \in Text /\ req[r].items \in SUBSET Name /\ Fit(req[r].items, q)
    BY <1>1 DEF Good, ReqState
<1>3. cache' = cache /\ text' = text
    BY DEF LookupArrives, server
<1>4. q = picker.forQ
    BY <1>1, PlacesAssumption DEF Waited, About
<1>5. merged \in SUBSET Name /\ Fit(merged, q)
    BY <1>2, <1>4 DEF Shape, PickerState, OnScreen, Fit
<1>6. seen' = [seen EXCEPT ![q] = [items |-> merged, lookup |-> ""]]
    BY DEF LookupArrives
<1>7. picker' = StopLookup([picker EXCEPT !.items = merged])
    BY <1>4 DEF LookupArrives
<1>8. req' = [req EXCEPT ![r] = NoReq]
    BY DEF LookupArrives
<1> HIDE DEF q, merged
<1>9. /\ picker' \in PickerState /\ picker'.items = merged /\ picker'.forQ = picker.forQ
      /\ picker'.lctrl = 0 /\ picker'.timer = picker.timer
    BY <1>5, <1>7 DEF Shape, PickerState, StopLookup
<1>10. seen' \in [Text -> SeenState] /\ Kept'
    BY <1>2, <1>3, <1>5, <1>6 DEF Shape, SeenState, Kept, Fit, Lookups
<1>11. Shape'
    BY <1>3, <1>9, <1>10 DEF Shape
<1>12. Carried'
    BY <1>8, NoReqIsGood, ReplacedIsGood DEF Carried, Good
<1>13. OnScreen' /\ Waited'
    BY <1>3, <1>4, <1>5, <1>9 DEF OnScreen, Waited, Fit
<1>14. QED
    BY <1>10, <1>11, <1>12, <1>13

(* A fetch that is rejected leaves the screen as it is. *)
LEMMA FetchFailsKeeps == ASSUME IInv, NEW r \in Req, FetchFails(r) PROVE IInv'
<1> USE DEF IInv
<1>1. seen' = seen /\ cache' = cache /\ text' = text /\ req' = [req EXCEPT ![r] = NoReq]
    BY DEF FetchFails, server
<1>2. \/ r = picker.ctrl /\ picker' = [picker EXCEPT !.ctrl = 0, !.loading = FALSE]
      \/ picker' = StopLookup(picker)
    BY DEF FetchFails
<1>3. /\ picker' \in PickerState /\ picker'.items = picker.items /\ picker'.forQ = picker.forQ
      /\ picker'.timer = picker.timer
    BY <1>2 DEF Shape, PickerState, StopLookup
<1>4. picker'.lctrl = 0
    BY <1>2, PlacesAssumption DEF Shape, PickerState, StopLookup, Waited
<1>5. Shape'
    BY <1>1, <1>3 DEF Shape
<1>6. Carried'
    BY <1>1, NoReqIsGood, ReplacedIsGood DEF Carried, Good
<1>7. Kept' /\ OnScreen' /\ Waited'
    BY <1>1, <1>3, <1>4 DEF Kept, OnScreen, Waited, Fit
<1>8. QED
    BY <1>5, <1>6, <1>7

(* After a restart the cache is empty and who was waited for fails. *)
LEMMA RestartKeeps == ASSUME IInv, Restart PROVE IInv'
<1> USE DEF IInv
<1> DEFINE broken == [NoReq EXCEPT !.pc = "broken"]
<1>1. UNCHANGED browser /\ req' = [r \in Req |-> IF r \in Given THEN broken ELSE NoReq] /\ cache' = [q \in Text |-> NoEntry]
    BY DEF Restart
<1>2. Good(broken) /\ broken.pc = "broken" /\ broken.gone = FALSE
    BY DEF NoReq, Good, ReqState, Fit, Lookups
<1> HIDE DEF broken
<1>3. NoEntry \in CacheState /\ NoEntry.items = {}
    BY DEF NoEntry, CacheState
<1>4. Shape'
    BY <1>1, <1>3 DEF Shape, browser
<1>5. Carried'
    BY <1>1, <1>2, NoReqIsGood DEF Carried, Good
<1>6. Kept'
    BY <1>1, <1>3 DEF Kept, Fit, browser
<1>7. OnScreen'
    BY <1>1 DEF OnScreen, Fit, browser
<1>8. ASSUME picker.lctrl # 0 PROVE About(req'[picker.lctrl], picker.forQ)
    BY <1>1, <1>2, <1>8 DEF About, Given, Shape, PickerState
<1>9. Waited'
    BY <1>1, <1>8 DEF Waited, browser
<1>10. QED
    BY <1>4, <1>5, <1>6, <1>7, <1>9

LEMMA StepFits == IInv /\ [Next]_vars => IInv'
<1> SUFFICES ASSUME IInv, [Next]_vars PROVE IInv'
    OBVIOUS
<1>1. ASSUME UNCHANGED <<browser, req, cache>> PROVE IInv'
    <2>1. text' = text /\ picker' = picker /\ seen' = seen /\ req' = req /\ cache' = cache
        BY <1>1 DEF browser
    <2>2. QED
        BY <2>1 DEF IInv, Shape, Carried, Good, Kept, OnScreen, Waited, About, Fit
<1>2. CASE UNCHANGED vars
    BY <1>1, <1>2 DEF vars, browser
<1>3. CASE Types
    BY <1>3, TypesShortKeeps, TimerKeeps, TypesSeenKeeps DEF Types
<1>4. ASSUME NEW r \in Req, Serves(r) PROVE IInv'
    BY <1>4, BeginsKeeps, WaitsForModelKeep, ModelAnswersKeeps, LooksKeeps, StartsKeeps,
       PlacesArriveKeeps, LookupArrivesKeeps, FetchFailsKeeps DEF Serves
<1>5. ASSUME NEW k \in Key, Searches(k) \/ FailureExpires(k) PROVE IInv'
    BY <1>1, <1>5 DEF Searches, SearchAnswers, Keeps, KeepFails, SearchFails, SearchEnds, FailureExpires
<1>6. QED
    BY <1>2, <1>3, <1>4, <1>5, AskPlacesKeeps, RestartKeeps DEF Next

\* Only what completes or corrects the text in the box is offered, or
\* remembered for a text (places.go fitting, review.js schedulePlaces,
\* askPlaces, askLookup), whatever comes late.
THEOREM OnlyFittingOffers == Spec => []OffersFit
<1>1. QED
    BY FitIsShown, InitFits, StepFits, PTL DEF Spec
----------------------------------------------------------------------------
(* The lookups *)

(* The rest of the types. *)
Tables ==
    /\ mem \in [Key -> {"none", "failed", "missed", "found"}]
    /\ table \in [Key -> {"none", "missed", "found"}]
    /\ search \in [Key -> {"idle", "asks", "missed", "found", "ends"}]
    /\ off \in BOOLEAN /\ typed \in 0..MaxTyped /\ upsets \in 0..MaxUpsets /\ late \subseteq Req

(* A request that is about to start a search, and is neither late nor given  *)
(* up: nothing is known of its place, or a search of it is under way.        *)
Unknown ==
    \A r \in Req : req[r].pc = "starts" /\ ~req[r].gone /\ r \notin late =>
        \/ mem[req[r].plan] = "none" /\ table[req[r].plan] = "none"
        \/ search[req[r].plan] # "idle"

(* No request comes to be about to start a search. *)
NoneComes ==
    \A r \in Req : req'[r].pc = "starts" /\ ~req'[r].gone =>
        req[r].pc = "starts" /\ ~req[r].gone /\ req'[r].plan = req[r].plan

LEMMA PlanIsKnown ==
    ASSUME IInv, NEW r \in Req, req[r].pc \in {"looks", "starts", "waits"}
    PROVE  req[r].plan \in Key
BY ReqIsGood DEF Good, ReqState

(* What a request finds out is of the kinds that memory has. *)
LEMMA KnownIsOfMemory ==
    ASSUME Tables, NEW k \in Key, NEW gone
    PROVE  /\ Known(k, gone) \in {"none", "failed", "missed", "found"}
           /\ mem[k] = "none" /\ table[k] = "none" => Known(k, gone) = "none"
           /\ Known(k, gone) = "none" /\ ~gone => mem[k] = "none" /\ table[k] = "none"
BY DEF Tables, Known

LEMMA InitTables == Init => Tables /\ Unknown
<1> SUFFICES ASSUME Init PROVE Tables /\ Unknown
    OBVIOUS
<1>1. mem = [k \in Key |-> "none"] /\ table = [k \in Key |-> "none"] /\ search = [k \in Key |-> "idle"]
    BY DEF Init
<1>2. off = FALSE /\ typed = 0 /\ upsets = 0 /\ late = {} /\ 0 \in 0..MaxTyped /\ 0 \in 0..MaxUpsets
    BY PlacesAssumption DEF Init
<1>3. Tables
    BY <1>1, <1>2 DEF Tables
<1>4. \A r \in Req : req[r].pc # "starts"
    BY DEF Init, NoReq
<1>5. QED
    BY <1>3, <1>4 DEF Unknown

LEMMA TablesStep ==
    ASSUME IInv, Tables, [Next]_vars
    PROVE  Tables'
<1> USE DEF Tables
<1>1. CASE UNCHANGED vars
    BY <1>1 DEF vars
<1>2. CASE Types
    <2>1. UNCHANGED <<mem, table, search, off, upsets, late>> /\ typed < MaxTyped /\ typed' = typed + 1
        BY <1>2 DEF Types, TypesShort, TypesBack, TypesSeen, TypesNew, Typed, server
    <2>2. QED
        BY <2>1, PlacesAssumption
<1>3. CASE AskPlaces
    BY <1>3 DEF AskPlaces, server
<1>4. ASSUME NEW r \in Req, Serves(r) PROVE Tables'
    <2>1. CASE Looks(r) \/ Awaits(r)
        <3>1. req[r].plan \in Key
            BY <2>1, PlanIsKnown DEF Looks, Awaits
        <3>2. mem' = [mem EXCEPT ![req[r].plan] = Known(req[r].plan, req[r].gone)]
            BY <2>1 DEF Looks, Awaits
        <3>3. UNCHANGED <<table, search, off, typed, upsets>> /\ late' \subseteq late
            BY <2>1 DEF Looks, Awaits
        <3>4. QED
            BY <3>1, <3>2, <3>3, KnownIsOfMemory
    <2>2. CASE Starts(r)
        BY <2>2 DEF Starts
    <2>3. CASE ~(Looks(r) \/ Awaits(r) \/ Starts(r))
        BY <1>4, <2>3 DEF Serves, Begins, TakesSlot, GivesUp, ModelAnswers, ModelFails, StopsWaiting,
           PlacesArrive, LookupArrives, FetchFails, server
    <2>4. QED
        BY <2>1, <2>2, <2>3
<1>5. ASSUME NEW k \in Key, Searches(k) \/ FailureExpires(k) PROVE Tables'
    <2>1. CASE SearchAnswers(k) \/ Keeps(k) \/ SearchFails(k) \/ SearchEnds(k)
        BY <2>1 DEF SearchAnswers, Keeps, SearchFails, SearchEnds
    <2>2. CASE KeepFails(k) \/ FailureExpires(k)
        BY <2>2, PlacesAssumption DEF KeepFails, FailureExpires, Upset
    <2>3. QED
        BY <1>5, <2>1, <2>2 DEF Searches
<1>6. CASE Restart
    <2>1. mem' = [k \in Key |-> "none"] /\ search' = [k \in Key |-> "idle"] /\ UNCHANGED <<table, typed>>
        BY <1>6 DEF Restart
    <2>2. off' = FALSE /\ late' = {} /\ upsets < MaxUpsets /\ upsets' = upsets + 1
        BY <1>6 DEF Restart, Upset
    <2>3. upsets' \in 0..MaxUpsets
        BY <2>2, PlacesAssumption
    <2>4. QED
        BY <2>1, <2>2, <2>3
<1>7. QED
    BY <1>1, <1>2, <1>3, <1>4, <1>5, <1>6 DEF Next

(* The picker's own steps ask and give up questions; none is past its looks. *)
LEMMA PickerStartsNone ==
    ASSUME IInv, Types \/ AskPlaces
    PROVE  NoneComes
<1>1. req \in [Req -> ReqState] /\ \A r \in Req : req[r] \in ReqState
    BY DEF IInv, Carried
<1>2. ASSUME NEW given, NEW r \in Req
      PROVE  Aborted(given)[r] \in {req[r], NoReq, [req[r] EXCEPT !.gone = TRUE]}
    BY DEF Aborted
<1>3. ASSUME NEW given, NEW r \in Req, Aborted(given)[r].pc = "starts", ~Aborted(given)[r].gone
      PROVE  Aborted(given)[r] = req[r]
    <2>1. CASE Aborted(given)[r] = NoReq
        <3>1. NoReq.pc = "idle"
            BY DEF NoReq
        <3>2. QED
            BY <1>3, <2>1, <3>1
    <2>2. CASE Aborted(given)[r] = [req[r] EXCEPT !.gone = TRUE]
        <3>1. Aborted(given)[r].gone = TRUE
            BY <1>1, <2>2 DEF ReqState
        <3>2. QED
            BY <1>3, <3>1
    <2>3. QED
        BY <1>2, <2>1, <2>2
<1>4. ASSUME NEW given, NEW q \in Req, NEW b, b.pc = "new",
             req' = [Aborted(given) EXCEPT ![q] = b] \/ req' = Aborted(given)
      PROVE  NoneComes
    <2> SUFFICES ASSUME NEW r \in Req, req'[r].pc = "starts", ~req'[r].gone
                 PROVE  req'[r] = req[r]
        BY DEF NoneComes
    <2>1. Aborted(given) \in [Req -> ReqState]
        BY AbortedIsGood
    <2>2. req'[r] = Aborted(given)[r] \/ req'[r] = b
        BY <1>4, <2>1
    <2>3. QED
        BY <1>3, <1>4, <2>2
<1>5. \A kind, q : Question(kind, q).pc = "new"
    BY DEF Question, NoReq
<1>6. CASE TypesShort
    <2>1. req' = Aborted(Given)
        BY <1>6 DEF TypesShort
    <2>2. QED
        BY <1>3, <2>1 DEF NoneComes
<1>7. ASSUME NEW q \in Text, TypesBack(q) \/ TypesNew(q) PROVE NoneComes
    BY <1>7 DEF TypesBack, TypesNew, NoneComes
<1>8. ASSUME NEW q \in Text, TypesSeen(q) PROVE NoneComes
    <2>1. CASE req' = Aborted(Given)
        BY <1>3, <2>1 DEF NoneComes
    <2>2. CASE \E r \in Free : req' = [Aborted(Given) EXCEPT ![r] = Question("lookup", q)]
        <3>1. PICK r \in Free : req' = [Aborted(Given) EXCEPT ![r] = Question("lookup", q)]
            BY <2>2
        <3>2. r \in Req /\ Question("lookup", q).pc = "new"
            BY <1>5 DEF Free, Idle
        <3>3. QED
            BY <1>4, <3>1, <3>2
    <2>3. QED
        BY <1>8, <2>1, <2>2 DEF TypesSeen
<1>9. CASE AskPlaces
    <2>1. PICK r \in Free : req' = [Aborted(Given) EXCEPT ![r] = Question("places", text)]
        BY <1>9 DEF AskPlaces
    <2>2. r \in Req /\ Question("places", text).pc = "new"
        BY <1>5 DEF Free, Idle
    <2>3. QED
        BY <1>4, <2>1, <2>2
<1>10. QED
    BY <1>6, <1>7, <1>8, <1>9 DEF Types

(* Nor does an answer, or a step of a request that is not the looks. *)
LEMMA AnswerStartsNone ==
    ASSUME IInv, NEW r \in Req, NEW names, NEW lookup, Answers(r, names, lookup)
    PROVE  NoneComes /\ req'[r].pc # "starts"
BY DEF IInv, Carried, Answers, NoneComes, NoReq

LEMMA ServerStartsNone ==
    ASSUME IInv, NEW r \in Req, Serves(r), ~Looks(r)
    PROVE  NoneComes
<1>1. req \in [Req -> ReqState] /\ req[r] \in ReqState
    BY DEF IInv, Carried
<1>2. ASSUME NEW b, b.pc # "starts", req' = [req EXCEPT ![r] = b] PROVE NoneComes
    BY <1>1, <1>2 DEF NoneComes
<1>3. ASSUME NEW pc \in {"slot", "model", "waits"}, req' = [req EXCEPT ![r].pc = pc] PROVE NoneComes
    BY <1>1, <1>3 DEF NoneComes, ReqState
<1>4. ASSUME NEW e, Has(r, e) PROVE NoneComes
    <2>1. CASE Answers(r, e.items, "")
        BY <2>1, AnswerStartsNone
    <2>2. CASE req' = [req EXCEPT ![r].pc = "looks", ![r].items = e.items, ![r].plan = e.plan, ![r].quiet = e.quiet]
        BY <1>1, <2>2 DEF NoneComes, ReqState
    <2>3. QED
        BY <1>4, <2>1, <2>2 DEF Has
<1>5. CASE Begins(r)
    BY <1>3, <1>4, <1>5, AnswerStartsNone DEF Begins, Nothing
<1>6. CASE TakesSlot(r) \/ GivesUp(r) \/ ModelFails(r)
    BY <1>3, <1>6, AnswerStartsNone DEF TakesSlot, GivesUp, ModelFails, Nothing
<1>7. CASE ModelAnswers(r)
    BY <1>4, <1>7 DEF ModelAnswers
<1>8. CASE Starts(r)
    <2>1. \/ req' = [req EXCEPT ![r].pc = "waits"]
          \/ \E lookup \in {"", "checking", "pending"} : Answers(r, req[r].items, lookup)
        BY <1>8 DEF Starts
    <2>2. QED
        BY <1>3, <2>1, AnswerStartsNone
<1>9. CASE Awaits(r) \/ StopsWaiting(r)
    BY <1>9, AnswerStartsNone DEF Awaits, StopsWaiting
<1>10. CASE PlacesArrive(r) \/ LookupArrives(r) \/ FetchFails(r)
    <2>1. NoReq.pc # "starts" /\ \A q : Question("lookup", q).pc # "starts"
        BY DEF NoReq, Question
    <2>2. PICK b : b.pc # "starts" /\ req' = [req EXCEPT ![r] = b]
        BY <1>10, <2>1 DEF PlacesArrive, LookupArrives, FetchFails
    <2>3. QED
        BY <1>2, <2>2
<1>11. QED
    BY <1>5, <1>6, <1>7, <1>8, <1>9, <1>10 DEF Serves

(* While what is known only stays the same, and no search ends, so does what *)
(* the requests found out.                                                  *)
LEMMA StillUnknown ==
    ASSUME Unknown, NoneComes, UNCHANGED <<mem, table, search, late>>
    PROVE  Unknown'
BY DEF Unknown, NoneComes

LEMMA UnknownStep ==
    ASSUME IInv, Tables, Unknown, [Next]_vars
    PROVE  Unknown'
<1>0. \A r \in Req : req[r].pc = "starts" => req[r].plan \in Key
    BY PlanIsKnown
<1>1. CASE UNCHANGED vars
    BY <1>1 DEF vars, Unknown
<1>2. CASE Types \/ AskPlaces
    <2>1. UNCHANGED <<mem, table, search, late>>
        BY <1>2 DEF Types, TypesShort, TypesBack, TypesSeen, TypesNew, AskPlaces, server
    <2>2. QED
        BY <1>2, <2>1, PickerStartsNone, StillUnknown
<1>3. ASSUME NEW r \in Req, Looks(r) PROVE Unknown'
    <2> DEFINE k == req[r].plan
               facts == Known(k, req[r].gone)
    <2>1. k \in Key /\ req \in [Req -> ReqState] /\ req[r].pc = "looks"
        BY <1>3, PlanIsKnown DEF Looks, IInv, Carried
    <2>2. /\ mem' = [mem EXCEPT ![k] = facts] /\ UNCHANGED <<table, search>> /\ late' = late \ {r}
          /\ IF facts = "none" THEN req' = [req EXCEPT ![r].pc = "starts"] ELSE Answers(r, Grounded(r, facts), "")
        BY <1>3 DEF Looks
    <2>3. /\ mem[k] = "none" /\ table[k] = "none" => facts = "none"
          /\ facts = "none" /\ ~req[r].gone => mem[k] = "none" /\ table[k] = "none"
        BY <2>1, KnownIsOfMemory
    <2> HIDE DEF k, facts
    <2>4. ASSUME NEW p \in Key, mem[p] = "none", table[p] = "none"
          PROVE  mem'[p] = "none" /\ table'[p] = "none"
        <3>1. p = k => facts = "none"
            BY <2>3, <2>4
        <3>2. mem'[p] = IF p = k THEN facts ELSE mem[p]
            BY <2>1, <2>2 DEF Tables
        <3>3. QED
            BY <2>2, <2>4, <3>1, <3>2
    <2>5. \A s \in Req \ {r} : req'[s] = req[s]
        BY <2>1, <2>2 DEF Answers
    <2>6. ASSUME req'[r].pc = "starts", ~req'[r].gone
          PROVE  mem'[k] = "none" /\ table'[k] = "none" /\ req'[r].plan = k
        <3>1. facts = "none"
            BY <1>3, <2>2, <2>6, AnswerStartsNone
        <3>2. req'[r] = [req[r] EXCEPT !.pc = "starts"]
            BY <2>1, <2>2, <3>1
        <3>3. req'[r].gone = req[r].gone /\ req'[r].plan = k
            BY <2>1, <3>2 DEF ReqState, k
        <3>4. QED
            BY <2>1, <2>3, <2>4, <2>6, <3>1, <3>3
    <2>7. ASSUME NEW s \in Req \ {r}, req'[s].pc = "starts", ~req'[s].gone, s \notin late'
          PROVE  \/ mem'[req'[s].plan] = "none" /\ table'[req'[s].plan] = "none"
                 \/ search'[req'[s].plan] # "idle"
        <3>1. req'[s] = req[s] /\ s \notin late /\ search' = search
            BY <2>2, <2>5, <2>7
        <3>2. req[s].plan \in Key
            BY <1>0, <2>7, <3>1
        <3>3. QED
            BY <2>4, <2>7, <3>1, <3>2 DEF Unknown
    <2>8. QED
        BY <2>6, <2>7 DEF Unknown
<1>4. ASSUME NEW r \in Req, Starts(r) PROVE Unknown'
    <2>1. NoneComes /\ UNCHANGED <<mem, table, late>>
        BY <1>4, ServerStartsNone DEF Serves, Starts, Looks
    <2>2. search' \in {search, [search EXCEPT ![req[r].plan] = IF @ = "idle" THEN "asks" ELSE @]}
        BY <1>4 DEF Starts
    <2>3. req[r].plan \in Key
        BY <1>0, <1>4 DEF Starts
    <2>4. \A k \in Key : search[k] # "idle" => search'[k] # "idle"
        BY <2>2, <2>3 DEF Tables
    <2>5. QED
        BY <1>0, <2>1, <2>4 DEF Unknown, NoneComes
<1>5. ASSUME NEW r \in Req, Awaits(r) PROVE Unknown'
    <2> DEFINE k == req[r].plan
    <2>1. NoneComes /\ UNCHANGED <<table, search, late>>
        BY <1>5, ServerStartsNone DEF Serves, Awaits, Looks
    <2>2. k \in Key /\ mem' = [mem EXCEPT ![k] = Known(k, req[r].gone)]
        BY <1>5, PlanIsKnown DEF Awaits
    <2>3. ASSUME NEW p \in Key, mem[p] = "none", table[p] = "none" PROVE mem'[p] = "none"
        BY <2>2, <2>3, KnownIsOfMemory DEF Tables
    <2>4. QED
        BY <1>0, <2>1, <2>3 DEF Unknown, NoneComes
<1>6. ASSUME NEW r \in Req, Serves(r), ~Looks(r), ~Starts(r), ~Awaits(r) PROVE Unknown'
    <2>1. UNCHANGED <<mem, table, search, late>>
        BY <1>6 DEF Serves, Begins, TakesSlot, GivesUp, ModelAnswers, ModelFails, StopsWaiting,
           PlacesArrive, LookupArrives, FetchFails, server
    <2>2. QED
        BY <1>6, <2>1, ServerStartsNone, StillUnknown
<1>7. ASSUME NEW k \in Key, Searches(k) \/ FailureExpires(k) PROVE Unknown'
    <2>1. req' = req
        BY <1>7 DEF Searches, SearchAnswers, Keeps, KeepFails, SearchFails, SearchEnds, FailureExpires
    <2>2. CASE SearchAnswers(k) \/ Keeps(k) \/ KeepFails(k) \/ SearchFails(k)
        <3>1. late' = late /\ search'[k] # "idle"
            BY <2>2 DEF SearchAnswers, Keeps, KeepFails, SearchFails, Tables
        <3>2. /\ mem' = mem \/ \E f : mem' = [mem EXCEPT ![k] = f]
              /\ table' = table \/ \E f : table' = [table EXCEPT ![k] = f]
              /\ \E f : search' = [search EXCEPT ![k] = f]
            BY <2>2 DEF SearchAnswers, Keeps, KeepFails, SearchFails
        <3>3. \A p \in Key \ {k} : mem'[p] = mem[p] /\ table'[p] = table[p] /\ search'[p] = search[p]
            BY <3>2 DEF Tables
        <3>4. QED
            BY <1>0, <2>1, <3>1, <3>3 DEF Unknown
    <2>3. CASE SearchEnds(k)
        <3>1. late' = late \cup {r \in Req : req[r].pc = "starts" /\ req[r].plan = k} /\ UNCHANGED <<mem, table>>
            BY <2>3 DEF SearchEnds
        <3>2. \A p \in Key \ {k} : search'[p] = search[p]
            BY <2>3 DEF SearchEnds, Tables
        <3>3. QED
            BY <1>0, <2>1, <3>1, <3>2 DEF Unknown
    <2>4. CASE FailureExpires(k)
        <3>1. UNCHANGED <<table, search, late>> /\ mem' = [mem EXCEPT ![k] = "none"]
            BY <2>4 DEF FailureExpires
        <3>2. \A p \in Key : mem[p] = "none" => mem'[p] = "none"
            BY <3>1 DEF Tables
        <3>3. QED
            BY <1>0, <2>1, <3>1, <3>2 DEF Unknown
    <2>5. QED
        BY <1>7, <2>2, <2>3, <2>4 DEF Searches
<1>8. CASE Restart
    BY <1>8 DEF Restart, Unknown, NoReq
<1>9. QED
    BY <1>1, <1>2, <1>3, <1>4, <1>5, <1>6, <1>7, <1>8 DEF Next

(* A search begins because a request starts it. *)
LEMMA SomeoneStarts ==
    ASSUME IInv, Tables, Next, NEW k \in Key, search[k] = "idle", search'[k] = "asks"
    PROVE  \E r \in Req : Starts(r) /\ req[r].plan = k
<1>1. search' # search
    OBVIOUS
<1>2. ~Types /\ ~AskPlaces
    BY <1>1 DEF Types, TypesShort, TypesBack, TypesSeen, TypesNew, AskPlaces, server
<1>3. ASSUME NEW p \in Key, Searches(p) \/ FailureExpires(p) PROVE FALSE
    BY <1>3 DEF Searches, SearchAnswers, Keeps, KeepFails, SearchFails, SearchEnds, FailureExpires, Tables
<1>4. ~Restart
    BY DEF Restart
<1>5. PICK r \in Req : Serves(r)
    BY <1>2, <1>3, <1>4 DEF Next
<1>6. Starts(r)
    BY <1>1, <1>5 DEF Serves, Begins, TakesSlot, GivesUp, ModelAnswers, ModelFails, Looks, Awaits, StopsWaiting,
       PlacesArrive, LookupArrives, FetchFails, server
<1>7. req[r].plan = k
    BY <1>6, PlanIsKnown DEF Starts, Tables
<1>8. QED
    BY <1>6, <1>7

LEMMA RaceStep ==
    ASSUME IInv, Tables, Unknown, Next, NEW k \in Key, search[k] = "idle", search'[k] = "asks"
    PROVE  \/ mem[k] = "none" /\ table[k] = "none"
           \/ \E r \in Req : /\ req[r].pc = "starts" /\ req'[r].pc # "starts" /\ req[r].plan = k
                             /\ req[r].gone \/ r \in late
<1>1. PICK r \in Req : Starts(r) /\ req[r].plan = k
    BY SomeoneStarts
<1>2. req[r].pc = "starts" /\ req[r] \in ReqState /\ req \in [Req -> ReqState]
    BY <1>1 DEF Starts, IInv, Carried
<1>3. \/ req' = [req EXCEPT ![r].pc = "waits"]
      \/ \E lookup \in {"", "checking", "pending"} : Answers(r, req[r].items, lookup)
    BY <1>1 DEF Starts
<1>4. req'[r].pc # "starts"
    <2>1. CASE req' = [req EXCEPT ![r].pc = "waits"]
        BY <1>2, <2>1 DEF ReqState
    <2>2. CASE \E lookup \in {"", "checking", "pending"} : Answers(r, req[r].items, lookup)
        BY <2>2, AnswerStartsNone
    <2>3. QED
        BY <1>3, <2>1, <2>2
<1>5. QED
    BY <1>1, <1>2, <1>4 DEF Unknown

\* Every variable of the picker and of the lookups stays in its type.
THEOREM PlacesTypeCorrect == Spec => []TypeOK
<1>1. IInv /\ Tables => TypeOK
    BY DEF IInv, Shape, Carried, Tables, TypeOK, PickerState, SeenState, CacheState, ReqState
<1>2. IInv /\ Tables /\ [Next]_vars => Tables'
    BY TablesStep
<1>3. QED
    BY <1>1, <1>2, InitFits, InitTables, StepFits, PTL DEF Spec

\* A place that is known, or whose search failed a moment ago, is searched for
\* again only by a request that was overtaken, or given up (places_lookup.go
\* withLookup, startLookup): for any number of requests, places and restarts.
THEOREM KnownPlacesAreNotSearched == Spec => SearchedAgainOnlyByRace
<1>1. Init => IInv /\ Tables /\ Unknown
    BY InitFits, InitTables
<1>2. IInv /\ Tables /\ Unknown /\ [Next]_vars => (IInv /\ Tables /\ Unknown)'
    BY StepFits, TablesStep, UnknownStep
<1>3. IInv /\ Tables /\ Unknown /\ [Next]_vars =>
        [\A k \in Key : search[k] = "idle" /\ search'[k] = "asks" =>
              \/ mem[k] = "none" /\ table[k] = "none"
              \/ \E r \in Req : /\ req[r].pc = "starts" /\ req'[r].pc # "starts" /\ req[r].plan = k
                                /\ req[r].gone \/ r \in late]_vars
    BY RaceStep
<1>4. QED
    BY <1>1, <1>2, <1>3, PTL DEF Spec, SearchedAgainOnlyByRace

----------------------------------------------------------------------------
(* The model's client *)

(* As much of the types as the argument needs: no length of time. *)
Effort == {"", "none", "low", "high"}
CallState == [pc: {"idle", "asks", "backs"}, left: Int, effort: Effort, temp: BOOLEAN, gone: BOOLEAN]
ConfShape == conf.effort \in {"", "none", "high"} /\ conf.fallback \in {"", "low"}
CallShape == call \in [Call -> CallState]
ToldShape == told \in [Call -> [Kinds -> 0..2]]

(* A call under way does not send what it was refused, or could have known. *)
BodyIsLearnt == \A c \in Call : call[c].pc # "idle" =>
    /\ told[c]["thinking"] # 0 => call[c].effort # "none"
    /\ told[c]["temperature"] # 0 => call[c].temp = FALSE

ClientIInv == ConfShape /\ CallShape /\ ToldShape /\ BodyIsLearnt /\ RefusedOnce

LEMMA IdleIsACall == NoCall \in CallState /\ NoCall.pc = "idle"
BY DEF NoCall, CallState, Effort

(* The body of a new call leaves out what the client has learnt. *)
LEMMA BodyLeavesOut ==
    ASSUME ConfShape, NEW c \in Call
    PROVE  /\ Body(c).effort \in Effort /\ Body(c).temp \in BOOLEAN
           /\ "thinking" \in learnt => Body(c).effort # "none"
           /\ "temperature" \in learnt => Body(c).temp = FALSE
<1> USE DEF ConfShape, Body, Effort
<1>1. CASE c \in Searcher
    BY <1>1
<1>2. CASE c \notin Searcher /\ conf.effort = "none" /\ "thinking" \in learnt /\ conf.fallback # ""
    BY <1>2
<1>3. CASE c \notin Searcher /\ conf.effort \in {"", "none"}
           /\ ~(conf.effort = "none" /\ "thinking" \in learnt /\ conf.fallback # "")
    BY <1>3
<1>4. CASE c \notin Searcher /\ conf.effort = "high"
    BY <1>4
<1>5. QED
    BY <1>1, <1>2, <1>3, <1>4

(* What a step that changes one call, and what it was told, must show. *)
LEMMA OneCallMoves ==
    ASSUME ClientIInv, NEW c \in Call, NEW b \in CallState, NEW t \in [Kinds -> 0..1],
           conf' = conf, call' = [call EXCEPT ![c] = b], told' = [told EXCEPT ![c] = t],
           b.pc # "idle" => /\ t["thinking"] # 0 => b.effort # "none"
                            /\ t["temperature"] # 0 => b.temp = FALSE
    PROVE  ClientIInv'
<1> USE DEF ClientIInv
<1>1. ConfShape'
    BY DEF ConfShape
<1>2. CallShape'
    BY DEF CallShape
<1>3. t \in [Kinds -> 0..2]
    OBVIOUS
<1>4. ToldShape'
    BY <1>3 DEF ToldShape
<1>5. BodyIsLearnt'
    <2> SUFFICES ASSUME NEW d \in Call, call'[d].pc # "idle"
                 PROVE  /\ told'[d]["thinking"] # 0 => call'[d].effort # "none"
                        /\ told'[d]["temperature"] # 0 => call'[d].temp = FALSE
        BY DEF BodyIsLearnt
    <2>1. CASE d = c
        BY <2>1 DEF CallShape, ToldShape
    <2>2. CASE d # c
        BY <2>2 DEF CallShape, ToldShape, BodyIsLearnt
    <2>3. QED
        BY <2>1, <2>2
<1>6. RefusedOnce'
    <2> SUFFICES ASSUME NEW d \in Call, NEW k \in Kinds
                 PROVE  told'[d][k] <= 1
        BY DEF RefusedOnce
    <2>1. CASE d = c
        BY <2>1 DEF ToldShape
    <2>2. CASE d # c
        BY <2>2 DEF ToldShape, RefusedOnce
    <2>3. QED
        BY <2>1, <2>2
<1>7. QED
    BY <1>1, <1>2, <1>4, <1>5, <1>6

(* What a call was told is counted once or not at all. *)
LEMMA ToldOnce == ASSUME ClientIInv, NEW c \in Call PROVE told[c] \in [Kinds -> 0..1]
<1>1. told[c] \in [Kinds -> 0..2] /\ \A k \in Kinds : told[c][k] <= 1
    BY DEF ClientIInv, ToldShape, RefusedOnce
<1>2. \A k \in Kinds : told[c][k] \in 0..1
    BY <1>1
<1>3. QED
    BY <1>1, <1>2

(* A step that changes one call and nothing that was told. *)
LEMMA OneCallUntold ==
    ASSUME ClientIInv, NEW c \in Call, NEW b \in CallState,
           conf' = conf, call' = [call EXCEPT ![c] = b], told' = told,
           b.pc # "idle" => call[c].pc # "idle" /\ b.effort = call[c].effort /\ b.temp = call[c].temp
    PROVE  ClientIInv'
<1>1. told[c] \in [Kinds -> 0..1]
    BY ToldOnce
<1>2. told' = [told EXCEPT ![c] = told[c]]
    BY DEF ClientIInv, ToldShape
<1>3. b.pc # "idle" => /\ told[c]["thinking"] # 0 => b.effort # "none"
                       /\ told[c]["temperature"] # 0 => b.temp = FALSE
    BY DEF ClientIInv, BodyIsLearnt
<1>4. QED
    BY <1>1, <1>2, <1>3, OneCallMoves

(* A call that returns leaves the other calls and all that was told alone. *)
LEMMA ReturnKeeps ==
    ASSUME ClientIInv, NEW c \in Call, NEW res, NEW why, NEW pause, Returns(c, res, why, pause)
    PROVE  ClientIInv'
<1>1. call' = [call EXCEPT ![c] = NoCall] /\ told' = told /\ conf' = conf
    BY DEF Returns
<1>2. QED
    BY <1>1, IdleIsACall, OneCallUntold

(* No call has begun, and nobody was told anything. *)
LEMMA InitShown == ClientInit => ClientIInv
<1> SUFFICES ASSUME ClientInit PROVE ClientIInv
    OBVIOUS
<1>1. ConfShape
    BY DEF ClientInit, ConfShape
<1>2. call = [c \in Call |-> NoCall]
    BY DEF ClientInit
<1>3. told = [c \in Call |-> [k \in Kinds |-> 0]]
    BY DEF ClientInit
<1>4. [k \in Kinds |-> 0] \in [Kinds -> 0..2]
    OBVIOUS
<1>5. CallShape
    BY <1>2, IdleIsACall DEF CallShape
<1>6. ToldShape
    BY <1>3, <1>4 DEF ToldShape
<1>7. BodyIsLearnt
    BY <1>2, IdleIsACall DEF BodyIsLearnt
<1>8. RefusedOnce
    BY <1>3 DEF RefusedOnce
<1>9. QED
    BY <1>1, <1>5, <1>6, <1>7, <1>8 DEF ClientIInv

(* A call that starts knows what the client has learnt. *)
LEMMA StartKeeps == ASSUME ClientIInv, NEW c \in Call, CallStarts(c) PROVE ClientIInv'
<1> DEFINE b == [pc |-> "asks", left |-> Tries(c),
                 effort |-> Body(c).effort, temp |-> Body(c).temp, gone |-> FALSE]
           t == [k \in Kinds |-> IF k \in learnt THEN 1 ELSE 0]
<1>1. call' = [call EXCEPT ![c] = b] /\ told' = [told EXCEPT ![c] = t] /\ conf' = conf
    BY DEF CallStarts
<1>2. /\ Body(c).effort \in Effort /\ Body(c).temp \in BOOLEAN
      /\ "thinking" \in learnt => Body(c).effort # "none"
      /\ "temperature" \in learnt => Body(c).temp = FALSE
    BY BodyLeavesOut DEF ClientIInv
<1>3. Tries(c) \in Int
    BY ClientAssumption DEF Tries
<1>4. b \in CallState
    BY <1>2, <1>3 DEF CallState
<1>5. t \in [Kinds -> 0..1]
    OBVIOUS
<1>6. /\ t["thinking"] # 0 => b.effort # "none"
      /\ t["temperature"] # 0 => b.temp = FALSE
    BY <1>2 DEF Kinds
<1> HIDE DEF b, t
<1>7. QED
    BY <1>1, <1>4, <1>5, <1>6, OneCallMoves

(* A request without what was refused: what it was told until now was shown *)
(* already, so that the model refused something it had not been told.      *)
LEMMA AdaptKeeps == ASSUME ClientIInv, NEW c \in Call, Adapts(c) PROVE ClientIInv'
<1>1. PICK k \in Refusals(c) \cap Kinds :
        /\ call' = [call EXCEPT ![c] = [Adapted(@, k) EXCEPT
                        !.pc = IF call[c].left = Tries(c) THEN "asks" ELSE "backs"]]
        /\ told' = [told EXCEPT ![c][k] = Min({@ + 1, 2})]
    BY DEF Adapts
<1>2. call[c].pc = "asks" /\ conf' = conf
    BY DEF Adapts
<1>3. call[c] \in CallState /\ told[c] \in [Kinds -> 0..1]
    BY ToldOnce DEF ClientIInv, CallShape
<1>4. told[c][k] = 0
    BY <1>1, <1>2, <1>3 DEF Refusals, Kinds, ClientIInv, BodyIsLearnt
<1>5. Min({told[c][k] + 1, 2}) = 1
    <2>1. Min({1, 2}) = 1
        BY DEF Min
    <2>2. QED
        BY <1>4, <2>1
<1> DEFINE t == [told[c] EXCEPT ![k] = 1]
           b == [Adapted(call[c], k) EXCEPT !.pc = IF call[c].left = Tries(c) THEN "asks" ELSE "backs"]
<1>6. call' = [call EXCEPT ![c] = b] /\ told' = [told EXCEPT ![c] = t]
    BY <1>1, <1>5 DEF ClientIInv, CallShape, ToldShape
<1>7. t \in [Kinds -> 0..1]
    BY <1>3
<1>8. conf.fallback \in {"", "low"}
    BY DEF ClientIInv, ConfShape
<1>9. b \in CallState
    BY <1>3, <1>8 DEF Adapted, CallState, Effort
<1>10. /\ told[c]["thinking"] # 0 => call[c].effort # "none"
       /\ told[c]["temperature"] # 0 => call[c].temp = FALSE
    BY <1>2 DEF ClientIInv, BodyIsLearnt
<1>11. CASE k = "thinking"
    <2>1. b.effort = conf.fallback /\ (call[c].temp = FALSE => b.temp = FALSE)
        BY <1>3, <1>11 DEF Adapted, CallState
    <2>2. /\ t["thinking"] # 0 => b.effort # "none"
          /\ t["temperature"] # 0 => b.temp = FALSE
        BY <1>3, <1>8, <1>10, <1>11, <2>1 DEF Kinds
    <2> HIDE DEF b, t
    <2>3. QED
        BY <1>2, <1>6, <1>7, <1>9, <2>2, OneCallMoves
<1>12. CASE k = "temperature"
    <2>1. b.effort = call[c].effort /\ b.temp = FALSE
        BY <1>3, <1>12 DEF Adapted, CallState
    <2>2. /\ t["thinking"] # 0 => b.effort # "none"
          /\ t["temperature"] # 0 => b.temp = FALSE
        BY <1>3, <1>10, <1>12, <2>1 DEF Kinds
    <2> HIDE DEF b, t
    <2>3. QED
        BY <1>2, <1>6, <1>7, <1>9, <2>2, OneCallMoves
<1>13. QED
    BY <1>1, <1>11, <1>12 DEF Kinds

(* Backing off, asking again and being left change no body. *)
LEMMA WaitKeeps ==
    ASSUME ClientIInv, NEW c \in Call, BacksOff(c) \/ Retries(c) \/ GoesAway(c)
    PROVE  ClientIInv'
<1>1. call[c] \in CallState
    BY DEF ClientIInv, CallShape
<1>2. call[c].pc # "idle" /\ conf' = conf /\ told' = told
    BY DEF BacksOff, Retries, GoesAway
<1>3. CASE BacksOff(c)
    <2>1. PICK n \in Int : n = call[c].left - 1
        BY <1>1 DEF CallState
    <2> DEFINE b == [call[c] EXCEPT !.pc = "backs", !.left = n]
    <2>2. call' = [call EXCEPT ![c] = b]
        BY <1>3, <2>1 DEF BacksOff, ClientIInv, CallShape
    <2>3. b \in CallState /\ b.effort = call[c].effort /\ b.temp = call[c].temp
        BY <1>1 DEF CallState
    <2> HIDE DEF b
    <2>4. QED
        BY <1>2, <2>2, <2>3, OneCallUntold
<1>4. CASE Retries(c)
    <2> DEFINE b == [call[c] EXCEPT !.pc = "asks"]
    <2>1. call' = [call EXCEPT ![c] = b]
        BY <1>4 DEF Retries, ClientIInv, CallShape
    <2>2. b \in CallState /\ b.effort = call[c].effort /\ b.temp = call[c].temp
        BY <1>1 DEF CallState
    <2> HIDE DEF b
    <2>3. QED
        BY <1>2, <2>1, <2>2, OneCallUntold
<1>5. CASE GoesAway(c)
    <2> DEFINE b == [call[c] EXCEPT !.gone = TRUE]
    <2>1. call' = [call EXCEPT ![c] = b]
        BY <1>5 DEF GoesAway, ClientIInv, CallShape
    <2>2. b \in CallState /\ b.effort = call[c].effort /\ b.temp = call[c].temp
        BY <1>1 DEF CallState
    <2> HIDE DEF b
    <2>3. QED
        BY <1>2, <2>1, <2>2, OneCallUntold
<1>6. QED
    BY <1>3, <1>4, <1>5

(* Every step keeps it; only a start and an adaptation touch what is shown. *)
LEMMA StepShown == ClientIInv /\ [ClientNext]_clientVars => ClientIInv'
<1> SUFFICES ASSUME ClientIInv, [ClientNext]_clientVars PROVE ClientIInv'
    OBVIOUS
<1>1. ASSUME conf' = conf, call' = call, told' = told PROVE ClientIInv'
    BY <1>1 DEF ClientIInv, ConfShape, CallShape, ToldShape, BodyIsLearnt, RefusedOnce
<1>2. CASE Tick \/ HostTurns \/ UNCHANGED clientVars
    BY <1>1, <1>2 DEF Tick, HostTurns, clientVars
<1>3. ASSUME NEW c \in Call, Declined(c) PROVE ClientIInv'
    BY <1>1, <1>3 DEF Declined, clientVars
<1>4. ASSUME NEW c \in Call, Answered(c) \/ NoWebSearch(c) \/ Fails(c) \/ RunsLate(c) \/ Abandoned(c) PROVE ClientIInv'
    BY <1>4, ReturnKeeps DEF Answered, NoWebSearch, Fails, RunsLate, Abandoned
<1>5. QED
    BY <1>2, <1>3, <1>4, StartKeeps, AdaptKeeps, WaitKeeps DEF ClientNext

\* No call is refused the same thing twice, nor anything the client had learnt
\* before the call began (client.go GenerateJSON, websearch.go SearchJSON).
THEOREM RefusalsAreLearnt == ClientSpec => []RefusedOnce
<1>1. ClientIInv => RefusedOnce
    BY DEF ClientIInv
<1>2. QED
    BY <1>1, InitShown, StepShown, PTL DEF ClientSpec

\* Nothing but a failure of the host brings a rest nearer, whatever is
\* cancelled, adapted or declined (client.go settle, rest).
THEOREM RestsAreEarned == ClientSpec => []RestNeedsAFault
<1>1. ClientInit => RestNeedsAFault
    BY DEF ClientInit, RestNeedsAFault
<1>2. RestNeedsAFault /\ [ClientNext]_clientVars => RestNeedsAFault'
    <2> SUFFICES ASSUME RestNeedsAFault, [ClientNext]_clientVars, ~struck' PROVE rest' = 0 /\ streak' = 0
        BY DEF RestNeedsAFault
    <2>1. CASE Tick \/ HostTurns \/ UNCHANGED clientVars
        BY <2>1 DEF Tick, HostTurns, clientVars, RestNeedsAFault
    <2>2. ASSUME NEW c \in Call, Declined(c) \/ CallStarts(c) \/ Adapts(c) \/ Retries(c) \/ GoesAway(c)
          PROVE  rest' = 0 /\ streak' = 0
        BY <2>2 DEF Declined, CallStarts, Adapts, Retries, GoesAway, clientVars, RestNeedsAFault
    <2>3. ASSUME NEW c \in Call, BacksOff(c) \/ Fails(c) \/ RunsLate(c)
          PROVE  FALSE
        BY <2>3 DEF BacksOff, Fails, RunsLate
    <2>4. ASSUME NEW c \in Call, Answered(c) \/ NoWebSearch(c) \/ Abandoned(c)
          PROVE  rest' = 0 /\ streak' = 0
        BY <2>4 DEF Answered, NoWebSearch, Abandoned, Returns, Settled, RestNeedsAFault
    <2>5. QED
        BY <2>1, <2>2, <2>3, <2>4 DEF ClientNext
<1>3. QED
    BY <1>1, <1>2, PTL DEF ClientSpec

(* The longest rest of all, and what a set of two has as its ends.          *)
Longest == Max({Hour, KeyRest, MaxRest})

LEMMA EndsOfTwo ==
    ASSUME NEW a \in Int, NEW b \in Int
    PROVE  /\ Max({a, b}) \in {a, b} /\ Max({a, b}) >= a /\ Max({a, b}) >= b
           /\ Min({a, b}) \in {a, b} /\ Min({a, b}) <= a /\ Min({a, b}) <= b
<1>0. a >= b \/ b >= a
    OBVIOUS
<1>1. \E x \in {a, b} : \A y \in {a, b} : x >= y
    BY <1>0
<1>2. \E x \in {a, b} : \A y \in {a, b} : x <= y
    BY <1>0
<1>3. Max({a, b}) \in {a, b} /\ \A y \in {a, b} : Max({a, b}) >= y
    BY <1>1 DEF Max
<1>4. Min({a, b}) \in {a, b} /\ \A y \in {a, b} : Min({a, b}) <= y
    BY <1>2 DEF Min
<1>5. QED
    BY <1>3, <1>4

LEMMA LongestOfAll == Longest \in Nat /\ Hour <= Longest /\ KeyRest <= Longest /\ MaxRest <= Longest
<1>1. Hour \in Nat /\ KeyRest \in Nat /\ MaxRest \in Nat
    BY ClientAssumption
<1>2. \E x \in {Hour, KeyRest, MaxRest} : \A y \in {Hour, KeyRest, MaxRest} : x >= y
    <2>1. CASE Hour >= KeyRest /\ Hour >= MaxRest
        BY <1>1, <2>1
    <2>2. CASE KeyRest >= Hour /\ KeyRest >= MaxRest
        BY <1>1, <2>2
    <2>3. CASE MaxRest >= Hour /\ MaxRest >= KeyRest
        BY <1>1, <2>3
    <2>4. QED
        BY <1>1, <2>1, <2>2, <2>3
<1>3. QED
    BY <1>1, <1>2 DEF Longest, Max

(* The rest of the types: lengths of time and numbers of tries.             *)
ConfTyped == conf \in [effort: {"", "none", "high"}, fallback: {"", "low"}, refuses: SUBSET (Kinds \cup {"web"})]

Lengths ==
    /\ ConfTyped
    /\ host \in {"up", "busy", "limit", "key", "bad"}
    /\ learnt \subseteq Kinds
    /\ streak \in 0..(Doublings + 2)
    /\ rest \in 0..Longest
    /\ \A c \in Call : call[c].left \in 0..(MaxRetries + 1)
    /\ struck \in BOOLEAN

(* No rest is longer than the longest, and none shortens the one under way. *)
LEMMA RestedIsBounded ==
    ASSUME rest \in 0..Longest, NEW d \in Int
    PROVE  Rested(d) \in 0..Longest
<1>1. MaxRest \in Nat /\ Longest \in Nat /\ MaxRest <= Longest
    BY LongestOfAll, ClientAssumption
<1>2. PICK m \in Int : m = Min({d, MaxRest}) /\ m <= Longest
    BY <1>1, EndsOfTwo
<1>3. rest \in Int
    BY <1>1
<1>4. Max({rest, m}) \in {rest, m} /\ Max({rest, m}) >= rest
    BY <1>2, <1>3, EndsOfTwo
<1>5. Rested(d) = Max({rest, m})
    BY <1>2 DEF Rested
<1>6. QED
    BY <1>1, <1>2, <1>4, <1>5

LEMMA SettledIsBounded ==
    ASSUME Lengths, NEW res, NEW why, NEW pause \in Int, Settled(res, why, pause)
    PROVE  streak' \in 0..(Doublings + 2) /\ rest' \in 0..Longest
<1>1. Doublings \in Nat /\ Hour \in Nat /\ KeyRest \in Nat /\ streak \in 0..(Doublings + 2) /\ rest \in 0..Longest
    BY ClientAssumption DEF Lengths
<1>2. Min({streak + 1, Doublings + 2}) \in 0..(Doublings + 2)
    <2>1. PICK a \in Int, b \in Int : a = streak + 1 /\ b = Doublings + 2
        BY <1>1
    <2>2. Min({a, b}) \in {a, b} /\ Min({a, b}) <= b
        BY EndsOfTwo
    <2>3. QED
        BY <1>1, <2>1, <2>2
<1>3. streak' \in 0..(Doublings + 2)
    BY <1>1, <1>2 DEF Settled
<1>4. Rested(KeyRest) \in 0..Longest /\ Rested(pause) \in 0..Longest
    BY <1>1, RestedIsBounded
<1>5. ASSUME streak + 1 >= 3 PROVE Rested(StreakRest(streak + 1)) \in 0..Longest
    <2>1. PICK k \in Int, n \in Int : k = streak + 1 /\ n = k - 2 /\ n >= 0
        BY <1>1, <1>5
    <2>2. Doublings \in Int /\ Hour \in Int
        BY <1>1
    <2>3. PICK m \in Nat : m = Min({n, Doublings})
        <3>1. Min({n, Doublings}) \in {n, Doublings}
            BY <2>2, EndsOfTwo
        <3>2. n \in Nat /\ Doublings \in Nat
            BY <1>1, <2>1
        <3>3. QED
            BY <3>1, <3>2
    <2>4. PICK e \in Int : e = 2 ^ m
        OBVIOUS
    <2>5. Min({e, Hour}) \in Int
        BY <2>2, EndsOfTwo
    <2>6. StreakRest(streak + 1) = Min({e, Hour})
        <3>1. StreakRest(k) = Min({2 ^ Min({k - 2, Doublings}), Hour})
            BY DEF StreakRest
        <3>2. n = k - 2 /\ k = streak + 1
            BY <2>1
        <3>3. QED
            BY <2>3, <2>4, <3>1, <3>2
    <2>7. QED
        BY <1>1, <2>5, <2>6, RestedIsBounded
<1> DEFINE more == IF streak + 1 >= 3 THEN Rested(StreakRest(streak + 1)) ELSE 0
<1>6. more \in 0..Longest
    BY <1>5, LongestOfAll
<1>7. Max({Rested(pause), more}) \in 0..Longest
    <2> HIDE DEF more
    <2>1. Longest \in Nat
        BY LongestOfAll
    <2>2. PICK a \in 0..Longest : a = Rested(pause)
        BY <1>4
    <2>3. a \in Int /\ more \in Int
        BY <1>6, <2>1
    <2>4. Max({a, more}) \in {a, more}
        BY <2>3, EndsOfTwo
    <2>5. QED
        BY <1>6, <2>2, <2>4
<1>8. rest' \in {rest, Rested(KeyRest), Max({Rested(pause), more})}
    BY DEF Settled
<1>9. QED
    BY <1>1, <1>3, <1>4, <1>7, <1>8

LEMMA LengthsStep == ClientIInv /\ Lengths /\ [ClientNext]_clientVars => Lengths'
<1> SUFFICES ASSUME ClientIInv, Lengths, [ClientNext]_clientVars PROVE Lengths'
    OBVIOUS
<1> USE DEF Lengths
<1>0. call \in [Call -> CallState] /\ MaxRetries \in Nat
    BY ClientAssumption DEF ClientIInv, CallShape
<1>1. ASSUME NEW c \in Call, NEW n \in 0..(MaxRetries + 1), NEW b, b.left = n, call' = [call EXCEPT ![c] = b]
      PROVE  \A d \in Call : call'[d].left \in 0..(MaxRetries + 1)
    BY <1>0, <1>1
<1>t. conf' = conf => ConfTyped'
    BY DEF ConfTyped
<1>2. CASE UNCHANGED clientVars
    BY <1>2, <1>t DEF clientVars
<1>3. CASE Tick
    BY <1>3, <1>t, LongestOfAll DEF Tick
<1>4. CASE HostTurns
    BY <1>4, <1>t DEF HostTurns
<1>5. ASSUME NEW c \in Call, NEW res, NEW why, NEW pause \in Int, Returns(c, res, why, pause), struck' \in BOOLEAN
      PROVE  Lengths'
    <2>1. NoCall.left = 0 /\ 0 \in 0..(MaxRetries + 1)
        BY <1>0 DEF NoCall
    <2>2. UNCHANGED <<conf, host, learnt>> /\ call' = [call EXCEPT ![c] = NoCall] /\ Settled(res, why, pause)
        BY <1>5 DEF Returns
    <2>3. \A d \in Call : call'[d].left \in 0..(MaxRetries + 1)
        BY <1>1, <2>1, <2>2
    <2>4. QED
        BY <1>5, <1>t, <2>2, <2>3, SettledIsBounded
<1>6. ASSUME NEW c \in Call, Answered(c) \/ NoWebSearch(c) \/ Abandoned(c) PROVE Lengths'
    <2>1. PICK res, why : Returns(c, res, why, 0)
        BY <1>6 DEF Answered, NoWebSearch, Abandoned
    <2>2. 0 \in Int
        OBVIOUS
    <2>3. struck' \in BOOLEAN
        BY <1>6 DEF Answered, NoWebSearch, Abandoned
    <2>4. QED
        BY <1>5, <2>1, <2>2, <2>3
<1>7. ASSUME NEW c \in Call, Fails(c) \/ RunsLate(c) PROVE Lengths'
    <2>1. Pauses \subseteq Int /\ 0 \in Int
        BY ClientAssumption
    <2>2. PICK pause \in Pauses \cup {0} : Returns(c, "failed", host, pause) \/ Returns(c, "failed", "late", pause)
        <3>1. CASE Fails(c)
            <4>1. PICK pause \in IF host = "limit" /\ c \notin Searcher THEN Pauses ELSE {0} : Returns(c, "failed", host, pause)
                BY <3>1 DEF Fails
            <4>2. pause \in Pauses \cup {0}
                OBVIOUS
            <4>3. QED
                BY <4>1, <4>2
        <3>2. CASE RunsLate(c)
            BY <3>2 DEF RunsLate
        <3>3. QED
            BY <1>7, <3>1, <3>2
    <2>3. struck' \in BOOLEAN
        BY <1>7 DEF Fails, RunsLate
    <2>4. QED
        BY <1>5, <2>1, <2>2, <2>3
<1>8. ASSUME NEW c \in Call, CallStarts(c) PROVE Lengths'
    <2>1. Tries(c) \in 0..(MaxRetries + 1)
        BY <1>0 DEF Tries
    <2>2. \A d \in Call : call'[d].left \in 0..(MaxRetries + 1)
        BY <1>0, <1>8, <2>1 DEF CallStarts
    <2>3. QED
        BY <1>8, <1>t, <2>2 DEF CallStarts
<1>9. ASSUME NEW c \in Call, Adapts(c) PROVE Lengths'
    <2>1. PICK k \in Kinds : /\ learnt' = learnt \cup {k}
                             /\ call' = [call EXCEPT ![c] = [Adapted(@, k) EXCEPT
                                            !.pc = IF call[c].left = Tries(c) THEN "asks" ELSE "backs"]]
        BY <1>9 DEF Adapts
    <2>2. [Adapted(call[c], k) EXCEPT !.pc = IF call[c].left = Tries(c) THEN "asks" ELSE "backs"].left = call[c].left
        BY <1>0 DEF Adapted, CallState
    <2>3. \A d \in Call : call'[d].left \in 0..(MaxRetries + 1)
        BY <1>0, <2>1, <2>2
    <2>4. QED
        BY <1>9, <1>t, <2>1, <2>3 DEF Adapts
<1>10. ASSUME NEW c \in Call, BacksOff(c) PROVE Lengths'
    <2>1. call' = [call EXCEPT ![c].pc = "backs", ![c].left = @ - 1] /\ call[c].left > 0
        BY <1>10 DEF BacksOff
    <2>2. call[c].left - 1 \in 0..(MaxRetries + 1)
        BY <1>0, <2>1
    <2>3. \A d \in Call : call'[d].left = call[d].left \/ (d = c /\ call'[d].left = call[d].left - 1)
        BY <1>0, <2>1 DEF CallState
    <2>4. QED
        BY <1>10, <1>t, <2>2, <2>3 DEF BacksOff
<1>11. ASSUME NEW c \in Call, Retries(c) \/ GoesAway(c) PROVE Lengths'
    <2>1. \A d \in Call : call'[d].left = call[d].left
        BY <1>0, <1>11 DEF Retries, GoesAway, CallState
    <2>2. QED
        BY <1>11, <1>t, <2>1 DEF Retries, GoesAway
<1>12. ASSUME NEW c \in Call, Declined(c) PROVE Lengths'
    BY <1>2, <1>12 DEF Declined
<1>13. QED
    BY <1>2, <1>3, <1>4, <1>6, <1>7, <1>8, <1>9, <1>10, <1>11, <1>12 DEF ClientNext

\* Every variable of the client stays in its type: no rest is longer than the
\* longest of the limits, no call has more tries than it was given (client.go
\* rest, settle, GenerateJSON).
THEOREM ClientTypeCorrect == ClientSpec => []ClientTypeOK
<1>1. ClientInit => Lengths
    <2> SUFFICES ASSUME ClientInit PROVE Lengths
        OBVIOUS
    <2>1. 0 \in 0..(Doublings + 2) /\ 0 \in 0..Longest /\ 0 \in 0..(MaxRetries + 1)
        BY ClientAssumption, LongestOfAll
    <2>2. \A c \in Call : call[c].left = 0
        BY DEF ClientInit, NoCall
    <2>3. QED
        BY <2>1, <2>2 DEF ClientInit, Lengths, ConfTyped
<1>2. ClientIInv /\ Lengths => ClientTypeOK
    <2> SUFFICES ASSUME ClientIInv, Lengths PROVE ClientTypeOK
        OBVIOUS
    <2>1. call \in [Call -> CallState]
        BY DEF ClientIInv, CallShape
    <2>2. \A c \in Call : call[c] \in [pc: {"idle", "asks", "backs"}, left: 0..(MaxRetries + 1),
                                       effort: {"", "none", "low", "high"}, temp: BOOLEAN, gone: BOOLEAN]
        BY <2>1 DEF Lengths, CallState, Effort
    <2>3. QED
        BY <2>1, <2>2 DEF ClientIInv, ToldShape, Lengths, ConfTyped, Longest, ClientTypeOK
<1>3. QED
    BY <1>1, <1>2, InitShown, StepShown, LengthsStep, PTL DEF ClientSpec
=============================================================================
