----------------------------- MODULE LLMClient -----------------------------
(***************************************************************************)
(* One client of the language model (internal/integration/llm): calls that *)
(* share what the model has refused (a temperature, having its thinking    *)
(* turned off) and the breaker that rests the client after a long pause    *)
(* asked for, a refused key or a run of failures. Chat calls are           *)
(* GenerateJSON, those of Searcher are SearchJSON.                         *)
(*                                                                         *)
(* Time is a countdown, rest: what is left until openUntil, in units whose *)
(* lengths keep the order of the code's (minutes). Prompts and replies are *)
(* left out: a reply is one to use or not.                                 *)
(***************************************************************************)
EXTENDS Integers, FiniteSets, FiniteSetsExt

CONSTANTS
    Call,          \* callers that may be in the client at once
    Searcher,      \* those of them that search the web
    MaxRetries,    \* extra attempts of a chat call (MaxRetries: 3)
    Doublings,     \* how often the rest after failures doubles (6)
    Hour,          \* the longest rest after failures
    KeyRest,       \* the rest after a refused key (15 minutes)
    Pauses,        \* long pauses a host asks for (Retry-After > maxInlineWait)
    MaxRest        \* the longest rest of all (6 hours)

ASSUME ClientAssumption ==
    /\ Searcher \subseteq Call
    /\ {MaxRetries, Doublings, Hour, KeyRest, MaxRest} \subseteq Nat
    /\ Pauses \subseteq Nat \ {0}

VARIABLES
    conf,       \* effort, fallback: as main.go set them; refuses: what this
                \* model does not take (never changes)
    host,       \* how the host answers now
    learnt,     \* thinkingRequired, noTemperature: what was refused so far
    streak,     \* failStreak
    rest,       \* time until openUntil
    call,       \* the calls in progress
    told,       \* what each call was refused, or could have known when it began
    struck      \* the host has failed someone
clientVars == <<conf, host, learnt, streak, rest, call, told, struck>>

Kinds == {"thinking", "temperature"}
NoCall == [pc |-> "idle", left |-> 0, effort |-> "", temp |-> FALSE, gone |-> FALSE]

ClientTypeOK ==
    /\ conf \in [effort: {"", "none", "high"}, fallback: {"", "low"}, refuses: SUBSET (Kinds \cup {"web"})]
    /\ host \in {"up", "busy", "limit", "key", "bad"}
    /\ learnt \subseteq Kinds
    /\ streak \in 0..(Doublings + 2)
    /\ rest \in 0..Max({Hour, KeyRest, MaxRest})
    /\ call \in [Call -> [pc: {"idle", "asks", "backs"}, left: 0..(MaxRetries + 1),
                          effort: {"", "none", "low", "high"}, temp: BOOLEAN, gone: BOOLEAN]]
    /\ told \in [Call -> [Kinds -> 0..2]]
    /\ struck \in BOOLEAN

ClientInit ==
    /\ conf \in [effort: {"", "none", "high"}, fallback: {"", "low"}, refuses: SUBSET (Kinds \cup {"web"})]
    /\ host = "up"
    /\ learnt = {}
    /\ streak = 0
    /\ rest = 0
    /\ call = [c \in Call |-> NoCall]
    /\ told = [c \in Call |-> [k \in Kinds |-> 0]]
    /\ struck = FALSE

----------------------------------------------------------------------------
(* The breaker *)

\* a rest never shortens the one under way
Rested(d) == Max({rest, Min({d, MaxRest})})

\* how long the client rests when streak calls failed one after the other
StreakRest(n) == Min({2 ^ Min({n - 2, Doublings}), Hour})

\* a cancelled call counts as a failed one
Settled_CountsCancelled(res, why, pause) ==
    /\ streak' = CASE res = "ok" -> 0
                   [] res \in {"failed", "cancelled"} -> Min({streak + 1, Doublings + 2})
                   [] OTHER -> streak
    /\ rest' = CASE res \notin {"failed", "cancelled"} -> rest
                 [] why = "key" -> Rested(KeyRest)
                 [] OTHER -> Max({Rested(pause), IF streak + 1 >= 3 THEN Rested(StreakRest(streak + 1)) ELSE 0})

\* settle: a whole call has ended, with this result; why is "key" or "limit"
\* when the host gave that reason, and a limit has its pause
Settled(res, why, pause) ==
    /\ streak' = CASE res = "ok" -> 0
                   [] res = "failed" -> Min({streak + 1, Doublings + 2})
                   [] OTHER -> streak
    /\ rest' = CASE res # "failed" -> rest
                 [] why = "key" -> Rested(KeyRest)
                 [] OTHER -> Max({Rested(pause), IF streak + 1 >= 3 THEN Rested(StreakRest(streak + 1)) ELSE 0})

\* the call is over and its caller has this
Returns(c, res, why, pause) ==
    /\ call' = [call EXCEPT ![c] = NoCall]
    /\ Settled(res, why, pause)
    /\ UNCHANGED <<conf, host, learnt, told>>

----------------------------------------------------------------------------
(* A call *)

\* the refusal is only remembered for a call's own body when it falls back
Body_OnlyEffort(c) ==
    CASE c \in Searcher -> [effort |-> "none", temp |-> FALSE]
      [] conf.effort \in {"", "none"} ->
            [effort |-> IF "thinking" \in learnt THEN "" ELSE conf.effort, temp |-> "temperature" \notin learnt]
      [] OTHER -> [effort |-> conf.effort, temp |-> FALSE]

\* what a call sends, from the effort wanted and what was refused before
Body(c) ==
    CASE c \in Searcher -> [effort |-> IF "thinking" \in learnt THEN conf.fallback ELSE "none", temp |-> FALSE]
      [] conf.effort = "none" /\ "thinking" \in learnt /\ conf.fallback # "" ->
            [effort |-> conf.fallback, temp |-> FALSE]
      [] conf.effort \in {"", "none"} ->
            [effort |-> IF "thinking" \in learnt THEN "" ELSE conf.effort, temp |-> "temperature" \notin learnt]
      [] OTHER -> [effort |-> conf.effort, temp |-> FALSE]

\* a call that was declined is settled as a failed one
Declined_Counts(c) ==
    /\ call[c].pc = "idle" /\ rest > 0
    /\ Settled("failed", "", 0)
    /\ UNCHANGED <<conf, host, learnt, call, told, struck>>

\* while the client rests, a call ends before it asks anything
Declined(c) ==
    /\ call[c].pc = "idle" /\ rest > 0
    /\ UNCHANGED clientVars

\* the extra attempts of a call
Tries(c) == IF c \in Searcher THEN 1 ELSE MaxRetries

CallStarts(c) ==
    /\ call[c].pc = "idle" /\ rest = 0
    /\ call' = [call EXCEPT ![c] = [pc |-> "asks", left |-> Tries(c),
                                    effort |-> Body(c).effort, temp |-> Body(c).temp, gone |-> FALSE]]
    /\ told' = [told EXCEPT ![c] = [k \in Kinds |-> IF k \in learnt THEN 1 ELSE 0]]
    /\ UNCHANGED <<conf, host, learnt, streak, rest, struck>>

\* what the host refuses of a request; the error names one of them
Refusals(c) ==
    {k \in conf.refuses :
        CASE k = "thinking" -> call[c].effort = "none"
          [] k = "temperature" -> call[c].temp
          [] k = "web" -> c \in Searcher}

Answered(c) ==
    /\ call[c].pc = "asks" /\ host = "up" /\ Refusals(c) = {}
    /\ Returns(c, "ok", "", 0)
    /\ UNCHANGED struck

\* the body without what was refused
Adapted(b, k) ==
    IF k = "thinking"
    THEN [b EXCEPT !.effort = conf.fallback, !.temp = b.temp /\ conf.fallback = ""]
    ELSE [b EXCEPT !.temp = FALSE]

\* the same request without what was refused, not counted as a retry: at once,
\* or after a wait like the one before it when it was a retry itself
Adapts(c) ==
    /\ call[c].pc = "asks" /\ host = "up"
    /\ \E k \in Refusals(c) \cap Kinds :
        /\ learnt' = learnt \cup {k}
        /\ call' = [call EXCEPT ![c] = [Adapted(@, k) EXCEPT
                        !.pc = IF call[c].left = Tries(c) THEN "asks" ELSE "backs"]]
        /\ told' = [told EXCEPT ![c][k] = Min({@ + 1, 2})]
    /\ UNCHANGED <<conf, host, streak, rest, struck>>

\* a host without web search: not a failure of the client
NoWebSearch(c) ==
    /\ call[c].pc = "asks" /\ host = "up" /\ "web" \in Refusals(c)
    /\ Returns(c, "noweb", "", 0)
    /\ UNCHANGED struck

\* a passing failure is tried again after a while, as long as tries are left;
\* a search waits out a long pause too (as far as its deadline lets it)
Passing(c) == host = "busy" \/ (host = "limit" /\ c \in Searcher)

BacksOff(c) ==
    /\ call[c].pc = "asks" /\ Passing(c) /\ call[c].left > 0
    /\ call' = [call EXCEPT ![c].pc = "backs", ![c].left = @ - 1]
    /\ struck' = TRUE
    /\ UNCHANGED <<conf, host, learnt, streak, rest, told>>

Retries(c) ==
    /\ call[c].pc = "backs"
    /\ call' = [call EXCEPT ![c].pc = "asks"]
    /\ UNCHANGED <<conf, host, learnt, streak, rest, told, struck>>

\* a failure that asking again does not mend, or the last of the tries; a
\* limit's pause rests the client on top of what settle does
\* (GenerateJSON also fails without a key or a prompt, before it asks; main.go
\* makes no client without a key, and every caller's prompt has text)
Fails(c) ==
    /\ call[c].pc = "asks" /\ host # "up"
    /\ Passing(c) => call[c].left = 0
    /\ \E pause \in IF host = "limit" /\ c \notin Searcher THEN Pauses ELSE {0} :
           Returns(c, "failed", host, pause)
    /\ struck' = TRUE

\* the caller's own deadline passes while the host keeps it waiting
RunsLate(c) ==
    /\ call[c].pc \in {"asks", "backs"} /\ host \in {"busy", "limit"}
    /\ Returns(c, "failed", "late", 0)
    /\ struck' = TRUE

\* the person typed on: the request's context is cancelled
GoesAway(c) ==
    /\ call[c].pc # "idle" /\ ~call[c].gone
    /\ call' = [call EXCEPT ![c].gone = TRUE]
    /\ UNCHANGED <<conf, host, learnt, streak, rest, told, struck>>

\* it ends the request, or the wait before the next one
Abandoned(c) ==
    /\ call[c].pc \in {"asks", "backs"} /\ call[c].gone
    /\ Returns(c, "cancelled", "", 0)
    /\ UNCHANGED struck

----------------------------------------------------------------------------
(* The world *)

Tick ==
    /\ rest > 0
    /\ rest' = rest - 1
    /\ UNCHANGED <<conf, host, learnt, streak, call, told, struck>>

HostTurns ==
    /\ host' \in {"up", "busy", "limit", "key", "bad"} \ {host}
    /\ UNCHANGED <<conf, learnt, streak, rest, call, told, struck>>

ClientNext ==
    \/ Tick
    \/ HostTurns
    \/ \E c \in Call :
        \/ Declined(c) \/ CallStarts(c) \/ Answered(c) \/ Adapts(c) \/ NoWebSearch(c)
        \/ BacksOff(c) \/ Retries(c) \/ Fails(c) \/ RunsLate(c)
        \/ GoesAway(c) \/ Abandoned(c)

\* time passes, and each attempt has a deadline of its own: it ends some way
Moves(c) ==
    Answered(c) \/ Adapts(c) \/ NoWebSearch(c) \/ BacksOff(c) \/ Retries(c) \/ Fails(c) \/ Abandoned(c)
ClientFairness == WF_clientVars(Tick) /\ \A c \in Call : WF_clientVars(Moves(c))

ClientSpec == ClientInit /\ [][ClientNext]_clientVars /\ ClientFairness

----------------------------------------------------------------------------
(* Properties *)

\* A model's refusal is learnt by the whole client: no call is refused the
\* same thing twice, and none that began after another was told is refused it
\* at all (client.go: "now and from now on"), whichever of the two kinds of
\* call learnt it and in whatever order the two things were refused.
RefusedOnce == \A c \in Call : \A k \in Kinds : told[c][k] <= 1

\* Only the host's failures rest the client. While it has failed no one, no
\* number of calls that were cancelled by typing on, were told to leave out a
\* temperature or found no web search brings a rest or a streak nearer.
RestNeedsAFault == ~struck => rest = 0 /\ streak = 0

\* A host that is well again is asked again: calls made during a rest do not
\* prolong it, and those still under way from before it soon stop doing so.
RestEnds == <>[](host = "up") => <>[](rest = 0)

=============================================================================
