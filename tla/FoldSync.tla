-------------------------------- MODULE FoldSync --------------------------------
(***************************************************************************)
(* Staging Fold's transactions (fold_sync.go): the hourly loop and the     *)
(* operator's endpoint walk Fold's list from its newest transaction back   *)
(* to the newest date the Firefly mirror has, inside one transaction of    *)
(* the database.  The pool has one connection, so nobody else reads or     *)
(* writes a row while a walk is open; Fold's list goes on changing, and    *)
(* the cutoff was read before.                                             *)
(*                                                                         *)
(* A transaction of Fold is a number, larger for a later place in Fold's   *)
(* order (time, then UUID).  Of its money only its age is kept: "seen" is  *)
(* how often Fold had changed the amount when the row took it over.        *)
(***************************************************************************)
EXTENDS Naturals, FiniteSets

CONSTANTS
    Txn,          \* the transactions Fold ever reports
    Time,         \* their timestamps
    Cron,         \* the periodic loop
    Admin,        \* requests of POST /admin/fold/sync
    PageSize,     \* fold's page (100)
    RecentLimit,  \* ?limit= of the recent mode
    MaxTotal,     \* the walk's hard cap (2000)
    Changing,     \* bound: the transactions that Fold corrects and a person decides
    MaxEdits,     \* bound: how often Fold corrects one
    MaxFailures   \* bound: failures of walks and requests

Syncer == Cron \cup Admin

nobody == "nobody"

ASSUME SyncAssumption ==
    /\ nobody \notin Syncer
    /\ Txn \subseteq Nat /\ IsFiniteSet(Txn)
    /\ Time \in [Txn -> Nat \ {0}]
    /\ \A t, u \in Txn : t <= u => Time[t] <= Time[u]
    /\ PageSize \in Nat \ {0} /\ RecentLimit \in Nat \ {0} /\ MaxTotal \in Nat \ {0}
    /\ Changing \subseteq Txn /\ MaxEdits \in Nat /\ MaxFailures \in Nat

VARIABLES
    known,      \* Fold: the transactions it lists
    reported,   \* Fold: how often it has changed each amount
    rows,       \* staged_fold_txns, by transaction
    newest,     \* MAX(date) of firefly_txns, 0 when the mirror is empty
    holder,     \* the walk that holds the database's connection, or nobody
    work,       \* the rows as that walk's transaction has them
    pc,         \* syncer: where it is
    cutoff,     \* syncer: the newest date it has read
    page,       \* syncer: what a request for the recent ones was given
    ahead,      \* the open walk: what its cursor has not passed yet
    total,      \* the open walk: inserted + skipped
    stop,       \* the open walk: why it stopped (StoppedAt)
    offered,    \* the open walk, ghost: what Fold reported when it began
    failures

foldVars == <<known, reported>>
dbVars   == <<rows, newest>>
walkVars == <<holder, work, ahead, total, stop, offered>>
askVars  == <<cutoff, page>>
vars     == <<foldVars, dbVars, walkVars, askVars, pc, failures>>

Row    == [decided : BOOLEAN, seen : Nat]   \* decided: its status is pushed or skipped
IsAges(a)  == DOMAIN a \subseteq Txn /\ a \in [DOMAIN a -> Nat]
IsRows(rs) == DOMAIN rs \subseteq Txn /\ rs \in [DOMAIN rs -> Row]

Empty == [t \in {} |-> 0]

Closes ==
    /\ holder' = nobody /\ work' = Empty /\ ahead' = Txn
    /\ total' = 0 /\ stop' = "none" /\ offered' = Empty

Init ==
    /\ known = {} /\ reported = [t \in Txn |-> 0]
    /\ rows = Empty /\ newest = 0
    /\ holder = nobody /\ work = Empty /\ ahead = Txn /\ total = 0 /\ stop = "none" /\ offered = Empty
    /\ pc = [s \in Syncer |-> "idle"]
    /\ cutoff = [s \in Syncer |-> 0]
    /\ page = [s \in Syncer |-> Empty]
    /\ failures = 0

-----------------------------------------------------------------------------
(* Fold, and the rest of this program. *)

Free == holder = nobody

(* A transaction appears in Fold, in its place: the bank's alert may be late. *)
FoldLists(t) ==
    /\ t \in Txn \ known
    /\ known' = known \cup {t}
    /\ UNCHANGED <<reported, dbVars, walkVars, askVars, pc, failures>>

FoldEdits(t) ==
    /\ t \in known \cap Changing /\ reported[t] < MaxEdits
    /\ reported' = [reported EXCEPT ![t] = @ + 1]
    /\ UNCHANGED <<known, dbVars, walkVars, askVars, pc, failures>>

(* A row is sent or skipped, or a skipped one is taken back.                *)
RowIsDecided(t) ==
    /\ Free /\ t \in DOMAIN rows \cap Changing
    /\ rows' = [rows EXCEPT ![t].decided = ~@]
    /\ UNCHANGED <<foldVars, newest, walkVars, askVars, pc, failures>>

(* The mirror takes in what was pushed, and journals this program did not   *)
(* book or that were moved by hand: the newest date can become any.         *)
Mirrored(d) ==
    /\ Free /\ newest' = d
    /\ UNCHANGED <<foldVars, rows, walkVars, askVars, pc, failures>>

-----------------------------------------------------------------------------
(* Writing rows. *)

(* The first n of Fold's newest-first list of S. *)
Newest(S, n) == {t \in S : Cardinality({u \in S : u > t}) < n}

(* Mutant: what was sent is brought up to date as well. *)
Stage_RefreshesAll(rs, taken, rep) ==
    [t \in DOMAIN rs \cup taken |->
        IF t \notin DOMAIN rs THEN [decided |-> FALSE, seen |-> rep[t]]
        ELSE IF t \in taken THEN [rs[t] EXCEPT !.seen = rep[t]]
        ELSE rs[t]]

(* insertStaged, and refreshMoney for a row that is there already. *)
Stage(rs, taken, rep) ==
    [t \in DOMAIN rs \cup taken |->
        IF t \notin DOMAIN rs THEN [decided |-> FALSE, seen |-> rep[t]]
        ELSE IF t \in taken /\ ~rs[t].decided THEN [rs[t] EXCEPT !.seen = rep[t]]
        ELSE rs[t]]

Goes(s, l) == pc' = [pc EXCEPT ![s] = l]

-----------------------------------------------------------------------------
(* SyncSinceFirefly. *)

(* latestFireflyTxnDate, before the transaction is opened. *)
ReadCutoff(s) ==
    /\ pc[s] = "idle" /\ Free
    /\ cutoff' = [cutoff EXCEPT ![s] = newest]
    /\ Goes(s, "begin")
    /\ UNCHANGED <<foldVars, dbVars, walkVars, page, failures>>

Begin(s) ==
    /\ pc[s] = "begin" /\ Free
    /\ holder' = s /\ work' = rows
    /\ offered' = [t \in known |-> reported[t]]
    /\ Goes(s, "walk")
    /\ UNCHANGED <<foldVars, dbVars, askVars, ahead, total, stop, failures>>

Above(s, t) == cutoff[s] = 0 \/ Time[t] > cutoff[s]

(* The page Fold answers with, what the walk takes of it, and whether that  *)
(* uses up the cap.                                                         *)
Got       == Newest(known \cap ahead, PageSize)
Wanted(s) == {t \in Got : Above(s, t)}
Room      == MaxTotal - total
Capped(w) == Cardinality(w) >= Room
Taken(w)  == IF Capped(w) THEN Newest(w, Room) ELSE w

(* Mutant: a position in the list instead of a cursor, off by one once the  *)
(* list has grown.                                                          *)
Older_SkipsOne == {t \in Txn : \A u \in Got : t + 1 < u}

(* What is behind Fold's cursor once the page is read.                      *)
Older == {t \in Txn : \A u \in Got : t < u}

Stops(s, why) == stop' = why /\ Goes(s, "commit")
GoesOn        == UNCHANGED <<stop, pc>>

(* One page: what is newer than the cutoff is staged, up to the cap; then   *)
(* the walk stops or takes Fold's cursor, which the last page may still     *)
(* carry.                                                                   *)
WalkPage(s) ==
    /\ pc[s] = "walk"
    /\ LET w == Wanted(s)
       IN  /\ work' = Stage(work, Taken(w), reported)
           /\ total' = total + Cardinality(Taken(w))
           /\ \/ Capped(w) /\ Stops(s, "hard_cap")
              \/ ~Capped(w) /\ w # Got /\ Stops(s, "cutoff_reached")
              \/ ~Capped(w) /\ w = Got /\ (w = {} \/ known \cap Older = {}) /\ Stops(s, "exhausted")
              \/ ~Capped(w) /\ w = Got /\ w # {} /\ GoesOn
    /\ ahead' = Older
    /\ UNCHANGED <<foldVars, dbVars, askVars, holder, offered, failures>>

Commit(s) ==
    /\ pc[s] = "commit"
    /\ rows' = work /\ Closes
    /\ cutoff' = [cutoff EXCEPT ![s] = 0]
    /\ Goes(s, "idle")
    /\ UNCHANGED <<foldVars, newest, page, failures>>

(* Mutant: the transaction is not rolled back.                              *)
Fails_KeepsConnection(s) ==
    /\ pc[s] \in {"begin", "walk", "commit", "recent"}
    /\ failures < MaxFailures
    /\ failures' = failures + 1
    /\ cutoff' = [cutoff EXCEPT ![s] = 0]
    /\ page' = [page EXCEPT ![s] = Empty]
    /\ Goes(s, "idle")
    /\ UNCHANGED <<foldVars, dbVars, walkVars>>

(* Any error, a cancelled request or the end of the process: the deferred   *)
(* rollback, or SQLite's own.                                               *)
Fails(s) ==
    /\ pc[s] \in {"begin", "walk", "commit", "recent"}
    /\ failures < MaxFailures
    /\ failures' = failures + 1
    /\ IF holder = s THEN Closes ELSE UNCHANGED walkVars
    /\ cutoff' = [cutoff EXCEPT ![s] = 0]
    /\ page' = [page EXCEPT ![s] = Empty]
    /\ Goes(s, "idle")
    /\ UNCHANGED <<foldVars, dbVars>>

-----------------------------------------------------------------------------
(* SyncRecent: the list first, then a transaction of its own. *)

RecentLists(s) ==
    /\ pc[s] = "idle"
    /\ page' = [page EXCEPT ![s] = [t \in Newest(known, RecentLimit) |-> reported[t]]]
    /\ Goes(s, "recent")
    /\ UNCHANGED <<foldVars, dbVars, walkVars, cutoff, failures>>

RecentStages(s) ==
    /\ pc[s] = "recent" /\ Free
    /\ rows' = Stage(rows, DOMAIN page[s], page[s])
    /\ page' = [page EXCEPT ![s] = Empty]
    /\ Goes(s, "idle")
    /\ UNCHANGED <<foldVars, newest, walkVars, cutoff, failures>>

-----------------------------------------------------------------------------
Walk(s) == ReadCutoff(s) \/ Begin(s) \/ WalkPage(s) \/ Commit(s) \/ Fails(s)

World ==
    \/ \E t \in Txn : FoldLists(t) \/ FoldEdits(t)
    \/ \E t \in DOMAIN rows : RowIsDecided(t)
    \/ \E t \in Txn : Mirrored(Time[t])

Next ==
    \/ World
    \/ \E s \in Syncer : Walk(s)
    \/ \E s \in Admin : RecentLists(s) \/ RecentStages(s)

Spec == Init /\ [][Next]_vars

(* The loop ticks again; requests for the one connection are served in      *)
(* turn; Fold answers or the client's timeout is a failure.                 *)
Fairness ==
    /\ \A s \in Cron : SF_vars(ReadCutoff(s)) /\ SF_vars(Begin(s))
    /\ \A s \in Syncer : WF_vars(WalkPage(s) \/ Commit(s))

FairSpec == Spec /\ Fairness

-----------------------------------------------------------------------------
(* Properties. *)

(* Every variable stays in its type; a walk touches no more rows than its   *)
(* cap, and holds the connection exactly while it walks.                    *)
TypeOK ==
    /\ known \subseteq Txn /\ reported \in [Txn -> Nat]
    /\ IsRows(rows) /\ IsRows(work) /\ newest \in Nat
    /\ holder \in Syncer \cup {nobody}
    /\ \A s \in Syncer : holder = s <=> pc[s] \in {"walk", "commit"}
    /\ pc \in [Syncer -> {"idle", "begin", "walk", "commit", "recent"}]
    /\ cutoff \in [Syncer -> Nat]
    /\ DOMAIN page = Syncer /\ \A s \in Syncer : IsAges(page[s])
    /\ ahead \subseteq Txn /\ total \in 0..MaxTotal
    /\ stop \in {"none", "hard_cap", "cutoff_reached", "exhausted"}
    /\ IsAges(offered)
    /\ failures \in Nat

(* At the end of a walk t is staged, and if nobody has decided it, with an  *)
(* amount no older than n.                                                  *)
UpToDate(t, n) ==
    t \in DOMAIN rows' /\ (~rows'[t].decided => rows'[t].seen >= n)

Ends(s) == pc[s] = "commit" /\ pc'[s] = "idle" /\ failures' = failures /\ stop # "hard_cap"

(* A walk that was not cut off by its cap has staged, with its amount,      *)
(* every transaction newer than its cutoff that Fold had when it began,     *)
(* although Fold's list grew and changed under it (SyncSinceFirefly).       *)
WalkIsComplete ==
    [][\A s \in Syncer : Ends(s) =>
          \A t \in DOMAIN offered : Above(s, t) => UpToDate(t, offered[t])]_vars

(* No sync takes a row away or undoes a person's decision on it, or alters  *)
(* the amount of a row that was sent or skipped (refreshMoney).             *)
DecidedIsLeftAlone ==
    [][/\ DOMAIN rows \subseteq DOMAIN rows'
       /\ \A t \in DOMAIN rows :
            /\ rows[t].decided => rows'[t].seen = rows[t].seen
            /\ pc' # pc => rows'[t].decided = rows[t].decided]_vars

(* "Each tick fills the gap between firefly's most recent date and now,     *)
(* capped at maxTotal": once failures stop, a transaction that Fold lists   *)
(* is staged, unless Firefly's newest date passes it or there are more than *)
(* a walk takes.                                                            *)
GapIsFilled ==
    \A t \in Txn :
        t \in known ~> \/ t \in DOMAIN rows
                       \/ newest >= Time[t]
                       \/ Cardinality({u \in known : Time[u] > newest}) > MaxTotal

(* "Re-running it after any outage catches up automatically", "when fold    *)
(* reports a new amount for a row that isn't pushed yet, the next sync      *)
(* updates it": the same as WalkIsComplete, for everything Fold lists.      *)
SyncCatchesUp ==
    [][\A s \in Syncer : Ends(s) =>
          \A t \in DOMAIN offered : UpToDate(t, offered[t])]_vars
=============================================================================
