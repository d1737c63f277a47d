-------------------------------- MODULE Broker --------------------------------
(***************************************************************************)
(* The token broker (broker.go, store.go, fold.go): it owns one refresh    *)
(* token of Fold, exchanges it for access tokens and hands those out.      *)
(*                                                                         *)
(* Fold rotates: an accepted refresh token is dead from then on, and only  *)
(* the one in the answer is alive.  A broker that misses an answer has     *)
(* lost the chain, and an operator must seed it again.                     *)
(*                                                                         *)
(* A refresh token is a login (its chain) and a generation; the access     *)
(* token that came with it has the same name.  Time is abstracted to the   *)
(* one question the code asks of it: has an access token come within       *)
(* refreshLead of its expiry?  The set aged holds the ones that have.      *)
(*                                                                         *)
(* Faults says which failures of the world the model allows:               *)
(*   "timeout"    a call gives up; Fold may act on the request even later  *)
(*   "transient"  Fold answers with an error other than a 401              *)
(*   "persist"    writing the state file fails                             *)
(*   "crash"      the process dies and starts again from the state file    *)
(*   "rotate"     someone else uses up the token (a browser, a revocation) *)
(***************************************************************************)
EXTENDS Naturals

CONSTANTS
    Chain,      \* the logins an operator can seed the broker from
    Caller,     \* concurrent GET /token requests
    Admin,      \* concurrent POST /init requests
    Warmer,     \* the keep-warm loop (one goroutine, or none)
    MaxGen,     \* bound on the rotations of any chain
    Turns,      \* bound on the rotations of each chain, at most MaxGen
    Faults,     \* the failures that may happen
    NoToken,    \* the empty token: an unseeded store, an error answer
    Free        \* refreshMu is not held

FaultKinds == {"timeout", "transient", "persist", "crash", "rotate"}

Gen   == 0..MaxGen
Token == [chain : Chain, gen : Gen]
Proc  == Caller \cup Admin \cup Warmer

ASSUME ConstantsAssumption ==
    /\ MaxGen \in Nat
    /\ Turns \in [Chain -> Gen]
    /\ Faults \subseteq FaultKinds
    /\ NoToken \notin Token
    /\ Free \notin Proc
    /\ Caller \cap Admin = {} /\ Caller \cap Warmer = {} /\ Admin \cap Warmer = {}

VARIABLES
    mem,        \* Store.state
    disk,       \* the state file
    refreshMu,  \* the process that holds the mutex, or Free
    pc,         \* where each process is
    arg,        \* the refresh token a process is exchanging
    reply,      \* what Fold answered the process, if it has
    served,     \* the access token in the latest answer, NoToken if it was an error
    head,       \* Fold: the one living generation of each chain
    orphans,    \* Fold: requests still under way whose sender gave up
    aged,       \* the access tokens within refreshLead of their expiry
    broken,     \* history: the chains the broker missed a rotation of
    refused     \* history: tokens a refresh of this process life saw a 401 for

store == <<mem, disk>>
fold  == <<head, orphans>>
ghost == <<broken, refused>>
vars  == <<mem, disk, refreshMu, pc, arg, reply, served, head, orphans, aged,
           broken, refused>>

-----------------------------------------------------------------------------
(* State and its predicates (store.go). *)

State == [tok : Token \cup {NoToken}, rejected : BOOLEAN]

Seeded(s)   == s.tok # NoToken
Rejected(s) == s.rejected
Fresh(s)    == s.tok \notin aged
Usable(s)   == Seeded(s) /\ ~Rejected(s)

Rotated(t) == [t EXCEPT !.gen = @ + 1]

(* What Set leaves behind when the write succeeds.  The write and the       *)
(* update of the copy in memory are one step: readers wait for the store's  *)
(* own mutex, and after a crash in between only the file counts.            *)
Set(next) == mem' = next /\ disk' = next

-----------------------------------------------------------------------------
Unseeded == [tok |-> NoToken, rejected |-> FALSE]

Init ==
    /\ mem = Unseeded /\ disk = Unseeded
    /\ refreshMu = Free
    /\ pc = [p \in Proc |-> "idle"]
    /\ arg = [p \in Proc |-> NoToken]
    /\ reply = [p \in Proc |-> "none"]
    /\ served = NoToken
    /\ head = [c \in Chain |-> 0]
    /\ orphans = {} /\ aged = {}
    /\ broken = {} /\ refused = {}

(* The process answers its request with t (NoToken: an error) and is idle.  *)
Answer(p, t) ==
    /\ pc' = [pc EXCEPT ![p] = "idle"]
    /\ arg' = [arg EXCEPT ![p] = NoToken]
    /\ reply' = [reply EXCEPT ![p] = "none"]
    /\ served' = t

Goto(p, l) == pc' = [pc EXCEPT ![p] = l]

(* Token(): the fast path reads the store without the mutex. *)
TokenFast(p) ==
    /\ p \in Caller /\ pc[p] = "idle"
    /\ \/ /\ ~Usable(mem)
          /\ Answer(p, NoToken)
       \/ /\ Usable(mem) /\ Fresh(mem)
          /\ Answer(p, mem.tok)
       \/ /\ Usable(mem) /\ ~Fresh(mem)
          /\ Goto(p, "waiting")
          /\ UNCHANGED <<arg, reply, served>>
    /\ UNCHANGED <<store, refreshMu, fold, aged, ghost>>

(* KeepWarm(): a tick that finds a usable token due queues for a refresh;   *)
(* any other tick does nothing.                                             *)
WarmTick(p) ==
    /\ p \in Warmer /\ pc[p] = "idle"
    /\ Usable(mem) /\ ~Fresh(mem)
    /\ Goto(p, "waiting")
    /\ UNCHANGED <<store, refreshMu, arg, reply, served, fold, aged, ghost>>

(* Init(): the operator brings a well-formed seed, a token of some chain    *)
(* that Fold issued (perhaps one that is dead by now), and queues.          *)
InitRequest(p) ==
    /\ p \in Admin /\ pc[p] = "idle"
    /\ \E t \in Token :
          /\ t.gen <= head[t.chain] /\ t.gen < Turns[t.chain]
          /\ arg' = [arg EXCEPT ![p] = t]
    /\ Goto(p, "waiting")
    /\ UNCHANGED <<store, refreshMu, reply, served, fold, aged, ghost>>

(* Mutant: refreshLocked() trusts the caller's read and does not look at the *)
(* store's tombstone again.                                                  *)
RefreshLock_SkipsTombstone(p) ==
    /\ p \in Caller \cup Warmer /\ pc[p] = "waiting"
    /\ refreshMu = Free
    /\ refreshMu' = p
    /\ arg' = [arg EXCEPT ![p] = mem.tok]
    /\ Goto(p, "calling")
    /\ UNCHANGED <<reply, served, store, fold, aged, ghost>>

(* Mutant: refreshLocked() without refreshMu. *)
RefreshLock_NoMutex(p) ==
    /\ p \in Caller \cup Warmer /\ pc[p] = "waiting"
    /\ Usable(mem) /\ ~Fresh(mem)
    /\ refreshMu' = p
    /\ arg' = [arg EXCEPT ![p] = mem.tok]
    /\ Goto(p, "calling")
    /\ UNCHANGED <<reply, served, store, fold, aged, ghost>>

(* refreshLocked(): once it has the mutex, a process reads the store again, *)
(* answers from it if someone else has settled the matter, and otherwise    *)
(* sends the stored refresh token.                                          *)
RefreshLock(p) ==
    /\ p \in Caller \cup Warmer /\ pc[p] = "waiting"
    /\ refreshMu = Free
    /\ \/ /\ ~Usable(mem)
          /\ Answer(p, NoToken)
          /\ UNCHANGED refreshMu
       \/ /\ Usable(mem) /\ Fresh(mem)
          /\ Answer(p, mem.tok)
          /\ UNCHANGED refreshMu
       \/ /\ Usable(mem) /\ ~Fresh(mem)
          /\ refreshMu' = p
          /\ arg' = [arg EXCEPT ![p] = mem.tok]
          /\ Goto(p, "calling")
          /\ UNCHANGED <<reply, served>>
    /\ UNCHANGED <<store, fold, aged, ghost>>

(* Init(): with the mutex, the seed is sent whatever the store holds. *)
InitLock(p) ==
    /\ p \in Admin /\ pc[p] = "waiting"
    /\ refreshMu = Free
    /\ refreshMu' = p
    /\ Goto(p, "calling")
    /\ UNCHANGED <<store, arg, reply, served, fold, aged, ghost>>

-----------------------------------------------------------------------------
(* Fold's side of RefreshTokens (fold.go). *)

Calling(p) == pc[p] = "calling" /\ reply[p] = "none"

(* The living token is accepted: the chain rotates. *)
FoldAccepts(p) ==
    /\ Calling(p)
    /\ head[arg[p].chain] = arg[p].gen
    /\ head' = [head EXCEPT ![arg[p].chain] = @ + 1]
    /\ reply' = [reply EXCEPT ![p] = "accepted"]
    /\ broken' = broken \ {arg[p].chain}
    /\ UNCHANGED <<store, refreshMu, pc, arg, served, orphans, aged, refused>>

(* Any other token is answered with a 401. *)
FoldRejects(p) ==
    /\ Calling(p)
    /\ head[arg[p].chain] # arg[p].gen
    /\ reply' = [reply EXCEPT ![p] = "unauthorized"]
    /\ UNCHANGED <<store, refreshMu, pc, arg, served, fold, aged, ghost>>

(* Fold fails without touching the chain. *)
FoldFails(p) ==
    /\ "transient" \in Faults
    /\ Calling(p)
    /\ reply' = [reply EXCEPT ![p] = "error"]
    /\ UNCHANGED <<store, refreshMu, pc, arg, served, fold, aged, ghost>>

(* A request whose sender gave up arrives after all.  Only a living token   *)
(* makes a difference, and the answer reaches nobody.                       *)
FoldHandlesOrphan(t) ==
    /\ t \in orphans
    /\ orphans' = orphans \ {t}
    /\ \/ /\ head[t.chain] = t.gen
          /\ head' = [head EXCEPT ![t.chain] = @ + 1]
          /\ broken' = broken \cup {t.chain}
       \/ /\ head[t.chain] # t.gen
          /\ UNCHANGED <<head, broken>>
    /\ UNCHANGED <<store, refreshMu, pc, arg, reply, served, aged, refused>>

(* Somebody else uses the chain up: the user's browser, or a revocation     *)
(* (no token the broker could hold is alive afterwards).                    *)
ForeignRotation(c) ==
    /\ "rotate" \in Faults
    /\ head[c] < Turns[c]
    /\ head' = [head EXCEPT ![c] = @ + 1]
    /\ broken' = broken \cup {c}
    /\ UNCHANGED <<store, refreshMu, pc, arg, reply, served, orphans, aged, refused>>

-----------------------------------------------------------------------------
(* The answer comes back (broker.go). *)

Unlock == refreshMu' = Free

(* Mutant: every error of a refresh counts as a rejection. *)
Receive_BuriesAnyError(p) ==
    /\ pc[p] = "calling" /\ reply[p] # "none"
    /\ \/ /\ reply[p] = "accepted" /\ Goto(p, "saving")
          /\ UNCHANGED <<refreshMu, arg, reply, served>>
       \/ /\ reply[p] # "accepted" /\ p \notin Admin /\ Goto(p, "burying")
          /\ UNCHANGED <<refreshMu, arg, reply, served>>
       \/ reply[p] # "accepted" /\ p \in Admin /\ Answer(p, NoToken) /\ Unlock
    /\ UNCHANGED <<refused, store, fold, aged, broken>>

(* Mutant: the error path forgets to unlock. *)
Receive_KeepsMutex(p) ==
    /\ pc[p] = "calling" /\ reply[p] # "none"
    /\ \/ /\ reply[p] = "accepted" /\ Goto(p, "saving")
          /\ UNCHANGED <<arg, reply, served>>
       \/ reply[p] # "accepted" /\ Answer(p, NoToken)
    /\ UNCHANGED <<refreshMu, refused, store, fold, aged, broken>>

(* RefreshTokens returned.  Tokens are saved next; a 401 makes a refresh    *)
(* bury the chain, and never an /init; every other error is passed on.      *)
Receive(p) ==
    /\ pc[p] = "calling" /\ reply[p] # "none"
    /\ \/ /\ reply[p] = "accepted"
          /\ Goto(p, "saving")
          /\ UNCHANGED <<refreshMu, arg, reply, served, refused>>
       \/ /\ reply[p] = "unauthorized" /\ p \notin Admin
          /\ Goto(p, "burying")
          /\ refused' = refused \cup {arg[p]}
          /\ UNCHANGED <<refreshMu, arg, reply, served>>
       \/ /\ \/ reply[p] = "error"
             \/ reply[p] = "unauthorized" /\ p \in Admin
          /\ Answer(p, NoToken)
          /\ Unlock
          /\ UNCHANGED refused
    /\ UNCHANGED <<store, fold, aged, broken>>

(* The chain's rotation is missed when an answer or its tokens are dropped. *)
Missed(p) ==
    IF reply[p] = "accepted" THEN broken \cup {arg[p].chain} ELSE broken

(* Mutant: the request left under way is noted after its token was cleared. *)
GiveUp_NotesTooLate(p) ==
    /\ "timeout" \in Faults
    /\ pc[p] = "calling"
    /\ broken' = Missed(p)
    /\ Answer(p, NoToken)
    /\ orphans' = IF reply[p] = "none" THEN orphans \cup {arg'[p]} ELSE orphans
    /\ Unlock
    /\ UNCHANGED <<store, head, aged, refused>>

(* The 20 s context or the client's timeout ends the call.  A request that  *)
(* Fold has not handled yet stays under way.                                *)
GiveUp(p) ==
    /\ "timeout" \in Faults
    /\ pc[p] = "calling"
    /\ orphans' = IF reply[p] = "none" THEN orphans \cup {arg[p]} ELSE orphans
    /\ broken' = Missed(p)
    /\ Answer(p, NoToken)
    /\ Unlock
    /\ UNCHANGED <<store, head, aged, refused>>

(* Mutant: the refresh token that was sent is stored again. *)
Save_KeepsOldToken(p) ==
    /\ pc[p] = "saving"
    /\ Set([tok |-> arg[p], rejected |-> FALSE])
    /\ Answer(p, Rotated(arg[p]))
    /\ Unlock
    /\ UNCHANGED <<fold, aged, ghost>>

(* Mutant: the success path forgets to unlock. *)
Save_KeepsMutex(p) ==
    /\ pc[p] = "saving"
    /\ Set([tok |-> Rotated(arg[p]), rejected |-> FALSE])
    /\ Answer(p, Rotated(arg[p]))
    /\ UNCHANGED <<refreshMu, fold, aged, ghost>>

(* The rotated tokens are persisted, which also lifts a tombstone. *)
Save(p) ==
    /\ pc[p] = "saving"
    /\ Set([tok |-> Rotated(arg[p]), rejected |-> FALSE])
    /\ Answer(p, Rotated(arg[p]))
    /\ Unlock
    /\ UNCHANGED <<fold, aged, ghost>>

(* Mutant: the tokens are handed out although they could not be stored. *)
SaveFails_AnswersAnyway(p) ==
    /\ pc[p] = "saving"
    /\ broken' = Missed(p)
    /\ Answer(p, Rotated(arg[p]))
    /\ Unlock
    /\ UNCHANGED <<store, fold, aged, refused>>

(* Set failed: an error, and the store keeps the token that is dead now. *)
SaveFails(p) ==
    /\ "persist" \in Faults
    /\ pc[p] = "saving"
    /\ broken' = Missed(p)
    /\ Answer(p, NoToken)
    /\ Unlock
    /\ UNCHANGED <<store, fold, aged, refused>>

(* Mutant: the tombstone is kept in memory only. *)
Bury_MemoryOnly(p) ==
    /\ pc[p] = "burying"
    /\ mem' = [tok |-> arg[p], rejected |-> TRUE]
    /\ Answer(p, NoToken)
    /\ Unlock
    /\ UNCHANGED <<disk, fold, aged, ghost>>

(* tombstoneLocked(): the state that was sent is stored as rejected. *)
Bury(p) ==
    /\ pc[p] = "burying"
    /\ Set([tok |-> arg[p], rejected |-> TRUE])
    /\ Answer(p, NoToken)
    /\ Unlock
    /\ UNCHANGED <<fold, aged, ghost>>

(* tombstoneLocked() whose Set failed: logged, nothing stored. *)
BuryFails(p) ==
    /\ "persist" \in Faults
    /\ pc[p] = "burying"
    /\ Answer(p, NoToken)
    /\ Unlock
    /\ UNCHANGED <<store, fold, aged, ghost>>

-----------------------------------------------------------------------------
(* The process dies anywhere and OpenStore() loads the state file.          *)
Crash ==
    /\ "crash" \in Faults
    /\ mem' = disk
    /\ refreshMu' = Free
    /\ pc' = [p \in Proc |-> "idle"]
    /\ arg' = [p \in Proc |-> NoToken]
    /\ reply' = [p \in Proc |-> "none"]
    /\ served' = NoToken
    /\ orphans' = orphans \cup {arg[p] : p \in {q \in Proc : Calling(q)}}
    /\ broken' = broken \cup {arg[p].chain : p \in {q \in Proc : reply[q] = "accepted"}}
    /\ refused' = {}
    /\ UNCHANGED <<disk, head, aged>>

(* Time brings the stored access token within refreshLead of its expiry.    *)
Age ==
    /\ Seeded(mem) /\ mem.tok.gen < Turns[mem.tok.chain]
    /\ aged' = aged \cup {mem.tok}
    /\ UNCHANGED <<store, refreshMu, pc, arg, reply, served, fold, ghost>>

-----------------------------------------------------------------------------
Fold(p) == FoldAccepts(p) \/ FoldRejects(p) \/ FoldFails(p)

Step(p) ==
    \/ TokenFast(p) \/ WarmTick(p) \/ InitRequest(p)
    \/ RefreshLock(p) \/ InitLock(p)
    \/ Fold(p)
    \/ Receive(p) \/ GiveUp(p)
    \/ Save(p) \/ SaveFails(p) \/ Bury(p) \/ BuryFails(p)

Next ==
    \/ \E p \in Proc : Step(p)
    \/ \E t \in orphans : FoldHandlesOrphan(t)
    \/ \E c \in Chain : ForeignRotation(c)
    \/ Crash
    \/ Age

Spec == Init /\ [][Next]_vars

(* Every answer ends in a bounded time (the client's timeout, the handler's *)
(* 20 s context), Go's mutex starves nobody, and the keep-warm ticker never *)
(* stops.  Fold's own answers are only assumed to come if nobody gives up.  *)
Fairness ==
    /\ \A p \in Caller \cup Warmer : SF_vars(RefreshLock(p))
    /\ \A p \in Admin : SF_vars(InitLock(p))
    /\ \A p \in Warmer : WF_vars(WarmTick(p))
    /\ \A p \in Proc :
          /\ WF_vars(FoldAccepts(p) \/ FoldRejects(p))
          /\ WF_vars(Receive(p) \/ GiveUp(p))
          /\ WF_vars(Save(p) \/ SaveFails(p))
          /\ WF_vars(Bury(p) \/ BuryFails(p))

FairSpec == Spec /\ Fairness

-----------------------------------------------------------------------------
(* Properties. *)

PcLabels == {"idle", "waiting", "calling", "saving", "burying"}
Replies  == {"none", "accepted", "unauthorized", "error"}

(* Every variable stays in its type. *)
TypeOK ==
    /\ mem \in State /\ disk \in State
    /\ refreshMu \in Proc \cup {Free}
    /\ pc \in [Proc -> PcLabels]
    /\ arg \in [Proc -> Token \cup {NoToken}]
    /\ reply \in [Proc -> Replies]
    /\ served \in Token \cup {NoToken}
    /\ head \in [Chain -> Gen]
    /\ orphans \subseteq Token /\ aged \subseteq Token
    /\ broken \subseteq Chain /\ refused \subseteq Token

InSection(p) == pc[p] \in {"calling", "saving", "burying"}

(* "All refresh operations are serialised through refreshMu": between the   *)
(* read of the store and the write that depends on it, no other refresh and *)
(* no /init is in the section (broker.go, refreshLocked and Init).          *)
MutualExclusion == \A p, q \in Proc : InSection(p) /\ InSection(q) => p = q

(* While a caller or the keep-warm loop is exchanging a token, the store    *)
(* still holds exactly that token, due and not rejected: a queued caller    *)
(* never goes upstream for a matter that is settled, and what it writes     *)
(* afterwards never overwrites another process's result.                    *)
CallUsesStoredToken ==
    \A p \in Caller \cup Warmer : InSection(p) =>
        Usable(mem) /\ ~Fresh(mem) /\ mem.tok = arg[p]

HoldsNewest(p, c) ==
    reply[p] = "accepted" /\ arg[p].chain = c /\ arg[p].gen + 1 = head[c]

(* The broker never loses a chain by itself: unless a rotation was missed   *)
(* (timeout, failed write, crash, foreign use), the stored token is alive,  *)
(* or a process that has its successor is on the way to storing it.         *)
ChainKept ==
    Seeded(mem) /\ mem.tok.chain \notin broken =>
        \/ mem.tok.gen = head[mem.tok.chain]
        \/ \E p \in Proc : HoldsNewest(p, mem.tok.chain)

(* A tombstone is truthful: the token it marks is one Fold would reject, so *)
(* refusing to use it until /init loses nothing (tombstoneLocked).          *)
TombstoneTruthful ==
    Rejected(mem) => Seeded(mem) /\ mem.tok.gen # head[mem.tok.chain]

(* A chain is buried only if a rotation of it was missed. *)
BuriedOnlyIfBroken ==
    [][~Rejected(mem) /\ Rejected(mem') => mem.tok.chain \in broken]_vars

(* "the one and only way the tombstone gets lifted" is an /init that stores *)
(* fresh tokens; neither a refresh nor a restart does (Init, State).        *)
LiftedOnlyByInit ==
    [][Rejected(mem) /\ ~Rejected(mem') => \E p \in Admin : Save(p)]_vars

(* The state file never goes back to an earlier generation of the chain it  *)
(* holds, whatever requests, crashes and late answers come in between.      *)
NoRollback ==
    [][Seeded(disk) => Seeded(disk')
        /\ (disk'.tok.chain = disk.tok.chain => disk'.tok.gen >= disk.tok.gen)]_vars

(* A consumer only ever gets an access token that is in the state file at   *)
(* that moment, so a crash right after the answer cannot forget it.         *)
ServesOnlyPersisted ==
    [][served' # served /\ served' # NoToken => disk' = [tok |-> served', rejected |-> FALSE]]_vars

(* "After tombstoning, Token() and KeepWarm refuse to hit Fold until /init  *)
(* replaces the state": no token that a refresh of this process saw         *)
(* rejected is ever sent again.                                             *)
NoRetryAfterRejection ==
    \A p \in Caller \cup Warmer : InSection(p) /\ pc[p] # "burying" => arg[p] \notin refused

(* Every request that queues for the mutex is answered. *)
Answered == \A p \in Proc : pc[p] = "waiting" ~> pc[p] = "idle"

Fault ==
    \/ \E p \in Proc : FoldFails(p) \/ GiveUp(p) \/ SaveFails(p) \/ BuryFails(p)
    \/ \E c \in Chain : ForeignRotation(c)
    \/ Crash

(* Once failures stop, keep-warm renews a due token (or finds the chain     *)
(* dead and buries it) without any consumer asking for it.                  *)
KeptWarm ==
    <>[][~Fault]_vars =>
        (Usable(mem) /\ ~Fresh(mem)) ~> (Fresh(mem) \/ Rejected(mem))
=============================================================================
