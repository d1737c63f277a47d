----------------------------- MODULE BrokerProofs -----------------------------
(***************************************************************************)
(* What Broker.tla promises for every number of chains, callers, /init     *)
(* requests and rotations, and for every set of faults.                    *)
(*                                                                         *)
(* The argument has two layers.  Shape says who can be where: the mutex    *)
(* names the one process in the section, and what a process holds fits     *)
(* its label.  Ledger relates the store to Fold's side of the chain.       *)
(***************************************************************************)
EXTENDS Broker, TLAPS

(* A token that may be sent: Fold's answer to it fits the bound. *)
Sendable == {t \in Token : t.gen < Turns[t.chain]}

(* The mutex names the process in the section, and what a process has       *)
(* agrees with its label.                                                   *)
Shape ==
    /\ \A p \in Proc : InSection(p) <=> refreshMu = p
    /\ \A p \in Proc : reply[p] # "none" => InSection(p)
    /\ \A p \in Proc : pc[p] = "saving" => reply[p] = "accepted"
    /\ \A p \in Proc : pc[p] = "burying" => reply[p] = "unauthorized" /\ p \notin Admin
    /\ \A p \in Proc : InSection(p) => arg[p] \in Sendable
    /\ \A p \in Admin : pc[p] = "waiting" => arg[p] \in Sendable
    /\ aged \subseteq Sendable /\ orphans \subseteq Sendable

(* The store and what is in flight, against the living generation. *)
Ledger ==
    /\ mem = disk
    /\ CallUsesStoredToken
    /\ Seeded(mem) => mem.tok.gen <= head[mem.tok.chain]
    /\ \A p \in Proc : arg[p] \in Token => arg[p].gen <= head[arg[p].chain]
    /\ \A p \in Proc : reply[p] = "accepted" =>
          /\ arg[p].gen < head[arg[p].chain]
          /\ arg[p].chain \notin broken => head[arg[p].chain] = arg[p].gen + 1
          /\ mem.tok # NoToken /\ mem.tok.chain = arg[p].chain => mem.tok.gen <= arg[p].gen
    /\ \A p \in Proc : reply[p] = "unauthorized" => arg[p].gen < head[arg[p].chain]
    /\ ChainKept
    /\ TombstoneTruthful

IInv == TypeOK /\ Shape /\ Ledger

(* The facts about the constants and the labels that every step needs. *)
LEMMA TypeShapeStep ==
    TypeOK /\ Shape /\ [Next]_vars => TypeOK' /\ Shape'
<1> USE ConstantsAssumption DEF TypeOK, Shape, InSection, Sendable, Token, Gen, State,
          PcLabels, Replies, Proc, store, fold, ghost
<1> SUFFICES ASSUME TypeOK, Shape, [Next]_vars PROVE TypeOK' /\ Shape'
    OBVIOUS
<1>1. ASSUME NEW p \in Proc, TokenFast(p) PROVE TypeOK' /\ Shape'
    BY <1>1 DEF TokenFast, Answer, Goto, Usable, Seeded, Rejected
<1>2. ASSUME NEW p \in Proc, WarmTick(p) PROVE TypeOK' /\ Shape'
    BY <1>2 DEF WarmTick, Goto
<1>3. ASSUME NEW p \in Proc, InitRequest(p) PROVE TypeOK' /\ Shape'
    BY <1>3 DEF InitRequest, Goto
<1>4. ASSUME NEW p \in Proc, RefreshLock(p) PROVE TypeOK' /\ Shape'
    BY <1>4 DEF RefreshLock, Answer, Goto, Usable, Seeded, Rejected, Fresh
<1>5. ASSUME NEW p \in Proc, InitLock(p) PROVE TypeOK' /\ Shape'
    BY <1>5 DEF InitLock, Goto
<1>6. ASSUME NEW p \in Proc, FoldAccepts(p) PROVE TypeOK' /\ Shape'
    BY <1>6 DEF FoldAccepts, Calling
<1>7. ASSUME NEW p \in Proc, FoldRejects(p) PROVE TypeOK' /\ Shape'
    BY <1>7 DEF FoldRejects, Calling
<1>8. ASSUME NEW p \in Proc, FoldFails(p) PROVE TypeOK' /\ Shape'
    BY <1>8 DEF FoldFails, Calling
<1>9. ASSUME NEW p \in Proc, Receive(p) PROVE TypeOK' /\ Shape'
    BY <1>9 DEF Receive, Answer, Goto, Unlock
<1>10. ASSUME NEW p \in Proc, GiveUp(p) PROVE TypeOK' /\ Shape'
    BY <1>10 DEF GiveUp, Answer, Unlock, Missed
<1>11. ASSUME NEW p \in Proc, Save(p) PROVE TypeOK' /\ Shape'
    BY <1>11 DEF Save, Answer, Unlock, Set, Rotated
<1>12. ASSUME NEW p \in Proc, SaveFails(p) PROVE TypeOK' /\ Shape'
    BY <1>12 DEF SaveFails, Answer, Unlock, Missed
<1>13. ASSUME NEW p \in Proc, Bury(p) PROVE TypeOK' /\ Shape'
    BY <1>13 DEF Bury, Answer, Unlock, Set
<1>14. ASSUME NEW p \in Proc, BuryFails(p) PROVE TypeOK' /\ Shape'
    BY <1>14 DEF BuryFails, Answer, Unlock
<1>15. ASSUME NEW t \in orphans, FoldHandlesOrphan(t) PROVE TypeOK' /\ Shape'
    BY <1>15 DEF FoldHandlesOrphan
<1>16. ASSUME NEW c \in Chain, ForeignRotation(c) PROVE TypeOK' /\ Shape'
    BY <1>16 DEF ForeignRotation
<1>17. CASE Crash
    BY <1>17 DEF Crash, Calling
<1>18. CASE Age
    BY <1>18 DEF Age, Seeded
<1>19. CASE UNCHANGED vars
    BY <1>19 DEF vars
<1> QED
    BY <1>1, <1>2, <1>3, <1>4, <1>5, <1>6, <1>7, <1>8, <1>9, <1>10, <1>11, <1>12, <1>13, <1>14, <1>15, <1>16, <1>17, <1>18, <1>19 DEF Next, Step, Fold

(* Every step keeps the store and the requests in flight in step with Fold. *)
LEMMA LedgerStep ==
    IInv /\ [Next]_vars => Ledger'
<1> USE ConstantsAssumption DEF TypeOK, Shape, Ledger, InSection, Sendable, Token, Gen, State,
          PcLabels, Replies, Proc, store, fold, ghost, CallUsesStoredToken, ChainKept,
          HoldsNewest, TombstoneTruthful, Usable, Seeded, Rejected, Fresh
<1> SUFFICES ASSUME TypeOK, Shape, Ledger, [Next]_vars PROVE Ledger'
    BY DEF IInv
<1>1. ASSUME NEW p \in Proc, TokenFast(p) PROVE Ledger'
    BY <1>1 DEF TokenFast, Answer, Goto
<1>2. ASSUME NEW p \in Proc, WarmTick(p) PROVE Ledger'
    BY <1>2 DEF WarmTick, Goto
<1>3. ASSUME NEW p \in Proc, InitRequest(p) PROVE Ledger'
    BY <1>3 DEF InitRequest, Goto
<1>4. ASSUME NEW p \in Proc, RefreshLock(p) PROVE Ledger'
    BY <1>4 DEF RefreshLock, Answer, Goto
<1>5. ASSUME NEW p \in Proc, InitLock(p) PROVE Ledger'
    BY <1>5 DEF InitLock, Goto
<1>6. ASSUME NEW p \in Proc, FoldAccepts(p) PROVE Ledger'
    BY <1>6 DEF FoldAccepts, Calling
<1>7. ASSUME NEW p \in Proc, FoldRejects(p) PROVE Ledger'
    BY <1>7, SMTT(40) DEF FoldRejects, Calling
<1>8. ASSUME NEW p \in Proc, FoldFails(p) PROVE Ledger'
    BY <1>8 DEF FoldFails, Calling
<1>9. ASSUME NEW p \in Proc, Receive(p) PROVE Ledger'
    BY <1>9 DEF Receive, Answer, Goto, Unlock
<1>10. ASSUME NEW p \in Proc, GiveUp(p) PROVE Ledger'
    BY <1>10 DEF GiveUp, Answer, Unlock, Missed
<1>11. ASSUME NEW p \in Proc, Save(p) PROVE Ledger'
    BY <1>11 DEF Save, Answer, Unlock, Set, Rotated
<1>12. ASSUME NEW p \in Proc, SaveFails(p) PROVE Ledger'
    BY <1>12 DEF SaveFails, Answer, Unlock, Missed
<1>13. ASSUME NEW p \in Proc, Bury(p) PROVE Ledger'
    BY <1>13 DEF Bury, Answer, Unlock, Set
<1>14. ASSUME NEW p \in Proc, BuryFails(p) PROVE Ledger'
    BY <1>14 DEF BuryFails, Answer, Unlock
<1>15. ASSUME NEW t \in orphans, FoldHandlesOrphan(t) PROVE Ledger'
    BY <1>15 DEF FoldHandlesOrphan
<1>16. ASSUME NEW c \in Chain, ForeignRotation(c) PROVE Ledger'
    BY <1>16 DEF ForeignRotation
<1>17. CASE Crash
    BY <1>17 DEF Crash, Calling
<1>18. CASE Age
    BY <1>18 DEF Age
<1>19. CASE UNCHANGED vars
    BY <1>19 DEF vars
<1> QED
    BY <1>1, <1>2, <1>3, <1>4, <1>5, <1>6, <1>7, <1>8, <1>9, <1>10, <1>11, <1>12, <1>13, <1>14, <1>15, <1>16, <1>17, <1>18, <1>19 DEF Next, Step, Fold

(* The initial state satisfies the inductive invariant. *)
LEMMA InitIInv == Init => IInv
BY ConstantsAssumption DEF Init, IInv, TypeOK, Shape, Ledger, InSection, Sendable, Token, Gen,
   State, PcLabels, Replies, Proc, Unseeded, CallUsesStoredToken, ChainKept, HoldsNewest,
   TombstoneTruthful, Seeded, Rejected

(* The inductive invariant holds in every reachable state. *)
THEOREM Invariance == Spec => []IInv
<1>1. Init => IInv
    BY InitIInv
<1>2. IInv /\ [Next]_vars => IInv'
    BY TypeShapeStep, LedgerStep DEF IInv
<1> QED
    BY <1>1, <1>2, PTL DEF Spec

(* Every variable keeps its type, for every instance. *)
THEOREM TypeCorrect == Spec => []TypeOK
<1>1. IInv => TypeOK
    BY DEF IInv
<1> QED
    BY <1>1, Invariance, PTL

(* Refreshes and /init are serialised: two processes are never both between *)
(* their read of the store and the write that depends on it (refreshMu).    *)
THEOREM Serialised == Spec => []MutualExclusion
<1>1. IInv => MutualExclusion
    BY DEF IInv, Shape, MutualExclusion
<1> QED
    BY <1>1, Invariance, PTL

(* A refresh in flight always concerns the token the store still holds. *)
THEOREM NoStaleRefresh == Spec => []CallUsesStoredToken
<1>1. IInv => CallUsesStoredToken
    BY DEF IInv, Ledger
<1> QED
    BY <1>1, Invariance, PTL

(* The broker never loses a chain by itself, under every fault it may meet: *)
(* a stored token is dead only if a rotation was missed.                    *)
THEOREM ChainIsKept == Spec => []ChainKept
<1>1. IInv => ChainKept
    BY DEF IInv, Ledger
<1> QED
    BY <1>1, Invariance, PTL

(* A tombstone marks a token that Fold rejects (tombstoneLocked). *)
THEOREM TombstonesAreTruthful == Spec => []TombstoneTruthful
<1>1. IInv => TombstoneTruthful
    BY DEF IInv, Ledger
<1> QED
    BY <1>1, Invariance, PTL

(* Only a process in the section writes the store, and a restart reads back *)
(* what was there.                                                          *)
LEMMA StoreStep ==
    IInv /\ [Next]_vars =>
        \/ UNCHANGED store
        \/ \E p \in Proc : Save(p) \/ Bury(p)
<1> USE DEF store
<1> SUFFICES ASSUME IInv, [Next]_vars, ~UNCHANGED store
             PROVE  \E p \in Proc : Save(p) \/ Bury(p)
    OBVIOUS
<1>1. ASSUME NEW p \in Proc, Step(p) PROVE Save(p) \/ Bury(p)
    BY <1>1 DEF Step, Fold, TokenFast, WarmTick, InitRequest, RefreshLock, InitLock,
       FoldAccepts, FoldRejects, FoldFails, Receive, GiveUp, SaveFails, BuryFails
<1>2. ~Crash
    BY DEF Crash, IInv, Ledger
<1>3. ~Age /\ ~UNCHANGED vars
    BY DEF Age, vars
<1>4. ASSUME NEW t \in orphans PROVE ~FoldHandlesOrphan(t)
    BY DEF FoldHandlesOrphan
<1>5. ASSUME NEW c \in Chain PROVE ~ForeignRotation(c)
    BY DEF ForeignRotation
<1> QED
    BY <1>1, <1>2, <1>3, <1>4, <1>5 DEF Next

(* The state file never returns to an earlier generation of its chain. *)
THEOREM DiskMovesForward == Spec => NoRollback
<1> DEFINE Forward ==
        Seeded(disk) => Seeded(disk')
            /\ (disk'.tok.chain = disk.tok.chain => disk'.tok.gen >= disk.tok.gen)
<1>1. ASSUME IInv, [Next]_vars PROVE Forward
    <2> USE ConstantsAssumption DEF IInv, TypeOK, Shape, Ledger, State, Token, Gen, Sendable, Seeded
    <2>1. CASE UNCHANGED store
        BY <2>1, <1>1 DEF store
    <2>2. ASSUME NEW p \in Proc, Save(p) PROVE Forward
        BY <2>2, <1>1 DEF Save, Set, Rotated
    <2>3. ASSUME NEW p \in Proc, Bury(p) PROVE Forward
        <3>1. p \in Caller \cup Warmer /\ InSection(p)
            BY <2>3, <1>1 DEF Bury, InSection, Proc
        <3>2. mem.tok = arg[p]
            BY <3>1, <1>1 DEF CallUsesStoredToken
        <3> QED
            BY <2>3, <3>2, <1>1 DEF Bury, Set
    <2> QED
        BY <2>1, <2>2, <2>3, <1>1, StoreStep
<1>2. IInv /\ [Next]_vars => [Forward]_vars
    BY <1>1
<1> QED
    BY <1>2, Invariance, PTL DEF Spec, NoRollback

(* Only an /init that stores fresh tokens lifts a tombstone. *)
THEOREM TombstonesStay == Spec => LiftedOnlyByInit
<1> DEFINE Lift == Rejected(mem) /\ ~Rejected(mem') => \E p \in Admin : Save(p)
<1>1. ASSUME IInv, [Next]_vars PROVE Lift
    <2> SUFFICES ASSUME Rejected(mem), ~Rejected(mem') PROVE \E p \in Admin : Save(p)
        OBVIOUS
    <2>1. PICK p \in Proc : Save(p) \/ Bury(p)
        BY <1>1, StoreStep DEF store, Rejected
    <2>2. Save(p)
        BY <2>1 DEF Bury, Set, Rejected
    <2>3. p \notin Caller \cup Warmer
        BY <2>2, <1>1 DEF Save, IInv, Ledger, CallUsesStoredToken, InSection, Usable
    <2> QED
        BY <2>2, <2>3 DEF Proc
<1>2. IInv /\ [Next]_vars => [Lift]_vars
    BY <1>1
<1> QED
    BY <1>2, Invariance, PTL DEF Spec, LiftedOnlyByInit

(* The store is buried only for a chain whose rotation was missed. *)
THEOREM BuriedWithReason == Spec => BuriedOnlyIfBroken
<1> DEFINE Reason == ~Rejected(mem) /\ Rejected(mem') => mem.tok.chain \in broken
<1>1. ASSUME IInv, [Next]_vars PROVE Reason
    <2> SUFFICES ASSUME ~Rejected(mem), Rejected(mem') PROVE mem.tok.chain \in broken
        OBVIOUS
    <2>1. PICK p \in Proc : Save(p) \/ Bury(p)
        BY <1>1, StoreStep DEF store, Rejected
    <2>2. Bury(p)
        BY <2>1 DEF Save, Set, Rejected
    <2>3. p \in Caller \cup Warmer /\ InSection(p) /\ reply[p] = "unauthorized"
        BY <2>2, <1>1 DEF Bury, InSection, Proc, IInv, Shape
    <2>4. mem.tok = arg[p] /\ arg[p] \in Token
        BY <2>3, <1>1 DEF IInv, Ledger, CallUsesStoredToken, Shape, Sendable
    <2>5. mem.tok.gen < head[mem.tok.chain]
        BY <2>3, <2>4, <1>1 DEF IInv, Ledger
    <2>6. ASSUME NEW q \in Proc, InSection(q) PROVE q = p
        BY <2>3, <2>6, <1>1 DEF IInv, Shape
    <2>7. \A q \in Proc : reply[q] # "accepted"
        BY <2>3, <2>6, <1>1 DEF IInv, Shape
    <2>8. mem.tok.gen # head[mem.tok.chain]
        <3>1. mem.tok.chain \in Chain /\ mem.tok.gen \in Gen
            BY <2>4 DEF Token
        <3> QED
            BY <2>5, <3>1, <1>1 DEF IInv, TypeOK, Gen
    <2>9. Seeded(mem)
        BY <2>4, ConstantsAssumption DEF Seeded
    <2> QED
        BY <2>7, <2>8, <2>9, <1>1 DEF IInv, Ledger, ChainKept, HoldsNewest
<1>2. IInv /\ [Next]_vars => [Reason]_vars
    BY <1>1
<1> QED
    BY <1>2, Invariance, PTL DEF Spec, BuriedOnlyIfBroken

(* Nothing is handed out that a crash at this moment would forget. *)
THEOREM AnswersArePersisted == Spec => ServesOnlyPersisted
<1> DEFINE Persisted == served' # served /\ served' # NoToken => disk' = [tok |-> served', rejected |-> FALSE]
<1>1. ASSUME IInv, [Next]_vars PROVE Persisted
    <2> SUFFICES ASSUME served' # served, served' # NoToken
                 PROVE  disk' = [tok |-> served', rejected |-> FALSE]
        OBVIOUS
    <2>1. PICK p \in Proc : TokenFast(p) \/ RefreshLock(p) \/ Save(p)
        BY <1>1 DEF Next, Step, Fold, WarmTick, InitRequest, InitLock, FoldAccepts, FoldRejects, FoldFails,
           Receive, GiveUp, SaveFails, Bury, BuryFails, Answer, FoldHandlesOrphan, ForeignRotation, Crash, Age, vars
    <2>2. CASE Save(p)
        BY <2>2 DEF Save, Set, Answer
    <2>3. CASE TokenFast(p) \/ RefreshLock(p)
        <3>1. served' = mem.tok /\ Usable(mem) /\ disk' = disk
            BY <2>3 DEF TokenFast, RefreshLock, Answer, store
        <3>2. mem = disk /\ disk \in State
            BY <1>1 DEF IInv, TypeOK, Ledger
        <3> QED
            BY <3>1, <3>2 DEF State, Usable, Rejected
    <2> QED
        BY <2>1, <2>2, <2>3
<1>2. IInv /\ [Next]_vars => [Persisted]_vars
    BY <1>1
<1> QED
    BY <1>2, Invariance, PTL DEF Spec, ServesOnlyPersisted
=============================================================================
