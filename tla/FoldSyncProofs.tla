---------------------------- MODULE FoldSyncProofs ----------------------------
(***************************************************************************)
(* What is proved of the walk over Fold's list: it is complete above its   *)
(* cutoff, whatever Fold does meanwhile, and leaves decided rows alone.    *)
(***************************************************************************)
EXTENDS FoldSync, FiniteSetTheorems, WellFoundedInduction, TLAPS

-----------------------------------------------------------------------------
(* A page of Fold's list. *)

(* A page holds everything that is newer than one of its members.           *)
LEMMA NewestIsUpward ==
    ASSUME NEW S, S \subseteq Txn, NEW n \in Nat,
           NEW t \in S, NEW u \in Newest(S, n), t >= u
    PROVE  t \in Newest(S, n)
  <1> DEFINE A == {v \in S : v > t}  B == {v \in S : v > u}
  <1>1. S \subseteq Nat /\ IsFiniteSet(S)
    BY SyncAssumption, FS_Subset
  <1>2. IsFiniteSet(B) /\ IsFiniteSet(A)
    BY <1>1, FS_Subset
  <1>3. A \subseteq B
    <2>1. u \in S /\ u \in Nat /\ t \in Nat
      BY <1>1 DEF Newest
    <2>2. \A v \in S : v > t => v > u
      BY <1>1, <2>1
    <2> QED BY <2>2
  <1>4. Cardinality(A) <= Cardinality(B) /\ Cardinality(A) \in Nat /\ Cardinality(B) \in Nat
    BY <1>2, <1>3, FS_Subset, FS_CardinalityType
  <1>5. Cardinality(B) < n
    BY DEF Newest
  <1> QED
    BY <1>4, <1>5 DEF Newest

(* Of transactions there are, a page has one.                               *)
LEMMA NewestHasOne ==
    ASSUME NEW S, S \subseteq Txn, S # {}, NEW n \in Nat \ {0}
    PROVE  Newest(S, n) # {}
  <1> DEFINE After(t) == {v \in S : v > t}
             K == {k \in Nat : \E t \in S : Cardinality(After(t)) = k}
  <1>1. S \subseteq Nat /\ IsFiniteSet(S)
    BY SyncAssumption, FS_Subset
  <1>2. \A t \in S : IsFiniteSet(After(t)) /\ Cardinality(After(t)) \in Nat
    <2> TAKE t \in S
    <2>1. After(t) \in SUBSET S
      OBVIOUS
    <2> QED BY <2>1, <1>1, FS_Subset, FS_CardinalityType
  <1>3. K # {} /\ K \subseteq Nat
    BY <1>2
  <1>4. PICK k \in K : \A j \in K : <<j, k>> \notin OpToRel(<, Nat)
    <2> HIDE DEF K
    <2> QED BY <1>3, NatLessThanWellFounded, WFMin
  <1>5. \A j \in K : ~(j < k)
    BY <1>4, <1>3 DEF OpToRel
  <1>6. PICK t \in S : Cardinality(After(t)) = k
    BY <1>4
  <1>7. After(t) = {}
    <2> SUFFICES ASSUME NEW u \in After(t) PROVE FALSE
      OBVIOUS
    <2>1. u \in S /\ u \in Nat /\ t \in Nat /\ u > t
      BY <1>1
    <2>2. After(u) \subseteq After(t) \ {u} /\ IsFiniteSet(After(t))
      <3>1. \A v \in S : v > u => v > t /\ v # u
        BY <1>1, <2>1
      <3> QED BY <3>1, <1>2
    <2>3. /\ Cardinality(After(t) \ {u}) = Cardinality(After(t)) - 1
          /\ IsFiniteSet(After(t) \ {u})
      BY <2>1, <2>2, FS_RemoveElement
    <2>4. Cardinality(After(u)) <= Cardinality(After(t) \ {u})
      BY <2>2, <2>3, FS_Subset
    <2>5. Cardinality(After(u)) \in K /\ Cardinality(After(u)) \in Nat /\ Cardinality(After(t)) \in Nat
      BY <2>1, <1>2
    <2>6. Cardinality(After(u)) < k
      BY <2>3, <2>4, <2>5, <1>6
    <2> QED BY <2>5, <2>6, <1>5
  <1>8. Cardinality({v \in S : v > t}) < n
    BY <1>7, FS_EmptySet
  <1> QED
    BY <1>8 DEF Newest

(* A page has no more members than it may.                                  *)
LEMMA NewestIsBounded ==
    ASSUME NEW S, S \subseteq Txn, NEW n \in Nat
    PROVE  /\ Newest(S, n) \subseteq S /\ IsFiniteSet(Newest(S, n))
           /\ Cardinality(Newest(S, n)) <= n /\ Cardinality(Newest(S, n)) \in Nat
  <1> DEFINE N == Newest(S, n)
             After(t) == {v \in S : v > t}
             f == [t \in N |-> Cardinality(After(t))]
             R == 0..(n - 1)
  <1>1. S \subseteq Nat /\ IsFiniteSet(S) /\ N \subseteq S
    BY SyncAssumption, FS_Subset DEF Newest
  <1>2. IsFiniteSet(N)
    BY <1>1, FS_Subset
  <1>3. \A t \in S : IsFiniteSet(After(t)) /\ Cardinality(After(t)) \in Nat
    <2> TAKE t \in S
    <2>1. After(t) \in SUBSET S
      OBVIOUS
    <2> QED BY <2>1, <1>1, FS_Subset, FS_CardinalityType
  <1>4. \A t, u \in N : t < u => Cardinality(After(u)) < Cardinality(After(t))
    <2> SUFFICES ASSUME NEW t \in N, NEW u \in N, t < u
                 PROVE  Cardinality(After(u)) < Cardinality(After(t))
      OBVIOUS
    <2>1. t \in S /\ u \in S /\ t \in Nat /\ u \in Nat
      BY <1>1
    <2>2. After(u) \subseteq After(t) \ {u} /\ u \in After(t)
      <3>1. \A v \in S : v > u => v > t /\ v # u
        BY <1>1, <2>1
      <3> QED BY <3>1, <2>1
    <2>3. /\ Cardinality(After(t) \ {u}) = Cardinality(After(t)) - 1
          /\ IsFiniteSet(After(t) \ {u})
      BY <2>1, <2>2, <1>3, FS_RemoveElement
    <2>4. Cardinality(After(u)) <= Cardinality(After(t) \ {u})
      BY <2>2, <2>3, FS_Subset
    <2>5. Cardinality(After(u)) \in Nat /\ Cardinality(After(t)) \in Nat
      BY <2>1, <1>3
    <2> QED BY <2>3, <2>4, <2>5
  <1>5. f \in [N -> R]
    <2> SUFFICES ASSUME NEW t \in N PROVE Cardinality(After(t)) \in R
      OBVIOUS
    <2>1. Cardinality(After(t)) < n
      BY DEF Newest
    <2>2. Cardinality(After(t)) \in Nat
      BY <1>1, <1>3
    <2> QED BY <2>1, <2>2
  <1>6. \A t, u \in N : t # u => f[t] # f[u]
    <2> SUFFICES ASSUME NEW t \in N, NEW u \in N, t # u PROVE f[t] # f[u]
      OBVIOUS
    <2>1. t \in Nat /\ u \in Nat /\ Cardinality(After(t)) \in Nat /\ Cardinality(After(u)) \in Nat
      BY <1>1, <1>3
    <2>2. CASE t < u
      <3>1. Cardinality(After(u)) < Cardinality(After(t))
        BY <2>2, <1>4
      <3> QED BY <3>1, <2>1
    <2>3. CASE u < t
      <3>1. Cardinality(After(t)) < Cardinality(After(u))
        BY <2>3, <1>4
      <3> QED BY <3>1, <2>1
    <2> QED BY <2>1, <2>2, <2>3
  <1>7. f \in Injection(N, R)
    BY <1>5, <1>6 DEF Injection, IsInjective
  <1>8. IsFiniteSet(R) /\ Cardinality(R) = n
    BY FS_Interval
  <1>9. Cardinality(N) <= Cardinality(R)
    <2> HIDE DEF f, N, R
    <2> QED BY <1>7, <1>8, FS_Injection
  <1> QED
    BY <1>1, <1>2, <1>8, <1>9, FS_CardinalityType

-----------------------------------------------------------------------------
(* Staging. *)

(* q is rs with what was taken staged or brought up to date.                 *)
Staged(rs, taken, rep, q) ==
    /\ DOMAIN q = DOMAIN rs \cup taken
    /\ \A t \in DOMAIN rs : /\ q[t].decided = rs[t].decided
                            /\ rs[t].decided \/ t \notin taken => q[t].seen = rs[t].seen
    /\ \A t \in taken : ~q[t].decided => q[t].seen = rep[t]

(* Staging keeps every row, brings in what is taken, and moves amounts only  *)
(* of rows nobody has decided.                                              *)
LEMMA StagingKeeps ==
    ASSUME NEW rs, IsRows(rs), NEW taken, taken \subseteq Txn,
           NEW rep, taken \subseteq DOMAIN rep, \A t \in taken : rep[t] \in Nat
    PROVE  /\ IsRows(Stage(rs, taken, rep))
           /\ Staged(rs, taken, rep, Stage(rs, taken, rep))
  BY DEF Stage, Staged, IsRows, Row

-----------------------------------------------------------------------------
(* The inductive invariant. *)

(* Fold takes nothing back.                                                 *)
Promised == \A t \in DOMAIN offered : t \in known /\ offered[t] <= reported[t]

Caught(t) == t \in DOMAIN work /\ (~work[t].decided => work[t].seen >= offered[t])

(* What the cursor has passed has been caught, and at the end everything.   *)
Progress(s) ==
    /\ pc[s] = "walk" => /\ stop = "none" /\ total < MaxTotal
                         /\ \A t \in DOMAIN offered : Above(s, t) /\ t \notin ahead => Caught(t)
    /\ pc[s] = "commit" /\ stop # "hard_cap" =>
          \A t \in DOMAIN offered : Above(s, t) => Caught(t)

(* The open transaction adds to the table, where nobody writes meanwhile.   *)
Adds(s) ==
    pc[s] \in {"walk", "commit"} =>
        /\ DOMAIN rows \subseteq DOMAIN work
        /\ \A t \in DOMAIN rows : /\ work[t].decided = rows[t].decided
                                  /\ rows[t].decided => work[t].seen = rows[t].seen

(* A new walk begins with nothing read and the whole of the list ahead.     *)
Rested == Free => ahead = Txn /\ total = 0 /\ stop = "none"

Inv == TypeOK /\ Promised /\ Rested /\ \A s \in Syncer : Progress(s) /\ Adds(s)

LEMMA InitInv == Init => Inv
  BY SyncAssumption DEF Init, Inv, TypeOK, Promised, Rested, Free, Progress, Adds, IsRows, IsAges, Empty, nobody

(* While nobody walks, no walker is at a page.                              *)
LEMMA FreeMeansNoWalk ==
    ASSUME TypeOK, Free
    PROVE  \A s \in Syncer : pc[s] \notin {"walk", "commit"}
  BY SyncAssumption DEF TypeOK, Free

(* There is one walker at a time.                                           *)
LEMMA OneWalker ==
    ASSUME TypeOK, NEW s \in Syncer, NEW r \in Syncer,
           pc[s] \in {"walk", "commit"}, pc[r] \in {"walk", "commit"}
    PROVE  r = s
  BY DEF TypeOK

(* What Fold does, under a walk or not.                                     *)
LEMMA FoldKeepsInv ==
    ASSUME Inv, NEW t \in Txn, FoldLists(t) \/ FoldEdits(t)
    PROVE  Inv'
  <1> USE DEF Inv, walkVars, dbVars, askVars
  <1>1. TypeOK'
    BY DEF TypeOK, FoldLists, FoldEdits, IsRows, IsAges
  <1>2. Promised'
    BY DEF TypeOK, Promised, FoldLists, FoldEdits, IsAges
  <1>3. \A s \in Syncer : Progress(s)' /\ Adds(s)'
    BY DEF FoldLists, FoldEdits, Progress, Adds, Caught, Above
  <1> QED BY <1>1, <1>2, <1>3 DEF Rested, Free, FoldLists, FoldEdits

(* What is done to rows and to the mirror: nobody is walking.               *)
LEMMA OthersKeepInv ==
    ASSUME Inv,
           \/ \E t \in DOMAIN rows : RowIsDecided(t)
           \/ \E t \in Txn : Mirrored(Time[t])
           \/ \E s \in Admin : RecentLists(s) \/ RecentStages(s)
    PROVE  Inv'
  <1> USE DEF Inv
  <1>1. ASSUME NEW t \in DOMAIN rows, RowIsDecided(t) PROVE Inv'
    <2> USE <1>1 DEF RowIsDecided, walkVars, foldVars, askVars
    <2>1. TypeOK'
      BY DEF TypeOK, IsRows, IsAges, Row
    <2>2. Promised'
      BY DEF Promised
    <2>3. \A s \in Syncer : pc'[s] \notin {"walk", "commit"}
      BY FreeMeansNoWalk
    <2> QED BY <2>1, <2>2, <2>3 DEF Progress, Adds, Rested, Free
  <1>2. ASSUME NEW t \in Txn, Mirrored(Time[t]) PROVE Inv'
    <2> USE <1>2 DEF Mirrored, walkVars, foldVars, askVars
    <2>1. TypeOK'
      BY SyncAssumption DEF TypeOK, IsRows, IsAges, Row
    <2>2. Promised'
      BY DEF Promised
    <2>3. \A s \in Syncer : pc'[s] \notin {"walk", "commit"}
      BY FreeMeansNoWalk
    <2> QED BY <2>1, <2>2, <2>3 DEF Progress, Adds, Rested, Free
  <1>3. ASSUME NEW s \in Admin, RecentLists(s) PROVE Inv'
    <2> USE <1>3 DEF RecentLists, walkVars, foldVars, dbVars, Goes
    <2>1. Newest(known, RecentLimit) \subseteq Txn
      BY DEF TypeOK, Newest
    <2>2. TypeOK'
      BY <2>1 DEF TypeOK, IsRows, IsAges, Syncer
    <2>3. Promised'
      BY DEF Promised
    <2>4. \A r \in Syncer : pc'[r] \in {"walk", "commit"} => pc'[r] = pc[r]
      BY DEF TypeOK
    <2>5. \A r \in Syncer : Progress(r)' /\ Adds(r)'
      BY <2>4 DEF Progress, Adds, Caught, Above
    <2> QED BY <2>2, <2>3, <2>5 DEF Rested, Free
  <1>4. ASSUME NEW s \in Admin, RecentStages(s) PROVE Inv'
    <2> USE <1>4 DEF RecentStages, walkVars, foldVars, Goes
    <2>0. s \in Syncer /\ IsRows(rows) /\ IsAges(page[s])
      BY DEF TypeOK, Syncer
    <2>1. IsRows(rows')
      BY <2>0, StagingKeeps DEF IsAges
    <2>2. TypeOK'
      BY <2>1 DEF TypeOK, IsRows, IsAges, Syncer, Empty
    <2>3. Promised'
      BY DEF Promised
    <2>4. \A r \in Syncer : pc'[r] \notin {"walk", "commit"}
      BY FreeMeansNoWalk DEF TypeOK
    <2> QED BY <2>2, <2>3, <2>4 DEF Progress, Adds, Rested, Free
  <1> QED BY <1>1, <1>2, <1>3, <1>4

(* The steps of a walk but for its pages.                                   *)
LEMMA EdgesKeepInv ==
    ASSUME Inv, NEW s \in Syncer, ReadCutoff(s) \/ Begin(s) \/ Commit(s) \/ Fails(s)
    PROVE  Inv'
  <1> USE DEF Inv, Goes
  <1>1. CASE ReadCutoff(s)
    <2> USE <1>1 DEF ReadCutoff, foldVars, dbVars, walkVars
    <2>1. TypeOK'
      BY DEF TypeOK, IsRows, IsAges
    <2>2. \A r \in Syncer : pc'[r] \notin {"walk", "commit"}
      BY FreeMeansNoWalk DEF TypeOK
    <2> QED BY <2>1, <2>2 DEF Promised, Progress, Adds, Rested, Free
  <1>2. CASE Begin(s)
    <2> USE <1>2 DEF Begin, foldVars, dbVars, askVars
    <2>1. TypeOK'
      BY SyncAssumption, FreeMeansNoWalk DEF TypeOK, IsRows, IsAges, Free
    <2>2. Promised'
      BY DEF Promised, TypeOK
    <2>3. \A r \in Syncer : pc'[r] \in {"walk", "commit"} => r = s /\ pc'[r] = "walk"
      BY FreeMeansNoWalk DEF TypeOK
    <2>4. stop = "none" /\ total = 0 /\ ahead = Txn
      BY DEF Rested
    <2>5. Progress(s)'
      BY <2>3, <2>4, SyncAssumption DEF Progress, TypeOK
    <2>6. Adds(s)'
      BY DEF Adds
    <2> QED BY <2>1, <2>2, <2>3, <2>5, <2>6, SyncAssumption DEF Progress, Adds, Rested, Free
  <1>3. CASE Commit(s)
    <2> USE <1>3 DEF Commit, Closes, Empty, foldVars
    <2>1. TypeOK'
      BY SyncAssumption, OneWalker DEF TypeOK, IsRows, IsAges
    <2>2. \A r \in Syncer : pc'[r] \notin {"walk", "commit"}
      BY OneWalker DEF TypeOK
    <2> QED BY <2>1, <2>2 DEF Promised, Progress, Adds, Rested, Free
  <1>4. CASE Fails(s)
    <2> USE <1>4 DEF Fails, foldVars, dbVars
    <2>1. CASE holder = s
      <3> USE <2>1 DEF Closes, Empty
      <3>1. TypeOK'
        BY SyncAssumption, OneWalker DEF TypeOK, IsRows, IsAges
      <3>2. \A r \in Syncer : pc'[r] \notin {"walk", "commit"}
        BY OneWalker DEF TypeOK
      <3> QED BY <3>1, <3>2 DEF Promised, Progress, Adds, Rested, Free
    <2>2. CASE holder # s
      <3> USE <2>2 DEF walkVars
      <3>1. TypeOK'
        BY DEF TypeOK, IsRows, IsAges, Empty
      <3>2. \A r \in Syncer : pc'[r] \in {"walk", "commit"} => r # s /\ pc'[r] = pc[r] /\ cutoff'[r] = cutoff[r]
        BY DEF TypeOK
      <3>3. \A r \in Syncer : Progress(r)' /\ Adds(r)'
        BY <3>2 DEF Progress, Adds, Caught, Above
      <3> QED BY <3>1, <3>3 DEF Promised, Rested, Free
    <2> QED BY <2>1, <2>2
  <1> QED BY <1>1, <1>2, <1>3, <1>4

(* What is behind the cursor stays there; what is not yet has been read.     *)
LEMMA PassedIsInPage ==
    ASSUME TypeOK, NEW t \in known, t \in ahead, t \notin Older
    PROVE  t \in Got
  <1>1. known \cap ahead \subseteq Txn /\ t \in Txn
    BY DEF TypeOK
  <1>2. PICK u \in Got : ~(t < u)
    BY <1>1 DEF Older
  <1>3. u \in Txn /\ t >= u
    BY <1>1, <1>2, SyncAssumption DEF Got, Newest
  <1> QED
    BY <1>1, <1>2, <1>3, NewestIsUpward, SyncAssumption DEF Got

(* A page that reaches under the cutoff, or the end of the list, leaves      *)
(* nothing above the cutoff unread.                                          *)
LEMMA NothingAboveIsLeft ==
    ASSUME TypeOK, NEW s \in Syncer,
           NEW t \in known, t \in ahead, Above(s, t),
           \/ Wanted(s) # Got
           \/ Got = {}
           \/ known \cap Older = {}
    PROVE  t \in Got
  <1>1. known \cap ahead \subseteq Txn /\ t \in Txn /\ Got \subseteq Txn
    BY DEF TypeOK, Got, Newest
  <1>2. Got # {}
    BY <1>1, NewestHasOne, SyncAssumption DEF Got
  <1>3. CASE known \cap Older = {}
    BY <1>3, PassedIsInPage
  <1>4. CASE Wanted(s) # Got
    <2>1. PICK u \in Got : ~Above(s, u)
      BY <1>4 DEF Wanted
    <2>2. cutoff[s] \in Nat /\ Time[u] \in Nat /\ Time[t] \in Nat /\ t \in Nat /\ u \in Nat
      BY <1>1, SyncAssumption DEF TypeOK
    <2>3. ~(Time[t] <= Time[u])
      BY <2>1, <2>2 DEF Above
    <2>4. ~(t < u)
      BY <2>2, <2>3, <1>1, SyncAssumption
    <2> QED BY <2>4, <1>1, PassedIsInPage DEF Older
  <1> QED BY <1>2, <1>3, <1>4

(* What a page takes is of the page, and all of what is wanted unless the    *)
(* cap is used up.                                                           *)
LEMMA TakenIsBounded ==
    ASSUME TypeOK, NEW s \in Syncer, total < MaxTotal
    PROVE  /\ Got \subseteq known /\ Taken(Wanted(s)) \subseteq Wanted(s) /\ Wanted(s) \subseteq Got
           /\ Cardinality(Taken(Wanted(s))) \in Nat
           /\ Cardinality(Taken(Wanted(s))) <= Room
           /\ ~Capped(Wanted(s)) => /\ Taken(Wanted(s)) = Wanted(s)
                                    /\ Cardinality(Taken(Wanted(s))) < Room
  <1>1. Wanted(s) \subseteq Got /\ Got \subseteq known /\ Wanted(s) \subseteq Txn
    BY DEF TypeOK, Got, Newest, Wanted
  <1>2. Room \in Nat
    BY SyncAssumption DEF TypeOK, Room
  <1>3. IsFiniteSet(Wanted(s)) /\ Cardinality(Wanted(s)) \in Nat
    BY <1>1, SyncAssumption, FS_Subset, FS_CardinalityType
  <1>4. CASE Capped(Wanted(s))
    <2>1. Taken(Wanted(s)) = Newest(Wanted(s), Room)
      BY <1>4 DEF Taken
    <2> QED BY <1>1, <1>2, <1>4, <2>1, NewestIsBounded
  <1>5. CASE ~Capped(Wanted(s))
    <2>1. Taken(Wanted(s)) = Wanted(s) /\ Cardinality(Wanted(s)) < Room
      BY <1>2, <1>3, <1>5 DEF Taken, Capped
    <2> QED BY <1>1, <1>2, <1>3, <2>1
  <1> QED BY <1>4, <1>5

(* A page keeps the invariant.                                               *)
LEMMA PageKeepsInv ==
    ASSUME Inv, NEW s \in Syncer, WalkPage(s)
    PROVE  Inv'
  <1> DEFINE w == Wanted(s)  took == Taken(Wanted(s))
  <1>0. /\ TypeOK /\ pc[s] = "walk" /\ total < MaxTotal /\ stop = "none" /\ Promised /\ Adds(s)
        /\ \A t \in DOMAIN offered : Above(s, t) /\ t \notin ahead => Caught(t)
    BY DEF Inv, WalkPage, Progress
  <1>1. /\ Got \subseteq known /\ took \subseteq w /\ w \subseteq Got /\ took \subseteq Txn
        /\ Cardinality(took) \in Nat /\ Cardinality(took) <= Room
        /\ ~Capped(w) => took = w /\ Cardinality(took) < Room
    BY <1>0, TakenIsBounded DEF TypeOK
  <1>2. /\ IsRows(work') /\ DOMAIN work' = DOMAIN work \cup took
        /\ \A t \in DOMAIN work : /\ work'[t].decided = work[t].decided
                                  /\ work[t].decided \/ t \notin took => work'[t].seen = work[t].seen
        /\ \A t \in took : ~work'[t].decided => work'[t].seen = reported[t]
    <2>1. IsRows(work) /\ took \subseteq DOMAIN reported /\ \A t \in took : reported[t] \in Nat
      BY <1>0, <1>1 DEF TypeOK
    <2>2. work' = Stage(work, took, reported)
      BY DEF WalkPage
    <2> HIDE DEF took
    <2>3. IsRows(Stage(work, took, reported)) /\ Staged(work, took, reported, Stage(work, took, reported))
      BY <2>1, <1>1, StagingKeeps
    <2> QED BY <2>2, <2>3 DEF Staged
  <1>3. /\ total' = total + Cardinality(took) /\ ahead' = Older /\ Older \subseteq Txn
        /\ UNCHANGED <<known, reported, rows, newest, cutoff, page, holder, offered, failures>>
    BY DEF WalkPage, foldVars, dbVars, askVars, Older
  <1>4. \/ /\ Capped(w) /\ stop' = "hard_cap" /\ pc' = [pc EXCEPT ![s] = "commit"]
        \/ /\ ~Capped(w) /\ stop' \in {"cutoff_reached", "exhausted"} /\ pc' = [pc EXCEPT ![s] = "commit"]
           /\ Wanted(s) # Got \/ Got = {} \/ known \cap Older = {}
        \/ ~Capped(w) /\ UNCHANGED <<stop, pc>>
    BY DEF WalkPage, Stops, GoesOn, Goes
  <1>5. total' \in 0..MaxTotal /\ (~Capped(w) => total' < MaxTotal)
    <2> HIDE DEF took, w
    <2> QED BY <1>0, <1>1, <1>3, SyncAssumption DEF TypeOK, Room
  <1>6. TypeOK'
    <2> HIDE DEF took, w
    <2> QED BY <1>0, <1>2, <1>3, <1>4, <1>5 DEF TypeOK, IsRows, IsAges
  <1>7. \A r \in Syncer : pc'[r] \in {"walk", "commit"} => r = s
    BY <1>0, <1>4, OneWalker DEF TypeOK
  <1>8. \A t \in DOMAIN offered : Caught(t) \/ t \in took => Caught(t)'
    <2> SUFFICES ASSUME NEW t \in DOMAIN offered, Caught(t) \/ t \in took PROVE Caught(t)'
      OBVIOUS
    <2>1. offered[t] \in Nat /\ offered[t] <= reported[t] /\ reported[t] \in Nat
      BY <1>0 DEF TypeOK, Promised, IsAges
    <2> HIDE DEF took
    <2>2. CASE t \in took
      BY <2>1, <2>2, <1>2, <1>3 DEF Caught
    <2>3. CASE t \notin took /\ Caught(t)
      <3>1. /\ t \in DOMAIN work /\ t \in DOMAIN work'
            /\ work'[t].decided = work[t].decided /\ work'[t].seen = work[t].seen
        BY <2>3, <1>2 DEF Caught
      <3> QED BY <3>1, <2>3, <1>3 DEF Caught
    <2> QED BY <2>2, <2>3
  <1>9. Adds(s)'
    <2> HIDE DEF took
    <2>1. /\ DOMAIN rows \subseteq DOMAIN work
          /\ \A t \in DOMAIN rows : /\ work[t].decided = rows[t].decided
                                    /\ rows[t].decided => work[t].seen = rows[t].seen
      BY <1>0 DEF Adds
    <2>2. \A t \in DOMAIN work : /\ work'[t].decided = work[t].decided
                                 /\ work[t].decided => work'[t].seen = work[t].seen
      BY <1>2
    <2>3. /\ DOMAIN rows \subseteq DOMAIN work'
          /\ \A t \in DOMAIN rows : /\ work'[t].decided = rows[t].decided
                                    /\ rows[t].decided => work'[t].seen = rows[t].seen
      BY <2>1, <2>2, <1>2
    <2> QED BY <2>3, <1>3 DEF Adds
  <1>10. Progress(s)'
    <2>1. \A t \in DOMAIN offered : Above(s, t)' <=> Above(s, t)
      BY <1>3 DEF Above
    <2>2. \A t \in DOMAIN offered : t \in Got /\ Above(s, t) => t \in w
      BY DEF Wanted
    <2>3. ASSUME pc'[s] = "walk" PROVE Progress(s)'
      <3>1. ~Capped(w) /\ UNCHANGED <<stop, pc>>
        BY <2>3, <1>4, <1>0 DEF TypeOK
      <3>2. ASSUME NEW t \in DOMAIN offered, Above(s, t), t \notin Older PROVE Caught(t)'
        <4>1. CASE t \in ahead
          <5>1. t \in Got
            BY <4>1, <3>2, <1>0, PassedIsInPage DEF Promised
          <5> QED BY <5>1, <3>2, <2>2, <3>1, <1>1, <1>8
        <4>2. CASE t \notin ahead
          BY <4>2, <3>2, <1>0, <1>8
        <4> QED BY <4>1, <4>2
      <3> QED BY <2>3, <3>1, <3>2, <2>1, <1>0, <1>3, <1>5 DEF Progress
    <2>4. ASSUME pc'[s] = "commit" PROVE Progress(s)'
      <3>1. ASSUME stop' # "hard_cap", NEW t \in DOMAIN offered, Above(s, t) PROVE Caught(t)'
        <4>1. ~Capped(w) /\ (Wanted(s) # Got \/ Got = {} \/ known \cap Older = {})
          BY <3>1, <2>4, <1>4, <1>0 DEF TypeOK
        <4>2. CASE t \in ahead
          <5>1. t \in Got
            BY <4>1, <4>2, <3>1, <1>0, NothingAboveIsLeft DEF Promised
          <5> QED BY <5>1, <3>1, <2>2, <4>1, <1>1, <1>8
        <4>3. CASE t \notin ahead
          BY <4>3, <3>1, <1>0, <1>8
        <4> QED BY <4>2, <4>3
      <3> QED BY <2>4, <3>1, <2>1, <1>3 DEF Progress
    <2>5. pc'[s] \in {"walk", "commit"}
      BY <1>4, <1>0 DEF TypeOK
    <2> QED BY <2>3, <2>4, <2>5
  <1>11. Promised'
    BY <1>0, <1>3 DEF Promised
  <1>12. Rested'
    BY <1>0, <1>3, SyncAssumption DEF Rested, Free, TypeOK
  <1>13. ASSUME NEW r \in Syncer PROVE Progress(r)' /\ Adds(r)'
    BY <1>7, <1>9, <1>10 DEF Progress, Adds
  <1> QED
    BY <1>6, <1>11, <1>12, <1>13 DEF Inv

-----------------------------------------------------------------------------
(* The theorems. *)

LEMMA StepKeepsInv == Inv /\ [Next]_vars => Inv'
  <1> SUFFICES ASSUME Inv, [Next]_vars PROVE Inv'
    OBVIOUS
  <1>1. CASE UNCHANGED vars
    <2> USE <1>1 DEF vars, foldVars, dbVars, walkVars, askVars
    <2>1. TypeOK' /\ Promised' /\ Rested'
      BY DEF Inv, TypeOK, IsRows, IsAges, Promised, Rested, Free
    <2> QED BY <2>1 DEF Inv, Progress, Adds, Caught, Above
  <1>2. CASE World
    BY <1>2, FoldKeepsInv, OthersKeepInv DEF World
  <1>3. ASSUME NEW s \in Syncer, Walk(s) PROVE Inv'
    BY <1>3, EdgesKeepInv, PageKeepsInv DEF Walk
  <1>4. ASSUME NEW s \in Admin, RecentLists(s) \/ RecentStages(s) PROVE Inv'
    BY <1>4, OthersKeepInv
  <1> QED BY <1>1, <1>2, <1>3, <1>4 DEF Next

LEMMA Invariance == Spec => []Inv
  <1>1. Init => Inv
    BY InitInv
  <1>2. Inv /\ [Next]_vars => Inv'
    BY StepKeepsInv
  <1> QED BY <1>1, <1>2, PTL DEF Spec

(* Every variable keeps its type, the cap is kept, and the connection is     *)
(* held exactly by the walk that is open.                                    *)
THEOREM SyncTypeCorrect == Spec => []TypeOK
  <1>1. Inv => TypeOK
    BY DEF Inv
  <1> QED BY <1>1, Invariance, PTL

(* A walk that its cap did not cut off has staged everything above its       *)
(* cutoff, whatever Fold added or corrected while it went.                   *)
THEOREM WalksAreComplete == Spec => WalkIsComplete
  <1>1. ASSUME Inv, [Next]_vars, NEW s \in Syncer, Ends(s),
               NEW t \in DOMAIN offered, Above(s, t)
        PROVE  UpToDate(t, offered[t])
    <2>1. Caught(t)
      BY <1>1 DEF Inv, Progress, Ends
    <2>2. rows' = work
      <3>1. pc'[s] # pc[s]
        BY <1>1 DEF Ends
      <3>2. CASE World
        BY <3>1, <3>2 DEF World, FoldLists, FoldEdits, RowIsDecided, Mirrored
      <3>3. ASSUME NEW r \in Admin, RecentLists(r) \/ RecentStages(r) PROVE FALSE
        <4>1. pc[r] # "commit" /\ pc' = [pc EXCEPT ![r] = pc'[r]]
          BY <3>3 DEF RecentLists, RecentStages, Goes
        <4> QED BY <4>1, <3>1, <1>1 DEF Ends, Inv, TypeOK
      <3>4. ASSUME NEW r \in Syncer, Walk(r) PROVE rows' = work
        <4>1. CASE Commit(r)
          BY <4>1 DEF Commit
        <4>2. CASE Fails(r)
          BY <4>2, <1>1 DEF Fails, Ends, Inv, TypeOK
        <4>3. CASE ReadCutoff(r) \/ Begin(r) \/ WalkPage(r)
          <5>1. pc[r] # "commit" /\ (pc' = pc \/ \E l : pc' = [pc EXCEPT ![r] = l])
            BY <4>3 DEF ReadCutoff, Begin, WalkPage, Goes, Stops, GoesOn
          <5> QED BY <5>1, <3>1, <1>1 DEF Ends, Inv, TypeOK
        <4> QED BY <3>4, <4>1, <4>2, <4>3 DEF Walk
      <3> QED BY <3>1, <3>2, <3>3, <3>4, <1>1 DEF Next, vars
    <2> QED BY <2>1, <2>2 DEF Caught, UpToDate
  <1>2. Inv /\ [Next]_vars =>
           \A s \in Syncer : Ends(s) =>
              \A t \in DOMAIN offered : Above(s, t) => UpToDate(t, offered[t])
    BY <1>1
  <1> QED BY <1>2, Invariance, PTL DEF Spec, WalkIsComplete

(* No sync, however it interleaves with the others, removes a row, undoes a  *)
(* decision or moves the amount of a row that was sent or skipped.           *)
THEOREM DecisionsStand == Spec => DecidedIsLeftAlone
  <1> DEFINE Kept(t) == /\ rows[t].decided => rows'[t].seen = rows[t].seen
                        /\ pc' # pc => rows'[t].decided = rows[t].decided
             Stands == DOMAIN rows \subseteq DOMAIN rows' /\ \A t \in DOMAIN rows : Kept(t)
  <1>1. ASSUME Inv, [Next]_vars PROVE Stands
    <2>1. ASSUME rows' = rows PROVE Stands
      BY <2>1
    <2>2. CASE World
      <3>1. ASSUME NEW u \in DOMAIN rows, RowIsDecided(u) PROVE Stands
        BY <3>1, <1>1 DEF RowIsDecided, Inv, TypeOK, IsRows, Row
      <3>2. (\E u \in Txn : FoldLists(u) \/ FoldEdits(u) \/ Mirrored(Time[u])) => rows' = rows
        BY DEF FoldLists, FoldEdits, Mirrored, dbVars
      <3> QED BY <2>1, <2>2, <3>1, <3>2 DEF World
    <2>3. ASSUME NEW s \in Syncer, Walk(s) PROVE Stands
      <3>1. CASE Commit(s)
        <4>1. rows' = work /\ Adds(s) /\ pc[s] = "commit"
          BY <3>1, <1>1 DEF Commit, Inv
        <4> QED BY <4>1 DEF Adds
      <3>2. ReadCutoff(s) \/ Begin(s) \/ WalkPage(s) \/ Fails(s) => rows' = rows
        BY DEF ReadCutoff, Begin, WalkPage, Fails, dbVars
      <3> QED BY <2>1, <2>3, <3>1, <3>2 DEF Walk
    <2>4. ASSUME NEW s \in Admin, RecentLists(s) PROVE Stands
      BY <2>1, <2>4 DEF RecentLists, dbVars
    <2>5. ASSUME NEW s \in Admin, RecentStages(s) PROVE Stands
      <3>1. s \in Syncer /\ IsRows(rows) /\ IsAges(page[s])
        BY <1>1 DEF Inv, TypeOK, Syncer
      <3>2. Staged(rows, DOMAIN page[s], page[s], Stage(rows, DOMAIN page[s], page[s]))
        BY <3>1, StagingKeeps DEF IsAges
      <3>3. rows' = Stage(rows, DOMAIN page[s], page[s])
        BY <2>5 DEF RecentStages
      <3> QED
        BY <3>2, <3>3 DEF Staged
    <2>6. CASE UNCHANGED vars
      BY <2>1, <2>6 DEF vars, dbVars
    <2> QED BY <1>1, <2>2, <2>3, <2>4, <2>5, <2>6 DEF Next
  <1>2. Inv /\ [Next]_vars => Stands
    BY <1>1
  <1> QED BY <1>2, Invariance, PTL DEF Spec, DecidedIsLeftAlone
=============================================================================
