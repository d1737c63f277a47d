------------------------------- MODULE DeckProofs -------------------------------
(***************************************************************************)
(* What is proved of the review deck for any number of cards, decisions and *)
(* pages, and any order of answers (Deck): a swipe is sent once at most, the *)
(* hand is of the pile shown and has no card that is being decided, and      *)
(* reading ahead skips none.                                                *)
(***************************************************************************)
EXTENDS Deck, SequenceTheorems, WellFoundedInduction, TLAPS

-----------------------------------------------------------------------------
(* Sequences. *)

(* Induction, with a set for the property.                                   *)
LEMMA AllNumbers ==
    ASSUME NEW T \in SUBSET Nat, 0 \in T, \A n \in T : n + 1 \in T
    PROVE  T = Nat
<1> SUFFICES ASSUME Nat \ T # {} PROVE FALSE
    OBVIOUS
<1>1. \E x \in Nat \ T : \A y \in Nat \ T : ~(<<y, x>> \in OpToRel(<, Nat))
    BY WFMin, NatLessThanWellFounded
<1>2. PICK x \in Nat \ T : \A y \in Nat \ T : ~(<<y, x>> \in OpToRel(<, Nat))
    BY <1>1
<1>3. x \in Nat \ T /\ \A y \in Nat \ T : ~(y < x)
    BY <1>2 DEF OpToRel
<1>4. x - 1 \in Nat
    BY <1>3
<1>5. x - 1 \in T
    BY <1>3, <1>4
<1> QED
    BY <1>3, <1>5

(* The prefixes of what is kept, as Keep builds them one after another.      *)
Prefixes(s, C, f, n) ==
    f = [i \in 0..n |-> IF i = 0 THEN <<>> ELSE IF s[i].card \in C THEN Append(f[i-1], s[i]) ELSE f[i-1]]

LEMMA PrefixesExist ==
    ASSUME NEW s, NEW C, NEW n \in Nat
    PROVE  \E f : Prefixes(s, C, f, n)
<1> DEFINE T == {m \in Nat : \E f : Prefixes(s, C, f, m)}
<1>1. 0 \in T
    <2> DEFINE f == [i \in 0..0 |-> <<>>]
    <2>1. f = [i \in 0..0 |-> IF i = 0 THEN <<>> ELSE IF s[i].card \in C THEN Append(f[i-1], s[i]) ELSE f[i-1]]
        OBVIOUS
    <2> QED
        BY <2>1 DEF Prefixes
<1>2. ASSUME NEW m \in T PROVE m + 1 \in T
    <2>1. PICK f : Prefixes(s, C, f, m)
        OBVIOUS
    <2> DEFINE next1(i) == IF s[i].card \in C THEN Append(f[i-1], s[i]) ELSE f[i-1]
               g == [i \in 0..(m + 1) |-> IF i = m + 1 THEN next1(i) ELSE f[i]]
    <2>2. \A i \in 0..m : f[i] = IF i = 0 THEN <<>> ELSE next1(i)
        BY <2>1 DEF Prefixes
    <2>3. \A i \in 1..(m + 1) : g[i-1] = f[i-1]
        OBVIOUS
    <2>4. \A i \in 0..(m + 1) : g[i] = IF i = 0 THEN <<>> ELSE next1(i)
        BY <2>2
    <2> HIDE DEF g
    <2>5. \A i \in 0..(m + 1) :
            g[i] = IF i = 0 THEN <<>> ELSE IF s[i].card \in C THEN Append(g[i-1], s[i]) ELSE g[i-1]
        BY <2>3, <2>4
    <2>6. g = [i \in 0..(m + 1) |-> g[i]]
        BY DEF g
    <2>7. Prefixes(s, C, g, m + 1)
        BY <2>5, <2>6 DEF Prefixes
    <2> QED
        BY <2>7
<1> HIDE DEF T
<1>3. T = Nat
    BY <1>1, <1>2, AllNumbers DEF T
<1> QED
    BY <1>3 DEF T

LEMMA KeepIsLast ==
    ASSUME NEW s, NEW C, Len(s) \in Nat
    PROVE  \E f : Prefixes(s, C, f, Len(s)) /\ Keep(s, C) = f[Len(s)]
<1> DEFINE f == CHOOSE g : Prefixes(s, C, g, Len(s))
<1>1. Prefixes(s, C, f, Len(s))
    BY PrefixesExist
<1>2. Keep(s, C) = f[Len(s)]
    BY DEF Keep, Prefixes
<1> QED
    BY <1>1, <1>2

(* No card is twice in a sequence. *)
Once(s) == \A i, j \in DOMAIN s : s[i].card = s[j].card => i = j

LEMMA Appended ==
    ASSUME NEW R, NEW s \in Seq(R), NEW d \in R
    PROVE  LET t == Append(s, d)
           IN  /\ t \in Seq(R) /\ Len(t) = Len(s) + 1 /\ DOMAIN t = 1..(Len(s) + 1) /\ DOMAIN s = 1..Len(s)
               /\ Len(s) \in Nat
               /\ \A i \in 1..Len(s) : t[i] = s[i] /\ s[i] \in R
               /\ t[Len(s) + 1] = d
OBVIOUS

(* What is kept of s: entries of s, each once, in C, and all of those.       *)
IsKept(t, R, s, n, C) ==
    /\ t \in Seq(R)
    /\ \A k \in 1..Len(t) : \E j \in 1..n : t[k] = s[j] /\ s[j].card \in C
    /\ \A j \in 1..n : s[j].card \in C => \E k \in 1..Len(t) : t[k] = s[j]
    /\ Once(s) => Once(t)

LEMMA KeepStep ==
    ASSUME NEW R, NEW s \in Seq(R), NEW C, NEW n \in 1..Len(s), NEW t, IsKept(t, R, s, n-1, C)
    PROVE  IsKept(IF s[n].card \in C THEN Append(t, s[n]) ELSE t, R, s, n, C)
<1>1. Len(s) \in Nat /\ DOMAIN s = 1..Len(s) /\ s[n] \in R /\ t \in Seq(R) /\ DOMAIN t = 1..Len(t) /\ Len(t) \in Nat
    BY DEF IsKept
<1>2. \A j \in 1..n : j \in 1..(n-1) \/ j = n
    BY <1>1
<1>3. CASE s[n].card \notin C
    <2>1. \A k \in 1..Len(t) : \E j \in 1..n : t[k] = s[j] /\ s[j].card \in C
        BY <1>1 DEF IsKept
    <2>2. \A j \in 1..n : s[j].card \in C => \E k \in 1..Len(t) : t[k] = s[j]
        BY <1>2, <1>3 DEF IsKept
    <2>3. IsKept(t, R, s, n, C)
        BY <2>1, <2>2 DEF IsKept
    <2> QED
        BY <2>3, <1>3
<1>4. CASE s[n].card \in C
    <2> DEFINE u == Append(t, s[n])
    <2>1. /\ u \in Seq(R) /\ Len(u) = Len(t) + 1 /\ DOMAIN u = 1..(Len(t) + 1)
          /\ \A k \in 1..Len(t) : u[k] = t[k]
          /\ u[Len(t) + 1] = s[n]
        BY <1>1, Appended
    <2> HIDE DEF u
    <2>2. ASSUME NEW k \in 1..Len(u) PROVE \E j \in 1..n : u[k] = s[j] /\ s[j].card \in C
        <3>1. CASE k \in 1..Len(t)
            BY <3>1, <1>1, <2>1 DEF IsKept
        <3>2. CASE k = Len(t) + 1
            BY <3>2, <1>1, <1>4, <2>1
        <3> QED
            BY <3>1, <3>2, <1>1, <2>1
    <2>3. ASSUME NEW j \in 1..n, s[j].card \in C PROVE \E k \in 1..Len(u) : u[k] = s[j]
        <3>1. CASE j \in 1..(n-1)
            <4>1. PICK k \in 1..Len(t) : t[k] = s[j]
                BY <2>3, <3>1 DEF IsKept
            <4> QED
                BY <4>1, <1>1, <2>1
        <3>2. CASE j = n
            <4>1. Len(u) \in 1..Len(u) /\ u[Len(u)] = s[n]
                BY <1>1, <2>1
            <4> QED
                BY <4>1, <3>2
        <3> QED
            BY <3>1, <3>2, <1>2
    <2>4. ASSUME Once(s) PROVE Once(u)
        <3>1. \A k \in 1..Len(t) : t[k].card # s[n].card
            <4> SUFFICES ASSUME NEW k \in 1..Len(t), t[k].card = s[n].card PROVE FALSE
                OBVIOUS
            <4>1. PICK j \in 1..(n-1) : t[k] = s[j]
                BY DEF IsKept
            <4> QED
                BY <4>1, <1>1, <2>4 DEF Once
        <3>2. Once(t)
            BY <2>4 DEF IsKept
        <3> SUFFICES ASSUME NEW k \in 1..Len(u), NEW l \in 1..Len(u), u[k].card = u[l].card PROVE k = l
            BY <2>1 DEF Once
        <3>3. CASE k \in 1..Len(t) /\ l \in 1..Len(t)
            BY <3>2, <3>3, <1>1, <2>1 DEF Once
        <3>4. CASE k = Len(t) + 1 \/ l = Len(t) + 1
            BY <3>1, <3>4, <1>1, <2>1
        <3> QED
            BY <3>3, <3>4, <1>1, <2>1
    <2>5. IsKept(u, R, s, n, C)
        BY <2>1, <2>2, <2>3, <2>4 DEF IsKept
    <2> QED
        BY <2>5, <1>4 DEF u
<1> QED
    BY <1>3, <1>4

LEMMA KeepKeeps ==
    ASSUME NEW R, NEW s \in Seq(R), NEW C
    PROVE  IsKept(Keep(s, C), R, s, Len(s), C)
<1>1. Len(s) \in Nat
    OBVIOUS
<1>2. PICK f : Prefixes(s, C, f, Len(s)) /\ Keep(s, C) = f[Len(s)]
    BY <1>1, KeepIsLast
<1> DEFINE T == {n \in Nat : n <= Len(s) => IsKept(f[n], R, s, n, C)}
<1>3. 0 \in T
    <2>1. f[0] = <<>>
        BY <1>1, <1>2 DEF Prefixes
    <2>2. IsKept(<<>>, R, s, 0, C)
        BY DEF IsKept, Once
    <2> QED
        BY <2>1, <2>2
<1>4. ASSUME NEW n \in T PROVE n + 1 \in T
    <2> SUFFICES ASSUME n + 1 <= Len(s) PROVE IsKept(f[n + 1], R, s, n + 1, C)
        OBVIOUS
    <2>1. n + 1 \in 1..Len(s) /\ (n + 1) - 1 = n /\ IsKept(f[n], R, s, n, C)
        BY <1>1
    <2>2. f[n + 1] = IF s[n + 1].card \in C THEN Append(f[n], s[n + 1]) ELSE f[n]
        <3> DEFINE m == n + 1
        <3>1. m \in 0..Len(s) /\ m # 0 /\ m - 1 = n
            BY <1>1, <2>1
        <3> HIDE DEF m
        <3>2. f[m] = IF s[m].card \in C THEN Append(f[m-1], s[m]) ELSE f[m-1]
            BY <1>2, <3>1 DEF Prefixes
        <3> QED
            BY <3>1, <3>2 DEF m
    <2>3. \A m \in 1..Len(s) : IsKept(f[n], R, s, m-1, C) =>
            IsKept(IF s[m].card \in C THEN Append(f[n], s[m]) ELSE f[n], R, s, m, C)
        BY KeepStep
    <2> QED
        BY <2>1, <2>2, <2>3
<1> HIDE DEF T
<1>5. T = Nat
    BY <1>3, <1>4, AllNumbers DEF T
<1> QED
    BY <1>1, <1>2, <1>5 DEF T

(* The same about a hand of cards.                                          *)
LEMMA Kept ==
    ASSUME NEW s \in Seq(Entry), NEW C
    PROVE  /\ Keep(s, C) \in Seq(Entry)
           /\ CardsIn(Keep(s, C)) = CardsIn(s) \cap C
           /\ Once(s) => Once(Keep(s, C))
           /\ \A p : (\A i \in DOMAIN s : s[i].pile = p) => \A i \in DOMAIN Keep(s, C) : Keep(s, C)[i].pile = p
<1> DEFINE t == Keep(s, C)
<1>1. IsKept(t, Entry, s, Len(s), C)
    BY KeepKeeps
<1> HIDE DEF t
<1>2. t \in Seq(Entry) /\ DOMAIN t = 1..Len(t) /\ DOMAIN s = 1..Len(s)
    BY <1>1 DEF IsKept
<1>3. CardsIn(t) = CardsIn(s) \cap C
    <2>1. ASSUME NEW c \in CardsIn(t) PROVE c \in CardsIn(s) \cap C
        <3>1. PICK k \in 1..Len(t) : c = t[k].card
            BY <1>2 DEF CardsIn
        <3> QED
            BY <3>1, <1>1, <1>2 DEF CardsIn, IsKept
    <2>2. ASSUME NEW c \in CardsIn(s), c \in C PROVE c \in CardsIn(t)
        <3>1. PICK j \in 1..Len(s) : c = s[j].card
            BY <1>2 DEF CardsIn
        <3>2. PICK k \in 1..Len(t) : t[k] = s[j]
            BY <3>1, <2>2, <1>1 DEF IsKept
        <3> QED
            BY <3>1, <3>2, <1>2 DEF CardsIn
    <2> QED
        BY <2>1, <2>2
<1> QED
    BY <1>1, <1>2, <1>3 DEF IsKept, t

(* A hand, or a page of the deck: its cards are of one pile, each there once. *)
Good(s, p) == s \in Seq(Entry) /\ Once(s) /\ \A i \in DOMAIN s : s[i].pile = p

LEMMA GoodKept ==
    ASSUME NEW s, NEW p, Good(s, p), NEW C
    PROVE  Good(Keep(s, C), p) /\ CardsIn(Keep(s, C)) = CardsIn(s) \cap C
BY Kept DEF Good

LEMMA GoodIn ==
    ASSUME NEW s, NEW p, Good(s, p)
    PROVE  CardsIn(s) \subseteq Card
<1>1. \A i \in DOMAIN s : s[i] \in Entry
    BY DEF Good
<1> QED
    BY <1>1 DEF CardsIn, Entry

LEMMA Emptied == \A p : Good(<<>>, p) /\ CardsIn(<<>>) = {}
BY DEF Good, Once, CardsIn

LEMMA Alone ==
    ASSUME NEW e \in Entry
    PROVE  Good(<<e>>, e.pile) /\ CardsIn(<<e>>) = {e.card}
<1>1. <<e>> \in Seq(Entry) /\ DOMAIN <<e>> = {1} /\ <<e>>[1] = e
    OBVIOUS
<1> HIDE DEF Entry
<1> QED
    BY <1>1 DEF Good, Once, CardsIn

LEMMA Joined ==
    ASSUME NEW a, NEW b, NEW p, Good(a, p), Good(b, p), CardsIn(a) \cap CardsIn(b) = {}
    PROVE  Good(a \o b, p) /\ CardsIn(a \o b) = CardsIn(a) \cup CardsIn(b)
<1> DEFINE t == a \o b
<1>1. /\ a \in Seq(Entry) /\ b \in Seq(Entry)
      /\ DOMAIN a = 1..Len(a) /\ DOMAIN b = 1..Len(b) /\ Len(a) \in Nat /\ Len(b) \in Nat
    BY DEF Good
<1>2. /\ t \in Seq(Entry) /\ DOMAIN t = 1..(Len(a) + Len(b))
      /\ \A i \in 1..Len(a) : t[i] = a[i]
      /\ \A i \in (Len(a) + 1)..(Len(a) + Len(b)) : t[i] = b[i - Len(a)]
    BY <1>1
<1> HIDE DEF t
<1>3. \A i \in DOMAIN t : \/ i \in 1..Len(a) /\ t[i] = a[i]
                          \/ i - Len(a) \in 1..Len(b) /\ t[i] = b[i - Len(a)]
    BY <1>1, <1>2
<1>4. CardsIn(t) = CardsIn(a) \cup CardsIn(b)
    <2>1. ASSUME NEW i \in DOMAIN t PROVE t[i].card \in CardsIn(a) \cup CardsIn(b)
        BY <1>1, <1>3 DEF CardsIn
    <2>2. ASSUME NEW i \in DOMAIN a PROVE a[i].card \in CardsIn(t)
        <3>1. i \in DOMAIN t /\ t[i] = a[i]
            BY <1>1, <1>2
        <3> QED
            BY <3>1 DEF CardsIn
    <2>3. ASSUME NEW i \in DOMAIN b PROVE b[i].card \in CardsIn(t)
        <3>1. i + Len(a) \in DOMAIN t /\ (i + Len(a)) - Len(a) = i
            BY <1>1, <1>2
        <3>2. i + Len(a) \in (Len(a) + 1)..(Len(a) + Len(b))
            BY <1>1
        <3>3. t[i + Len(a)] = b[i]
            BY <1>2, <3>1, <3>2
        <3> QED
            BY <3>1, <3>3 DEF CardsIn
    <2> QED
        BY <2>1, <2>2, <2>3 DEF CardsIn
<1>5. \A i \in DOMAIN t : t[i].pile = p
    BY <1>1, <1>3 DEF Good
<1>6. Once(t)
    <2> SUFFICES ASSUME NEW i \in DOMAIN t, NEW j \in DOMAIN t, t[i].card = t[j].card PROVE i = j
        BY DEF Once
    <2>1. CASE i \in 1..Len(a) /\ j \in 1..Len(a)
        BY <2>1, <1>1, <1>2 DEF Good, Once
    <2>2. CASE i \notin 1..Len(a) /\ j \notin 1..Len(a)
        <3>1. i - Len(a) \in DOMAIN b /\ j - Len(a) \in DOMAIN b
              /\ t[i] = b[i - Len(a)] /\ t[j] = b[j - Len(a)]
            BY <2>2, <1>1, <1>3
        <3>2. i - Len(a) = j - Len(a)
            BY <3>1 DEF Good, Once
        <3> QED
            BY <3>2, <1>1, <1>2
    <2>3. CASE (i \in 1..Len(a)) # (j \in 1..Len(a))
        <3>1. \A k \in 1..Len(a) : t[k].card \in CardsIn(a)
            BY <1>1, <1>2 DEF CardsIn
        <3>2. \A k \in DOMAIN t : k \notin 1..Len(a) => t[k].card \in CardsIn(b)
            BY <1>1, <1>3 DEF CardsIn
        <3> QED
            BY <2>3, <3>1, <3>2
    <2> QED
        BY <2>1, <2>2, <2>3
<1> QED
    BY <1>2, <1>4, <1>5, <1>6 DEF Good, t

(* The card on top, and those under it.                                     *)
LEMMA Taken ==
    ASSUME NEW s, NEW p, Good(s, p), s # <<>>
    PROVE  /\ Head(s) \in Entry /\ Head(s).pile = p
           /\ Good(Tail(s), p)
           /\ CardsIn(Tail(s)) = CardsIn(s) \ {Head(s).card} /\ Head(s).card \in CardsIn(s)
<1> DEFINE t == Tail(s)
<1>1. /\ s \in Seq(Entry) /\ DOMAIN s = 1..Len(s) /\ Len(s) \in Nat /\ Len(s) >= 1
      /\ Head(s) = s[1] /\ s[1] \in Entry
    BY DEF Good
<1>2. /\ t \in Seq(Entry) /\ DOMAIN t = 1..(Len(s) - 1)
      /\ \A i \in 1..(Len(s) - 1) : t[i] = s[i + 1]
    BY <1>1
<1> HIDE DEF t
<1>3. \A i \in DOMAIN t : i + 1 \in DOMAIN s /\ t[i] = s[i + 1] /\ i + 1 # 1
    BY <1>1, <1>2
<1>4. Head(s).pile = p /\ \A i \in DOMAIN t : t[i].pile = p
    BY <1>1, <1>3 DEF Good
<1>5. Once(t)
    <2> SUFFICES ASSUME NEW i \in DOMAIN t, NEW j \in DOMAIN t, t[i].card = t[j].card PROVE i = j
        BY DEF Once
    <2>1. i + 1 = j + 1
        BY <1>3 DEF Good, Once
    <2> QED
        BY <2>1, <1>1, <1>2
<1>6. CardsIn(t) = CardsIn(s) \ {Head(s).card}
    <2>1. ASSUME NEW i \in DOMAIN t PROVE t[i].card \in CardsIn(s) \ {Head(s).card}
        <3>1. s[i + 1].card # s[1].card
            BY <1>1, <1>3 DEF Good, Once
        <3> QED
            BY <3>1, <1>1, <1>3 DEF CardsIn
    <2>2. ASSUME NEW i \in DOMAIN s, s[i].card # Head(s).card PROVE s[i].card \in CardsIn(t)
        <3>1. i - 1 \in DOMAIN t /\ (i - 1) + 1 = i
            BY <1>1, <1>2, <2>2
        <3>2. t[i - 1] = s[i]
            BY <3>1, <1>3
        <3> QED
            BY <3>1, <3>2 DEF CardsIn
    <2> QED
        BY <2>1, <2>2 DEF CardsIn
<1>7. Head(s).card \in CardsIn(s)
    BY <1>1 DEF CardsIn
<1> QED
    BY <1>1, <1>2, <1>4, <1>5, <1>6, <1>7 DEF Good, t

(* A card put on top, wherever in the hand it may have been.                *)
LEMMA OnTop ==
    ASSUME NEW s, NEW e \in Entry, Good(s, e.pile)
    PROVE  /\ Good(<<e>> \o Without(s, e.card), e.pile)
           /\ CardsIn(<<e>> \o Without(s, e.card)) = CardsIn(s) \cup {e.card}
<1> DEFINE w == Without(s, e.card)
<1>1. Good(w, e.pile) /\ CardsIn(w) = CardsIn(s) \cap (Card \ {e.card}) /\ CardsIn(s) \subseteq Card
    BY GoodKept, GoodIn DEF Without
<1>2. Good(<<e>>, e.pile) /\ CardsIn(<<e>>) = {e.card}
    BY Alone
<1> HIDE DEF w
<1>3. CardsIn(<<e>>) \cap CardsIn(w) = {}
    BY <1>1, <1>2
<1>4. Good(<<e>> \o w, e.pile) /\ CardsIn(<<e>> \o w) = CardsIn(<<e>>) \cup CardsIn(w)
    BY <1>1, <1>2, <1>3, Joined
<1> QED
    BY <1>1, <1>2, <1>4 DEF w

(* The top card goes to the back.                                           *)
LEMMA ToTheBack ==
    ASSUME NEW s, NEW p, Good(s, p), s # <<>>
    PROVE  Good(Append(Tail(s), Head(s)), p) /\ CardsIn(Append(Tail(s), Head(s))) = CardsIn(s)
<1> DEFINE t == Tail(s)
           e == Head(s)
<1>1. /\ e \in Entry /\ e.pile = p /\ Good(t, p)
      /\ CardsIn(t) = CardsIn(s) \ {e.card} /\ e.card \in CardsIn(s)
    BY Taken
<1> HIDE DEF t, e
<1>2. Good(<<e>>, p) /\ CardsIn(<<e>>) = {e.card}
    BY <1>1, Alone
<1>3. Good(t \o <<e>>, p) /\ CardsIn(t \o <<e>>) = CardsIn(t) \cup CardsIn(<<e>>)
    BY <1>1, <1>2, Joined
<1>4. Append(t, e) = t \o <<e>>
    BY <1>1, AppendIsConcat DEF Good
<1> QED
    BY <1>1, <1>2, <1>3, <1>4 DEF t, e

(* The same cards, with something else about them.                          *)
LEMMA Retold ==
    ASSUME NEW s, NEW p, Good(s, p), NEW t, t = [i \in DOMAIN s |-> t[i]],
           \A i \in DOMAIN s : t[i] \in Entry /\ t[i].card = s[i].card /\ t[i].pile = s[i].pile
    PROVE  Good(t, p) /\ CardsIn(t) = CardsIn(s)
<1>1. DOMAIN t = DOMAIN s /\ DOMAIN s = 1..Len(s) /\ Len(s) \in Nat
    BY DEF Good
<1>2. t \in Seq(Entry)
    BY <1>1
<1>3. Once(t) /\ \A i \in DOMAIN t : t[i].pile = p
    BY <1>1 DEF Good, Once
<1>4. CardsIn(t) = CardsIn(s)
    BY <1>1 DEF CardsIn
<1> QED
    BY <1>2, <1>3, <1>4 DEF Good

-----------------------------------------------------------------------------
(* What is always so, in four parts: the rows and what is owed of them, the  *)
(* page, its loads, and the decisions.                                      *)
World ==
    /\ pileOf \in [Card -> Pile \cup {"gone"}] /\ block \in [Card -> Block]
    /\ at \in [Card -> Place \ {None}]
    /\ edit \in [card : Card \cup {None}, to : {"none", "hold", "back"}, block : Block, pile : Pile,
                 stage : {"none", "asked", "done", "refused"}]
    /\ edit.stage # "none" => edit.card \in Card
    /\ owed \subseteq Card

Page ==
    /\ pile \in Pile /\ open \in BOOLEAN /\ loaded \in BOOLEAN
    /\ error \in BOOLEAN /\ resynced \in BOOLEAN /\ next \in Place
    /\ Good(hand, pile)

(* A load that counts is of the pile shown, and reads on where it has come.  *)
Fit(q) ==
    /\ q \in Request /\ Good(q.cards, q.pile)
    /\ q.first => q.after = None
    /\ q.current => /\ q.pile = pile
                    /\ IF q.first THEN ~loaded ELSE loaded /\ next # None /\ q.after = next

Loads ==
    /\ \A q \in pages : Fit(q)
    /\ \A q, r \in pages : q.current /\ r.current => q = r
    /\ next # None => loaded

(* As long as a decision waits it has not been sent, nor taken back, and it  *)
(* is no Later; and taking back a send or skip finds it waiting.            *)
Fair(d) ==
    /\ d \in Swipe
    /\ d.stage = "waiting" => d.kind # "later" /\ ~d.undone /\ d.asks = 0
    /\ d.kind # "later" /\ d.undone => d.asks = 0 /\ d.stage = "dropped"

Swipes ==
    /\ decided \in Seq(Swipe) /\ \A i \in DOMAIN decided : Fair(decided[i])
    /\ last \in {None, Len(decided)}

Sound == World /\ Page /\ Loads /\ Swipes

(* The steps that leave a decision's list alone, and those that do not.      *)
LEMMA Kinds ==
    ASSUME Next
    PROVE  \/ \E q \in pages : ServerLists(q) \/ Answered(q) \/ LoadFails(q)
           \/ Resyncs \/ Retry \/ SwitchPile \/ SetScope
           \/ \E kind \in {"send", "skip", "later"} : Decide(kind)
           \/ NotYet \/ Hides \/ Undo
           \/ \E i \in DOMAIN decided : TimerFires(i) \/ Serves(i) \/ Settles(i) \/ Failed(i)
           \/ \E i \in DOMAIN decided : AsksBack(i) \/ ServesBack(i)
           \/ EditServed \/ EditAnswered \/ EditFails
           \/ \E c \in Card : BringToTop(c) \/ MovesAhead(c) \/ Elsewhere(c)
           \/ \E c \in Card, to \in {"none", "hold", "back"} : EditAsked(c, to)
BY DEF Next

-----------------------------------------------------------------------------
(* The decisions. *)

(* The same ones, some of them further on.                                  *)
LEMMA Changed ==
    ASSUME NEW s \in Seq(Swipe), NEW t, t = [i \in DOMAIN s |-> t[i]],
           \A i \in DOMAIN s : Fair(t[i])
    PROVE  t \in Seq(Swipe) /\ DOMAIN t = DOMAIN s /\ Len(t) = Len(s)
<1>1. DOMAIN s = 1..Len(s) /\ Len(s) \in Nat
    OBVIOUS
<1>2. t \in [1..Len(s) -> Swipe]
    BY <1>1 DEF Fair
<1> HIDE DEF Swipe
<1> QED
    BY <1>1, <1>2

LEMMA Staged ==
    ASSUME NEW d, Fair(d), NEW st \in {"asked", "done", "refused", "settled", "failed"},
           d.stage \notin {"waiting", "dropped"}
    PROVE  Fair([d EXCEPT !.stage = st])
BY DEF Fair, Swipe

LEMMA Run ==
    ASSUME NEW d, Fair(d), d.stage = "waiting"
    PROVE  Fair([d EXCEPT !.stage = "asked", !.asks = @ + 1])
<1>1. d \in Swipe /\ d.asks + 1 = 1 /\ d.undone = FALSE
    BY DEF Fair, Swipe
<1>2. [d EXCEPT !.stage = "asked", !.asks = @ + 1] = [d EXCEPT !.stage = "asked", !.asks = 1]
    BY <1>1
<1>3. Fair([d EXCEPT !.stage = "asked", !.asks = 1])
    BY <1>1 DEF Fair, Swipe
<1> QED
    BY <1>2, <1>3

LEMMA Dropped ==
    ASSUME NEW d, Fair(d), d.stage = "waiting"
    PROVE  Fair([d EXCEPT !.undone = TRUE, !.stage = "dropped"])
BY DEF Fair, Swipe

LEMMA Recalled ==
    ASSUME NEW d, Fair(d), d.kind = "later"
    PROVE  Fair([d EXCEPT !.undone = TRUE, !.back = "queued"])
BY DEF Fair, Swipe

LEMMA Answering ==
    ASSUME NEW d, Fair(d), NEW x \in {"asked", "done"}
    PROVE  Fair([d EXCEPT !.back = x])
BY DEF Fair, Swipe

LEMMA Decided ==
    ASSUME NEW c \in Entry, NEW kind \in {"send", "skip", "later"}, pile \in Pile
    PROVE  Fair(Decision(c, kind))
BY DEF Fair, Swipe, Decision, Entry

LEMMA InitSwipes == Init => Swipes
BY DEF Init, Swipes

LEMMA StepSwipes ==
    ASSUME Swipes, Page, [Next]_vars
    PROVE  Swipes'
<1> DEFINE Same == UNCHANGED <<decided, last>>
           One(i, d) == decided' = [decided EXCEPT ![i] = d]
<1>0. decided \in Seq(Swipe) /\ DOMAIN decided = 1..Len(decided) /\ Len(decided) \in Nat
    BY DEF Swipes
<1>1. CASE Same
    BY <1>1 DEF Swipes
<1>2. ASSUME NEW i \in DOMAIN decided, NEW d, Fair(d), One(i, d), last' \in {None, last} PROVE Swipes'
    <2>1. decided' = [j \in DOMAIN decided |-> decided'[j]] /\ \A j \in DOMAIN decided : Fair(decided'[j])
        BY <1>2 DEF Swipes
    <2>2. decided' \in Seq(Swipe) /\ DOMAIN decided' = DOMAIN decided /\ Len(decided') = Len(decided)
        BY <1>0, <2>1, Changed
    <2> QED
        BY <1>2, <2>1, <2>2 DEF Swipes
<1>3. ASSUME NEW kind \in {"send", "skip", "later"}, Decide(kind) PROVE Swipes'
    <2> DEFINE d == Decision(Head(hand), kind)
    <2>1. decided' = Append(decided, d) /\ last' = Len(decided) + 1 /\ hand # <<>>
        BY <1>3 DEF Decide
    <2>2. Fair(d)
        BY <2>1, Taken, Decided DEF Page
    <2> HIDE DEF d
    <2>3. d \in Swipe
        BY <2>2 DEF Fair
    <2> HIDE DEF Swipe
    <2>4. /\ decided' \in Seq(Swipe) /\ Len(decided') = Len(decided) + 1
          /\ DOMAIN decided' = 1..(Len(decided) + 1)
          /\ \A i \in 1..Len(decided) : decided'[i] = decided[i]
          /\ decided'[Len(decided) + 1] = d
        BY <1>0, <2>1, <2>3, Appended
    <2>5. \A i \in DOMAIN decided' : i \in 1..Len(decided) \/ i = Len(decided) + 1
        BY <1>0, <2>4
    <2>6. \A i \in DOMAIN decided' : Fair(decided'[i])
        BY <1>0, <2>2, <2>4, <2>5 DEF Swipes
    <2> QED
        BY <2>1, <2>4, <2>6 DEF Swipes
<1>4. ASSUME NEW S \in SUBSET Waiting, Runs(S), last' = last PROVE Swipes'
    <2>1. \A j \in DOMAIN decided : Fair(decided'[j])
        BY <1>4, Run DEF Runs, Waiting, Swipes
    <2>2. decided' = [j \in DOMAIN decided |-> decided'[j]]
        BY <1>4 DEF Runs
    <2>3. decided' \in Seq(Swipe) /\ DOMAIN decided' = DOMAIN decided /\ Len(decided') = Len(decided)
        BY <1>0, <2>1, <2>2, Changed
    <2> QED
        BY <1>4, <2>1, <2>3 DEF Swipes
<1>5. CASE Undo
    <2> DEFINE d == decided[last]
    <2>1. last \in DOMAIN decided /\ last' = None /\ Fair(d)
        BY <1>0, <1>5 DEF Undo, Swipes, None
    <2>2. CASE d.kind = "later"
        <3>1. One(last, [d EXCEPT !.undone = TRUE, !.back = "queued"])
            BY <1>5, <2>2 DEF Undo
        <3> QED
            BY <2>1, <2>2, <3>1, <1>2, Recalled
    <2>3. CASE d.kind # "later" /\ d.stage = "waiting"
        <3>1. One(last, [d EXCEPT !.undone = TRUE, !.stage = "dropped"])
            BY <1>5, <2>3 DEF Undo
        <3> QED
            BY <2>1, <2>3, <3>1, <1>2, Dropped
    <2>4. CASE d.kind # "later" /\ d.stage # "waiting"
        <3>1. decided' = decided
            BY <1>5, <2>4 DEF Undo
        <3> QED
            BY <2>1, <3>1 DEF Swipes
    <2> QED
        BY <2>2, <2>3, <2>4
<1>6. ASSUME NEW i \in DOMAIN decided, Serves(i) \/ Settles(i) \/ Failed(i) PROVE Swipes'
    <2>1. PICK st \in {"done", "refused", "settled", "failed"} :
                One(i, [decided[i] EXCEPT !.stage = st])
        BY <1>6 DEF Serves, Settles, Failed
    <2>2. decided[i].stage \notin {"waiting", "dropped"} /\ last' \in {None, last} /\ Fair(decided[i])
        BY <1>6 DEF Serves, Settles, Failed, Swipes
    <2> QED
        BY <2>1, <2>2, <1>2, Staged
<1>7. ASSUME NEW i \in DOMAIN decided, AsksBack(i) \/ ServesBack(i) PROVE Swipes'
    <2>1. PICK b \in {"asked", "done"} : One(i, [decided[i] EXCEPT !.back = b])
        BY <1>7 DEF AsksBack, ServesBack
    <2>2. last' = last /\ Fair(decided[i])
        BY <1>7 DEF AsksBack, ServesBack, Swipes
    <2> QED
        BY <2>1, <2>2, <1>2, Answering
<1>8. ASSUME NEW i \in DOMAIN decided, TimerFires(i) PROVE Swipes'
    BY <1>8, <1>4 DEF TimerFires
<1>9. CASE Hides
    BY <1>9, <1>4 DEF Hides
<1>10. CASE UNCHANGED vars
    BY <1>10, <1>1 DEF vars
<1>11. CASE Next
    <2>1. ASSUME NEW q \in pages, ServerLists(q) \/ Answered(q) \/ LoadFails(q) PROVE Same
        BY <2>1 DEF ServerLists, Answered, LoadFails
    <2>2. CASE Resyncs \/ Retry \/ SwitchPile \/ SetScope \/ NotYet
        BY <2>2, <1>1 DEF Resyncs, Retry, SwitchPile, SetScope, NotYet
    <2>3. CASE EditServed \/ EditAnswered \/ EditFails
        BY <2>3, <1>1 DEF EditServed, EditAnswered, EditFails
    <2>4. ASSUME NEW c \in Card, BringToTop(c) \/ MovesAhead(c) \/ Elsewhere(c) PROVE Same
        BY <2>4 DEF BringToTop, MovesAhead, Elsewhere
    <2>5. ASSUME NEW c \in Card, NEW to \in {"none", "hold", "back"}, EditAsked(c, to) PROVE Same
        BY <2>5 DEF EditAsked
    <2> QED
        BY <1>11, Kinds, <2>1, <2>2, <2>3, <2>4, <2>5, <1>1, <1>3, <1>5, <1>6, <1>7, <1>8, <1>9
<1> QED
    BY <1>10, <1>11

-----------------------------------------------------------------------------
(* The page and its loads. *)

LEMMA Asked ==
    ASSUME NEW q, NEW p \in Pile, NEW after \in Place, NEW had \in SUBSET Card,
           q.first \in BOOLEAN, q = Asks(q.first, p, after, had)
    PROVE  q \in Request /\ Good(q.cards, q.pile) /\ q.current = TRUE /\ q.pile = p /\ q.after = after
<1>1. <<>> \in Seq(Entry) /\ None \in Place
    BY DeckAssumption DEF Place, None
<1>2. \A f \in BOOLEAN : Asks(f, p, after, had) \in Request
    BY <1>1 DEF Asks, Request
<1>3. q \in Request
    BY <1>2
<1>4. q.cards = <<>>
    BY DEF Asks
<1> QED
    BY <1>3, <1>4, Emptied DEF Asks

LEMMA Restarted ==
    ASSUME Page, Loads, NEW p \in Pile, NEW had \in SUBSET Card, Reset(p, had),
           resynced' \in BOOLEAN, open' = open
    PROVE  Page' /\ Loads'
<1> DEFINE r == Asks(TRUE, p, None, had)
           Old(q) == [q EXCEPT !.current = FALSE]
<1>1. None \in Place
    BY DeckAssumption DEF Place, None
<1> r.first = TRUE /\ r = Asks(r.first, p, None, had)
    BY DEF Asks
<1> HIDE DEF r
<1>2. /\ r \in Request /\ Good(r.cards, r.pile)
      /\ r.current = TRUE /\ r.pile = p /\ r.after = None
    BY <1>1, Asked
<1>3. /\ pile' = p /\ hand' = <<>> /\ next' = None /\ loaded' = FALSE /\ error' = FALSE
      /\ pages' = {Old(q) : q \in pages} \cup {r}
    BY DEF Reset, r
<1>4. ASSUME NEW q \in pages
      PROVE  Fit(Old(q))' /\ Old(q).current = FALSE
    BY <1>1 DEF Loads, Fit, Request
<1> HIDE DEF Old
<1>5. \A q \in pages' : Fit(q)'
    BY <1>2, <1>3, <1>4 DEF Fit
<1>6. \A q, s \in pages' : q.current /\ s.current => q = s
    BY <1>3, <1>4
<1>7. Page'
    BY <1>1, <1>3, Emptied DEF Page
<1> QED
    BY <1>3, <1>5, <1>6, <1>7 DEF Loads

(* A following page is asked for, or another hand is all there is.           *)
LEMMA WentOn ==
    ASSUME Page, Loads, NEW h, Good(h, pile), GoOn(h), open' = open
    PROVE  Page' /\ Loads'
<1>1. CASE /\ next # None /\ ~Loading
           /\ hand' = h /\ pages' = pages \cup {Asks(FALSE, pile, next, {})}
           /\ UNCHANGED <<pile, next, loaded, error, resynced, owed>>
    <2> DEFINE r == Asks(FALSE, pile, next, {})
    <2> r.first = FALSE /\ r = Asks(r.first, pile, next, {})
        BY DEF Asks
    <2> HIDE DEF r
    <2>1. /\ r \in Request /\ Good(r.cards, r.pile)
          /\ r.current = TRUE /\ r.pile = pile /\ r.after = next
        <3>1. next \in Place /\ pile \in Pile /\ {} \in SUBSET Card /\ r.first \in BOOLEAN
            BY DEF Page
        <3> QED
            BY <3>1, Asked
    <2>2. pages' = pages \cup {r}
        BY <1>1 DEF r
    <2>3. Page'
        BY <1>1 DEF Page
    <2>4. \A q \in pages' : Fit(q)'
        BY <1>1, <2>1, <2>2 DEF Loads, Fit
    <2>5. \A q, s \in pages' : q.current /\ s.current => q = s
        BY <1>1, <2>2 DEF Loading
    <2> QED
        BY <1>1, <2>3, <2>4, <2>5 DEF Loads
<1>2. CASE CanResync(h, next) /\ ~Loading /\ Reset(pile, CardsIn(h)) /\ resynced' = TRUE
    BY <1>2, GoodIn, Restarted DEF Page
<1>3. CASE /\ hand' = h
           /\ UNCHANGED <<pile, next, loaded, error, resynced, pages, owed>>
    BY <1>3 DEF Page, Loads, Fit
<1> QED
    BY <1>1, <1>2, <1>3 DEF GoOn

LEMMA Took ==
    ASSUME Page, Loads, NEW q \in pages, q.current, NEW h, Good(h, pile), Takes(q, h), open' = open
    PROVE  Page' /\ Loads'
<1>1. /\ hand' = h /\ next' = q.next /\ loaded' = TRUE /\ error' = FALSE /\ pages' = pages \ {q}
      /\ resynced' = (resynced /\ (q.first => CardsIn(h) \subseteq q.had)) /\ pile' = pile
    BY DEF Takes
<1>2. q \in Request /\ q.next \in Place
    BY DEF Loads, Fit, Request
<1>3. Page'
    BY <1>1, <1>2 DEF Page
<1>4. \A r \in pages' : r \in pages /\ ~r.current
    BY <1>1 DEF Loads
<1>5. \A r \in pages' : Fit(r)'
    BY <1>4 DEF Loads, Fit
<1> QED
    BY <1>1, <1>3, <1>4, <1>5 DEF Loads

(* A page of the deck: cards that it was read from, in their order, and what *)
(* it leaves out comes after its last one.                                  *)
LEMMA APage ==
    ASSUME World, NEW S \in SUBSET Card, NEW s \in FirstPage(S)
    PROVE  /\ DOMAIN s = 1..Len(s) /\ Len(s) \in Nat /\ \A i \in DOMAIN s : s[i] \in S
           /\ Range(s) \subseteq S
           /\ \A i, j \in DOMAIN s : s[i] = s[j] => i = j
           /\ \A c \in S \ Range(s) : Len(s) = PageSize /\ s[PageSize] \in S /\ at[s[PageSize]] < at[c]
<1>1. PICK n \in 0..PageSize : s \in [1..n -> S]
    BY DEF FirstPage
<1>2. DOMAIN s = 1..n /\ n \in Nat /\ Len(s) = n /\ \A i \in DOMAIN s : s[i] \in S
    BY <1>1, DeckAssumption
<1>3. \A i \in DOMAIN s : at[s[i]] \in Int
    BY <1>2 DEF World, Place
<1>4. ASSUME NEW i \in DOMAIN s, NEW j \in DOMAIN s, s[i] = s[j] PROVE i = j
    <2>1. ~(i < j) /\ ~(j < i)
        BY <1>3, <1>4 DEF FirstPage, InOrder
    <2> QED
        BY <1>2, <2>1
<1>5. ASSUME NEW c \in S \ Range(s) PROVE Len(s) = PageSize /\ s[PageSize] \in S /\ at[s[PageSize]] < at[c]
    <2>1. Len(s) = PageSize /\ at[s[PageSize]] < at[c]
        BY DEF FirstPage
    <2>2. PageSize \in DOMAIN s
        BY <1>2, <2>1, DeckAssumption
    <2> QED
        BY <1>2, <2>1, <2>2
<1>6. Range(s) \subseteq S
    BY <1>2 DEF Range
<1> QED
    BY <1>2, <1>4, <1>5, <1>6

(* The request that is answered with it.                                    *)
LEMMA Answers ==
    ASSUME World, NEW q \in Request, NEW S \in SUBSET Card, NEW s \in FirstPage(S), NEW after \in Place
    PROVE  LET r == Listing(q, s, after)
           IN  /\ r \in Request /\ Good(r.cards, r.pile) /\ CardsIn(r.cards) = Range(s)
               /\ r.current = q.current /\ r.first = q.first /\ r.pile = q.pile /\ r.after = q.after
               /\ r.listed = TRUE /\ r.next = after
<1> DEFINE t == [i \in DOMAIN s |-> Snapshot(s[i], q.pile)]
           r == Listing(q, s, after)
<1>1. /\ DOMAIN s = 1..Len(s) /\ Len(s) \in Nat /\ \A i \in DOMAIN s : s[i] \in Card
      /\ \A i, j \in DOMAIN s : s[i] = s[j] => i = j
    BY APage
<1>2. q.pile \in Pile
    BY DEF Request
<1>3. \A i \in DOMAIN s : /\ Snapshot(s[i], q.pile) \in Entry
                          /\ Snapshot(s[i], q.pile).card = s[i] /\ Snapshot(s[i], q.pile).pile = q.pile
    BY <1>1, <1>2 DEF World, Snapshot, Entry
<1> HIDE DEF Entry
<1>4. /\ DOMAIN t = DOMAIN s
      /\ \A i \in DOMAIN s : t[i] \in Entry /\ t[i].card = s[i] /\ t[i].pile = q.pile
    BY <1>3
<1>5. t \in Seq(Entry)
    BY <1>1, <1>3
<1> HIDE DEF t
<1>6. Good(t, q.pile)
    BY <1>1, <1>4, <1>5 DEF Good, Once
<1>7. CardsIn(t) = Range(s)
    BY <1>4 DEF CardsIn, Range
<1>8. r = [q EXCEPT !.listed = TRUE, !.cards = t, !.next = after]
    BY DEF Listing, t
<1> HIDE DEF r
<1>9. /\ r \in Request /\ r.cards = t
      /\ r.current = q.current /\ r.first = q.first /\ r.pile = q.pile /\ r.after = q.after
      /\ r.listed = TRUE /\ r.next = after
    BY <1>5, <1>8 DEF Request
<1> QED
    BY <1>6, <1>7, <1>9 DEF r

(* handleDeck: what it does to the request.                                 *)
Cursor(q, s, rest) == IF Range(s) = rest THEN None ELSE at[s[PageSize]]
Rest(q) == {c \in PileCards(q.pile) : at[c] > q.after}

LEMMA Lists ==
    ASSUME World, Loads, NEW q \in pages, ServerLists(q)
    PROVE  \E s \in FirstPage(Rest(q)) :
              LET r == Listing(q, s, Cursor(q, s, Rest(q)))
              IN  /\ pages' = (pages \ {q}) \cup {r} /\ Cursor(q, s, Rest(q)) \in Place
                  /\ Rest(q) \subseteq Card
                  /\ r \in Request /\ Good(r.cards, r.pile) /\ CardsIn(r.cards) = Range(s)
                  /\ r.current = q.current /\ r.first = q.first /\ r.pile = q.pile /\ r.after = q.after
                  /\ r.listed = TRUE /\ r.next = Cursor(q, s, Rest(q))
<1>1. PICK s \in FirstPage(Rest(q)) :
            pages' = (pages \ {q}) \cup {Listing(q, s, Cursor(q, s, Rest(q)))}
    BY DEF ServerLists, Rest, Cursor
<1>2. Rest(q) \subseteq Card /\ q \in Request
    BY DEF Rest, PileCards, Loads, Fit
<1>3. Cursor(q, s, Rest(q)) \in Place
    <2>1. CASE Range(s) = Rest(q)
        BY <2>1, DeckAssumption DEF Cursor, Place, None
    <2>2. CASE Range(s) # Rest(q)
        <3>1. s[PageSize] \in Card
            BY <1>2, <2>2, APage
        <3> QED
            BY <2>2, <3>1 DEF Cursor, World
    <2> QED
        BY <2>1, <2>2
<1> QED
    BY <1>1, <1>2, <1>3, Answers

(* The hand with the answer behind it.                                      *)
Fuller(q) == hand \o Keep(q.cards, {c \in Card \ HandCards : ~Unsettled(c)})

LEMMA Behind ==
    ASSUME Page, Loads, NEW q \in pages, q.current
    PROVE  /\ Good(Fuller(q), pile)
           /\ CardsIn(Fuller(q)) = HandCards \cup (CardsIn(q.cards) \cap {c \in Card \ HandCards : ~Unsettled(c)})
<1> DEFINE C == {c \in Card \ HandCards : ~Unsettled(c)}
           k == Keep(q.cards, C)
<1>1. Good(hand, pile) /\ Good(q.cards, pile)
    BY DEF Page, Loads, Fit
<1> HIDE DEF C
<1>2. Good(k, pile) /\ CardsIn(k) = CardsIn(q.cards) \cap C
    BY <1>1, GoodKept
<1> HIDE DEF k
<1>3. CardsIn(hand) \cap CardsIn(k) = {}
    BY <1>2 DEF C, HandCards
<1>4. Good(hand \o k, pile) /\ CardsIn(hand \o k) = CardsIn(hand) \cup CardsIn(k)
    BY <1>1, <1>2, <1>3, Joined
<1> QED
    BY <1>2, <1>4 DEF Fuller, HandCards, C, k

(* A decision's card, put back if the hand is of its pile.                  *)
LEMMA Returned ==
    ASSUME Page, NEW d \in Swipe, d.pile = pile
    PROVE  Good(PutBack(d), pile) /\ CardsIn(PutBack(d)) = HandCards \cup {d.card}
<1> DEFINE e == [card |-> d.card, block |-> d.block, pile |-> d.pile]
<1>1. e \in Entry /\ e.card = d.card /\ e.pile = d.pile
    BY DEF Swipe, Entry
<1>2. PutBack(d) = <<e>> \o Without(hand, e.card)
    BY <1>1 DEF PutBack
<1> HIDE DEF e
<1> QED
    BY <1>1, <1>2, OnTop DEF Page, HandCards

(* What moveBack and replaceCard leave in the hand.                         *)
Edited == [i \in DOMAIN hand |->
    IF hand[i].card = edit.card THEN [hand[i] EXCEPT !.block = edit.block] ELSE hand[i]]

LEMMA EditedIsGood ==
    ASSUME Page, World
    PROVE  Good(Edited, pile) /\ CardsIn(Edited) = HandCards
<1>1. Good(hand, pile) /\ \A i \in DOMAIN hand : hand[i] \in Entry
    BY DEF Page, Good
<1>2. edit.block \in Block
    BY DEF World
<1>3. Edited = [i \in DOMAIN hand |-> Edited[i]]
    BY DEF Edited
<1>4. \A e \in Entry : /\ [e EXCEPT !.block = edit.block] \in Entry
                       /\ [e EXCEPT !.block = edit.block].card = e.card
                       /\ [e EXCEPT !.block = edit.block].pile = e.pile
    BY <1>2 DEF Entry
<1>5. \A i \in DOMAIN hand : Edited[i] \in Entry /\ Edited[i].card = hand[i].card /\ Edited[i].pile = hand[i].pile
    BY <1>1, <1>4 DEF Edited
<1> QED
    BY <1>1, <1>3, <1>5, Retold DEF HandCards

LEMMA Lifted ==
    ASSUME Page, NEW c \in Card
    PROVE  /\ Good(Without(hand, c), pile) /\ CardsIn(Without(hand, c)) = HandCards \ {c}
           /\ Good(Keep(hand, {c}) \o Without(hand, c), pile)
           /\ CardsIn(Keep(hand, {c}) \o Without(hand, c)) = HandCards
<1> DEFINE a == Keep(hand, {c})
           b == Without(hand, c)
<1>1. Good(hand, pile) /\ HandCards \subseteq Card /\ HandCards = CardsIn(hand)
    BY GoodIn DEF Page, HandCards
<1>2. /\ Good(a, pile) /\ CardsIn(a) = CardsIn(hand) \cap {c}
      /\ Good(b, pile) /\ CardsIn(b) = CardsIn(hand) \cap (Card \ {c})
    BY <1>1, GoodKept DEF Without
<1> HIDE DEF a, b
<1>3. CardsIn(a) \cap CardsIn(b) = {}
    BY <1>2
<1>4. Good(a \o b, pile) /\ CardsIn(a \o b) = CardsIn(a) \cup CardsIn(b)
    BY <1>2, <1>3, Joined
<1> QED
    BY <1>1, <1>2, <1>4 DEF a, b

LEMMA InitPage == Init => Page /\ Loads
<1> SUFFICES ASSUME Init PROVE Page /\ Loads
    OBVIOUS
<1> DEFINE r == Asks(TRUE, pile, None, {})
<1>1. pile \in Pile /\ None \in Place /\ {} \in SUBSET Card
    BY DeckAssumption DEF Init, Pile, Place, None
<1>2. r.first = TRUE /\ r = Asks(r.first, pile, None, {})
    BY DEF Asks
<1>3. pages = {r}
    BY DEF Init
<1> HIDE DEF r
<1>4. r \in Request /\ Good(r.cards, r.pile) /\ r.current = TRUE /\ r.pile = pile /\ r.after = None
    BY <1>1, <1>2, Asked
<1>5. Page
    BY <1>1, Emptied DEF Init, Page
<1>6. Fit(r)
    BY <1>2, <1>4 DEF Fit, Init
<1>7. next = None
    BY DEF Init
<1> QED
    BY <1>3, <1>5, <1>6, <1>7 DEF Loads

LEMMA StepPage ==
    ASSUME Sound, [Next]_vars
    PROVE  Page' /\ Loads'
<1> USE DEF Sound
<1>1. ASSUME UNCHANGED <<pile, next, loaded, pages>>,
             error' \in BOOLEAN, resynced' \in BOOLEAN, open' \in BOOLEAN, Good(hand', pile)
      PROVE  Page' /\ Loads'
    BY <1>1 DEF Page, Loads, Fit
<1>2. ASSUME UNCHANGED <<pageVars, pages>>, open' \in BOOLEAN PROVE Page' /\ Loads'
    BY <1>2, <1>1 DEF Page, pageVars
<1>3. ASSUME NEW q \in pages, pages' = pages \ {q}, UNCHANGED <<pile, hand, next, loaded, resynced, open>>,
             error' \in BOOLEAN
      PROVE  Page' /\ Loads'
    <2>1. \A r \in pages' : r \in pages /\ Fit(r)'
        BY <1>3 DEF Loads, Fit
    <2> QED
        BY <1>3, <2>1 DEF Page, Loads
<1>4. ASSUME NEW q \in pages, ServerLists(q) PROVE Page' /\ Loads'
    <2>0. PICK s \in FirstPage(Rest(q)) :
                LET r == Listing(q, s, Cursor(q, s, Rest(q)))
                IN  /\ pages' = (pages \ {q}) \cup {r} /\ r \in Request /\ Good(r.cards, r.pile)
                    /\ r.current = q.current /\ r.first = q.first /\ r.pile = q.pile /\ r.after = q.after
        BY <1>4, Lists
    <2>1. PICK r : /\ pages' = (pages \ {q}) \cup {r} /\ r \in Request /\ Good(r.cards, r.pile)
                   /\ r.current = q.current /\ r.first = q.first /\ r.pile = q.pile /\ r.after = q.after
        BY <2>0
    <2>2. UNCHANGED <<pageVars, open>>
        BY <1>4 DEF ServerLists
    <2>3. Fit(r)'
        BY <2>1, <2>2 DEF Loads, Fit, pageVars
    <2>4. \A t \in pages : Fit(t)'
        BY <2>2 DEF Loads, Fit, pageVars
    <2>5. \A t, u \in pages' : t.current /\ u.current => t = u
        BY <2>1 DEF Loads
    <2> QED
        BY <2>1, <2>2, <2>3, <2>4, <2>5 DEF Page, Loads, pageVars
<1>5. ASSUME NEW q \in pages, Answered(q) PROVE Page' /\ Loads'
    <2>1. CASE ~q.current
        BY <1>5, <2>1, <1>3 DEF Answered, pageVars, Page
    <2>2. CASE q.current
        BY <1>5, <2>2, Behind, Took DEF Answered, Fuller
    <2> QED
        BY <2>1, <2>2
<1>6. ASSUME NEW q \in pages, LoadFails(q) PROVE Page' /\ Loads'
    BY <1>6, <1>3 DEF LoadFails, Page
<1>7. CASE Resyncs
    BY <1>7, GoodIn, Restarted DEF Resyncs, Page, HandCards
<1>8. CASE Retry
    BY <1>8, Restarted DEF Retry, Page
<1>9. CASE SwitchPile
    <2>1. PICK p \in Pile : Reset(p, {})
        BY <1>9 DEF SwitchPile, Pile
    <2> QED
        BY <1>9, <2>1, Restarted DEF SwitchPile
<1>10. CASE SetScope
    BY <1>10, Restarted DEF SetScope, Page
<1>11. ASSUME NEW kind \in {"send", "skip", "later"}, Decide(kind) PROVE Page' /\ Loads'
    <2>1. hand # <<>> /\ GoOn(Tail(hand)) /\ open' = open
        BY <1>11 DEF Decide
    <2>2. Good(Tail(hand), pile)
        BY <2>1, Taken DEF Page
    <2> QED
        BY <2>1, <2>2, WentOn
<1>12. CASE NotYet
    <2>1. Good(hand', pile)
        <3>1. Len(hand) > 1 /\ hand' = Append(Tail(hand), Head(hand))
            BY <1>12 DEF NotYet
        <3>2. hand # <<>>
            BY <3>1
        <3> QED
            BY <3>1, <3>2, ToTheBack DEF Page
    <2> QED
        BY <1>12, <2>1, <1>1 DEF NotYet, Page
<1>13. ASSUME NEW c \in Card, BringToTop(c) PROVE Page' /\ Loads'
    BY <1>13, Lifted, <1>1 DEF BringToTop, Page
<1>14. CASE Hides
    BY <1>14, <1>2 DEF Hides
<1>15. ASSUME NEW d \in Swipe, hand' = (IF d.pile = pile THEN PutBack(d) ELSE hand),
              UNCHANGED <<pile, next, loaded, error, resynced, open, pages>>
       PROVE  Page' /\ Loads'
    BY <1>15, <1>1, Returned DEF Page
<1>16. CASE Undo
    <2>1. decided[last] \in Swipe
        BY <1>16 DEF Undo, Swipes, None
    <2>2. \/ hand' = IF decided[last].pile = pile THEN PutBack(decided[last]) ELSE hand
          \/ hand' = hand
        BY <1>16 DEF Undo
    <2>3. UNCHANGED <<pile, next, loaded, error, resynced, open, pages>>
        BY <1>16 DEF Undo
    <2> QED
        BY <2>1, <2>2, <2>3, <1>15, <1>1 DEF Page
<1>17. ASSUME NEW i \in DOMAIN decided, Failed(i) PROVE Page' /\ Loads'
    <2> DEFINE d == decided[i]
               fresh == IF d.stage = "refused" THEN [d EXCEPT !.block = block[d.card]] ELSE d
    <2>1. d \in Swipe
        BY DEF Swipes
    <2>2. fresh \in Swipe /\ fresh.pile = d.pile
        BY <2>1 DEF Swipe, World
    <2>3. hand' = IF d.pile = pile THEN PutBack(fresh) ELSE hand
        BY <1>17 DEF Failed
    <2>4. UNCHANGED <<pile, next, loaded, error, resynced, open, pages>>
        BY <1>17 DEF Failed
    <2> HIDE DEF fresh, d
    <2> QED
        BY <2>2, <2>3, <2>4, <1>15
<1>18. ASSUME NEW i \in DOMAIN decided,
              TimerFires(i) \/ Serves(i) \/ Settles(i) \/ AsksBack(i) \/ ServesBack(i)
       PROVE  Page' /\ Loads'
    BY <1>18, <1>2 DEF TimerFires, Serves, Settles, AsksBack, ServesBack, Page
<1>19. CASE EditServed \/ EditFails
    BY <1>19, <1>2 DEF EditServed, EditFails, Page
<1>20. CASE EditAnswered
    <2>1. edit.card \in Card /\ (hand' = Without(hand, edit.card) \/ hand' = Edited)
        BY <1>20 DEF EditAnswered, Edited, World
    <2>2. UNCHANGED <<pile, next, loaded, error, resynced, open, pages>>
        BY <1>20 DEF EditAnswered
    <2> QED
        BY <2>1, <2>2, <1>1, EditedIsGood, Lifted DEF Page
<1>21. ASSUME NEW c \in Card, MovesAhead(c) \/ Elsewhere(c) PROVE Page' /\ Loads'
    BY <1>21, <1>2 DEF MovesAhead, Elsewhere, Page
<1>22. ASSUME NEW c \in Card, NEW to \in {"none", "hold", "back"}, EditAsked(c, to) PROVE Page' /\ Loads'
    BY <1>22, <1>2 DEF EditAsked, Page
<1>23. CASE UNCHANGED vars
    BY <1>23, <1>2 DEF vars, Page
<1>24. CASE Next
    BY <1>24, Kinds, <1>4, <1>5, <1>6, <1>7, <1>8, <1>9, <1>10, <1>11, <1>12, <1>13, <1>14, <1>16, <1>17,
       <1>18, <1>19, <1>20, <1>21, <1>22
<1> QED
    BY <1>23, <1>24

-----------------------------------------------------------------------------
(* The rows, the edit, and what is owed. *)

LEMMA InitWorld == Init => World
<1>1. None \in Place /\ {1} \cup {c + 1 : c \in Card} \subseteq Place \ {None}
    BY DeckAssumption DEF Place, None, Card
<1> QED
    BY <1>1 DEF Init, World, NoEdit, Pile, Block

LEMMA StepWorld ==
    ASSUME Sound, [Next]_vars
    PROVE  World'
<1> USE DEF Sound
<1>1. ASSUME UNCHANGED <<pileOf, block, at, edit>>, owed' \subseteq Card PROVE World'
    BY <1>1 DEF World
<1>2. ASSUME UNCHANGED <<pileOf, block, at>>, owed' \subseteq owed,
             edit' \in [card : Card \cup {None}, to : {"none", "hold", "back"}, block : Block, pile : Pile,
                        stage : {"none", "asked", "done", "refused"}],
             edit'.stage # "none" => edit'.card \in Card
      PROVE  World'
    BY <1>2 DEF World
<1>3. ASSUME NEW c \in Card, NEW p \in Pile \cup {"gone"}, MovesTo(c, p), UNCHANGED <<block, at, edit>>
      PROVE  World'
    BY <1>3 DEF World, MovesTo
<1>4. owed \subseteq Card
    BY DEF World
<1>5. ASSUME NEW q \in pages, ServerLists(q) \/ Answered(q) \/ LoadFails(q) PROVE World'
    <2>1. UNCHANGED <<pileOf, block, at, edit>>
        BY <1>5 DEF ServerLists, Answered, LoadFails, serverVars
    <2>2. owed' \subseteq Card
        BY <1>5, <1>4 DEF ServerLists, Answered, LoadFails, Takes, PileCards
    <2> QED
        BY <2>1, <2>2, <1>1
<1>6. CASE Resyncs \/ Retry \/ SwitchPile \/ SetScope
    BY <1>6, <1>1 DEF Resyncs, Retry, SwitchPile, SetScope, Reset, serverVars
<1>7. ASSUME NEW kind \in {"send", "skip", "later"}, Decide(kind) PROVE World'
    <2>1. owed' \subseteq Card
        BY <1>7, <1>4 DEF Decide, GoOn, Reset
    <2> QED
        BY <1>7, <2>1, <1>1 DEF Decide, serverVars
<1>8. CASE NotYet \/ Hides \/ Undo
    BY <1>8, <1>4, <1>1 DEF NotYet, Hides, Undo, serverVars
<1>9. ASSUME NEW i \in DOMAIN decided, TimerFires(i) \/ Settles(i) \/ Failed(i) \/ AsksBack(i) PROVE World'
    BY <1>9, <1>4, <1>1 DEF TimerFires, Settles, Failed, AsksBack, serverVars
<1>10. ASSUME NEW i \in DOMAIN decided, Serves(i) PROVE World'
    <2>1. decided[i].card \in Card
        <3>1. decided[i] \in Swipe
            BY DEF Swipes
        <3> QED
            BY <3>1 DEF Swipe
    <2>2. UNCHANGED <<block, at, edit>>
        BY <1>10 DEF Serves
    <2>3. MovesTo(decided[i].card, Target(decided[i].kind)) \/ UNCHANGED <<pileOf, owed>>
        BY <1>10 DEF Serves
    <2>4. Target(decided[i].kind) \in Pile \cup {"gone"}
        BY DEF Target, Pile
    <2> QED
        BY <2>1, <2>2, <2>3, <2>4, <1>1, <1>3, <1>4
<1>11. ASSUME NEW i \in DOMAIN decided, ServesBack(i) PROVE World'
    <2>1. decided[i].card \in Card
        <3>1. decided[i] \in Swipe
            BY DEF Swipes
        <3> QED
            BY <3>1 DEF Swipe
    <2>2. UNCHANGED <<block, at, edit>>
        BY <1>11 DEF ServesBack
    <2>3. MovesTo(decided[i].card, "review") \/ UNCHANGED <<pileOf, owed>>
        BY <1>11 DEF ServesBack
    <2> QED
        BY <2>1, <2>2, <2>3, <1>1, <1>3, <1>4 DEF Pile
<1>12. CASE EditServed
    <2> DEFINE c == edit.card
    <2>1. /\ c \in Card /\ edit.to \in {"none", "hold", "back"} /\ UNCHANGED at
          /\ owed' \subseteq owed
        BY <1>12 DEF EditServed, World, MovesTo
    <2>2. CASE edit' = [edit EXCEPT !.stage = "refused"] /\ UNCHANGED <<pileOf, block, owed>>
        <3>1. edit'.stage = "refused" /\ edit'.card = edit.card
            BY <2>2 DEF World
        <3> QED
            BY <2>1, <2>2, <3>1, <1>2 DEF World
    <2>3. CASE /\ edit' = [edit EXCEPT !.stage = "done", !.block = block[c]] /\ UNCHANGED block
               /\ pileOf' \in [Card -> Pile \cup {"gone"}]
        <3>1. edit'.card = edit.card /\ block[c] \in Block
            BY <2>1, <2>3 DEF World
        <3> QED
            BY <2>1, <2>3, <3>1 DEF World
    <2>4. CASE /\ block' = [block EXCEPT ![c] = edit.to] /\ edit.to # "back" /\ UNCHANGED pileOf
               /\ edit' = [edit EXCEPT !.stage = "done", !.block = edit.to]
        <3>1. edit'.card = edit.card /\ edit.to \in Block
            BY <2>1, <2>4 DEF World, Block
        <3> QED
            BY <2>1, <2>4, <3>1 DEF World
    <2>5. MovesTo(c, "review") \/ UNCHANGED pileOf => pileOf' \in [Card -> Pile \cup {"gone"}]
        BY <2>1 DEF World, MovesTo, Pile
    <2> QED
        BY <1>12, <2>2, <2>3, <2>4, <2>5 DEF EditServed
<1>13. CASE EditAnswered \/ EditFails
    <2>1. edit' = NoEdit /\ UNCHANGED <<pileOf, block, at>> /\ owed' \subseteq owed
        BY <1>13 DEF EditAnswered, EditFails, serverVars
    <2> QED
        BY <2>1, <1>2 DEF NoEdit, Block, Pile
<1>14. ASSUME NEW c \in Card, BringToTop(c) PROVE World'
    BY <1>14, <1>4, <1>1 DEF BringToTop, serverVars
<1>15. ASSUME NEW c \in Card, MovesAhead(c) PROVE World'
    <2>1. 1 \in Place \ {None}
        BY DeckAssumption DEF Place, None
    <2> QED
        BY <1>15, <2>1 DEF MovesAhead, World
<1>16. ASSUME NEW c \in Card, Elsewhere(c) PROVE World'
    BY <1>16, <1>3 DEF Elsewhere
<1>17. ASSUME NEW c \in Card, NEW to \in {"none", "hold", "back"}, EditAsked(c, to) PROVE World'
    <2>1. edit' = [card |-> c, to |-> to, stage |-> "asked", block |-> "none", pile |-> pile]
          /\ UNCHANGED <<pileOf, block, at, owed>>
        BY <1>17 DEF EditAsked, serverVars
    <2> QED
        BY <2>1, <1>2 DEF Page, Block
<1>18. CASE UNCHANGED vars
    BY <1>18, <1>4, <1>1 DEF vars, serverVars
<1>19. CASE Next
    BY <1>19, Kinds, <1>5, <1>6, <1>7, <1>8, <1>9, <1>10, <1>11, <1>12, <1>13, <1>14, <1>15, <1>16, <1>17
<1> QED
    BY <1>18, <1>19

LEMMA DeckSound == Spec => []Sound
<1>1. Init => Sound
    BY InitWorld, InitPage, InitSwipes DEF Sound
<1>2. Sound /\ [Next]_vars => Sound'
    <2>1. ASSUME Sound, [Next]_vars PROVE Swipes' /\ Page' /\ Loads' /\ World'
        BY <2>1, StepSwipes, StepPage, StepWorld DEF Sound
    <2> QED
        BY <2>1 DEF Sound
<1> QED
    BY <1>1, <1>2, PTL DEF Spec

(* Every variable of the deck stays in its type; one load counts at a time,  *)
(* and no card is twice in the hand, in whatever order the pages, the        *)
(* failures and what was taken back arrive (review.js:717-721, 859-903).   *)
THEOREM DeckTypeCorrect == Spec => []DeckTypeOK
<1>1. Sound => DeckTypeOK
    BY DEF Sound, World, Page, Loads, Swipes, Fit, Good, Once, DeckTypeOK
<1> QED
    BY <1>1, DeckSound, PTL

(* A decision is asked of the server at most once, and never when it was     *)
(* taken back while it waited (review.js:841-903).                         *)
THEOREM SwipesAreAskedOnce == Spec => []AskedOnce
<1>1. Sound => AskedOnce
    BY DEF Sound, Swipes, Fair, Swipe, AskedOnce
<1> QED
    BY <1>1, DeckSound, PTL

(* The hand shows one pile: an answer that was overtaken by a switch of      *)
(* piles is dropped, and a decision that fails, or is taken back, puts its   *)
(* card into the hand of its own pile only (review.js:717, 867, 895).      *)
THEOREM HandShowsItsPile == Spec => []HandIsOfThePile
<1>1. Sound => HandIsOfThePile
    BY DEF Sound, Page, Good, HandIsOfThePile
<1> QED
    BY <1>1, DeckSound, PTL

-----------------------------------------------------------------------------
(* A card that is being decided stays out of the hand. *)

(* A Later that was taken back, and then failed.                            *)
Excuse(d) == d.kind = "later" /\ d.undone /\ d.stage = "failed"
Excused(c) == \E i \in DOMAIN decided : decided[i].card = c /\ Excuse(decided[i])

(* A card is decided again only when its earlier decision is over, or one    *)
(* of them was such a Later.                                                *)
Twice ==
    \A i, j \in DOMAIN decided :
        i < j /\ decided[i].card = decided[j].card /\ Pend(decided[i]) => Excused(decided[i].card)

Out == \A c \in HandCards : Unsettled(c) => Excused(c)

(* What a step other than a decision does to a decision: it does not go back *)
(* to where it was still to be settled.                                     *)
Further(d, e) ==
    /\ e.card = d.card /\ e.pile = d.pile
    /\ Pend(e) => Pend(d)
    /\ Excuse(d) => Excuse(e)

Onward ==
    /\ DOMAIN decided' = DOMAIN decided
    /\ \A i \in DOMAIN decided : Further(decided[i], decided'[i])

LEMMA Onwards ==
    ASSUME Sound, [Next]_vars
    PROVE  Onward \/ \E kind \in {"send", "skip", "later"} : Decide(kind)
<1> DEFINE One(i, d) == decided' = [decided EXCEPT ![i] = d]
<1>0. \A i \in DOMAIN decided : decided[i] \in Swipe /\ Fair(decided[i])
    BY DEF Sound, Swipes
<1>1. decided' = decided => Onward
    BY DEF Onward, Further
<1>2. ASSUME NEW i \in DOMAIN decided, NEW d, One(i, d), Further(decided[i], d) PROVE Onward
    <2>1. \A j \in DOMAIN decided : decided'[j] = IF j = i THEN d ELSE decided[j]
        BY <1>2
    <2>2. \A e : Further(e, e)
        BY DEF Further
    <2> QED
        BY <1>2, <2>1, <2>2 DEF Onward
<1>3. ASSUME NEW S \in SUBSET Waiting, Runs(S) PROVE Onward
    <2>1. DOMAIN decided' = DOMAIN decided
        BY <1>3 DEF Runs
    <2>2. ASSUME NEW j \in DOMAIN decided PROVE Further(decided[j], decided'[j])
        <3>1. CASE j \notin S
            BY <1>3, <3>1 DEF Runs, Further
        <3>2. CASE j \in S
            <4>1. decided[j] \in Swipe /\ decided[j].stage = "waiting"
                BY <1>0, <3>2 DEF Waiting
            <4>2. decided'[j] = [decided[j] EXCEPT !.stage = "asked", !.asks = @ + 1]
                BY <1>3, <3>2 DEF Runs
            <4> QED
                BY <4>1, <4>2 DEF Further, Pend, Excuse, Swipe
        <3> QED
            BY <3>1, <3>2
    <2> QED
        BY <2>1, <2>2 DEF Onward
<1>4. CASE Undo
    <2> DEFINE d == decided[last]
    <2>1. last \in DOMAIN decided /\ d \in Swipe
        BY <1>4, <1>0 DEF Undo, Sound, Swipes, None
    <2>2. \/ decided' = decided
          \/ One(last, [d EXCEPT !.undone = TRUE, !.back = "queued"])
          \/ One(last, [d EXCEPT !.undone = TRUE, !.stage = "dropped"]) /\ d.stage = "waiting"
        BY <1>4 DEF Undo
    <2>3. Further(d, [d EXCEPT !.undone = TRUE, !.back = "queued"])
        BY <2>1 DEF Further, Pend, Excuse, Swipe
    <2>4. d.stage = "waiting" => Further(d, [d EXCEPT !.undone = TRUE, !.stage = "dropped"])
        BY <2>1 DEF Further, Pend, Excuse, Swipe
    <2> QED
        BY <2>1, <2>2, <2>3, <2>4, <1>1, <1>2
<1>5. ASSUME NEW i \in DOMAIN decided, Serves(i) \/ Settles(i) \/ Failed(i) PROVE Onward
    <2>1. PICK st \in {"done", "refused", "settled", "failed"} :
                One(i, [decided[i] EXCEPT !.stage = st])
        BY <1>5 DEF Serves, Settles, Failed
    <2>2. decided[i].stage \in {"asked", "done", "refused"}
        BY <1>5 DEF Serves, Settles, Failed
    <2>3. Further(decided[i], [decided[i] EXCEPT !.stage = st])
        BY <1>0, <2>2 DEF Further, Pend, Excuse, Swipe
    <2> QED
        BY <2>1, <2>3, <1>2
<1>6. ASSUME NEW i \in DOMAIN decided, AsksBack(i) \/ ServesBack(i) PROVE Onward
    <2>1. PICK b \in {"asked", "done"} : One(i, [decided[i] EXCEPT !.back = b])
        BY <1>6 DEF AsksBack, ServesBack
    <2>2. Further(decided[i], [decided[i] EXCEPT !.back = b])
        BY <1>0 DEF Further, Pend, Excuse, Swipe
    <2> QED
        BY <2>1, <2>2, <1>2
<1>7. ASSUME NEW i \in DOMAIN decided, TimerFires(i) PROVE Onward
    BY <1>7, <1>3 DEF TimerFires
<1>8. CASE Hides
    BY <1>8, <1>3 DEF Hides
<1>9. CASE UNCHANGED vars
    BY <1>9, <1>1 DEF vars
<1>10. CASE Next /\ ~\E kind \in {"send", "skip", "later"} : Decide(kind)
    <2>1. ASSUME NEW q \in pages, ServerLists(q) \/ Answered(q) \/ LoadFails(q) PROVE decided' = decided
        BY <2>1 DEF ServerLists, Answered, LoadFails
    <2>2. CASE Resyncs \/ Retry \/ SwitchPile \/ SetScope \/ NotYet
        BY <2>2, <1>1 DEF Resyncs, Retry, SwitchPile, SetScope, NotYet
    <2>3. CASE EditServed \/ EditAnswered \/ EditFails
        BY <2>3, <1>1 DEF EditServed, EditAnswered, EditFails
    <2>4. ASSUME NEW c \in Card, BringToTop(c) \/ MovesAhead(c) \/ Elsewhere(c) PROVE decided' = decided
        BY <2>4 DEF BringToTop, MovesAhead, Elsewhere
    <2>5. ASSUME NEW c \in Card, NEW to \in {"none", "hold", "back"}, EditAsked(c, to) PROVE decided' = decided
        BY <2>5 DEF EditAsked
    <2> QED
        BY <1>10, Kinds, <2>1, <2>2, <2>3, <2>4, <2>5, <1>1, <1>4, <1>5, <1>6, <1>7, <1>8
<1> QED
    BY <1>9, <1>10

LEMMA OnwardKeeps ==
    ASSUME Onward
    PROVE  /\ \A c : Unsettled(c)' => Unsettled(c)
           /\ \A c : Excused(c) => Excused(c)'
           /\ Twice => Twice'
<1>1. \A c : Unsettled(c)' => Unsettled(c)
    BY DEF Onward, Further, Unsettled
<1>2. \A c : Excused(c) => Excused(c)'
    BY DEF Onward, Further, Excused
<1>3. ASSUME Twice PROVE Twice'
    BY <1>2, <1>3 DEF Onward, Further, Twice
<1> QED
    BY <1>1, <1>2, <1>3

(* Where a hand can gain a card, and which.                                 *)
Gains(c) ==
    \/ ~Unsettled(c)
    \/ \E i \in DOMAIN decided :
        /\ decided[i].card = c /\ ~Pend(decided'[i])
        /\ \/ i = Len(decided)
           \/ Pend(decided[i]) \/ Excuse(decided'[i])

LEMMA HandGains ==
    ASSUME Sound, [Next]_vars, NEW c \in HandCards', c \notin HandCards
    PROVE  Gains(c)
<1> USE DEF Sound
<1>0. \A i \in DOMAIN decided : decided[i] \in Swipe /\ Fair(decided[i])
    BY DEF Swipes
<1>1. hand' # hand /\ hand' # <<>>
    BY Emptied DEF HandCards
<1>2. ASSUME NEW q \in pages, Answered(q) PROVE Gains(c)
    <2>1. q.current /\ hand' = Fuller(q)
        BY <1>1, <1>2 DEF Answered, Takes, Fuller, pageVars
    <2> QED
        BY <2>1, Behind DEF HandCards, Gains
<1>3. ASSUME NEW q \in pages, ServerLists(q) \/ LoadFails(q) PROVE FALSE
    BY <1>1, <1>3 DEF ServerLists, LoadFails, pageVars
<1>4. CASE Resyncs \/ Retry \/ SwitchPile \/ SetScope
    BY <1>1, <1>4 DEF Resyncs, Retry, SwitchPile, SetScope, Reset
<1>5. ASSUME NEW kind \in {"send", "skip", "later"}, Decide(kind) PROVE FALSE
    <2>1. hand # <<>> /\ hand' = Tail(hand)
        BY <1>1, <1>5 DEF Decide, GoOn, Reset
    <2> QED
        BY <2>1, Taken DEF HandCards, Page
<1>6. CASE NotYet
    <2>1. Len(hand) > 1 /\ hand' = Append(Tail(hand), Head(hand))
        BY <1>6 DEF NotYet
    <2>2. hand # <<>>
        BY <2>1
    <2> QED
        BY <2>1, <2>2, ToTheBack DEF HandCards, Page
<1>7. CASE Undo
    <2> DEFINE d == decided[last]
    <2>1. last \in DOMAIN decided /\ last = Len(decided) /\ d \in Swipe
        BY <1>7, <1>0 DEF Undo, Swipes, None
    <2>2. d.kind = "later" \/ d.stage = "waiting"
        BY <1>1, <1>7 DEF Undo
    <2>3. hand' = PutBack(d) /\ d.pile = pile
        BY <1>1, <1>7 DEF Undo
    <2>4. c = d.card
        BY <2>1, <2>3, Returned DEF HandCards
    <2>5. decided'[last].undone = TRUE
        BY <1>7, <2>1, <2>2 DEF Undo, Swipe
    <2> QED
        BY <2>1, <2>4, <2>5 DEF Gains, Pend
<1>8. ASSUME NEW i \in DOMAIN decided, Failed(i) PROVE Gains(c)
    <2> DEFINE d == decided[i]
               fresh == IF d.stage = "refused" THEN [d EXCEPT !.block = block[d.card]] ELSE d
    <2>1. d \in Swipe /\ Fair(d)
        BY <1>0
    <2>2. fresh \in Swipe /\ fresh.pile = d.pile /\ fresh.card = d.card
        BY <2>1 DEF Swipe, World
    <2>3. hand' = PutBack(fresh) /\ d.pile = pile
        BY <1>1, <1>8 DEF Failed
    <2> HIDE DEF fresh
    <2>4. c = d.card
        BY <2>2, <2>3, Returned DEF HandCards
    <2>5. decided'[i] = [d EXCEPT !.stage = "failed"] /\ d.stage \in {"asked", "done", "refused"}
        BY <1>8 DEF Failed
    <2>6. ~Pend(decided'[i])
        BY <2>1, <2>5 DEF Pend, Swipe
    <2>7. CASE d.undone
        <3>1. d.kind = "later"
            BY <2>1, <2>5, <2>7 DEF Fair
        <3>2. Excuse(decided'[i])
            BY <2>1, <2>5, <2>7, <3>1 DEF Excuse, Swipe
        <3> QED
            BY <2>4, <2>6, <3>2 DEF Gains
    <2>8. CASE ~d.undone
        BY <2>4, <2>5, <2>6, <2>8 DEF Gains, Pend
    <2> QED
        BY <2>7, <2>8
<1>9. ASSUME NEW i \in DOMAIN decided,
             TimerFires(i) \/ Serves(i) \/ Settles(i) \/ AsksBack(i) \/ ServesBack(i)
      PROVE  FALSE
    BY <1>1, <1>9 DEF TimerFires, Serves, Settles, AsksBack, ServesBack, pageVars
<1>10. CASE Hides \/ EditServed \/ EditFails
    BY <1>1, <1>10 DEF Hides, EditServed, EditFails, pageVars
<1>11. CASE EditAnswered
    <2>1. edit.card \in Card /\ (hand' = Without(hand, edit.card) \/ hand' = Edited)
        BY <1>11 DEF EditAnswered, Edited, World
    <2> QED
        BY <2>1, EditedIsGood, Lifted DEF HandCards
<1>12. ASSUME NEW x \in Card, BringToTop(x) PROVE FALSE
    BY <1>12, Lifted DEF BringToTop, HandCards
<1>13. ASSUME NEW x \in Card, MovesAhead(x) \/ Elsewhere(x) PROVE FALSE
    BY <1>1, <1>13 DEF MovesAhead, Elsewhere, pageVars
<1>14. ASSUME NEW x \in Card, NEW to \in {"none", "hold", "back"}, EditAsked(x, to) PROVE FALSE
    BY <1>1, <1>14 DEF EditAsked, pageVars
<1>15. CASE UNCHANGED vars
    BY <1>1, <1>15 DEF vars, pageVars
<1>16. CASE Next
    BY <1>16, Kinds, <1>2, <1>3, <1>4, <1>5, <1>6, <1>7, <1>8, <1>9, <1>10, <1>11, <1>12, <1>13, <1>14
<1> QED
    BY <1>15, <1>16

LEMMA StepOut ==
    ASSUME Sound, Sound', Twice, Out, [Next]_vars
    PROVE  Twice' /\ Out'
<1>0. decided \in Seq(Swipe) /\ DOMAIN decided = 1..Len(decided) /\ Len(decided) \in Nat
    BY DEF Sound, Swipes
<1>1. CASE Onward
    <2>1. ASSUME NEW c \in HandCards', Unsettled(c)' PROVE Excused(c)'
        <3>1. Unsettled(c)
            BY <1>1, <2>1, OnwardKeeps
        <3>2. CASE c \in HandCards
            BY <1>1, <3>1, <3>2, OnwardKeeps DEF Out
        <3>3. CASE c \notin HandCards
            <4>1. PICK i \in DOMAIN decided :
                    /\ decided[i].card = c /\ ~Pend(decided'[i])
                    /\ i = Len(decided) \/ Pend(decided[i]) \/ Excuse(decided'[i])
                BY <3>1, <3>3, HandGains DEF Gains
            <4>2. PICK j \in DOMAIN decided : decided[j].card = c /\ Pend(decided[j]) /\ i # j
                BY <1>1, <2>1, <4>1 DEF Unsettled, Onward, Further
            <4>3. CASE Excuse(decided'[i])
                BY <1>1, <4>1, <4>3 DEF Excused, Onward, Further
            <4>4. CASE j < i
                BY <1>1, <4>1, <4>2, <4>4, OnwardKeeps DEF Twice
            <4>5. CASE i < j /\ Pend(decided[i])
                BY <1>1, <4>1, <4>2, <4>5, OnwardKeeps DEF Twice
            <4> QED
                BY <1>0, <4>1, <4>2, <4>3, <4>4, <4>5
        <3> QED
            BY <3>2, <3>3
    <2> QED
        BY <1>1, <2>1, OnwardKeeps DEF Out
<1>2. ASSUME NEW kind \in {"send", "skip", "later"}, Decide(kind) PROVE Twice' /\ Out'
    <2> DEFINE d == Decision(Head(hand), kind)
               n == Len(decided) + 1
    <2>1. decided' = Append(decided, d) /\ hand # <<>>
        BY <1>2 DEF Decide
    <2>2. d.card = Head(hand).card /\ Head(hand).card \in HandCards /\ d \in Swipe
        BY <2>1, Taken, Decided DEF Sound, Page, HandCards, Decision, Fair
    <2> HIDE DEF d
    <2>3. /\ DOMAIN decided' = 1..n
          /\ \A i \in DOMAIN decided : decided'[i] = decided[i] /\ i \in DOMAIN decided'
          /\ decided'[n] = d
        <3> HIDE DEF Swipe
        <3> QED
            BY <1>0, <2>1, <2>2, Appended
    <2>4. \A i \in DOMAIN decided' : i \in DOMAIN decided \/ i = n
        BY <1>0, <2>3
    <2>5. \A c : Excused(c) => Excused(c)'
        BY <2>3 DEF Excused
    <2>6. ASSUME NEW i \in DOMAIN decided', NEW j \in DOMAIN decided', i < j,
                 NEW c, decided'[i].card = c, decided'[j].card = c, Pend(decided'[i])
          PROVE  Excused(c)'
        <3>1. i \in DOMAIN decided
            BY <1>0, <2>3, <2>6
        <3>2. Pend(decided[i]) /\ decided'[i] = decided[i]
            BY <2>3, <2>6, <3>1
        <3>3. CASE j \in DOMAIN decided
            BY <2>3, <2>5, <2>6, <3>1, <3>2, <3>3 DEF Twice
        <3>4. CASE j = n
            <4>1. c \in HandCards /\ Unsettled(c)
                BY <2>2, <2>3, <2>6, <3>1, <3>2, <3>4 DEF Unsettled
            <4> QED
                BY <2>5, <4>1 DEF Out
        <3> QED
            BY <2>4, <3>3, <3>4
    <2>7. ASSUME NEW c \in HandCards', Unsettled(c)' PROVE Excused(c)'
        <3>1. c \in HandCards /\ c # d.card
            <4>1. hand' = Tail(hand) \/ hand' = <<>>
                BY <1>2 DEF Decide, GoOn, Reset
            <4> QED
                <5>1. c \in CardsIn(hand')
                    BY <2>7 DEF HandCards
                <5>2. CardsIn(hand') = {} \/ CardsIn(hand') = HandCards \ {Head(hand).card}
                    BY <2>1, <4>1, Taken, Emptied DEF Sound, Page, HandCards
                <5> QED
                    BY <5>1, <5>2, <2>2
        <3>2. Unsettled(c)
            BY <2>3, <2>4, <2>7, <3>1 DEF Unsettled
        <3> QED
            BY <2>5, <3>1, <3>2 DEF Out
    <2> QED
        BY <2>6, <2>7 DEF Twice, Out
<1> QED
    BY <1>1, <1>2, Onwards

(* A card that is being decided is not in the hand to be decided again, in   *)
(* whatever order answers and failures arrive, unless a Later of it that     *)
(* had been taken back has failed since (review.js:718-721, 859-903).      *)
THEOREM NothingIsDecidedTwice == Spec => []DecidedStaysOut
<1>1. Init => Twice /\ Out
    BY Emptied DEF Init, Twice, Out, HandCards
<1>2. Sound /\ Sound' /\ (Twice /\ Out) /\ [Next]_vars => (Twice /\ Out)'
    BY StepOut
<1>3. Out => DecidedStaysOut
    BY DEF Out, Excused, Excuse, DecidedStaysOut
<1> QED
    BY <1>1, <1>2, <1>3, DeckSound, PTL DEF Spec

-----------------------------------------------------------------------------
(* Reading ahead skips no card. *)

(* The decisions that will bring a card back to the hand, or take it away.   *)
Carries(d, p, c) ==
    d.card = c /\ d.pile = p /\ ~d.undone /\ d.stage \in {"waiting", "asked", "refused"}
Underway(c) == \E i \in DOMAIN decided : Carries(decided[i], pile, c)

Ahead(c) == next # None /\ at[c] > next

(* What an answer that is still to come has of what is owed after where it   *)
(* starts: the card, or a place for the next page ahead of it.              *)
Listed(q) ==
    q.current /\ q.listed =>
        \A c \in owed : at[c] > q.after => c \in CardsIn(q.cards) \/ (q.next # None /\ at[c] > q.next)

Owing ==
    /\ \A c \in owed : pileOf[c] = pile
    /\ \A q \in pages : Listed(q)
    /\ loaded => \A c \in owed : c \in HandCards \/ Underway(c) \/ Ahead(c)

LEMMA UnderwayIsUnsettled == \A c : Underway(c) => Unsettled(c)
BY DEF Underway, Carries, Unsettled, Pend

LEMMA NothingOwed == owed' = {} => Owing'
BY DEF Owing, Listed

(* A step that reads nothing leaves every card owed where it is, in the hand *)
(* or on its way to it.                                                     *)
LEMMA Quiet ==
    ASSUME Owing, UNCHANGED <<pile, next, loaded>>, owed' \subseteq owed,
           \A q \in pages' : q \in pages \/ ~q.listed,
           \A c \in owed' : at'[c] = at[c] /\ pileOf'[c] = pileOf[c],
           \A c \in owed' : c \in HandCards \/ Underway(c) => (c \in HandCards)' \/ Underway(c)'
    PROVE  Owing'
<1>1. \A c \in owed' : pileOf'[c] = pile'
    BY DEF Owing
<1>2. \A q \in pages' : Listed(q)'
    BY DEF Owing, Listed
<1>3. ASSUME loaded', NEW c \in owed' PROVE (c \in HandCards)' \/ Underway(c)' \/ Ahead(c)'
    <2>1. c \in owed /\ loaded
        BY <1>3
    <2>2. (c \in HandCards \/ Underway(c)) \/ Ahead(c)
        BY <2>1 DEF Owing
    <2>3. Ahead(c) => Ahead(c)'
        BY DEF Ahead
    <2> QED
        BY <2>2, <2>3
<1> QED
    BY <1>1, <1>2, <1>3 DEF Owing

LEMMA ListsAll ==
    ASSUME Sound, Sound', Owing, NEW q \in pages, ServerLists(q)
    PROVE  Owing'
<1>1. PICK s \in FirstPage(Rest(q)) :
            LET r == Listing(q, s, Cursor(q, s, Rest(q)))
            IN  /\ pages' = (pages \ {q}) \cup {r} /\ Cursor(q, s, Rest(q)) \in Place
                /\ Rest(q) \subseteq Card
                /\ r \in Request /\ Good(r.cards, r.pile) /\ CardsIn(r.cards) = Range(s)
                /\ r.current = q.current /\ r.first = q.first /\ r.pile = q.pile /\ r.after = q.after
                /\ r.listed = TRUE /\ r.next = Cursor(q, s, Rest(q))
    BY Lists DEF Sound
<1>2. PICK r : /\ pages' = (pages \ {q}) \cup {r} /\ CardsIn(r.cards) = Range(s)
               /\ r.current = q.current /\ r.first = q.first /\ r.after = q.after
               /\ r.next = Cursor(q, s, Rest(q)) /\ r.next \in Place
    BY <1>1
<1>3. /\ UNCHANGED <<pileOf, block, at, pile, hand, next, loaded, decided>>
      /\ owed' = IF q.current /\ q.first THEN PileCards(q.pile) ELSE owed
    BY DEF ServerLists, serverVars, pageVars
<1>4. ASSUME NEW c \in Card, pileOf[c] = q.pile, at[c] > q.after
      PROVE  c \in CardsIn(r.cards) \/ (r.next # None /\ at[c] > r.next)
    <2>1. c \in Rest(q)
        BY <1>4 DEF Rest, PileCards
    <2>2. CASE c \in Range(s)
        BY <1>2, <2>2
    <2>3. CASE c \notin Range(s)
        <3>1. s[PageSize] \in Card /\ at[s[PageSize]] < at[c] /\ Range(s) # Rest(q)
            BY <1>1, <2>1, <2>3, APage DEF Sound
        <3>2. r.next = at[s[PageSize]]
            BY <1>2, <3>1 DEF Cursor
        <3>3. at[s[PageSize]] \in Place \ {None} /\ at[c] \in Place
            BY <3>1 DEF Sound, World
        <3> QED
            BY <3>1, <3>2, <3>3 DEF Place
    <2> QED
        BY <2>2, <2>3
<1>5. q.current => q.pile = pile
    BY DEF Sound, Loads, Fit
<1>6. \A c \in owed' : pileOf'[c] = pile'
    BY <1>3, <1>5 DEF Owing, PileCards
<1>7. Listed(r)'
    <2> SUFFICES ASSUME r.current, NEW c \in owed', at'[c] > r.after
                 PROVE  c \in CardsIn(r.cards) \/ (r.next # None /\ at'[c] > r.next)
        BY DEF Listed
    <2>1. c \in Card /\ pileOf[c] = q.pile
        BY <1>2, <1>3, <1>5, <1>6 DEF Sound, World
    <2> QED
        BY <1>2, <1>3, <1>4, <2>1
<1>8. ASSUME NEW t \in pages', t # r PROVE Listed(t)'
    <2>1. t \in pages /\ t # q
        BY <1>2, <1>8
    <2>2. CASE t.current
        <3>1. ~q.current
            BY <2>1, <2>2 DEF Sound, Loads
        <3> QED
            BY <1>3, <2>1, <3>1 DEF Owing, Listed
    <2>3. CASE ~t.current
        BY <2>3 DEF Listed
    <2> QED
        BY <2>2, <2>3
<1>9. ASSUME loaded', NEW c \in owed' PROVE (c \in HandCards)' \/ Underway(c)' \/ Ahead(c)'
    <2>1. ~(q.current /\ q.first)
        BY <1>3, <1>9 DEF Sound, Loads, Fit
    <2>2. c \in owed /\ loaded
        BY <1>3, <1>9, <2>1
    <2>3. c \in HandCards \/ Underway(c) \/ Ahead(c)
        BY <2>2 DEF Owing
    <2> QED
        BY <1>3, <2>3 DEF HandCards, CardsIn, Underway, Ahead
<1> QED
    BY <1>6, <1>7, <1>8, <1>9 DEF Owing

LEMMA ShowsAll ==
    ASSUME Sound, Sound', Owing, NEW q \in pages, q.current, q.listed, Takes(q, Fuller(q)),
           UNCHANGED <<serverVars, decided>>
    PROVE  Owing'
<1>1. /\ hand' = Fuller(q) /\ next' = q.next /\ loaded' = TRUE /\ pages' = pages \ {q}
      /\ owed' = owed \ (LeftOut(q) \cap CardsIn(q.cards)) /\ pile' = pile
      /\ UNCHANGED <<pileOf, at, decided>>
    BY DEF Takes, serverVars
<1>2. CardsIn(hand') = HandCards \cup (CardsIn(q.cards) \cap {c \in Card \ HandCards : ~Unsettled(c)})
    BY <1>1, Behind DEF Sound
<1>3. /\ q.pile = pile /\ q.after \in Place
      /\ IF q.first THEN ~loaded /\ q.after = None ELSE loaded /\ next # None /\ q.after = next
    BY DEF Sound, Loads, Fit, Request
<1>4. \A r \in pages' : ~r.current
    BY <1>1 DEF Sound, Loads
<1>5. ASSUME NEW c \in owed' PROVE (c \in HandCards)' \/ Underway(c)' \/ Ahead(c)'
    <2>1. c \in owed /\ c \in Card /\ at[c] \in Place \ {None}
        BY <1>1, <1>5 DEF Sound, World
    <2>2. c \in HandCards => (c \in HandCards)'
        BY <1>2 DEF HandCards
    <2>3. Underway(c) => Underway(c)'
        BY <1>1 DEF Underway
    <2>4. CASE ~(c \in HandCards \/ Underway(c))
        <3>1. at[c] > q.after
            <4>1. CASE q.first
                BY <1>3, <2>1, <4>1 DEF Place, None
            <4>2. CASE ~q.first
                BY <1>3, <2>1, <2>4, <4>2 DEF Owing, Ahead
            <4> QED
                BY <4>1, <4>2
        <3>2. c \in CardsIn(q.cards) \/ (q.next # None /\ at[c] > q.next)
            BY <2>1, <3>1 DEF Owing, Listed
        <3>3. CASE c \in CardsIn(q.cards) /\ ~Unsettled(c)
            BY <1>2, <2>1, <2>4, <3>3 DEF HandCards
        <3>4. CASE c \in CardsIn(q.cards) /\ Unsettled(c)
            <4>1. PICK i \in DOMAIN decided : decided[i].card = c /\ Pend(decided[i])
                BY <3>4 DEF Unsettled
            <4>2. c \notin LeftOut(q)
                BY <1>1, <1>5, <3>4
            <4>3. decided[i].pile = pile /\ decided[i].stage # "done"
                BY <1>3, <2>1, <4>1, <4>2 DEF LeftOut
            <4>4. Carries(decided[i], pile, c)
                BY <4>1, <4>3 DEF Carries, Pend
            <4> QED
                BY <2>4, <4>4 DEF Underway
        <3>5. CASE q.next # None /\ at[c] > q.next
            BY <1>1, <3>5 DEF Ahead
        <3> QED
            BY <3>2, <3>3, <3>4, <3>5
    <2> QED
        BY <2>2, <2>3, <2>4
<1>6. \A c \in owed' : pileOf'[c] = pile'
    BY <1>1 DEF Owing
<1> QED
    BY <1>4, <1>5, <1>6 DEF Owing, Listed

LEMMA StepOwing ==
    ASSUME Sound, Sound', Owing, [Next]_vars
    PROVE  Owing'
<1> USE DEF Sound
<1> DEFINE One(i, d) == decided' = [decided EXCEPT ![i] = d]
<1>0. \A i \in DOMAIN decided : decided[i] \in Swipe
    BY DEF Swipes
<1>1. ASSUME UNCHANGED <<pile, next, loaded, hand, decided>>, owed' \subseteq owed,
             \A q \in pages' : q \in pages \/ ~q.listed,
             \A c \in owed' : at'[c] = at[c] /\ pileOf'[c] = pileOf[c]
      PROVE  Owing'
    <2>1. \A c : c \in HandCards \/ Underway(c) => (c \in HandCards)' \/ Underway(c)'
        BY <1>1 DEF HandCards, CardsIn, Underway
    <2> QED
        BY <1>1, <2>1, Quiet
<1>2. ASSUME NEW q \in pages, Answered(q) PROVE Owing'
    <2>1. CASE q.current
        BY <1>2, <2>1, ShowsAll DEF Answered, Fuller
    <2>2. CASE ~q.current
        BY <1>2, <2>2, <1>1 DEF Answered, pageVars, serverVars
    <2> QED
        BY <2>1, <2>2
<1>3. ASSUME NEW q \in pages, LoadFails(q) PROVE Owing'
    BY <1>3, <1>1 DEF LoadFails, serverVars
<1>4. CASE Resyncs \/ Retry \/ SwitchPile \/ SetScope
    BY <1>4, NothingOwed DEF Resyncs, Retry, SwitchPile, SetScope, Reset
<1>5. ASSUME NEW kind \in {"send", "skip", "later"}, Decide(kind) PROVE Owing'
    <2> DEFINE d == Decision(Head(hand), kind)
               n == Len(decided) + 1
    <2>1. /\ decided' = Append(decided, d) /\ hand # <<>> /\ GoOn(Tail(hand))
          /\ UNCHANGED <<pileOf, at>>
        BY <1>5 DEF Decide, serverVars
    <2>2. CASE owed' = {}
        BY <2>2, NothingOwed
    <2>3. CASE owed' # {}
        <3>1. /\ hand' = Tail(hand) /\ UNCHANGED <<pile, next, loaded, owed>>
              /\ pages' = pages \/ pages' = pages \cup {Asks(FALSE, pile, next, {})}
            BY <2>1, <2>3 DEF GoOn, Reset
        <3>2. \A q \in pages' : q \in pages \/ ~q.listed
            BY <3>1 DEF Asks
        <3>3. d \in Swipe /\ Carries(d, pile, Head(hand).card)
            BY <2>1, Taken, Decided DEF Page, Fair, Decision, Carries
        <3> HIDE DEF d
        <3>4. decided \in Seq(Swipe) /\ DOMAIN decided = 1..Len(decided) /\ Len(decided) \in Nat
            BY DEF Swipes
        <3>5. /\ DOMAIN decided' = 1..n
              /\ \A i \in DOMAIN decided : decided'[i] = decided[i] /\ i \in DOMAIN decided'
              /\ n \in DOMAIN decided' /\ decided'[n] = d
            <4> HIDE DEF Swipe
            <4> QED
                BY <2>1, <3>3, <3>4, Appended
        <3>6. ASSUME NEW c \in owed', c \in HandCards \/ Underway(c) PROVE (c \in HandCards)' \/ Underway(c)'
            <4>1. CASE Underway(c)
                BY <3>1, <3>5, <4>1 DEF Underway
            <4>2. CASE c = Head(hand).card
                BY <3>1, <3>3, <3>5, <4>2 DEF Underway
            <4>3. CASE c \in HandCards /\ c # Head(hand).card
                <5>1. CardsIn(hand') = HandCards \ {Head(hand).card}
                    BY <2>1, <3>1, Taken DEF Page, HandCards
                <5> QED
                    BY <4>3, <5>1 DEF HandCards
            <4> QED
                BY <3>6, <4>1, <4>2, <4>3
        <3> QED
            BY <2>1, <3>1, <3>2, <3>6, Quiet
    <2> QED
        BY <2>2, <2>3
<1>6. ASSUME UNCHANGED <<pile, next, loaded, decided, pages, pileOf, at>>, owed' \subseteq owed,
             \A c \in owed' : c \in HandCards => c \in CardsIn(hand')
      PROVE  Owing'
    <2>1. \A c \in owed' : c \in HandCards \/ Underway(c) => (c \in HandCards)' \/ Underway(c)'
        BY <1>6 DEF HandCards, Underway
    <2> QED
        BY <1>6, <2>1, Quiet
<1>7. CASE NotYet
    <2>1. Len(hand) > 1 /\ hand' = Append(Tail(hand), Head(hand))
        BY <1>7 DEF NotYet
    <2>2. hand # <<>>
        BY <2>1
    <2>3. CardsIn(hand') = HandCards
        BY <2>1, <2>2, ToTheBack DEF HandCards, Page
    <2> QED
        BY <1>7, <2>3, <1>6 DEF NotYet, serverVars
<1>8. ASSUME NEW c \in Card, BringToTop(c) PROVE Owing'
    <2>1. CardsIn(hand') = HandCards
        BY <1>8, Lifted DEF BringToTop
    <2> QED
        BY <1>8, <2>1, <1>6 DEF BringToTop, serverVars
<1>9. ASSUME NEW i \in DOMAIN decided, NEW d, One(i, d),
             UNCHANGED <<pile, next, loaded, pages, at>>, owed' \subseteq owed,
             \A c \in owed' : pileOf'[c] = pileOf[c],
             \A c \in HandCards : c \in CardsIn(hand'),
             \A c \in owed' : Carries(decided[i], pile, c) => Carries(d, pile, c) \/ c \in CardsIn(hand')
      PROVE  Owing'
    <2>1. ASSUME NEW c \in owed', c \in HandCards \/ Underway(c) PROVE (c \in HandCards)' \/ Underway(c)'
        <3>1. CASE c \in HandCards
            BY <1>9, <3>1 DEF HandCards
        <3>2. CASE Underway(c)
            <4>1. PICK j \in DOMAIN decided : Carries(decided[j], pile, c)
                BY <3>2 DEF Underway
            <4>2. j \in DOMAIN decided' /\ decided'[j] = IF j = i THEN d ELSE decided[j]
                BY <1>9
            <4> QED
                BY <1>9, <4>1, <4>2 DEF Underway, HandCards
        <3> QED
            BY <2>1, <3>1, <3>2
    <2> QED
        BY <1>9, <2>1, Quiet
<1>10. ASSUME NEW S \in SUBSET Waiting, Runs(S), UNCHANGED <<serverVars, pageVars, pages, owed>> PROVE Owing'
    <2>1. DOMAIN decided' = DOMAIN decided
        BY <1>10 DEF Runs
    <2>2. ASSUME NEW j \in DOMAIN decided, NEW c, Carries(decided[j], pile, c) PROVE Carries(decided'[j], pile, c)
        <3>1. CASE j \notin S
            BY <1>10, <2>2, <3>1 DEF Runs
        <3>2. CASE j \in S
            <4>1. decided'[j] = [decided[j] EXCEPT !.stage = "asked", !.asks = @ + 1]
                BY <1>10, <3>2 DEF Runs
            <4> QED
                BY <1>0, <2>2, <4>1 DEF Carries, Swipe
        <3> QED
            BY <3>1, <3>2
    <2>3. \A c : c \in HandCards \/ Underway(c) => (c \in HandCards)' \/ Underway(c)'
        BY <1>10, <2>1, <2>2 DEF Underway, HandCards, CardsIn, pageVars
    <2> QED
        BY <1>10, <2>3, Quiet DEF serverVars, pageVars
<1>11. CASE Hides
    BY <1>11, <1>10 DEF Hides
<1>12. ASSUME NEW i \in DOMAIN decided, TimerFires(i) PROVE Owing'
    BY <1>12, <1>10 DEF TimerFires
<1>13. CASE Undo
    <2> DEFINE d == decided[last]
    <2>1. last \in DOMAIN decided /\ d \in Swipe
        BY <1>13, <1>0 DEF Undo, Swipes, None
    <2>2. UNCHANGED <<pile, next, loaded, pages, pileOf, at, owed>>
        BY <1>13 DEF Undo, serverVars
    <2>3. CASE ~(d.kind = "later" \/ d.stage = "waiting")
        <3>1. UNCHANGED <<decided, hand>>
            BY <1>13, <2>3 DEF Undo
        <3> QED
            BY <2>2, <3>1, <1>1
    <2>4. CASE d.kind = "later" \/ d.stage = "waiting"
        <3>1. PICK e : One(last, e)
            BY <1>13, <2>4 DEF Undo
        <3>2. hand' = IF d.pile = pile THEN PutBack(d) ELSE hand
            BY <1>13, <2>4 DEF Undo
        <3>3. \A c \in HandCards : c \in CardsIn(hand')
            BY <2>1, <3>2, Returned DEF HandCards
        <3>4. \A c : Carries(d, pile, c) => c \in CardsIn(hand')
            BY <2>1, <3>2, Returned DEF Carries
        <3> QED
            BY <2>1, <2>2, <3>1, <3>3, <3>4, <1>9
    <2> QED
        BY <2>3, <2>4
<1>14. ASSUME NEW i \in DOMAIN decided, Failed(i) PROVE Owing'
    <2> DEFINE d == decided[i]
               fresh == IF d.stage = "refused" THEN [d EXCEPT !.block = block[d.card]] ELSE d
    <2>1. d \in Swipe
        BY <1>0
    <2>2. fresh \in Swipe /\ fresh.pile = d.pile /\ fresh.card = d.card
        BY <2>1 DEF Swipe, World
    <2>3. /\ hand' = IF d.pile = pile THEN PutBack(fresh) ELSE hand
          /\ One(i, [d EXCEPT !.stage = "failed"])
          /\ UNCHANGED <<pile, next, loaded, pages, pileOf, at, owed>>
        BY <1>14 DEF Failed, serverVars
    <2> HIDE DEF fresh
    <2>4. \A c \in HandCards : c \in CardsIn(hand')
        BY <2>2, <2>3, Returned DEF HandCards
    <2>5. \A c : Carries(d, pile, c) => c \in CardsIn(hand')
        BY <2>2, <2>3, Returned DEF Carries
    <2> QED
        BY <2>3, <2>4, <2>5, <1>9
<1>15. ASSUME NEW i \in DOMAIN decided, Serves(i) PROVE Owing'
    <2> DEFINE d == decided[i]
    <2>1. d \in Swipe
        BY <1>0
    <2>2. UNCHANGED <<pile, hand, next, loaded, pages, at>> /\ d.stage = "asked"
        BY <1>15 DEF Serves, pageVars
    <2>3. CASE One(i, [d EXCEPT !.stage = "done"]) /\ MovesTo(d.card, Target(d.kind))
        <3>1. /\ owed' \subseteq owed /\ d.card \notin owed'
              /\ \A c \in owed' : pileOf'[c] = pileOf[c]
            BY <2>3 DEF MovesTo, World
        <3>2. \A c \in owed' : ~Carries(d, pile, c)
            BY <3>1 DEF Carries
        <3>3. \A c \in HandCards : c \in CardsIn(hand')
            BY <2>2 DEF HandCards
        <3> QED
            BY <2>2, <2>3, <3>1, <3>2, <3>3, <1>9
    <2>4. CASE One(i, [d EXCEPT !.stage = "refused"]) /\ UNCHANGED <<pileOf, owed>>
        <3>1. \A c : Carries(d, pile, c) => Carries([d EXCEPT !.stage = "refused"], pile, c)
            BY <2>1 DEF Carries, Swipe
        <3>2. \A c \in HandCards : c \in CardsIn(hand')
            BY <2>2 DEF HandCards
        <3> QED
            BY <2>2, <2>4, <3>1, <3>2, <1>9
    <2> QED
        BY <1>15, <2>3, <2>4 DEF Serves
<1>16. ASSUME NEW i \in DOMAIN decided, Settles(i) PROVE Owing'
    <2>1. \A c : ~Carries(decided[i], pile, c)
        BY <1>16 DEF Settles, Carries
    <2>2. UNCHANGED <<pile, hand, next, loaded, pages, pileOf, at, owed>>
        BY <1>16 DEF Settles, serverVars, pageVars
    <2>3. One(i, [decided[i] EXCEPT !.stage = "settled"])
        BY <1>16 DEF Settles
    <2>4. \A c \in HandCards : c \in CardsIn(hand')
        BY <2>2 DEF HandCards
    <2> QED
        BY <2>1, <2>2, <2>3, <2>4, <1>9
<1>17. ASSUME NEW i \in DOMAIN decided, AsksBack(i) \/ ServesBack(i) PROVE Owing'
    <2>1. PICK b \in {"asked", "done"} : One(i, [decided[i] EXCEPT !.back = b])
        BY <1>17 DEF AsksBack, ServesBack
    <2>2. \A c : Carries(decided[i], pile, c) => Carries([decided[i] EXCEPT !.back = b], pile, c)
        BY <1>0 DEF Carries, Swipe
    <2>3. /\ UNCHANGED <<pile, hand, next, loaded, pages, at>> /\ owed' \subseteq owed
          /\ \A c \in owed' : pileOf'[c] = pileOf[c]
        BY <1>17 DEF AsksBack, ServesBack, serverVars, pageVars, MovesTo, World
    <2>4. \A c \in HandCards : c \in CardsIn(hand')
        BY <2>3 DEF HandCards
    <2> QED
        BY <2>1, <2>2, <2>3, <2>4, <1>9
<1>18. CASE EditServed
    <2>1. /\ UNCHANGED <<pile, hand, next, loaded, pages, at, decided>> /\ owed' \subseteq owed
          /\ \A c \in owed' : pileOf'[c] = pileOf[c]
        BY <1>18 DEF EditServed, pageVars, MovesTo, World
    <2> QED
        BY <2>1, <1>1
<1>19. CASE EditAnswered
    <2>1. edit.card \in Card /\ UNCHANGED <<pile, next, loaded, pages, pileOf, at, decided>>
        BY <1>19 DEF EditAnswered, World, serverVars
    <2>2. \/ hand' = Without(hand, edit.card) /\ owed' = owed \ {edit.card}
          \/ hand' = Edited /\ owed' = owed
        BY <1>19 DEF EditAnswered, Edited
    <2>3. owed' \subseteq owed /\ \A c \in owed' : c \in HandCards => c \in CardsIn(hand')
        BY <2>1, <2>2, EditedIsGood, Lifted
    <2> QED
        BY <2>1, <2>3, <1>6
<1>20. CASE EditFails
    BY <1>20, <1>1 DEF EditFails, serverVars, pageVars
<1>21. ASSUME NEW c \in Card, MovesAhead(c) \/ Elsewhere(c) PROVE Owing'
    <2>1. /\ UNCHANGED <<pile, hand, next, loaded, pages, decided>> /\ owed' \subseteq owed
          /\ \A d \in owed' : at'[d] = at[d] /\ pileOf'[d] = pileOf[d]
        BY <1>21 DEF MovesAhead, Elsewhere, pageVars, MovesTo, World
    <2> QED
        BY <2>1, <1>1
<1>22. ASSUME NEW c \in Card, NEW to \in {"none", "hold", "back"}, EditAsked(c, to) PROVE Owing'
    BY <1>22, <1>1 DEF EditAsked, serverVars, pageVars
<1>23. CASE UNCHANGED vars
    BY <1>23, <1>1 DEF vars, serverVars, pageVars
<1>24. ASSUME NEW q \in pages, ServerLists(q) PROVE Owing'
    BY <1>24, ListsAll
<1>25. CASE Next
    BY <1>25, Kinds, <1>2, <1>3, <1>4, <1>5, <1>7, <1>8, <1>11, <1>12, <1>13, <1>14, <1>15, <1>16,
       <1>17, <1>18, <1>19, <1>20, <1>21, <1>22, <1>24
<1> QED
    BY <1>23, <1>25

(* Reading ahead skips no card: one that was in the pile when its first page *)
(* was read, and has not left since, is in the hand, ahead of the cursor or  *)
(* being decided, whatever left before it (review.go:902-904).             *)
THEOREM ReadingAheadSkipsNone == Spec => []NoneSkipped
<1>1. Init => Owing
    BY DEF Init, Owing, Listed
<1>2. Sound /\ Sound' /\ Owing /\ [Next]_vars => Owing'
    BY StepOwing
<1>3. Owing => NoneSkipped
    BY UnderwayIsUnsettled DEF Owing, Ahead, NoneSkipped
<1> QED
    BY <1>1, <1>2, <1>3, DeckSound, PTL DEF Spec
=============================================================================
