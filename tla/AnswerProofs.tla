---------------------------- MODULE AnswerProofs ----------------------------
(***************************************************************************)
(* The answer to a question, in two parts: which sources Retrieval cites,  *)
(* for any texts, scores and limits, and what ChatStream delivers, for     *)
(* answers of any length and any number of lines under way.                *)
(*                                                                         *)
(* The selections and sorts of Retrieval are recursive or chosen by        *)
(* cardinality; the first sections say what such definitions yield, with   *)
(* sets and functions where an induction would take a predicate.           *)
(***************************************************************************)
EXTENDS Retrieval, ChatStream, FiniteSetTheorems, FunctionTheorems, WellFoundedInduction, TLAPS

-----------------------------------------------------------------------------
(* Induction and recursion over numbers, with sets for predicates and      *)
(* functions for operators.                                                *)

Less == {p \in Nat \X Nat : p[1] < p[2]}

\* A set of numbers has a least one.
LEMMA Least ==
    ASSUME NEW S \in SUBSET Nat, S # {}
    PROVE  \E x \in S : \A y \in S : x <= y
<1>1. IsWellFoundedOn(Less, Nat)
  BY NatLessThanWellFounded DEF OpToRel, Less
<1>2. PICK x \in S : \A y \in S : ~(<<y, x>> \in Less)
  BY <1>1, WFMin
<1>3. ASSUME NEW y \in S PROVE x <= y
  <2>1. <<y, x>> \in Nat \X Nat /\ <<y, x>>[1] = y /\ <<y, x>>[2] = x
    OBVIOUS
  <2>2. ~(y < x)
    BY <1>2, <2>1 DEF Less
  <2>. QED
    BY <2>2
<1>. QED
  BY <1>3

\* Induction up to n, over a set P.
LEMMA Induct ==
    ASSUME NEW n \in Nat, NEW P, 0 \in P, \A i \in 1..n : i - 1 \in P => i \in P
    PROVE  \A i \in 0..n : i \in P
<1>. DEFINE Q == {i \in 0..n : i \notin P}
<1>. SUFFICES ASSUME Q # {} PROVE FALSE
  OBVIOUS
<1>1. Q \in SUBSET Nat
  OBVIOUS
<1>2. PICK x \in Q : \A y \in Q : x <= y
  BY <1>1, Least
<1>3. x \in 1..n /\ x \notin P /\ x - 1 \in 0..n
  OBVIOUS
<1>4. x - 1 \in P
  BY <1>2, <1>3
<1>. QED
  BY <1>3, <1>4

\* A function that is defined step by step exists.
Unfolds(g, n, A, base, F) ==
    /\ g \in [0..n -> A]
    /\ g[0] = base
    /\ \A i \in 1..n : g[i] = F[<<i, g[i - 1]>>]

\* Each step F and base unfold to a function.
LEMMA Recursion ==
    ASSUME NEW n \in Nat, NEW A, NEW base \in A, NEW F \in [(1..n) \X A -> A]
    PROVE  \E g : Unfolds(g, n, A, base, F)
<1>. DEFINE P == {k \in 0..n : \E g \in [0..k -> A] :
                    g[0] = base /\ \A i \in 1..k : g[i] = F[<<i, g[i - 1]>>]}
<1>1. 0 \in P
  <2>1. [j \in 0..0 |-> base] \in [0..0 -> A] /\ [j \in 0..0 |-> base][0] = base
    OBVIOUS
  <2>2. 1..0 = {} /\ 0 \in 0..n
    OBVIOUS
  <2>. QED
    BY <2>1, <2>2
<1>2. ASSUME NEW k \in 1..n, k - 1 \in P PROVE k \in P
  <2>1. PICK g \in [0..(k - 1) -> A] :
            g[0] = base /\ \A i \in 1..(k - 1) : g[i] = F[<<i, g[i - 1]>>]
    BY <1>2
  <2>. DEFINE h == [j \in 0..k |-> IF j = k THEN F[<<k, g[k - 1]>>] ELSE g[j]]
  <2>2. g[k - 1] \in A /\ F[<<k, g[k - 1]>>] \in A
    OBVIOUS
  <2>3. h \in [0..k -> A]
    BY <2>2
  <2>4. h[0] = base
    BY <2>1
  <2>5. ASSUME NEW i \in 1..k PROVE h[i] = F[<<i, h[i - 1]>>]
    <3>1. h[i - 1] = g[i - 1]
      OBVIOUS
    <3>2. CASE i = k
      <4>1. h[k] = F[<<k, g[k - 1]>>]
        OBVIOUS
      <4>. HIDE DEF h
      <4>. QED
        BY <3>1, <3>2, <4>1
    <3>3. CASE i # k
      BY <3>1, <3>3, <2>1
    <3>. QED
      BY <3>2, <3>3
  <2>6. k \in 0..n
    OBVIOUS
  <2>. HIDE DEF h
  <2>. QED
    BY <2>3, <2>4, <2>5, <2>6
<1>. HIDE DEF P
<1>3. n \in P
  BY <1>1, <1>2, Induct
<1>. QED
  BY <1>3 DEF P, Unfolds

-----------------------------------------------------------------------------
(* Finite sets in order.                                                   *)

\* R orders S.
Orders(R, S) ==
    /\ \A x \in S : <<x, x>> \notin R
    /\ \A x, y \in S : x = y \/ <<x, y>> \in R \/ <<y, x>> \in R
    /\ \A x, y, z \in S : <<x, y>> \in R /\ <<y, z>> \in R => <<x, z>> \in R

Below(R, S, x) == {y \in S : <<y, x>> \in R}

\* Each member of S has a place of its own, and each place is taken.
Ranked(R, S) ==
    /\ Cardinality(S) \in Nat
    /\ \A x \in S : Cardinality(Below(R, S, x)) \in 0..(Cardinality(S) - 1)
    /\ \A x, y \in S : <<x, y>> \in R <=> Cardinality(Below(R, S, x)) < Cardinality(Below(R, S, y))
    /\ \A k \in 0..(Cardinality(S) - 1) : \E x \in S : Cardinality(Below(R, S, x)) = k

\* In a finite order the numbers of members below run from 0 up, each once.
LEMMA Ranks ==
    ASSUME NEW S, IsFiniteSet(S), NEW R, Orders(R, S)
    PROVE  Ranked(R, S)
<1>1. Cardinality(S) \in Nat
  BY FS_CardinalityType
<1>2. ASSUME NEW x \in S
      PROVE  IsFiniteSet(Below(R, S, x)) /\ Cardinality(Below(R, S, x)) \in 0..(Cardinality(S) - 1)
  <2>1. Below(R, S, x) \in SUBSET S /\ x \notin Below(R, S, x)
    BY DEF Below, Orders
  <2>2. IsFiniteSet(Below(R, S, x)) /\ Cardinality(Below(R, S, x)) <= Cardinality(S)
        /\ Cardinality(Below(R, S, x)) # Cardinality(S)
    BY <2>1, FS_Subset
  <2>3. Cardinality(Below(R, S, x)) \in Nat
    BY <2>2, FS_CardinalityType
  <2>. QED
    BY <1>1, <2>2, <2>3
<1>3. ASSUME NEW x \in S, NEW y \in S, <<x, y>> \in R
      PROVE  Cardinality(Below(R, S, x)) < Cardinality(Below(R, S, y))
  <2>1. Below(R, S, x) \in SUBSET Below(R, S, y) /\ x \in Below(R, S, y) /\ x \notin Below(R, S, x)
    BY <1>3 DEF Below, Orders
  <2>2. Cardinality(Below(R, S, x)) <= Cardinality(Below(R, S, y))
        /\ Cardinality(Below(R, S, x)) # Cardinality(Below(R, S, y))
    BY <2>1, <1>2, FS_Subset
  <2>. QED
    BY <1>2, <2>2
<1>4. ASSUME NEW x \in S, NEW y \in S,
             Cardinality(Below(R, S, x)) < Cardinality(Below(R, S, y))
      PROVE  <<x, y>> \in R
  <2>1. Cardinality(Below(R, S, x)) \in Nat /\ Cardinality(Below(R, S, y)) \in Nat
    BY <1>2
  <2>2. ~(<<y, x>> \in R) /\ x # y
    BY <1>3, <1>4, <2>1
  <2>. QED
    BY <2>2 DEF Orders
<1>5. ASSUME NEW k \in 0..(Cardinality(S) - 1) PROVE \E x \in S : Cardinality(Below(R, S, x)) = k
  <2>. DEFINE f == [x \in S |-> Cardinality(Below(R, S, x))]
              K == 0..(Cardinality(S) - 1)
  <2>1. f \in [S -> K]
    BY <1>2
  <2>2. ASSUME NEW x \in S, NEW y \in S, f[x] = f[y] PROVE x = y
    <3>1. f[x] \in Nat /\ f[y] \in Nat /\ ~(f[x] < f[y]) /\ ~(f[y] < f[x])
      BY <1>2, <2>2
    <3>. QED
      BY <1>3, <3>1 DEF Orders
  <2>3. f \in Injection(S, K)
    <3>. HIDE DEF f, K
    <3>. QED
      BY <2>1, <2>2 DEF Injection, IsInjective
  <2>4. IsFiniteSet(K) /\ Cardinality(K) = Cardinality(S)
    BY <1>1, FS_Interval
  <2>5. f \in Surjection(S, K)
    <3>. HIDE DEF f, K
    <3>. QED
      BY <2>3, <2>4, FS_Injection
  <2>6. \E x \in S : f[x] = k
    BY <2>5 DEF Surjection
  <2>. QED
    BY <2>6
<1>. QED
  BY <1>1, <1>2, <1>3, <1>4, <1>5 DEF Ranked

\* o lists the members of S in the order R.
Lists(o, R, S) ==
    /\ o = [i \in 1..Cardinality(S) |-> o[i]]
    /\ \A i \in 1..Cardinality(S) : o[i] \in S /\ Cardinality(Below(R, S, o[i])) = i - 1

Listing(R, S) == [i \in 1..Cardinality(S) |-> CHOOSE x \in S : Cardinality(Below(R, S, x)) = i - 1]

\* What Ordered chooses by cardinality exists.
LEMMA ListingLists ==
    ASSUME NEW S, IsFiniteSet(S), NEW R, Orders(R, S)
    PROVE  Lists(Listing(R, S), R, S)
<1>1. Cardinality(S) \in Nat /\ \A k \in 0..(Cardinality(S) - 1) : \E x \in S : Cardinality(Below(R, S, x)) = k
  BY Ranks DEF Ranked
<1>2. ASSUME NEW i \in 1..Cardinality(S)
      PROVE  Listing(R, S)[i] \in S /\ Cardinality(Below(R, S, Listing(R, S)[i])) = i - 1
  <2>1. i - 1 \in 0..(Cardinality(S) - 1)
    BY <1>1
  <2>2. \E x \in S : Cardinality(Below(R, S, x)) = i - 1
    BY <1>1, <2>1
  <2>3. Listing(R, S)[i] = CHOOSE x \in S : Cardinality(Below(R, S, x)) = i - 1
    BY DEF Listing
  <2>. QED
    BY <2>2, <2>3
<1>3. Listing(R, S) = [i \in 1..Cardinality(S) |-> Listing(R, S)[i]]
  BY DEF Listing
<1>. QED
  BY <1>2, <1>3 DEF Lists

\* A list of S in the order R holds each member once, in that order.
LEMMA ListFacts ==
    ASSUME NEW S, IsFiniteSet(S), NEW R, Orders(R, S), NEW o, Lists(o, R, S)
    PROVE  /\ Cardinality(S) \in Nat /\ o \in Seq(S) /\ Len(o) = Cardinality(S)
           /\ \A i, j \in 1..Len(o) : i < j <=> <<o[i], o[j]>> \in R
           /\ \A i, j \in 1..Len(o) : o[i] = o[j] => i = j
           /\ \A x \in S : \E i \in 1..Len(o) : o[i] = x /\ Cardinality(Below(R, S, x)) = i - 1
<1>1. Cardinality(S) \in Nat
  BY FS_CardinalityType
<1>2. o \in Seq(S) /\ Len(o) = Cardinality(S)
  BY <1>1 DEF Lists
<1>3. ASSUME NEW i \in 1..Len(o), NEW j \in 1..Len(o)
      PROVE  (i < j <=> <<o[i], o[j]>> \in R) /\ (o[i] = o[j] => i = j)
  <2>1. /\ o[i] \in S /\ Cardinality(Below(R, S, o[i])) = i - 1
        /\ o[j] \in S /\ Cardinality(Below(R, S, o[j])) = j - 1
    BY <1>2 DEF Lists
  <2>2. <<o[i], o[j]>> \in R <=> i - 1 < j - 1
    BY <2>1, Ranks DEF Ranked
  <2>3. o[i] = o[j] => i - 1 = j - 1
    BY <2>1
  <2>. QED
    BY <1>1, <1>2, <2>2, <2>3
<1>4. ASSUME NEW x \in S
      PROVE  \E i \in 1..Len(o) : o[i] = x /\ Cardinality(Below(R, S, x)) = i - 1
  <2>1. Cardinality(Below(R, S, x)) \in 0..(Cardinality(S) - 1)
    BY Ranks DEF Ranked
  <2>. DEFINE i == Cardinality(Below(R, S, x)) + 1
  <2>2. i \in 1..Len(o) /\ Cardinality(Below(R, S, x)) = i - 1
    BY <1>1, <1>2, <2>1
  <2>3. o[i] \in S /\ Cardinality(Below(R, S, o[i])) = i - 1
    BY <1>2, <2>2 DEF Lists
  <2>4. ~(<<o[i], x>> \in R) /\ ~(<<x, o[i]>> \in R)
    <3>1. i - 1 \in Nat
      BY <2>2
    <3>. HIDE DEF i
    <3>. QED
      BY <2>2, <2>3, <3>1, Ranks DEF Ranked
  <2>5. o[i] = x
    BY <2>3, <2>4 DEF Orders
  <2>. QED
    BY <2>2, <2>5
<1>. QED
  BY <1>1, <1>2, <1>3, <1>4

\* Append as a function, whatever the sequence holds.
LEMMA Appended ==
    ASSUME NEW D, NEW b \in Seq(D), NEW x \in D
    PROVE  Append(b, x) = [m \in 1..(Len(b) + 1) |-> IF m = Len(b) + 1 THEN x ELSE b[m]]
<1>1. Append(b, x) \in Seq(D) /\ Len(Append(b, x)) = Len(b) + 1 /\ Len(b) \in Nat
  OBVIOUS
<1>2. Append(b, x) = [m \in 1..(Len(b) + 1) |-> Append(b, x)[m]]
  <2>1. \A a \in Seq(D) : a = [m \in 1..Len(a) |-> a[m]]
    OBVIOUS
  <2>. DEFINE a == Append(b, x)
  <2>2. a \in Seq(D) /\ Len(a) = Len(b) + 1
    BY <1>1
  <2>. HIDE DEF a
  <2>3. a = [m \in 1..(Len(b) + 1) |-> a[m]]
    BY <2>1, <2>2
  <2>. QED
    BY <2>3 DEF a
<1>3. \A m \in 1..(Len(b) + 1) : Append(b, x)[m] = IF m = Len(b) + 1 THEN x ELSE b[m]
  OBVIOUS
<1>. QED
  BY <1>2, <1>3

-----------------------------------------------------------------------------
(* Choosing members of a sequence, one after the other.                    *)

\* g[i] holds the members of s at the positions of T up to i.
Chooses(g, s, T) ==
    /\ g[0] = <<>>
    /\ \A i \in 1..Len(s) : g[i] = IF i \in T THEN Append(g[i - 1], s[i]) ELSE g[i - 1]

\* The positions of T in order.
Increasing(T) == {w \in T \X T : w[1] < w[2]}
Position(T)   == Listing(Increasing(T), T)

\* The positions of T in order: each once, the lower ones first.
LEMMA PositionFacts ==
    ASSUME NEW n \in Nat, NEW T \in SUBSET (1..n)
    PROVE  /\ IsFiniteSet(T) /\ Cardinality(T) \in Nat
           /\ Position(T) \in Seq(T) /\ Len(Position(T)) = Cardinality(T)
           /\ \A a, b \in 1..Cardinality(T) : a < b <=> Position(T)[a] < Position(T)[b]
           /\ \A i \in T : \E m \in 1..Cardinality(T) :
                 Position(T)[m] = i /\ Cardinality({j \in T : j < i}) = m - 1
<1>. DEFINE R == Increasing(T)
<1>1. IsFiniteSet(T)
  <2>1. IsFiniteSet(1..n)
    BY FS_Interval
  <2>. QED
    BY <2>1, FS_Subset
<1>2. \A i, j \in T : <<i, j>> \in R <=> i < j
  <2>. SUFFICES ASSUME NEW i \in T, NEW j \in T PROVE <<i, j>> \in R <=> i < j
    OBVIOUS
  <2>1. <<i, j>> \in T \X T /\ <<i, j>>[1] = i /\ <<i, j>>[2] = j
    OBVIOUS
  <2>. QED
    BY <2>1 DEF Increasing
<1>. HIDE DEF R
<1>3. Orders(R, T)
  BY <1>2 DEF Orders
<1>4. Lists(Position(T), R, T)
  BY <1>1, <1>3, ListingLists DEF Position, R
<1>5. ASSUME NEW i \in T PROVE Below(R, T, i) = {j \in T : j < i}
  BY <1>2 DEF Below
<1>6. /\ Cardinality(T) \in Nat /\ Position(T) \in Seq(T) /\ Len(Position(T)) = Cardinality(T)
      /\ \A a, b \in 1..Len(Position(T)) : a < b <=> <<Position(T)[a], Position(T)[b]>> \in R
      /\ \A x \in T : \E i \in 1..Len(Position(T)) :
            Position(T)[i] = x /\ Cardinality(Below(R, T, x)) = i - 1
  BY <1>1, <1>3, <1>4, ListFacts
<1>7. \A a, b \in 1..Cardinality(T) : a < b <=> Position(T)[a] < Position(T)[b]
  <2>. SUFFICES ASSUME NEW a \in 1..Cardinality(T), NEW b \in 1..Cardinality(T)
                PROVE a < b <=> Position(T)[a] < Position(T)[b]
    OBVIOUS
  <2>1. Position(T)[a] \in T /\ Position(T)[b] \in T
    BY <1>6
  <2>. QED
    BY <1>2, <1>6, <2>1
<1>. QED
  BY <1>1, <1>5, <1>6, <1>7

ChosenTo(i, g, s, T, H) ==
    /\ g[i] \in Seq(H)
    /\ Len(g[i]) = Cardinality(T \cap (1..i))
    /\ Len(g[i]) <= Cardinality(T)
    /\ \A m \in 1..Len(g[i]) : g[i][m] = s[Position(T)[m]] /\ Position(T)[m] <= i

\* What is chosen up to i is what s has at the positions of T, in their order.
LEMMA ChosenFacts ==
    ASSUME NEW H, NEW s \in Seq(H), NEW T \in SUBSET (1..Len(s)), NEW g, Chooses(g, s, T)
    PROVE  \A i \in 0..Len(s) : ChosenTo(i, g, s, T, H)
<1>. DEFINE n == Len(s)
            p == Position(T)
            Fine(i) == /\ g[i] \in Seq(H)
                       /\ Len(g[i]) = Cardinality(T \cap (1..i))
                       /\ Len(g[i]) <= Cardinality(T)
                       /\ \A m \in 1..Len(g[i]) : g[i][m] = s[p[m]] /\ p[m] <= i
            P == {i \in 0..n : Fine(i)}
<1>1. n \in Nat /\ T \in SUBSET (1..n) /\ \A i \in 1..n : s[i] \in H
  OBVIOUS
<1>2. g[0] = <<>> /\ \A i \in 1..n : g[i] = IF i \in T THEN Append(g[i - 1], s[i]) ELSE g[i - 1]
  BY DEF Chooses
<1>. HIDE DEF n
<1>3. /\ IsFiniteSet(T) /\ Cardinality(T) \in Nat
      /\ \A m \in 1..Cardinality(T) : p[m] \in 1..n
      /\ \A i \in T : \E m \in 1..Cardinality(T) : p[m] = i /\ Cardinality({j \in T : j < i}) = m - 1
  <2>1. p \in Seq(T) /\ Len(p) = Cardinality(T)
    BY <1>1, PositionFacts
  <2>2. \A m \in 1..Cardinality(T) : p[m] \in T
    BY <2>1
  <2>. QED
    BY <1>1, <2>2, PositionFacts
<1>. HIDE DEF p
<1>4. Fine(0)
  <2>1. T \cap (1..0) = {}
    OBVIOUS
  <2>2. Cardinality(T \cap (1..0)) = 0
    BY <2>1, FS_EmptySet
  <2>3. g[0] \in Seq(H) /\ Len(g[0]) = 0
    BY <1>2
  <2>. QED
    BY <1>3, <2>2, <2>3
<1>5. ASSUME NEW i \in 1..n, Fine(i - 1) PROVE Fine(i)
  <2>1. i \in Nat /\ i - 1 \in Nat /\ 1 <= i /\ i <= n
    BY <1>1
  <2>2. /\ g[i - 1] \in Seq(H)
        /\ Len(g[i - 1]) = Cardinality(T \cap (1..(i - 1)))
        /\ Len(g[i - 1]) <= Cardinality(T)
        /\ \A m \in 1..Len(g[i - 1]) : g[i - 1][m] = s[p[m]] /\ p[m] <= i - 1
    BY <1>5
  <2>. HIDE DEF Fine
  <2>3. CASE i \notin T
    <3>1. T \cap (1..i) = T \cap (1..(i - 1))
      BY <1>1, <2>3
    <3>2. g[i] = g[i - 1]
      BY <1>2, <2>3
    <3>3. ASSUME NEW m \in 1..Len(g[i - 1]) PROVE p[m] <= i
      <4>1. Len(g[i - 1]) \in Nat
        BY <2>2
      <4>2. m \in 1..Cardinality(T)
        BY <1>3, <2>2, <4>1
      <4>3. p[m] \in 1..n /\ p[m] <= i - 1
        BY <1>3, <2>2, <4>2
      <4>. QED
        BY <1>1, <2>1, <4>3
    <3>. QED
      BY <2>2, <3>1, <3>2, <3>3 DEF Fine
  <2>4. CASE i \in T
    <3>. DEFINE m == Len(g[i - 1]) + 1
    <3>1. T \cap (1..(i - 1)) = {j \in T : j < i} /\ T \cap (1..i) = (T \cap (1..(i - 1))) \cup {i}
          /\ i \notin T \cap (1..(i - 1))
      <4>1. \A j \in T : j \in Nat /\ 1 <= j
        BY <1>1
      <4>2. \A j \in T : (j \in 1..(i - 1) <=> j < i) /\ (j \in 1..i <=> j < i \/ j = i)
        BY <2>1, <4>1
      <4>3. T \cap (1..(i - 1)) = {j \in T : j < i}
        BY <4>2
      <4>4. T \cap (1..i) = {j \in T : j < i} \cup {i}
        BY <2>4, <4>2
      <4>5. i \notin 1..(i - 1)
        BY <2>1
      <4>. QED
        BY <4>3, <4>4, <4>5
    <3>2. PICK k \in 1..Cardinality(T) : p[k] = i /\ Cardinality({j \in T : j < i}) = k - 1
      BY <1>3, <2>4
    <3>3. Len(g[i - 1]) \in Nat /\ k = m
      <4>1. Len(g[i - 1]) \in Nat
        BY <2>2
      <4>2. Len(g[i - 1]) = k - 1
        BY <2>2, <3>1, <3>2
      <4>3. k \in Int
        BY <1>3
      <4>. QED
        BY <4>1, <4>2, <4>3
    <3>4. Cardinality(T \cap (1..i)) = m
      <4>1. IsFiniteSet(T \cap (1..(i - 1)))
        BY <1>3, FS_Subset
      <4>2. Cardinality((T \cap (1..(i - 1))) \cup {i}) = Cardinality(T \cap (1..(i - 1))) + 1
        BY <3>1, <4>1, FS_AddElement
      <4>. QED
        BY <2>2, <3>1, <4>2
    <3>5. g[i] = Append(g[i - 1], s[i]) /\ s[i] \in H
      BY <1>1, <1>2, <2>4
    <3>6. /\ g[i] \in Seq(H) /\ Len(g[i]) = m /\ g[i][m] = s[i]
          /\ \A l \in 1..(m - 1) : g[i][l] = g[i - 1][l]
      <4>. DEFINE u == g[i - 1]
                  x == s[i]
      <4>1. u \in Seq(H) /\ x \in H
        BY <2>2, <3>5
      <4>2. g[i] = Append(u, x) /\ m = Len(u) + 1
        BY <3>5
      <4>. HIDE DEF u, x, m
      <4>3. /\ Append(u, x) \in Seq(H) /\ Len(Append(u, x)) = m /\ Append(u, x)[m] = x
            /\ \A l \in 1..(m - 1) : Append(u, x)[l] = u[l]
        BY <4>1, <4>2
      <4>. QED
        BY <4>2, <4>3 DEF u, x
    <3>7. ASSUME NEW l \in 1..m PROVE g[i][l] = s[p[l]] /\ p[l] <= i
      <4>1. CASE l = m
        BY <3>2, <3>3, <3>6, <4>1
      <4>2. CASE l # m
        <5>1. l \in 1..(m - 1) /\ l \in 1..Len(g[i - 1]) /\ l \in 1..Cardinality(T)
          BY <1>3, <2>2, <3>3, <4>2
        <5>2. g[i - 1][l] = s[p[l]] /\ p[l] <= i - 1 /\ p[l] \in 1..n
          BY <1>3, <2>2, <5>1
        <5>. HIDE DEF m
        <5>. QED
          BY <1>1, <3>6, <5>1, <5>2
      <4>. QED
        BY <4>1, <4>2
    <3>8. m <= Cardinality(T)
      BY <1>3, <3>2, <3>3
    <3>. HIDE DEF m
    <3>. QED
      BY <3>4, <3>6, <3>7, <3>8 DEF Fine
  <2>. QED
    BY <2>3, <2>4
<1>. HIDE DEF Fine
<1>6. \A i \in 0..n : i \in P
  <2>1. 0 \in P /\ \A i \in 1..n : i - 1 \in P => i \in P
    BY <1>1, <1>4, <1>5
  <2>. HIDE DEF P
  <2>. QED
    BY <1>1, <2>1, Induct
<1>. QED
  BY <1>6 DEF Fine, n, p, ChosenTo
-----------------------------------------------------------------------------
(* The three selections choose in this way.                                *)

\* The positions selectDiverse takes: those that find room in what is taken before.
Room(taken, hit, k, quota) ==
    ~(Len(taken) >= k \/ Cardinality(OfDocument(taken, Doc[hit.text])) >= quota)

Diversifies(g, T, hits, k, quota) ==
    /\ T \in SUBSET (1..Len(hits))
    /\ selectDiverse(hits, k, quota) = g[Len(hits)]
    /\ Chooses(g, hits, T)
    /\ \A i \in 1..Len(hits) : i \in T <=> Room(g[i - 1], hits[i], k, quota)

\* The recursion of selectDiverse takes the hits that find room.
LEMMA DiverseChooses ==
    ASSUME NEW H, NEW hits \in Seq(H), NEW k, NEW quota
    PROVE  \E g, T : Diversifies(g, T, hits, k, quota)
<1>. DEFINE n == Len(hits)
            Take(taken, hit) == IF Len(taken) >= k \/ Cardinality(OfDocument(taken, Doc[hit.text])) >= quota
                                THEN taken ELSE Append(taken, hit)
            IsFold(g) == g = [i \in 0..n |-> IF i = 0 THEN <<>> ELSE Take(g[i - 1], hits[i])]
            c == CHOOSE g : IsFold(g)
            T == {i \in 1..n : Room(c[i - 1], hits[i], k, quota)}
<1>1. selectDiverse(hits, k, quota) = c[n]
  BY DEF selectDiverse
<1>2. n \in Nat /\ \A i \in 1..n : hits[i] \in H
  OBVIOUS
<1>. HIDE DEF n
<1>3. \E g : IsFold(g)
  <2>. DEFINE A == Seq(H)
              F == [w \in (1..n) \X A |-> Take(w[2], hits[w[1]])]
  <2>1. ASSUME NEW i \in 1..n, NEW a \in A PROVE Take(a, hits[i]) \in A
    BY <1>2
  <2>2. <<>> \in A
    OBVIOUS
  <2>. HIDE DEF A, Take
  <2>3. F \in [(1..n) \X A -> A]
    BY <2>1
  <2>4. ASSUME NEW i \in 1..n, NEW a \in A PROVE F[<<i, a>>] = Take(a, hits[i])
    OBVIOUS
  <2>. HIDE DEF F
  <2>5. PICK g : Unfolds(g, n, A, <<>>, F)
    BY <1>2, <2>2, <2>3, Recursion
  <2>6. ASSUME NEW i \in 0..n PROVE g[i] = IF i = 0 THEN <<>> ELSE Take(g[i - 1], hits[i])
    <3>1. CASE i = 0
      BY <2>5, <3>1 DEF Unfolds
    <3>2. CASE i # 0
      <4>1. i \in 1..n /\ i - 1 \in 0..n
        BY <1>2, <3>2
      <4>. QED
        BY <2>4, <2>5, <3>2, <4>1 DEF Unfolds
    <3>. QED
      BY <3>1, <3>2
  <2>. QED
    BY <2>5, <2>6 DEF Unfolds
<1>. HIDE DEF Take
<1>4. IsFold(c)
  BY <1>3
<1>. HIDE DEF c
<1>5. c[0] = <<>> /\ \A i \in 1..n : c[i] = Take(c[i - 1], hits[i])
  BY <1>2, <1>4
<1>6. Chooses(c, hits, T)
  <2>1. ASSUME NEW i \in 1..n
        PROVE  c[i] = IF i \in T THEN Append(c[i - 1], hits[i]) ELSE c[i - 1]
    BY <1>5 DEF Room, Take
  <2>. HIDE DEF T
  <2>. QED
    BY <1>5, <2>1 DEF Chooses, n
<1>7. Diversifies(c, T, hits, k, quota)
  BY <1>1, <1>6 DEF n, Diversifies
<1>. QED
  BY <1>7

\* The candidates as they are named, of which RankedBy takes the first of each.
FirstNamed(results, n) == {r \in 1..n : \A q \in 1..(r - 1) : results[q].index # results[r].index}

\* The recursion of RankedBy takes the candidates where they are first named.
LEMMA RankedChooses ==
    ASSUME NEW hits, NEW results, NEW n \in Nat, DOMAIN results = 1..n, Len(results) = n
    PROVE  \E g : /\ RankedBy(hits, results) = g[n]
                  /\ Chooses(g, RankedAsNamed(hits, results), FirstNamed(results, n))
<1>. DEFINE s == RankedAsNamed(hits, results)
            First(r) == \A q \in 1..(r - 1) : results[q].index # results[r].index
            Named(r) == [hits[results[r].index] EXCEPT !.rerankRank = r, !.rerankScore = results[r].score]
            Take(taken, r) == IF First(r) THEN Append(taken, Named(r)) ELSE taken
            IsFold(g) == g = [r \in 0..n |-> IF r = 0 THEN <<>> ELSE Take(g[r - 1], r)]
            c == CHOOSE g : IsFold(g)
            T == {r \in 1..n : First(r)}
            A == Seq({s[r] : r \in 1..n})
<1>1. RankedBy(hits, results) = c[n]
  BY DEF RankedBy
<1>2. s = [r \in 1..n |-> Named(r)]
  BY DEF RankedAsNamed
<1>. HIDE DEF s, Named, First
<1>3. \A r \in 1..n : s[r] = Named(r)
  BY <1>2
<1>4. DOMAIN s = 1..n /\ Len(s) = n
  <2>1. s \in Seq({s[r] : r \in 1..n})
    BY <1>2
  <2>. QED
    BY <1>2, <2>1
<1>5. \E g : IsFold(g)
  <2>. DEFINE F == [w \in (1..n) \X A |-> Take(w[2], w[1])]
  <2>1. ASSUME NEW r \in 1..n, NEW a \in A PROVE Take(a, r) \in A
    BY <1>3
  <2>2. <<>> \in A
    OBVIOUS
  <2>. HIDE DEF A, Take
  <2>3. F \in [(1..n) \X A -> A]
    BY <2>1
  <2>4. ASSUME NEW r \in 1..n, NEW a \in A PROVE F[<<r, a>>] = Take(a, r)
    OBVIOUS
  <2>. HIDE DEF F
  <2>5. PICK g : Unfolds(g, n, A, <<>>, F)
    BY <2>2, <2>3, Recursion
  <2>6. ASSUME NEW r \in 0..n PROVE g[r] = IF r = 0 THEN <<>> ELSE Take(g[r - 1], r)
    <3>1. CASE r = 0
      BY <2>5, <3>1 DEF Unfolds
    <3>2. CASE r # 0
      <4>1. r \in 1..n /\ r - 1 \in 0..n
        BY <3>2
      <4>. QED
        BY <2>4, <2>5, <3>2, <4>1 DEF Unfolds
    <3>. QED
      BY <3>1, <3>2
  <2>. QED
    BY <2>5, <2>6 DEF Unfolds
<1>. HIDE DEF Take
<1>6. IsFold(c)
  BY <1>5
<1>. HIDE DEF c
<1>7. c[0] = <<>> /\ \A r \in 1..n : c[r] = Take(c[r - 1], r)
  BY <1>6
<1>8. Chooses(c, s, T)
  <2>1. ASSUME NEW r \in 1..n
        PROVE  c[r] = IF r \in T THEN Append(c[r - 1], s[r]) ELSE c[r - 1]
    BY <1>3, <1>7 DEF Take
  <2>. HIDE DEF T
  <2>. QED
    BY <1>4, <1>7, <2>1 DEF Chooses
<1>9. T = FirstNamed(results, n)
  BY DEF First, FirstNamed
<1>. QED
  BY <1>1, <1>8, <1>9 DEF s

\* The blocks of the citations so far.
Blocks(citations) == [m \in 1..Len(citations) |-> Block(m, citations[m])]
Context(citations) == [citations |-> citations, blocks |-> Blocks(citations)]

Contextualises(g, T, hits, s, n) ==
    /\ T \in SUBSET (1..n)
    /\ PrepareGenerationContext(hits) = Context(g[n])
    /\ Chooses(g, s, T)
    /\ \A i \in 1..n : i \in T <=> ~Skipped(Context(g[i - 1]), s[i])

\* The recursion of PrepareGenerationContext takes the hits that are not skipped,
\* and its blocks are those of its citations.
LEMMA ContextChooses ==
    ASSUME NEW hits, NEW n \in Nat, NEW s, s = StableSort(hits, generationScore),
           DOMAIN s = 1..n, Len(s) = n
    PROVE  \E g, T : Contextualises(g, T, hits, s, n)
<1>. DEFINE H == {s[i] : i \in 1..n}
            Take(acc, hit) ==
                IF Skipped(acc, hit) THEN acc
                ELSE [citations |-> Append(acc.citations, hit),
                      blocks    |-> Append(acc.blocks, Block(Len(acc.citations) + 1, hit))]
            IsFold(g) == g = [i \in 0..n |-> IF i = 0 THEN [citations |-> <<>>, blocks |-> <<>>]
                                             ELSE Take(g[i - 1], s[i])]
            c == CHOOSE g : IsFold(g)
            g0 == [i \in 0..n |-> c[i].citations]
            T == {i \in 1..n : ~Skipped(Context(g0[i - 1]), s[i])}
            A == {Context(q) : q \in Seq(H)}
<1>1. PrepareGenerationContext(hits) = c[n]
  BY DEF PrepareGenerationContext
<1>2. \A i \in 1..n : s[i] \in H
  OBVIOUS
<1>. HIDE DEF H
<1>3. [citations |-> <<>>, blocks |-> <<>>] = Context(<<>>)
  <2>1. Blocks(<<>>) = <<>>
    BY DEF Blocks
  <2>. QED
    BY <2>1 DEF Context
<1>4. ASSUME NEW q \in Seq(H), NEW h \in H
      PROVE  /\ Append(q, h) \in Seq(H)
             /\ [citations |-> Append(q, h), blocks |-> Append(Blocks(q), Block(Len(q) + 1, h))]
                   = Context(Append(q, h))
  <2>1. Append(q, h) \in Seq(H) /\ Len(Append(q, h)) = Len(q) + 1 /\ Len(q) \in Nat
        /\ \A m \in 1..Len(q) : Append(q, h)[m] = q[m]
        /\ Append(q, h)[Len(q) + 1] = h
    OBVIOUS
  <2>. DEFINE b == Blocks(q)
              k == Len(q)
              D == {Block(m, q[m]) : m \in 1..k}
              x == Block(k + 1, h)
              u == Append(q, h)
  <2>2. b \in Seq(D) /\ Len(b) = k /\ \A m \in 1..k : b[m] = Block(m, q[m])
    BY <2>1 DEF Blocks
  <2>. HIDE DEF b, x, k, D
  <2>3. Append(b, x) = [m \in 1..(k + 1) |-> IF m = k + 1 THEN x ELSE b[m]]
    <3>. HIDE DEF u
    <3>1. b \in Seq(D \cup {x}) /\ x \in D \cup {x} /\ Len(b) = k
      BY <2>1, <2>2 DEF k
    <3>. QED
      BY <3>1, Appended
  <2>4. Blocks(u) = [m \in 1..(k + 1) |-> Block(m, u[m])]
    BY <2>1 DEF Blocks, k
  <2>5. \A m \in 1..(k + 1) : Block(m, u[m]) = IF m = k + 1 THEN x ELSE b[m]
    BY <2>1, <2>2 DEF k, x
  <2>6. Append(b, x) = Blocks(u)
    BY <2>3, <2>4, <2>5
  <2>. QED
    BY <2>1, <2>6 DEF Context, b, x, k
<1>5. \E g : IsFold(g)
  <2>. DEFINE F == [w \in (1..n) \X A |-> Take(w[2], s[w[1]])]
  <2>1. ASSUME NEW i \in 1..n, NEW a \in A PROVE Take(a, s[i]) \in A
    <3>1. PICK q \in Seq(H) : a = Context(q)
      OBVIOUS
    <3>2. Append(q, s[i]) \in Seq(H) /\ Take(a, s[i]) \in {a, Context(Append(q, s[i]))}
      BY <1>2, <1>4, <3>1 DEF Context
    <3>. HIDE DEF Take
    <3>. QED
      BY <3>2
  <2>2. [citations |-> <<>>, blocks |-> <<>>] \in A
    <3>1. <<>> \in Seq(H)
      OBVIOUS
    <3>. QED
      BY <1>3, <3>1
  <2>. HIDE DEF A, Take
  <2>3. F \in [(1..n) \X A -> A]
    BY <2>1
  <2>4. ASSUME NEW i \in 1..n, NEW a \in A PROVE F[<<i, a>>] = Take(a, s[i])
    OBVIOUS
  <2>. HIDE DEF F
  <2>5. PICK g : Unfolds(g, n, A, [citations |-> <<>>, blocks |-> <<>>], F)
    BY <2>2, <2>3, Recursion
  <2>6. ASSUME NEW i \in 0..n
        PROVE  g[i] = IF i = 0 THEN [citations |-> <<>>, blocks |-> <<>>] ELSE Take(g[i - 1], s[i])
    <3>1. CASE i = 0
      BY <2>5, <3>1 DEF Unfolds
    <3>2. CASE i # 0
      <4>1. i \in 1..n /\ i - 1 \in 0..n
        BY <3>2
      <4>. QED
        BY <2>4, <2>5, <3>2, <4>1 DEF Unfolds
    <3>. QED
      BY <3>1, <3>2
  <2>. QED
    BY <2>5, <2>6 DEF Unfolds
<1>6. IsFold(c)
  <2>. HIDE DEF Take
  <2>. QED
    BY <1>5
<1>. HIDE DEF c
<1>7. c[0] = Context(<<>>) /\ \A i \in 1..n : c[i] = Take(c[i - 1], s[i])
  <2>. HIDE DEF Take
  <2>. QED
    BY <1>3, <1>6
<1>8. \A q : Context(q).citations = q /\ Context(q).blocks = Blocks(q)
  BY DEF Context
<1>9. \A i \in 0..n : i \in {j \in 0..n : c[j] = Context(g0[j]) /\ g0[j] \in Seq(H)}
  <2>. DEFINE Fine(j) == c[j] = Context(g0[j]) /\ g0[j] \in Seq(H)
              P == {j \in 0..n : Fine(j)}
  <2>1. Fine(0)
    <3>1. <<>> \in Seq(H) /\ 0 \in 0..n
      OBVIOUS
    <3>2. g0[0] = <<>> /\ c[0] = Context(<<>>)
      BY <1>7, <1>8, <3>1
    <3>. QED
      BY <3>1, <3>2
  <2>2. ASSUME NEW i \in 1..n, Fine(i - 1) PROVE Fine(i)
    <3>1. i - 1 \in 0..n /\ i \in 0..n
      OBVIOUS
    <3>2. c[i - 1] = Context(g0[i - 1]) /\ g0[i - 1] \in Seq(H) /\ g0[i] = c[i].citations
      BY <2>2, <3>1
    <3>. HIDE DEF g0, Take
    <3>3. Take(c[i - 1], s[i]) = c[i - 1] \/ Take(c[i - 1], s[i]) = Context(Append(g0[i - 1], s[i]))
      <4>1. c[i - 1].citations = g0[i - 1] /\ c[i - 1].blocks = Blocks(g0[i - 1])
        BY <1>8, <3>2
      <4>2. [citations |-> Append(g0[i - 1], s[i]),
             blocks |-> Append(Blocks(g0[i - 1]), Block(Len(g0[i - 1]) + 1, s[i]))]
               = Context(Append(g0[i - 1], s[i]))
        BY <1>2, <1>4, <3>2
      <4>. QED
        BY <4>1, <4>2 DEF Take
    <3>4. c[i] = c[i - 1] \/ c[i] = Context(Append(g0[i - 1], s[i]))
      BY <1>7, <3>3
    <3>5. Append(g0[i - 1], s[i]) \in Seq(H)
      BY <1>2, <1>4, <3>2
    <3>6. g0[i] \in {g0[i - 1], Append(g0[i - 1], s[i])} /\ c[i] = Context(g0[i])
      BY <1>8, <3>2, <3>4
    <3>. QED
      BY <3>2, <3>5, <3>6
  <2>. HIDE DEF Fine
  <2>3. 0 \in P /\ \A i \in 1..n : i - 1 \in P => i \in P
    BY <2>1, <2>2
  <2>. HIDE DEF P
  <2>4. \A i \in 0..n : i \in P
    BY <2>3, Induct
  <2>. QED
    BY <2>4 DEF P, Fine
<1>10. Chooses(g0, s, T)
  <2>1. g0[0] = <<>>
    BY <1>7, <1>8
  <2>2. ASSUME NEW i \in 1..n
        PROVE  g0[i] = IF i \in T THEN Append(g0[i - 1], s[i]) ELSE g0[i - 1]
    <3>1. i - 1 \in 0..n /\ i \in 0..n
      OBVIOUS
    <3>2. c[i - 1] = Context(g0[i - 1]) /\ g0[i] = c[i].citations
      BY <1>9, <3>1
    <3>3. i \in T <=> ~Skipped(Context(g0[i - 1]), s[i])
      OBVIOUS
    <3>4. c[i - 1].citations = g0[i - 1] /\ c[i - 1].blocks = Blocks(g0[i - 1])
      BY <1>8, <3>2
    <3>. HIDE DEF g0, T
    <3>5. c[i] = IF i \in T THEN [citations |-> Append(g0[i - 1], s[i]),
                                  blocks |-> Append(Blocks(g0[i - 1]), Block(Len(g0[i - 1]) + 1, s[i]))]
                 ELSE c[i - 1]
      BY <1>7, <3>2, <3>3, <3>4
    <3>. QED
      BY <3>2, <3>4, <3>5
  <2>. HIDE DEF T, g0
  <2>. QED
    BY <2>1, <2>2 DEF Chooses
<1>11. PrepareGenerationContext(hits) = Context(g0[n])
  BY <1>1, <1>9
<1>. HIDE DEF g0
<1>12. Contextualises(g0, T, hits, s, n)
  BY <1>10, <1>11 DEF Contextualises
<1>. QED
  BY <1>12

-----------------------------------------------------------------------------
(* What has been chosen so far.                                            *)

\* A bijection keeps the number of members.
LEMMA SameCount ==
    ASSUME NEW S, NEW T, IsFiniteSet(S), NEW f \in [S -> T],
           \A x, y \in S : f[x] = f[y] => x = y,
           \A t \in T : \E x \in S : f[x] = t
    PROVE  IsFiniteSet(T) /\ Cardinality(T) = Cardinality(S)
<1>1. f \in Bijection(S, T)
  BY DEF Bijection, Injection, Surjection, IsInjective
<1>. QED
  BY <1>1, FS_Bijection DEF ExistsBijection

MembersTo(i, g, s, T) ==
    /\ \A m \in 1..Len(g[i]) : Position(T)[m] \in T \cap (1..i) /\ g[i][m] = s[Position(T)[m]]
    /\ \A a, b \in 1..Len(g[i]) : a < b <=> Position(T)[a] < Position(T)[b]
    /\ \A j \in T \cap (1..i) : \E m \in 1..Len(g[i]) : Position(T)[m] = j

\* What is chosen up to i comes from the positions of T up to i, and all of them.
LEMMA ChosenMembers ==
    ASSUME NEW H, NEW s \in Seq(H), NEW T \in SUBSET (1..Len(s)), NEW g, Chooses(g, s, T),
           NEW i \in 0..Len(s)
    PROVE  MembersTo(i, g, s, T)
<1>. DEFINE p == Position(T)
            n == Len(s)
            l == Len(g[i])
            c == Cardinality(T)
<1>1. /\ n \in Nat /\ T \in SUBSET (1..n) /\ i \in Nat /\ i <= n
      /\ \A j \in T : j \in Nat /\ 1 <= j
  OBVIOUS
<1>2. /\ g[i] \in Seq(H) /\ l = Cardinality(T \cap (1..i)) /\ l <= c
      /\ \A m \in 1..l : g[i][m] = s[p[m]] /\ p[m] <= i
  <2>1. ChosenTo(i, g, s, T, H)
    BY ChosenFacts
  <2>. QED
    BY <2>1 DEF ChosenTo
<1>. HIDE DEF n, p
<1>3. /\ IsFiniteSet(T) /\ c \in Nat
      /\ p \in Seq(T) /\ Len(p) = c
      /\ \A a, b \in 1..c : a < b <=> p[a] < p[b]
      /\ \A j \in T : \E m \in 1..c : p[m] = j /\ Cardinality({k \in T : k < j}) = m - 1
  BY <1>1, PositionFacts DEF p
<1>4. l \in Nat
  BY <1>2
<1>. HIDE DEF l, c
<1>5. ASSUME NEW m \in 1..l PROVE m \in 1..c /\ p[m] \in T \cap (1..i)
  <2>1. m \in 1..c
    BY <1>2, <1>3, <1>4
  <2>2. p[m] \in T
    BY <1>3, <2>1
  <2>3. p[m] <= i
    BY <1>2
  <2>4. p[m] \in Nat /\ 1 <= p[m]
    BY <1>1, <2>2
  <2>. QED
    BY <1>1, <2>1, <2>2, <2>3, <2>4
<1>6. ASSUME NEW j \in T \cap (1..i) PROVE \E m \in 1..l : p[m] = j
  <2>1. PICK m \in 1..c : p[m] = j /\ Cardinality({k \in T : k < j}) = m - 1
    BY <1>3
  <2>. DEFINE A == {k \in T : k < j}
              B == T \cap (1..i)
  <2>2. A \cup {j} \in SUBSET B /\ j \notin A
    <3>1. j \in Nat /\ j <= i /\ \A k \in T : k \in Nat /\ 1 <= k
      BY <1>1
    <3>2. ASSUME NEW k \in T, k < j PROVE k \in 1..i
      BY <1>1, <3>1, <3>2
    <3>3. j \in T /\ j \in 1..i /\ ~(j < j)
      BY <3>1
    <3>. QED
      BY <3>2, <3>3
  <2>3. IsFiniteSet(A) /\ IsFiniteSet(B)
    BY <1>3, FS_Subset
  <2>. HIDE DEF A, B
  <2>4. Cardinality(A \cup {j}) = Cardinality(A) + 1 /\ Cardinality(A \cup {j}) <= Cardinality(B)
    BY <2>2, <2>3, FS_AddElement, FS_Subset
  <2>5. m <= l
    BY <1>2, <1>3, <2>1, <2>4 DEF A, B
  <2>. QED
    BY <1>3, <1>4, <2>1, <2>5
<1>. QED
  BY <1>2, <1>3, <1>5, <1>6 DEF p, l, MembersTo

\* The positions in U at which s has a member of X.
PlacesOf(X, s, U) == {j \in U : s[j] \in X}

\* As many are chosen of X as there are positions of members of X.
Counts(i, g, s, T, X) ==
    Cardinality(PlacesOf(X, g[i], 1..Len(g[i]))) = Cardinality(PlacesOf(X, s, T \cap (1..i)))

\* Counting the members of X in what is chosen is counting their positions.
LEMMA ChosenCount ==
    ASSUME NEW H, NEW s \in Seq(H), NEW T \in SUBSET (1..Len(s)), NEW g, Chooses(g, s, T),
           NEW i \in 0..Len(s), NEW X
    PROVE  Counts(i, g, s, T, X)
<1>. DEFINE p == Position(T)
            M == {m \in 1..Len(g[i]) : g[i][m] \in X}
            J == {j \in T \cap (1..i) : s[j] \in X}
            f == [m \in M |-> p[m]]
<1>1. /\ \A m \in 1..Len(g[i]) : p[m] \in T \cap (1..i) /\ g[i][m] = s[p[m]]
      /\ \A a, b \in 1..Len(g[i]) : a < b <=> p[a] < p[b]
      /\ \A j \in T \cap (1..i) : \E m \in 1..Len(g[i]) : p[m] = j
  BY ChosenMembers DEF MembersTo
<1>2. g[i] \in Seq(H) /\ Len(g[i]) \in Nat
  <2>1. ChosenTo(i, g, s, T, H)
    BY ChosenFacts
  <2>. QED
    BY <2>1 DEF ChosenTo
<1>. HIDE DEF p
<1>3. IsFiniteSet(M)
  <2>1. IsFiniteSet(1..Len(g[i]))
    BY <1>2, FS_Interval
  <2>. QED
    BY <2>1, FS_Subset
<1>4. f \in [M -> J]
  BY <1>1
<1>5. ASSUME NEW a \in M, NEW b \in M, f[a] = f[b] PROVE a = b
  <2>1. a \in 1..Len(g[i]) /\ b \in 1..Len(g[i]) /\ p[a] = p[b] /\ p[a] \in 1..i
    BY <1>1, <1>5
  <2>2. ~(p[a] < p[b]) /\ ~(p[b] < p[a])
    BY <2>1
  <2>3. ~(a < b) /\ ~(b < a)
    BY <1>1, <2>1, <2>2
  <2>. QED
    BY <1>2, <2>1, <2>3
<1>6. ASSUME NEW j \in J PROVE \E m \in M : f[m] = j
  BY <1>1
<1>. HIDE DEF M, J, f
<1>7. Cardinality(J) = Cardinality(M)
  BY <1>3, <1>4, <1>5, <1>6, SameCount
<1>. QED
  BY <1>7 DEF M, J, PlacesOf, Counts

\* What is chosen up to i is the beginning of all that is chosen.
LEMMA ChosenPrefix ==
    ASSUME NEW H, NEW s \in Seq(H), NEW T \in SUBSET (1..Len(s)), NEW g, Chooses(g, s, T),
           NEW i \in 0..Len(s)
    PROVE  /\ Len(g[i]) \in Nat /\ Len(g[i]) <= Len(g[Len(s)])
           /\ \A m \in 1..Len(g[i]) : g[i][m] = g[Len(s)][m]
<1>. DEFINE n == Len(s)
<1>1. n \in Nat /\ n \in 0..n /\ i \in Nat /\ i <= n
  OBVIOUS
<1>2. ChosenTo(i, g, s, T, H) /\ ChosenTo(n, g, s, T, H)
  BY <1>1, ChosenFacts
<1>. HIDE DEF n
<1>3. /\ g[i] \in Seq(H) /\ Len(g[i]) = Cardinality(T \cap (1..i))
      /\ \A m \in 1..Len(g[i]) : g[i][m] = s[Position(T)[m]]
  BY <1>2 DEF ChosenTo
<1>4. /\ g[n] \in Seq(H) /\ Len(g[n]) = Cardinality(T \cap (1..n))
      /\ \A m \in 1..Len(g[n]) : g[n][m] = s[Position(T)[m]]
  BY <1>2 DEF ChosenTo
<1>5. IsFiniteSet(T) /\ T \in SUBSET (1..n)
  BY <1>1, PositionFacts DEF n
<1>6. T \cap (1..i) \in SUBSET (T \cap (1..n)) /\ T \cap (1..n) = T
  BY <1>1, <1>5
<1>7. Cardinality(T \cap (1..i)) <= Cardinality(T \cap (1..n))
  BY <1>5, <1>6, FS_Subset
<1>8. Len(g[i]) \in Nat /\ Len(g[n]) \in Nat
  BY <1>3, <1>4
<1>9. ASSUME NEW m \in 1..Len(g[i]) PROVE g[i][m] = g[n][m]
  <2>1. m \in 1..Len(g[n])
    BY <1>3, <1>4, <1>7, <1>8
  <2>. QED
    BY <1>3, <1>4, <2>1
<1>. QED
  BY <1>3, <1>4, <1>7, <1>8, <1>9 DEF n

-----------------------------------------------------------------------------
(* The first few.                                                          *)

FirstOf(S, k) == {i \in S : Cardinality(Ahead(i, S)) < k}

\* Whether k of S are ahead of i can be seen from the first k of S alone.
LEMMA FirstFew ==
    ASSUME NEW n \in Nat, NEW S \in SUBSET (1..n), NEW k \in Nat,
           NEW F, F = FirstOf(S, k), NEW i \in 1..n
    PROVE  /\ Cardinality(Ahead(i, F)) >= k <=> Cardinality(Ahead(i, S)) >= k
           /\ Cardinality(Ahead(i, S)) < k => Ahead(i, F) = Ahead(i, S)
<1>1. IsFiniteSet(S)
  <2>1. IsFiniteSet(1..n)
    BY FS_Interval
  <2>. QED
    BY <2>1, FS_Subset
<1>2. ASSUME NEW j \in Nat
      PROVE  /\ IsFiniteSet(Ahead(j, S)) /\ Cardinality(Ahead(j, S)) \in Nat
             /\ IsFiniteSet(Ahead(j, F)) /\ Cardinality(Ahead(j, F)) \in Nat
             /\ Cardinality(Ahead(j, F)) <= Cardinality(Ahead(j, S))
  <2>1. Ahead(j, S) \in SUBSET S /\ Ahead(j, F) \in SUBSET Ahead(j, S)
    BY DEF Ahead, FirstOf
  <2>2. IsFiniteSet(Ahead(j, S))
    BY <1>1, <2>1, FS_Subset
  <2>3. IsFiniteSet(Ahead(j, F)) /\ Cardinality(Ahead(j, F)) <= Cardinality(Ahead(j, S))
    BY <2>1, <2>2, FS_Subset
  <2>. QED
    BY <2>2, <2>3, FS_CardinalityType
<1>3. S \in SUBSET Nat /\ i \in Nat
  OBVIOUS
<1>4. ASSUME Cardinality(Ahead(i, S)) < k PROVE Ahead(i, F) = Ahead(i, S)
  <2>1. ASSUME NEW j \in Ahead(i, S) PROVE j \in F
    <3>1. j \in S /\ j < i /\ j \in Nat
      BY <1>3 DEF Ahead
    <3>2. Ahead(j, S) \in SUBSET Ahead(i, S)
      <4>1. \A l \in S : l < j => l < i
        BY <1>3, <3>1
      <4>. QED
        BY <4>1 DEF Ahead
    <3>3. Cardinality(Ahead(j, S)) <= Cardinality(Ahead(i, S))
      BY <1>2, <1>3, <3>2, FS_Subset
    <3>. QED
      BY <1>2, <1>3, <1>4, <3>1, <3>3 DEF FirstOf
  <2>. QED
    BY <2>1 DEF Ahead, FirstOf
<1>5. ASSUME Cardinality(Ahead(i, S)) >= k PROVE Cardinality(Ahead(i, F)) >= k
  <2>. SUFFICES ASSUME Cardinality(Ahead(i, F)) < k PROVE FALSE
    BY <1>2, <1>3
  <2>1. Ahead(i, S) \ F # {}
    <3>1. Ahead(i, F) # Ahead(i, S)
      BY <1>2, <1>3, <1>5
    <3>. QED
      BY <3>1 DEF Ahead, FirstOf
  <2>2. Ahead(i, S) \ F \in SUBSET Nat
    BY <1>3 DEF Ahead
  <2>3. PICK j \in Ahead(i, S) \ F : \A y \in Ahead(i, S) \ F : j <= y
    BY <2>1, <2>2, Least
  <2>4. j \in S /\ j < i /\ j \in Nat /\ j \notin F
    BY <1>3, <2>3 DEF Ahead
  <2>5. Ahead(j, S) \in SUBSET Ahead(i, F)
    <3>1. ASSUME NEW y \in Ahead(j, S) PROVE y \in Ahead(i, F)
      <4>1. y \in S /\ y < j /\ y \in Nat /\ y < i
        BY <1>3, <2>4 DEF Ahead
      <4>2. y \in F
        BY <2>3, <4>1, <2>4 DEF Ahead
      <4>. QED
        BY <4>1, <4>2 DEF Ahead
    <3>. QED
      BY <3>1
  <2>6. Cardinality(Ahead(j, S)) <= Cardinality(Ahead(i, F))
    BY <1>2, <1>3, <2>5, FS_Subset
  <2>. QED
    BY <1>2, <1>3, <2>4, <2>6 DEF FirstOf
<1>. QED
  BY <1>2, <1>3, <1>4, <1>5

-----------------------------------------------------------------------------
(* What selectDiverse takes is what there is room for.                     *)

RoomyIn(r, k) ==
    LET distinct == {i \in DOMAIN r : \A j \in 1..(i - 1) : r[j].id # r[i].id}
        SameDoc(i) == {j \in distinct : Doc[r[j].text] = Doc[r[i].text]}
        within == {i \in distinct : Cardinality(Ahead(i, SameDoc(i))) < RerankMaxPerDoc}
    IN {i \in within : Cardinality(Ahead(i, within)) < k}

\* No chunk twice.
Distinct(r) == \A i, j \in DOMAIN r : r[i].id = r[j].id => i = j

\* The positions in U at which s has a hit of document d.
Places(d, s, U) == {j \in U : Doc[s[j].text] = d}

\* How many of a document have been chosen.
LEMMA ChosenOfDocument ==
    ASSUME NEW H, NEW s \in Seq(H), NEW T \in SUBSET (1..Len(s)), NEW g, Chooses(g, s, T),
           NEW i \in 1..Len(s), NEW d
    PROVE  Cardinality(OfDocument(g[i - 1], d)) = Cardinality(Places(d, s, Ahead(i, T)))
<1>. DEFINE X == {h \in H : Doc[h.text] = d}
<1>1. i - 1 \in 0..Len(s)
  OBVIOUS
<1>2. g[i - 1] \in Seq(H)
  <2>1. ChosenTo(i - 1, g, s, T, H)
    BY <1>1, ChosenFacts
  <2>. QED
    BY <2>1 DEF ChosenTo
<1>3. OfDocument(g[i - 1], d) = PlacesOf(X, g[i - 1], 1..Len(g[i - 1]))
  BY <1>2 DEF OfDocument, PlacesOf
<1>4. Places(d, s, Ahead(i, T)) = PlacesOf(X, s, T \cap (1..(i - 1)))
  <2>1. \A j \in T : (j < i <=> j \in 1..(i - 1)) /\ s[j] \in H
    OBVIOUS
  <2>. QED
    BY <2>1 DEF Ahead, Places, PlacesOf
<1>. HIDE DEF X
<1>5. Counts(i - 1, g, s, T, X)
  BY <1>1, ChosenCount
<1>. QED
  BY <1>3, <1>4, <1>5 DEF Counts

\* The greedy selection of selectDiverse takes the positions Roomy describes.
LEMMA DiverseIsRoomy ==
    ASSUME NEW H, NEW r \in Seq(H), Distinct(r), NEW k \in Nat, RerankMaxPerDoc \in Nat,
           NEW g, NEW T \in SUBSET (1..Len(r)), Chooses(g, r, T),
           \A i \in 1..Len(r) : i \in T <=> Room(g[i - 1], r[i], k, RerankMaxPerDoc)
    PROVE  T = RoomyIn(r, k)
<1>. DEFINE n == Len(r)
            D == 1..n
            SameDoc(i) == {j \in D : Doc[r[j].text] = Doc[r[i].text]}
            W == {i \in D : Cardinality(Ahead(i, SameDoc(i))) < RerankMaxPerDoc}
            F == FirstOf(W, k)
            P == {i \in 0..n : T \cap (1..i) = F \cap (1..i)}
<1>1. RoomyIn(r, k) = F
  <2>1. {i \in DOMAIN r : \A j \in 1..(i - 1) : r[j].id # r[i].id} = D
    <3>1. ASSUME NEW i \in D, NEW j \in 1..(i - 1) PROVE r[j].id # r[i].id
      BY DEF Distinct
    <3>. QED
      BY <3>1
  <2>. QED
    BY <2>1 DEF RoomyIn, FirstOf
<1>2. n \in Nat /\ T \in SUBSET D /\ W \in SUBSET D /\ F \in SUBSET W
  BY DEF FirstOf
<1>3. ASSUME NEW i \in D
      PROVE  /\ Len(g[i - 1]) = Cardinality(T \cap (1..(i - 1)))
             /\ Cardinality(OfDocument(g[i - 1], Doc[r[i].text]))
                   = Cardinality(Places(Doc[r[i].text], r, Ahead(i, T)))
  <2>1. ChosenTo(i - 1, g, r, T, H)
    BY ChosenFacts
  <2>. QED
    BY <2>1, ChosenOfDocument DEF ChosenTo
<1>4. \A i \in D : i \in T <=> Room(g[i - 1], r[i], k, RerankMaxPerDoc)
  OBVIOUS
<1>. HIDE DEF n
<1>5. ASSUME NEW i \in D, NEW S \in SUBSET D
      PROVE  Ahead(i, S) = S \cap (1..(i - 1)) /\ IsFiniteSet(S) /\ Cardinality(Ahead(i, S)) \in Nat
  <2>1. \A j \in S : j < i <=> j \in 1..(i - 1)
    BY <1>2
  <2>2. IsFiniteSet(D)
    BY <1>2, FS_Interval
  <2>. HIDE DEF D
  <2>3. Ahead(i, S) \in SUBSET D
    BY DEF Ahead
  <2>4. IsFiniteSet(S) /\ IsFiniteSet(Ahead(i, S))
    BY <2>2, <2>3, FS_Subset
  <2>5. Cardinality(Ahead(i, S)) \in Nat
    BY <2>4, FS_CardinalityType
  <2>. QED
    BY <2>1, <2>4, <2>5 DEF Ahead
<1>6. 0 \in P
  BY <1>2
<1>7. ASSUME NEW i \in D, i - 1 \in P PROVE i \in P
  <2>1. T \cap (1..(i - 1)) = F \cap (1..(i - 1)) /\ i \in 1..n /\ i \in 0..n
    <3>. HIDE DEF F
    <3>. QED
      BY <1>2, <1>7
  <2>. DEFINE d == Doc[r[i].text]
              S == SameDoc(i)
              V == FirstOf(S, RerankMaxPerDoc)
  <2>2. Ahead(i, T) = Ahead(i, F) /\ Len(g[i - 1]) = Cardinality(Ahead(i, F))
    BY <1>2, <1>3, <1>5, <2>1
  <2>3. S \in SUBSET D /\ V \in SUBSET D
    BY DEF FirstOf
  <2>4. V = Places(d, r, W)
    <3>1. ASSUME NEW j \in D, Doc[r[j].text] = d PROVE SameDoc(j) = S
      BY <3>1
    <3>. HIDE DEF SameDoc
    <3>2. V = {j \in D : Doc[r[j].text] = d /\ Cardinality(Ahead(j, SameDoc(j))) < RerankMaxPerDoc}
      BY <3>1 DEF SameDoc, FirstOf
    <3>. QED
      BY <3>2 DEF Places
  <2>5. i \in W <=> Cardinality(Ahead(i, S)) < RerankMaxPerDoc
    OBVIOUS
  <2>6. /\ Cardinality(Ahead(i, V)) >= RerankMaxPerDoc <=> Cardinality(Ahead(i, S)) >= RerankMaxPerDoc
        /\ {Cardinality(Ahead(i, V)), Cardinality(Ahead(i, S))} \subseteq Nat
    <3>. HIDE DEF S
    <3>1. Cardinality(Ahead(i, V)) >= RerankMaxPerDoc <=> Cardinality(Ahead(i, S)) >= RerankMaxPerDoc
      BY <1>2, <2>1, <2>3, FirstFew
    <3>. QED
      BY <1>5, <2>3, <3>1
  <2>7. /\ Cardinality(Ahead(i, F)) >= k <=> Cardinality(Ahead(i, W)) >= k
        /\ Cardinality(Ahead(i, W)) < k => Ahead(i, F) = Ahead(i, W)
        /\ {Cardinality(Ahead(i, F)), Cardinality(Ahead(i, W))} \subseteq Nat
    <3>. HIDE DEF W
    <3>1. /\ Cardinality(Ahead(i, F)) >= k <=> Cardinality(Ahead(i, W)) >= k
          /\ Cardinality(Ahead(i, W)) < k => Ahead(i, F) = Ahead(i, W)
      BY <1>2, <2>1, FirstFew
    <3>2. F \in SUBSET D
      BY <1>2
    <3>. HIDE DEF F
    <3>. QED
      BY <1>2, <1>5, <3>1, <3>2
  <2>. HIDE DEF V, S, W, F, SameDoc
  <2>8. Places(d, r, Ahead(i, W)) = Ahead(i, V)
    BY <2>4 DEF Ahead, Places
  <2>9. Room(g[i - 1], r[i], k, RerankMaxPerDoc)
            <=> /\ Cardinality(Ahead(i, F)) < k
                /\ Cardinality(Places(d, r, Ahead(i, F))) < RerankMaxPerDoc
    <3>1. Places(d, r, Ahead(i, F)) \in SUBSET D
      BY <1>2 DEF Ahead, Places
    <3>2. IsFiniteSet(Places(d, r, Ahead(i, F)))
      BY <1>5, <3>1
    <3>3. Cardinality(Places(d, r, Ahead(i, F))) \in Nat
      BY <3>2, FS_CardinalityType
    <3>4. Cardinality(OfDocument(g[i - 1], d)) = Cardinality(Places(d, r, Ahead(i, F)))
      BY <1>3, <2>2
    <3>. HIDE DEF d
    <3>. QED
      BY <2>2, <2>7, <3>3, <3>4 DEF Room, d
  <2>10. i \in T <=> i \in F
    <3>1. i \in F <=> i \in W /\ Cardinality(Ahead(i, W)) < k
      BY DEF F, FirstOf
    <3>2. CASE Cardinality(Ahead(i, W)) < k
      <4>1. Ahead(i, F) = Ahead(i, W) /\ Cardinality(Ahead(i, F)) < k
        BY <2>7, <3>2
      <4>2. Room(g[i - 1], r[i], k, RerankMaxPerDoc) <=> Cardinality(Ahead(i, V)) < RerankMaxPerDoc
        BY <2>8, <2>9, <4>1
      <4>. QED
        BY <1>4, <2>5, <2>6, <3>1, <3>2, <4>2
    <3>3. CASE ~(Cardinality(Ahead(i, W)) < k)
      BY <1>4, <2>7, <2>9, <3>1, <3>3
    <3>. QED
      BY <3>2, <3>3
  <2>11. \A j \in 1..i : j \in 1..(i - 1) \/ j = i
    BY <1>2
  <2>12. T \cap (1..i) = F \cap (1..i)
    BY <2>1, <2>10, <2>11
  <2>. QED
    BY <2>1, <2>12
<1>. HIDE DEF P
<1>8. n \in P
  <2>1. \A i \in 0..n : i \in P
    BY <1>2, <1>6, <1>7, Induct
  <2>. QED
    BY <1>2, <2>1
<1>9. T = F
  <2>1. T \cap (1..n) = F \cap (1..n)
    BY <1>8 DEF P
  <2>. HIDE DEF F, W
  <2>. QED
    BY <1>2, <2>1
<1>. QED
  BY <1>1, <1>9

\* Choosing from what was chosen is choosing.
Composes(h, T, r, T1, d, T2, g2) ==
    /\ T \in SUBSET T1
    /\ h[Len(r)] = g2[Len(d)]
    /\ Chooses(h, r, T)
    /\ \A i \in T1 : \E a \in 1..Len(d) : d[a] = r[i] /\ h[i - 1] = g2[a - 1] /\ (i \in T <=> a \in T2)

\* PrepareGenerationContext after selectDiverse chooses from the ranking itself.
LEMMA Composed ==
    ASSUME NEW H, NEW r \in Seq(H), NEW T1 \in SUBSET (1..Len(r)), NEW g1, Chooses(g1, r, T1),
           NEW d, d = g1[Len(r)], NEW T2 \in SUBSET (1..Len(d)), NEW g2, Chooses(g2, d, T2)
    PROVE  \E h, T : Composes(h, T, r, T1, d, T2, g2)
<1>. DEFINE n == Len(r)
            at(i) == Len(g1[i - 1]) + 1
            h == [i \in 0..n |-> g2[Len(g1[i])]]
            T == {i \in T1 : at(i) \in T2}
<1>1. n \in Nat /\ T1 \in SUBSET (1..n)
  OBVIOUS
<1>2. g1[0] = <<>> /\ \A i \in 1..n : g1[i] = IF i \in T1 THEN Append(g1[i - 1], r[i]) ELSE g1[i - 1]
  BY DEF Chooses
<1>3. g2[0] = <<>> /\ \A a \in 1..Len(d) : g2[a] = IF a \in T2 THEN Append(g2[a - 1], d[a]) ELSE g2[a - 1]
  BY DEF Chooses
<1>4. ASSUME NEW i \in 0..n
      PROVE  g1[i] \in Seq(H) /\ Len(g1[i]) \in Nat /\ Len(g1[i]) <= Len(d)
             /\ \A m \in 1..Len(g1[i]) : g1[i][m] = d[m]
  <2>1. ChosenTo(i, g1, r, T1, H)
    BY ChosenFacts
  <2>2. /\ Len(g1[i]) \in Nat /\ Len(g1[i]) <= Len(d)
        /\ \A m \in 1..Len(g1[i]) : g1[i][m] = d[m]
    BY ChosenPrefix
  <2>. QED
    BY <2>1, <2>2 DEF ChosenTo
<1>. HIDE DEF n
<1>5. ASSUME NEW i \in T1
      PROVE  at(i) \in 1..Len(d) /\ d[at(i)] = r[i] /\ Len(g1[i]) = at(i) /\ at(i) - 1 = Len(g1[i - 1])
  <2>1. i \in 1..n /\ i \in 0..n /\ i - 1 \in 0..n
    BY <1>1
  <2>2. g1[i] = Append(g1[i - 1], r[i]) /\ g1[i - 1] \in Seq(H) /\ Len(g1[i - 1]) \in Nat
    BY <1>2, <1>4, <2>1
  <2>3. Len(g1[i]) = at(i) /\ g1[i][at(i)] = r[i]
    BY <2>2
  <2>4. Len(g1[i]) \in Nat /\ Len(g1[i]) <= Len(d) /\ \A m \in 1..Len(g1[i]) : g1[i][m] = d[m]
    BY <1>4, <2>1
  <2>5. at(i) \in Nat /\ 1 <= at(i) /\ at(i) - 1 = Len(g1[i - 1])
    BY <2>2
  <2>. HIDE DEF at
  <2>6. Len(d) \in Nat
    <3>1. n \in 0..n
      BY <1>1
    <3>. QED
      BY <1>4, <3>1 DEF n
  <2>. QED
    BY <2>3, <2>4, <2>5, <2>6
<1>. HIDE DEF at
<1>6. h[0] = <<>>
  <2>1. 0 \in 0..n /\ Len(g1[0]) = 0
    BY <1>1, <1>2
  <2>. QED
    BY <1>3, <2>1
<1>7. ASSUME NEW i \in 1..n PROVE h[i] = IF i \in T THEN Append(h[i - 1], r[i]) ELSE h[i - 1]
  <2>1. i \in 0..n /\ i - 1 \in 0..n
    BY <1>1
  <2>2. h[i] = g2[Len(g1[i])] /\ h[i - 1] = g2[Len(g1[i - 1])]
    BY <2>1
  <2>. HIDE DEF h
  <2>3. CASE i \in T1
    BY <1>3, <1>5, <2>2, <2>3
  <2>4. CASE i \notin T1
    BY <1>2, <2>2, <2>4
  <2>. QED
    BY <2>3, <2>4
<1>8. h[n] = g2[Len(d)]
  <2>1. n \in 0..n
    BY <1>1
  <2>. QED
    BY <2>1 DEF n
<1>9. ASSUME NEW i \in T1
      PROVE  \E a \in 1..Len(d) : d[a] = r[i] /\ h[i - 1] = g2[a - 1] /\ (i \in T <=> a \in T2)
  <2>1. i - 1 \in 0..n
    BY <1>1
  <2>2. h[i - 1] = g2[at(i) - 1]
    BY <1>5, <2>1
  <2>. HIDE DEF h
  <2>. QED
    BY <1>5, <2>2
<1>. HIDE DEF h
<1>10. Chooses(h, r, T)
  <2>. HIDE DEF T
  <2>. QED
    BY <1>6, <1>7 DEF Chooses, n
<1>11. T \in SUBSET T1
  OBVIOUS
<1>. HIDE DEF T
<1>12. Composes(h, T, r, T1, d, T2, g2)
  BY <1>8, <1>9, <1>10, <1>11 DEF n, Composes
<1>. QED
  BY <1>12

-----------------------------------------------------------------------------
(* Sorting.                                                                *)

\* Positions by falling value.
Falling(v) ==
    {w \in (DOMAIN v) \X (DOMAIN v) : v[w[1]] > v[w[2]] \/ (v[w[1]] = v[w[2]] /\ w[1] < w[2])}

FallsWith(R, v, n) ==
    \A i, j \in 1..n : <<i, j>> \in R <=> v[i] > v[j] \/ (v[i] = v[j] /\ i < j)

\* Positions by falling value, equal ones by position, are in a strict order.
LEMMA FallingOrders ==
    ASSUME NEW n \in Nat, NEW v \in [1..n -> Int]
    PROVE  Orders(Falling(v), 1..n) /\ FallsWith(Falling(v), v, n)
<1>1. ASSUME NEW i \in 1..n, NEW j \in 1..n
      PROVE  <<i, j>> \in Falling(v) <=> v[i] > v[j] \/ (v[i] = v[j] /\ i < j)
  <2>. DEFINE u == <<i, j>>
  <2>1. DOMAIN v = 1..n /\ u \in (1..n) \X (1..n) /\ u[1] = i /\ u[2] = j
    OBVIOUS
  <2>. HIDE DEF u
  <2>2. u \in Falling(v) <=> v[i] > v[j] \/ (v[i] = v[j] /\ i < j)
    BY <2>1 DEF Falling
  <2>. QED
    BY <2>2 DEF u
<1>. DEFINE R == Falling(v)
<1>2. \A i \in 1..n : v[i] \in Int /\ i \in Int
  OBVIOUS
<1>. HIDE DEF R
<1>3. \A i, j \in 1..n : <<i, j>> \in R <=> v[i] > v[j] \/ (v[i] = v[j] /\ i < j)
  BY <1>1 DEF R
<1>4. Orders(R, 1..n)
  <2>1. \A x \in 1..n : <<x, x>> \notin R
    BY <1>2, <1>3
  <2>2. ASSUME NEW x \in 1..n, NEW y \in 1..n PROVE x = y \/ <<x, y>> \in R \/ <<y, x>> \in R
    <3>1. v[x] \in Int /\ v[y] \in Int /\ x \in Int /\ y \in Int
      BY <1>2
    <3>2. /\ <<x, y>> \in R <=> v[x] > v[y] \/ (v[x] = v[y] /\ x < y)
          /\ <<y, x>> \in R <=> v[y] > v[x] \/ (v[y] = v[x] /\ y < x)
      BY <1>3
    <3>. QED
      BY <3>1, <3>2
  <2>3. ASSUME NEW x \in 1..n, NEW y \in 1..n, NEW z \in 1..n, <<x, y>> \in R, <<y, z>> \in R
        PROVE  <<x, z>> \in R
    <3>1. /\ v[x] \in Int /\ v[y] \in Int /\ v[z] \in Int
          /\ x \in Int /\ y \in Int /\ z \in Int
      BY <1>2
    <3>2. /\ v[x] > v[y] \/ (v[x] = v[y] /\ x < y)
          /\ v[y] > v[z] \/ (v[y] = v[z] /\ y < z)
      BY <1>3, <2>3
    <3>3. v[x] > v[z] \/ (v[x] = v[z] /\ x < z)
      BY <3>1, <3>2
    <3>. QED
      BY <1>3, <3>3
  <2>. QED
    BY <2>1, <2>2, <2>3 DEF Orders
<1>. QED
  BY <1>3, <1>4 DEF R, FallsWith

\* f is s in the order of v.
SortedBy(f, s, v, n) ==
    \E at : Lists(at, Falling(v), 1..n) /\ f = [i \in 1..n |-> s[at[i]]]

\* StableSort by generationScore lists the positions in that order.
LEMMA ContextSorted ==
    ASSUME NEW H, NEW s \in Seq(H), NEW v, v = [i \in 1..Len(s) |-> generationScore(s[i])],
           v \in [1..Len(s) -> Int]
    PROVE  SortedBy(StableSort(s, generationScore), s, v, Len(s))
<1>. DEFINE n == Len(s)
            D == DOMAIN s
            Before(i, j) == generationScore(s[i]) > generationScore(s[j])
                            \/ (generationScore(s[i]) = generationScore(s[j]) /\ i < j)
            at == Ordered(D, Before)
<1>1. StableSort(s, generationScore) = [i \in D |-> s[at[i]]]
  BY DEF StableSort
<1>2. at = [i \in 1..Cardinality(D) |-> CHOOSE x \in D : Cardinality({y \in D : Before(y, x)}) = i - 1]
  BY DEF Ordered
<1>3. n \in Nat /\ D = 1..n /\ v \in [1..n -> Int] /\ \A i \in D : v[i] = generationScore(s[i])
  OBVIOUS
<1>. HIDE DEF n, D, at
<1>4. Orders(Falling(v), D) /\ \A i, j \in D : <<i, j>> \in Falling(v) <=> Before(i, j)
  <2>1. Orders(Falling(v), 1..n) /\ FallsWith(Falling(v), v, n)
    BY <1>3, FallingOrders
  <2>2. ASSUME NEW i \in D, NEW j \in D PROVE <<i, j>> \in Falling(v) <=> Before(i, j)
    <3>1. <<i, j>> \in Falling(v) <=> v[i] > v[j] \/ (v[i] = v[j] /\ i < j)
      BY <1>3, <2>1 DEF FallsWith
    <3>2. v[i] = generationScore(s[i]) /\ v[j] = generationScore(s[j])
      BY <1>3
    <3>. QED
      BY <3>1, <3>2
  <2>. QED
    BY <1>3, <2>1, <2>2
<1>. HIDE DEF Before
<1>5. ASSUME NEW x \in D PROVE {y \in D : Before(y, x)} = Below(Falling(v), D, x)
  BY <1>4 DEF Below
<1>6. IsFiniteSet(D) /\ Cardinality(D) = n
  BY <1>3, FS_Interval
<1>7. Cardinality(D) \in Nat /\ \A k \in 0..(Cardinality(D) - 1) : \E x \in D : Cardinality(Below(Falling(v), D, x)) = k
  <2>1. Ranked(Falling(v), D)
    BY <1>4, <1>6, Ranks
  <2>. QED
    BY <2>1 DEF Ranked
<1>8. ASSUME NEW i \in 1..Cardinality(D)
      PROVE  at[i] \in D /\ Cardinality(Below(Falling(v), D, at[i])) = i - 1
  <2>1. i - 1 \in 0..(Cardinality(D) - 1)
    BY <1>7
  <2>2. \E x \in D : Cardinality({y \in D : Before(y, x)}) = i - 1
    BY <1>5, <1>7, <2>1
  <2>3. at[i] = CHOOSE x \in D : Cardinality({y \in D : Before(y, x)}) = i - 1
    BY <1>2
  <2>4. at[i] \in D /\ Cardinality({y \in D : Before(y, at[i])}) = i - 1
    BY <2>2, <2>3
  <2>. QED
    BY <1>5, <2>4
<1>9. Lists(at, Falling(v), D)
  <2>1. at = [i \in 1..Cardinality(D) |-> at[i]]
    <3>. DEFINE C(i) == CHOOSE x \in D : Cardinality({y \in D : Before(y, x)}) = i - 1
    <3>1. at = [i \in 1..Cardinality(D) |-> C(i)]
      BY <1>2
    <3>. HIDE DEF C
    <3>. QED
      BY <3>1
  <2>. QED
    BY <1>8, <2>1 DEF Lists
<1>. QED
  BY <1>1, <1>3, <1>9 DEF SortedBy, n

\* What is in order stays as it is.
LEMMA SortedStays ==
    ASSUME NEW H, NEW s \in Seq(H), NEW v \in [1..Len(s) -> Int], NEW f, SortedBy(f, s, v, Len(s)),
           \A i, j \in 1..Len(s) : i < j => v[i] >= v[j]
    PROVE  f = s
<1>. DEFINE n == Len(s)
<1>1. n \in Nat /\ s = [i \in 1..n |-> s[i]] /\ v \in [1..n -> Int]
  OBVIOUS
<1>2. \A i, j \in 1..n : i < j => v[i] >= v[j]
  OBVIOUS
<1>. HIDE DEF n
<1>3. PICK at : Lists(at, Falling(v), 1..n) /\ f = [i \in 1..n |-> s[at[i]]]
  BY DEF SortedBy, n
<1>4. \A i, j \in 1..n : <<i, j>> \in Falling(v) <=> i < j
  <2>1. ASSUME NEW i \in 1..n, NEW j \in 1..n PROVE <<i, j>> \in Falling(v) <=> i < j
    <3>1. <<i, j>> \in Falling(v) <=> v[i] > v[j] \/ (v[i] = v[j] /\ i < j)
      BY <1>1, FallingOrders DEF FallsWith
    <3>2. v[i] \in Int /\ v[j] \in Int /\ i \in Int /\ j \in Int
      BY <1>1
    <3>3. (i < j => v[i] >= v[j]) /\ (j < i => v[j] >= v[i])
      BY <1>2
    <3>. QED
      BY <3>1, <3>2, <3>3
  <2>. QED
    BY <2>1
<1>5. IsFiniteSet(1..n) /\ Cardinality(1..n) = n
  BY <1>1, FS_Interval
<1>6. ASSUME NEW i \in 1..n PROVE at[i] = i
  <2>1. at[i] \in 1..n /\ Cardinality(Below(Falling(v), 1..n, at[i])) = i - 1
    BY <1>3, <1>5 DEF Lists
  <2>2. Below(Falling(v), 1..n, at[i]) = 1..(at[i] - 1)
    <3>1. Below(Falling(v), 1..n, at[i]) = {y \in 1..n : y < at[i]}
      BY <1>4, <2>1 DEF Below
    <3>2. {y \in 1..n : y < at[i]} = 1..(at[i] - 1)
      BY <1>1, <2>1
    <3>. QED
      BY <3>1, <3>2
  <2>3. Cardinality(1..(at[i] - 1)) = at[i] - 1
    <3>1. \A m \in Nat : Cardinality(1..m) = m
      BY FS_Interval
    <3>2. at[i] - 1 \in Nat
      BY <2>1
    <3>. QED
      BY <3>1, <3>2
  <2>. QED
    BY <1>1, <2>1, <2>2, <2>3
<1>. QED
  BY <1>1, <1>3, <1>6

\* What is sorted is in order and has the elements it had.
FallsAs(f, s, v, n) ==
    /\ f = [i \in 1..n |-> f[i]]
    /\ \E at \in [1..n -> 1..n] :
          \A i \in 1..n : f[i] = s[at[i]] /\ \A j \in 1..n : i < j => v[at[i]] >= v[at[j]]

\* The values of what is sorted do not rise.
LEMMA SortedFalls ==
    ASSUME NEW n \in Nat, NEW s, NEW v \in [1..n -> Int], NEW f, SortedBy(f, s, v, n)
    PROVE  FallsAs(f, s, v, n)
<1>1. PICK at : Lists(at, Falling(v), 1..n) /\ f = [i \in 1..n |-> s[at[i]]]
  BY DEF SortedBy
<1>2. IsFiniteSet(1..n) /\ Cardinality(1..n) = n
  BY FS_Interval
<1>3. at \in [1..n -> 1..n]
  BY <1>1, <1>2 DEF Lists
<1>4. Orders(Falling(v), 1..n)
      /\ \A i, j \in 1..n : <<i, j>> \in Falling(v) <=> v[i] > v[j] \/ (v[i] = v[j] /\ i < j)
  BY FallingOrders DEF FallsWith
<1>5. /\ Len(at) = Cardinality(1..n)
      /\ \A i, j \in 1..Len(at) : i < j <=> <<at[i], at[j]>> \in Falling(v)
  BY <1>1, <1>2, <1>4, ListFacts
<1>6. ASSUME NEW i \in 1..n, NEW j \in 1..n, i < j PROVE v[at[i]] >= v[at[j]]
  <2>1. <<at[i], at[j]>> \in Falling(v)
    BY <1>2, <1>5, <1>6
  <2>2. at[i] \in 1..n /\ at[j] \in 1..n
    BY <1>3
  <2>3. v[at[i]] \in Int /\ v[at[j]] \in Int /\ (v[at[i]] > v[at[j]] \/ v[at[i]] = v[at[j]])
    BY <1>4, <2>1, <2>2
  <2>. QED
    BY <2>3
<1>7. \A i \in 1..n : f[i] = s[at[i]]
  BY <1>1
<1>. QED
  BY <1>1, <1>3, <1>6, <1>7 DEF FallsAs

-----------------------------------------------------------------------------
(* Numbers, identifiers and scores.                                        *)

\* The largest member of a finite set of numbers is one of them.
LEMMA Largest ==
    ASSUME NEW S, IsFiniteSet(S), S # {}, S \in SUBSET Int
    PROVE  Max(S) \in S /\ \A y \in S : y <= Max(S)
<1>. DEFINE R == {w \in S \X S : w[1] < w[2]}
<1>1. \A x, y \in S : <<x, y>> \in R <=> x < y
  <2>. SUFFICES ASSUME NEW x \in S, NEW y \in S PROVE <<x, y>> \in R <=> x < y
    OBVIOUS
  <2>1. <<x, y>> \in S \X S /\ <<x, y>>[1] = x /\ <<x, y>>[2] = y
    OBVIOUS
  <2>. QED
    BY <2>1
<1>. HIDE DEF R
<1>2. Orders(R, S)
  BY <1>1 DEF Orders
<1>3. Ranked(R, S)
  BY <1>2, Ranks
<1>4. Cardinality(S) # 0
  BY FS_EmptySet
<1>5. Cardinality(S) - 1 \in 0..(Cardinality(S) - 1) /\ Cardinality(S) \in Nat
  BY <1>3, <1>4 DEF Ranked
<1>6. PICK x \in S : Cardinality(Below(R, S, x)) = Cardinality(S) - 1
  BY <1>3, <1>5 DEF Ranked
<1>7. ASSUME NEW y \in S PROVE y <= x
  <2>1. Cardinality(Below(R, S, y)) \in 0..(Cardinality(S) - 1)
    BY <1>3 DEF Ranked
  <2>2. ~(<<x, y>> \in R)
    BY <1>3, <1>5, <1>6, <2>1 DEF Ranked
  <2>. QED
    BY <1>1, <2>2
<1>. QED
  BY <1>7 DEF Max

\* What the assumptions say of ranks, limits, texts, scores and identifiers.
LEMMA Parameters ==
    /\ MaxRank \in Nat \ {0}
    /\ \A k \in TopKs \cup {0} : k \in Nat /\ Max({CandidateK, k}) \in 1..MaxRank
    /\ \A t \in Text : Max(Text) \in Nat /\ t \in 1..Max(Text)
    /\ \A x \in Scores \cup {0} : x \in Nat
    /\ \A id \in Identifier : id \in Int
<1>1. /\ CandidateK \in Nat \ {0} /\ TopKs \subseteq Nat /\ IsFiniteSet(TopKs)
      /\ Text \subseteq Nat \ {0} /\ IsFiniteSet(Text) /\ Scores \subseteq Nat
  BY RetrievalAssumption
<1>2. CandidateK \in Nat /\ 1 <= CandidateK /\ \A k \in TopKs : k \in Nat
  BY <1>1
<1>3. /\ MaxRank \in {CandidateK} \cup TopKs
      /\ \A y \in {CandidateK} \cup TopKs : y <= MaxRank
  <2>. DEFINE S == {CandidateK} \cup TopKs
  <2>1. IsFiniteSet(S)
    BY <1>1, FS_Singleton, FS_Union
  <2>2. S # {} /\ S \in SUBSET Int
    BY <1>2
  <2>. HIDE DEF S
  <2>3. Max(S) \in S /\ \A y \in S : y <= Max(S)
    BY <2>1, <2>2, Largest
  <2>. QED
    BY <2>3 DEF S, MaxRank
<1>4. MaxRank \in Nat /\ CandidateK <= MaxRank /\ MaxRank \in Nat \ {0}
  <2>1. MaxRank \in Nat
    BY <1>2, <1>3
  <2>2. CandidateK <= MaxRank
    BY <1>3
  <2>. QED
    BY <1>2, <2>1, <2>2
<1>5. ASSUME NEW k \in TopKs \cup {0} PROVE k \in Nat /\ Max({CandidateK, k}) \in 1..MaxRank
  <2>. DEFINE S == {CandidateK, k}
  <2>1. k \in Nat /\ k <= MaxRank
    <3>1. k \in TopKs \/ k = 0
      OBVIOUS
    <3>. QED
      BY <1>2, <1>3, <1>4, <3>1
  <2>2. IsFiniteSet(S)
    <3>1. S = {CandidateK} \cup {k}
      OBVIOUS
    <3>2. IsFiniteSet({CandidateK}) /\ IsFiniteSet({k})
      BY FS_Singleton
    <3>. HIDE DEF S
    <3>. QED
      BY <3>1, <3>2, FS_Union
  <2>3. S # {} /\ S \in SUBSET Int /\ CandidateK \in S /\ \A y \in S : y = CandidateK \/ y = k
    BY <1>2, <2>1
  <2>. HIDE DEF S
  <2>4. Max(S) \in S /\ \A y \in S : y <= Max(S)
    BY <2>2, <2>3, Largest
  <2>5. Max(S) = CandidateK \/ Max(S) = k
    BY <2>3, <2>4
  <2>6. CandidateK <= Max(S)
    BY <2>3, <2>4
  <2>. HIDE DEF Max
  <2>7. Max(S) \in 1..MaxRank
    BY <1>2, <1>4, <2>1, <2>5, <2>6
  <2>. QED
    BY <2>1, <2>7 DEF S
<1>6. ASSUME NEW t \in Text PROVE Max(Text) \in Nat /\ t \in 1..Max(Text)
  <2>1. Text # {} /\ Text \in SUBSET Int
    BY <1>1
  <2>2. Max(Text) \in Text /\ \A y \in Text : y <= Max(Text)
    BY <1>1, <2>1, Largest
  <2>3. \A y \in Text : y \in Nat /\ 1 <= y
    BY <1>1
  <2>4. t \in Nat /\ 1 <= t /\ t <= Max(Text) /\ Max(Text) \in Nat
    BY <2>2, <2>3
  <2>. QED
    BY <2>4
<1>7. ASSUME NEW id \in Identifier PROVE id \in Int
  <2>1. PICK g \in -1..1, t \in Text : id = g * Max(Text) + t
    BY DEF Identifier
  <2>2. Max(Text) \in Int /\ t \in Int /\ g \in Int
    BY <1>6
  <2>. QED
    BY <2>1, <2>2
<1>8. ASSUME NEW x \in Scores \cup {0} PROVE x \in Nat
  BY <1>1
<1>. QED
  BY <1>4, <1>5, <1>6, <1>7, <1>8

\* The scores a hit is compared by are numbers.
LEMMA ScoreType ==
    ASSUME NEW h \in HitType
    PROVE  /\ Reciprocal(h.vectorRank) \in Int /\ Reciprocal(h.lexicalRank) \in Int
           /\ RRFScore(h) \in Int /\ generationScore(h) \in Int
<1>1. \A r \in Nat : Reciprocal(r) \in Int
  <2>1. ASSUME NEW r \in Nat PROVE CommonMultiple \div (60 + r) \in Int
    <3>1. CommonMultiple \in Int /\ 60 + r \in Int /\ 60 + r > 0
      BY RetrievalAssumption
    <3>. QED
      BY <3>1
  <2>. QED
    BY <2>1 DEF Reciprocal
<1>2. /\ h.vectorRank \in Nat /\ h.lexicalRank \in Nat
      /\ h.rerankScore \in Nat /\ h.rerankRank \in Nat
  BY Parameters DEF HitType
<1>3. Reciprocal(h.vectorRank) \in Int /\ Reciprocal(h.lexicalRank) \in Int
  BY <1>1, <1>2
<1>4. RRFScore(h) \in Int
  BY <1>3 DEF RRFScore
<1>. QED
  BY <1>2, <1>3, <1>4 DEF generationScore

-----------------------------------------------------------------------------
(* From the ranking to the sources.                                        *)

\* What the hits are selected from: no chunk twice and the best first.
RankingOK(r) ==
    /\ r \in Seq(HitType)
    /\ Distinct(r)
    /\ \A i, j \in 1..Len(r) : i < j => generationScore(r[i]) >= generationScore(r[j])

\* The context is made of the hits of r at the positions of T, each of which
\* has been compared with those before it.
Prepares(h, T, r, k) ==
    /\ PrepareGenerationContext(selectDiverse(r, k, RerankMaxPerDoc)) = Context(h[Len(r)])
    /\ Chooses(h, r, T)
    /\ T \in SUBSET (1..Len(r))
    /\ T \in SUBSET RoomyIn(r, k)
    /\ \A i \in RoomyIn(r, k) : i \in T <=> ~Skipped(Context(h[i - 1]), r[i])

\* The context of any ranking of different chunks, the best first.
LEMMA Prepared ==
    ASSUME NEW r, RankingOK(r), NEW k \in Nat
    PROVE  \E h, T : Prepares(h, T, r, k)
<1>. DEFINE n == Len(r)
            d == selectDiverse(r, k, RerankMaxPerDoc)
<1>1. r \in Seq(HitType) /\ Distinct(r) /\ RerankMaxPerDoc \in Nat
  BY RetrievalAssumption DEF RankingOK
<1>2. PICK g1, T1 : Diversifies(g1, T1, r, k, RerankMaxPerDoc)
  BY <1>1, DiverseChooses
<1>3. /\ T1 \in SUBSET (1..n) /\ d = g1[n] /\ Chooses(g1, r, T1)
       /\ \A i \in 1..n : i \in T1 <=> Room(g1[i - 1], r[i], k, RerankMaxPerDoc)
  BY <1>2 DEF Diversifies
<1>4. T1 = RoomyIn(r, k)
  BY <1>1, <1>3, DiverseIsRoomy
<1>5. d \in Seq(HitType)
  <2>1. n \in 0..n
    BY <1>1
  <2>2. ChosenTo(n, g1, r, T1, HitType)
    BY <1>1, <1>3, <2>1, ChosenFacts
  <2>. QED
    BY <1>3, <2>2 DEF ChosenTo
<1>6. StableSort(d, generationScore) = d
  <2>. DEFINE v == [i \in 1..Len(d) |-> generationScore(d[i])]
  <2>1. v \in [1..Len(d) -> Int]
    <3>1. \A i \in 1..Len(d) : generationScore(d[i]) \in Int
      BY <1>5, ScoreType
    <3>. QED
      BY <3>1
  <2>2. ASSUME NEW a \in 1..Len(d), NEW b \in 1..Len(d), a < b PROVE v[a] >= v[b]
    <3>. DEFINE p == Position(T1)
    <3>1. n \in 0..n
      BY <1>1
    <3>2. /\ \A m \in 1..Len(g1[n]) : p[m] \in T1 \cap (1..n) /\ g1[n][m] = r[p[m]]
          /\ \A x, y \in 1..Len(g1[n]) : x < y <=> p[x] < p[y]
      <4>1. MembersTo(n, g1, r, T1)
        BY <1>1, <1>3, <3>1, ChosenMembers
      <4>. QED
        BY <4>1 DEF MembersTo
    <3>. HIDE DEF p, d
    <3>3. /\ p[a] \in 1..n /\ p[b] \in 1..n /\ p[a] < p[b]
          /\ d[a] = r[p[a]] /\ d[b] = r[p[b]]
      BY <1>3, <2>2, <3>2
    <3>4. generationScore(d[a]) >= generationScore(d[b])
      BY <3>3 DEF RankingOK
    <3>. QED
      BY <3>4
  <2>3. SortedBy(StableSort(d, generationScore), d, v, Len(d))
    <3>. HIDE DEF d
    <3>1. v = [i \in 1..Len(d) |-> generationScore(d[i])]
      OBVIOUS
    <3>. HIDE DEF v
    <3>. QED
      BY <1>5, <2>1, <3>1, ContextSorted
  <2>. HIDE DEF d, v
  <2>. QED
    BY <1>5, <2>1, <2>2, <2>3, SortedStays
<1>. HIDE DEF d
<1>7. DOMAIN d = 1..Len(d) /\ Len(d) \in Nat
  BY <1>5
<1>8. PICK g2, T2 : Contextualises(g2, T2, d, d, Len(d))
  BY <1>6, <1>7, ContextChooses
<1>9. /\ T2 \in SUBSET (1..Len(d))
      /\ PrepareGenerationContext(d) = Context(g2[Len(d)])
      /\ Chooses(g2, d, T2)
      /\ \A a \in 1..Len(d) : a \in T2 <=> ~Skipped(Context(g2[a - 1]), d[a])
  BY <1>8 DEF Contextualises
<1>10. PICK h, T : Composes(h, T, r, T1, d, T2, g2)
  BY <1>1, <1>3, <1>9, Composed
<1>11. /\ T \in SUBSET T1
      /\ h[n] = g2[Len(d)] /\ Chooses(h, r, T)
      /\ \A i \in T1 : \E a \in 1..Len(d) : d[a] = r[i] /\ h[i - 1] = g2[a - 1] /\ (i \in T <=> a \in T2)
  BY <1>10 DEF Composes
<1>12. ASSUME NEW i \in RoomyIn(r, k) PROVE i \in T <=> ~Skipped(Context(h[i - 1]), r[i])
  <2>1. PICK a \in 1..Len(d) : d[a] = r[i] /\ h[i - 1] = g2[a - 1] /\ (i \in T <=> a \in T2)
    BY <1>4, <1>11
  <2>. QED
    BY <1>9, <2>1
<1>13. Prepares(h, T, r, k)
  <2>1. T \in SUBSET (1..n) /\ T \in SUBSET RoomyIn(r, k)
    BY <1>4, <1>11, <1>3
  <2>2. PrepareGenerationContext(selectDiverse(r, k, RerankMaxPerDoc)) = Context(h[n])
    BY <1>9, <1>11 DEF d
  <2>. QED
    BY <1>11, <1>12, <2>1, <2>2 DEF Prepares
<1>. QED
  BY <1>13

\* The hits of r chosen before the i-th.
HasBefore(b, r, i, T) ==
    /\ b \in Seq(HitType)
    /\ Len(b) = Cardinality(Ahead(i, T))
    /\ \A c \in ToSet(b) : \E j \in Ahead(i, T) : c = r[j]
    /\ \A j \in Ahead(i, T) : r[j] \in ToSet(b)

\* What has been chosen before i are the hits at the positions of T ahead of it.
LEMMA ChosenBefore ==
    ASSUME NEW r \in Seq(HitType), NEW T \in SUBSET (1..Len(r)), NEW h, Chooses(h, r, T),
           NEW i \in 1..Len(r)
    PROVE  HasBefore(h[i - 1], r, i, T)
<1>1. i - 1 \in 0..Len(r)
  OBVIOUS
<1>2. Ahead(i, T) = T \cap (1..(i - 1))
  <2>1. \A j \in T : j < i <=> j \in 1..(i - 1)
    OBVIOUS
  <2>. QED
    BY <2>1 DEF Ahead
<1>3. ChosenTo(i - 1, h, r, T, HitType) /\ MembersTo(i - 1, h, r, T)
  BY <1>1, ChosenFacts, ChosenMembers
<1>4. h[i - 1] \in Seq(HitType) /\ Len(h[i - 1]) = Cardinality(Ahead(i, T))
  BY <1>2, <1>3 DEF ChosenTo
<1>5. ToSet(h[i - 1]) = {h[i - 1][m] : m \in 1..Len(h[i - 1])}
  BY <1>4 DEF ToSet
<1>. DEFINE p == Position(T)
<1>6. /\ \A m \in 1..Len(h[i - 1]) : p[m] \in Ahead(i, T) /\ h[i - 1][m] = r[p[m]]
      /\ \A j \in Ahead(i, T) : \E m \in 1..Len(h[i - 1]) : p[m] = j
  BY <1>2, <1>3 DEF MembersTo
<1>. HIDE DEF p
<1>. QED
  BY <1>4, <1>5, <1>6 DEF HasBefore

\* A text that has been chosen is skipped when it comes again.
LEMMA PreparedDiffer ==
    ASSUME NEW r \in Seq(HitType), NEW k, NEW h, NEW T, Prepares(h, T, r, k)
    PROVE  \A a, b \in 1..Len(h[Len(r)]) : Key[h[Len(r)][a].text] = Key[h[Len(r)][b].text] => a = b
<1>. DEFINE n == Len(r)
            c == h[n]
            p == Position(T)
<1>1. /\ T \in SUBSET (1..n) /\ Chooses(h, r, T)
      /\ \A i \in T : ~Skipped(Context(h[i - 1]), r[i])
  BY DEF Prepares
<1>2. n \in Nat /\ n \in 0..n
  OBVIOUS
<1>3. ChosenTo(n, h, r, T, HitType) /\ MembersTo(n, h, r, T)
  BY <1>1, <1>2, ChosenFacts, ChosenMembers
<1>4. c \in Seq(HitType) /\ Len(c) \in Nat
  BY <1>3 DEF ChosenTo
<1>5. /\ \A m \in 1..Len(c) : p[m] \in T /\ c[m] = r[p[m]]
      /\ \A a, b \in 1..Len(c) : a < b <=> p[a] < p[b]
  BY <1>3 DEF MembersTo
<1>. HIDE DEF c, p
<1>6. ASSUME NEW a \in 1..Len(c), NEW b \in 1..Len(c), a < b
      PROVE  Key[c[a].text] # Key[c[b].text]
  <2>. DEFINE i == p[b]
  <2>1. i \in T /\ i \in 1..n /\ p[a] \in T /\ p[a] < i
    BY <1>1, <1>5, <1>6
  <2>2. p[a] \in Ahead(i, T)
    BY <2>1 DEF Ahead
  <2>3. r[p[a]] \in ToSet(h[i - 1])
    BY <1>1, <2>1, <2>2, ChosenBefore DEF HasBefore
  <2>4. Context(h[i - 1]).citations = h[i - 1]
    BY DEF Context
  <2>. HIDE DEF i
  <2>5. \A x \in ToSet(h[i - 1]) : Key[x.text] # Key[r[i].text]
    BY <1>1, <2>1, <2>4 DEF Skipped
  <2>6. c[a] = r[p[a]] /\ c[b] = r[i]
    BY <1>5 DEF i
  <2>. QED
    BY <2>3, <2>5, <2>6
<1>7. ASSUME NEW a \in 1..Len(c), NEW b \in 1..Len(c), Key[c[a].text] = Key[c[b].text] PROVE a = b
  <2>1. ~(a < b) /\ ~(b < a)
    BY <1>6, <1>7
  <2>. QED
    BY <1>4, <2>1
<1>. QED
  BY <1>7 DEF c

\* CitedUnlessCrowded of a ranking, its citations, their blocks and what there is room for.
CitedFrom(r, citations, blocks, roomy) ==
    LET cited == {i \in DOMAIN r : r[i] \in ToSet(citations)}
        Crowded(i) ==
            \/ \E j \in Ahead(i, cited) : Key[r[j].text] = Key[r[i].text]
            \/ Cardinality({j \in Ahead(i, cited) : Doc[r[j].text] = Doc[r[i].text]}) >= MaxPerDocument
            \/ Used(SubSeq(blocks, 1, Cardinality(Ahead(i, cited)))) + Size[r[i].text] > MaxChars
    IN cited = {i \in roomy : Key[r[i].text] # Blank /\ ~Crowded(i)}

\* What is cited of a ranking, and what is not, is what CitedUnlessCrowded says.
LEMMA PreparedCrowded ==
    ASSUME NEW r \in Seq(HitType), Distinct(r), NEW k, NEW h, NEW T, Prepares(h, T, r, k)
    PROVE  CitedFrom(r, h[Len(r)], Blocks(h[Len(r)]), RoomyIn(r, k))
<1>. DEFINE n == Len(r)
            c == h[n]
            cited == {i \in DOMAIN r : r[i] \in ToSet(c)}
            Crowded(i) ==
                \/ \E j \in Ahead(i, cited) : Key[r[j].text] = Key[r[i].text]
                \/ Cardinality({j \in Ahead(i, cited) : Doc[r[j].text] = Doc[r[i].text]}) >= MaxPerDocument
                \/ Used(SubSeq(Blocks(c), 1, Cardinality(Ahead(i, cited)))) + Size[r[i].text] > MaxChars
<1>1. /\ T \in SUBSET (1..n) /\ Chooses(h, r, T) /\ T \in SUBSET RoomyIn(r, k)
      /\ \A i \in RoomyIn(r, k) : i \in T <=> ~Skipped(Context(h[i - 1]), r[i])
  BY DEF Prepares
<1>2. n \in Nat /\ n \in 0..n /\ DOMAIN r = 1..n
  OBVIOUS
<1>3. ChosenTo(n, h, r, T, HitType) /\ MembersTo(n, h, r, T)
  BY <1>1, <1>2, ChosenFacts, ChosenMembers
<1>4. c \in Seq(HitType) /\ Len(c) \in Nat
  BY <1>3 DEF ChosenTo
<1>5. cited = T
  <2>. DEFINE p == Position(T)
  <2>1. ToSet(c) = {c[m] : m \in 1..Len(c)}
    BY <1>4 DEF ToSet
  <2>2. /\ \A m \in 1..Len(c) : p[m] \in T /\ c[m] = r[p[m]]
        /\ \A j \in T \cap (1..n) : \E m \in 1..Len(c) : p[m] = j
    BY <1>3 DEF MembersTo
  <2>3. \A i, j \in 1..n : r[i] = r[j] => i = j
    BY <1>2 DEF Distinct
  <2>. HIDE DEF p, c
  <2>4. ASSUME NEW i \in cited PROVE i \in T
    <3>1. PICK m \in 1..Len(c) : r[i] = c[m]
      BY <2>1
    <3>2. p[m] \in T /\ r[i] = r[p[m]]
      BY <2>2, <3>1
    <3>3. i \in 1..n /\ p[m] \in 1..n
      BY <1>1, <1>2, <3>2
    <3>. QED
      BY <2>3, <3>2, <3>3
  <2>5. ASSUME NEW i \in T PROVE i \in cited
    <3>1. i \in 1..n
      BY <1>1
    <3>2. PICK m \in 1..Len(c) : p[m] = i
      BY <2>2, <3>1
    <3>. QED
      BY <1>2, <2>1, <2>2, <3>1, <3>2
  <2>. QED
    BY <2>4, <2>5
<1>. HIDE DEF cited
<1>6. RoomyIn(r, k) \in SUBSET (1..n)
  BY <1>2 DEF RoomyIn
<1>7. ASSUME NEW i \in RoomyIn(r, k)
      PROVE  Skipped(Context(h[i - 1]), r[i]) <=> Key[r[i].text] = Blank \/ Crowded(i)
  <2>1. i \in 1..n
    BY <1>6
  <2>. DEFINE b == h[i - 1]
  <2>2. /\ b \in Seq(HitType) /\ Len(b) = Cardinality(Ahead(i, T))
        /\ \A x \in ToSet(b) : \E j \in Ahead(i, T) : x = r[j]
        /\ \A j \in Ahead(i, T) : r[j] \in ToSet(b)
    <3>1. HasBefore(b, r, i, T)
      BY <1>1, <2>1, ChosenBefore
    <3>. QED
      BY <3>1 DEF HasBefore
  <2>3. Cardinality(OfDocument(b, Doc[r[i].text])) = Cardinality(Places(Doc[r[i].text], r, Ahead(i, T)))
    BY <1>1, <2>1, ChosenOfDocument
  <2>4. Len(b) \in Nat /\ Len(b) <= Len(c) /\ \A m \in 1..Len(b) : b[m] = c[m]
    <3>1. i - 1 \in 0..n
      BY <2>1
    <3>. QED
      BY <1>1, <3>1, ChosenPrefix
  <2>5. Blocks(b) = SubSeq(Blocks(c), 1, Len(b))
    <3>. HIDE DEF b, c
    <3>1. Blocks(c) = [m \in 1..Len(c) |-> Block(m, c[m])]
      BY DEF Blocks
    <3>. DEFINE e == Blocks(c)
                D == {Block(m, c[m]) : m \in 1..Len(c)}
    <3>2. e \in Seq(D) /\ Len(e) = Len(c)
      BY <1>4, <3>1
    <3>3. \A m \in 1..Len(c) : e[m] = Block(m, c[m])
      BY <3>1
    <3>. HIDE DEF e, D
    <3>4. SubSeq(e, 1, Len(b)) = [m \in 1..Len(b) |-> e[m]]
      BY <1>4, <2>4, <3>2
    <3>5. Blocks(b) = [m \in 1..Len(b) |-> Block(m, b[m])]
      BY DEF Blocks
    <3>6. \A m \in 1..Len(b) : Block(m, b[m]) = e[m]
      BY <1>4, <2>4, <3>3
    <3>. QED
      BY <3>4, <3>5, <3>6 DEF e
  <2>6. Context(b).citations = b /\ Context(b).blocks = Blocks(b)
    BY DEF Context
  <2>. HIDE DEF b, c
  <2>7. (\E x \in ToSet(b) : Key[x.text] = Key[r[i].text])
           <=> (\E j \in Ahead(i, T) : Key[r[j].text] = Key[r[i].text])
    BY <2>2
  <2>8. Skipped(Context(b), r[i])
           <=> \/ Key[r[i].text] = Blank
               \/ \E j \in Ahead(i, T) : Key[r[j].text] = Key[r[i].text]
               \/ Cardinality(Places(Doc[r[i].text], r, Ahead(i, T))) >= MaxPerDocument
               \/ Used(SubSeq(Blocks(c), 1, Cardinality(Ahead(i, T)))) + Size[r[i].text] > MaxChars
    BY <2>2, <2>3, <2>5, <2>6, <2>7 DEF Skipped
  <2>9. Crowded(i)
           <=> \/ \E j \in Ahead(i, T) : Key[r[j].text] = Key[r[i].text]
               \/ Cardinality(Places(Doc[r[i].text], r, Ahead(i, T))) >= MaxPerDocument
               \/ Used(SubSeq(Blocks(c), 1, Cardinality(Ahead(i, T)))) + Size[r[i].text] > MaxChars
    BY <1>5 DEF Places
  <2>. QED
    BY <2>8, <2>9 DEF b
<1>. HIDE DEF Crowded
<1>8. cited = {i \in RoomyIn(r, k) : Key[r[i].text] # Blank /\ ~Crowded(i)}
  BY <1>1, <1>5, <1>7
<1>. QED
  BY <1>8 DEF CitedFrom, cited, Crowded

-----------------------------------------------------------------------------
(* The searches.                                                           *)

Chunk == {[id |-> g * Max(Text) + t, text |-> t] : g \in -1..1, t \in Text}

\* Chunks have identifiers that tell them apart.
LEMMA ChunkFacts ==
    /\ IsFiniteSet(Chunk)
    /\ \A c \in Chunk : c.id \in Identifier /\ c.id \in Int /\ c.text \in Text
    /\ \A c, d \in Chunk : c.id = d.id => c = d
<1>. DEFINE M == Max(Text)
<1>1. \A t \in Text : M \in Nat /\ t \in 1..M
  BY Parameters
<1>. HIDE DEF M
<1>2. IsFiniteSet(Chunk)
  <2>. DEFINE S == (-1..1) \X Text
              f == [w \in S |-> [id |-> w[1] * M + w[2], text |-> w[2]]]
  <2>1. IsFiniteSet(S)
    <3>1. -1 \in Int /\ 1 \in Int
      OBVIOUS
    <3>2. IsFiniteSet(-1..1)
      BY <3>1, FS_Interval
    <3>3. IsFiniteSet(Text)
      BY RetrievalAssumption
    <3>. QED
      BY <3>2, <3>3, FS_Product
  <2>2. f \in [S -> Chunk]
    BY DEF Chunk, M
  <2>3. \A c \in Chunk : \E w \in S : f[w] = c
    <3>1. ASSUME NEW g \in -1..1, NEW t \in Text PROVE f[<<g, t>>] = [id |-> g * M + t, text |-> t]
      OBVIOUS
    <3>2. ASSUME NEW g \in -1..1, NEW t \in Text PROVE <<g, t>> \in S
      OBVIOUS
    <3>. HIDE DEF f, S
    <3>3. ASSUME NEW c \in Chunk PROVE \E w \in S : f[w] = c
      <4>1. PICK g \in -1..1, t \in Text : c = [id |-> g * M + t, text |-> t]
        BY DEF Chunk, M
      <4>. QED
        BY <3>1, <3>2, <4>1
    <3>. QED
      BY <3>3
  <2>. HIDE DEF f, S
  <2>4. f \in Surjection(S, Chunk)
    BY <2>2, <2>3 DEF Surjection
  <2>. QED
    BY <2>1, <2>4, FS_Surjection
<1>3. ASSUME NEW c \in Chunk PROVE c.id \in Identifier /\ c.text \in Text
  BY DEF Chunk, Identifier
<1>4. ASSUME NEW c \in Chunk, NEW d \in Chunk, c.id = d.id PROVE c = d
  <2>1. PICK g \in -1..1, t \in Text : c = [id |-> g * M + t, text |-> t]
    BY DEF Chunk, M
  <2>2. PICK q \in -1..1, u \in Text : d = [id |-> q * M + u, text |-> u]
    BY DEF Chunk, M
  <2>3. g * M + t = q * M + u
    BY <1>4, <2>1, <2>2
  <2>4. M \in Nat /\ t \in 1..M /\ u \in 1..M
    BY <1>1
  <2>5. t = u
    <3>1. g = -1 \/ g = 0 \/ g = 1
      OBVIOUS
    <3>2. q = -1 \/ q = 0 \/ q = 1
      OBVIOUS
    <3>. QED
      BY <2>3, <2>4, <3>1, <3>2
  <2>. QED
    BY <2>1, <2>2, <2>3, <2>5
<1>. QED
  BY <1>2, <1>3, <1>4, Parameters

\* c is the beginning of s, of at most n elements.
Begins(c, s, n, X) ==
    /\ c \in Seq(X) /\ Len(c) \in 0..n /\ Len(c) <= Len(s)
    /\ \A i \in 1..Len(c) : c[i] = s[i]

\* Cut keeps a beginning of at most n elements.
LEMMA CutBegins ==
    ASSUME NEW X, NEW s \in Seq(X), NEW n \in Nat
    PROVE  Begins(Cut(s, n), s, n, X)
<1>. DEFINE S == {n, Len(s)}
            k == Min(S)
<1>1. Len(s) \in Nat
  OBVIOUS
<1>2. k \in Nat /\ k <= n /\ k <= Len(s)
  <2>1. \E x \in S : \A y \in S : x <= y
    <3>1. CASE n <= Len(s)
      BY <1>1, <3>1
    <3>2. CASE ~(n <= Len(s))
      BY <1>1, <3>2
    <3>. QED
      BY <3>1, <3>2
  <2>2. k \in S /\ \A y \in S : k <= y
    <3>. HIDE DEF S
    <3>. QED
      BY <2>1 DEF Min
  <2>. HIDE DEF k
  <2>. QED
    BY <1>1, <2>2
<1>3. Cut(s, n) = SubSeq(s, 1, k)
  BY DEF Cut
<1>. HIDE DEF k
<1>4. SubSeq(s, 1, k) \in Seq(X) /\ Len(SubSeq(s, 1, k)) = k
      /\ \A i \in 1..k : SubSeq(s, 1, k)[i] = s[i]
  BY <1>1, <1>2
<1>. QED
  BY <1>2, <1>3, <1>4 DEF Begins

\* At most n of the members of C, none twice.
Some(a, C, n) ==
    /\ a \in Seq(C) /\ Len(a) \in 0..n
    /\ \A i, j \in 1..Len(a) : a[i] = a[j] => i = j

\* The first n chunks by score are chunks of C, none twice.
LEMMA ByScoreSome ==
    ASSUME NEW C \in SUBSET Chunk, NEW score \in [Text -> Scores \cup {0}], NEW n \in Nat
    PROVE  Some(Cut(ByScore(C, score), n), C, n)
<1>. DEFINE Before(a, b) == score[a.text] > score[b.text]
                            \/ (score[a.text] = score[b.text] /\ a.id < b.id)
            o == Ordered(C, Before)
            R == {w \in C \X C : Before(w[1], w[2])}
<1>1. ByScore(C, score) = o
  BY DEF ByScore
<1>2. o = [i \in 1..Cardinality(C) |-> CHOOSE x \in C : Cardinality({y \in C : Before(y, x)}) = i - 1]
  BY DEF Ordered
<1>3. \A c \in C : score[c.text] \in Nat /\ c.id \in Int
  <2>1. \A t \in Text : score[t] \in Nat
    BY Parameters
  <2>. QED
    BY <2>1, ChunkFacts
<1>4. \A c, d \in C : c.id = d.id => c = d
  BY ChunkFacts
<1>5. IsFiniteSet(C)
  BY ChunkFacts, FS_Subset
<1>6. \A a, b \in C : <<a, b>> \in R <=> Before(a, b)
  <2>. SUFFICES ASSUME NEW a \in C, NEW b \in C PROVE <<a, b>> \in R <=> Before(a, b)
    OBVIOUS
  <2>. DEFINE u == <<a, b>>
  <2>1. u \in C \X C /\ u[1] = a /\ u[2] = b
    OBVIOUS
  <2>. HIDE DEF u, Before
  <2>2. u \in R <=> Before(u[1], u[2])
    BY <2>1
  <2>. QED
    BY <2>1, <2>2 DEF u
<1>. HIDE DEF R, o
<1>7. Orders(R, C)
  <2>1. \A x \in C : ~Before(x, x)
    BY <1>3
  <2>2. ASSUME NEW x \in C, NEW y \in C PROVE x = y \/ Before(x, y) \/ Before(y, x)
    BY <1>3, <1>4
  <2>3. ASSUME NEW x \in C, NEW y \in C, NEW z \in C, Before(x, y), Before(y, z) PROVE Before(x, z)
    <3>1. /\ score[x.text] \in Nat /\ score[y.text] \in Nat /\ score[z.text] \in Nat
          /\ x.id \in Int /\ y.id \in Int /\ z.id \in Int
      BY <1>3
    <3>. QED
      BY <2>3, <3>1
  <2>. HIDE DEF Before
  <2>. QED
    BY <1>6, <2>1, <2>2, <2>3 DEF Orders
<1>. HIDE DEF Before
<1>8. Ranked(R, C)
  BY <1>5, <1>7, Ranks
<1>9. ASSUME NEW x \in C PROVE {y \in C : Before(y, x)} = Below(R, C, x)
  BY <1>6 DEF Below
<1>10. Lists(o, R, C)
  <2>1. ASSUME NEW i \in 1..Cardinality(C)
        PROVE  o[i] \in C /\ Cardinality(Below(R, C, o[i])) = i - 1
    <3>1. Cardinality(C) \in Nat /\ i - 1 \in 0..(Cardinality(C) - 1)
      BY <1>8 DEF Ranked
    <3>2. \E x \in C : Cardinality({y \in C : Before(y, x)}) = i - 1
      BY <1>8, <1>9, <3>1 DEF Ranked
    <3>3. o[i] = CHOOSE x \in C : Cardinality({y \in C : Before(y, x)}) = i - 1
      BY <1>2
    <3>4. o[i] \in C /\ Cardinality({y \in C : Before(y, o[i])}) = i - 1
      BY <3>2, <3>3
    <3>. QED
      BY <1>9, <3>4
  <2>2. o = [i \in 1..Cardinality(C) |-> o[i]]
    <3>. DEFINE E(i) == CHOOSE x \in C : Cardinality({y \in C : Before(y, x)}) = i - 1
    <3>1. o = [i \in 1..Cardinality(C) |-> E(i)]
      BY <1>2
    <3>. HIDE DEF E
    <3>. QED
      BY <3>1
  <2>. QED
    BY <2>1, <2>2 DEF Lists
<1>11. o \in Seq(C) /\ \A i, j \in 1..Len(o) : o[i] = o[j] => i = j
  BY <1>5, <1>7, <1>10, ListFacts
<1>12. Begins(Cut(o, n), o, n, C)
  BY <1>11, CutBegins
<1>. DEFINE c == Cut(o, n)
<1>13. c \in Seq(C) /\ Len(c) \in 0..n /\ Len(c) <= Len(o) /\ \A i \in 1..Len(c) : c[i] = o[i]
  BY <1>12 DEF Begins
<1>. HIDE DEF c
<1>14. ASSUME NEW i \in 1..Len(c), NEW j \in 1..Len(c), c[i] = c[j] PROVE i = j
  <2>1. i \in 1..Len(o) /\ j \in 1..Len(o)
    BY <1>11, <1>13
  <2>. QED
    BY <1>11, <1>13, <1>14, <2>1
<1>15. Some(c, C, n)
  BY <1>13, <1>14 DEF Some
<1>. QED
  BY <1>1, <1>15 DEF c

\* At most n hits of a search, none twice, that no reranker has seen.
Fresh(v, n) ==
    /\ v \in Seq(HitType) /\ Distinct(v) /\ Len(v) <= n
    /\ \A i \in 1..Len(v) : v[i].rerankRank = 0

\* v are the chunks a of C with their ranks in the vector search, or in the lexical one.
VectorHits(v, a, C, vec, n) ==
    Some(a, C, n) /\ v = [i \in 1..Len(a) |-> Hit(a[i], i, vec[a[i].text], 0, 0)]
LexicalHits(v, a, C, lex, n) ==
    Some(a, C, n) /\ v = [i \in 1..Len(a) |-> Hit(a[i], 0, 0, i, lex[a[i].text])]

\* The vector search returns such chunks with their ranks.
LEMMA VectorFinds ==
    ASSUME NEW C \in SUBSET Chunk, NEW vec \in [Text -> Scores \cup {0}], NEW n \in Nat
    PROVE  \E a : VectorHits(searchVector(C, vec, n), a, C, vec, n)
<1>. DEFINE a == Cut(ByScore(C, vec), n)
<1>1. Some(a, C, n)
  BY ByScoreSome
<1>2. searchVector(C, vec, n) = [i \in DOMAIN a |-> Hit(a[i], i, vec[a[i].text], 0, 0)]
  BY DEF searchVector
<1>. HIDE DEF a
<1>3. DOMAIN a = 1..Len(a)
  BY <1>1 DEF Some
<1>. QED
  BY <1>1, <1>2, <1>3 DEF VectorHits

\* So does the lexical search, of the chunks that match.
LEMMA LexicalFinds ==
    ASSUME NEW C \in SUBSET Chunk, NEW lex \in [Text -> Scores \cup {0}], NEW n \in Nat
    PROVE  \E a : LexicalHits(searchLexical(C, lex, n), a, C, lex, n)
<1>. DEFINE D == {c \in C : lex[c.text] > 0}
            a == Cut(ByScore(D, lex), n)
<1>1. searchLexical(C, lex, n) = [i \in DOMAIN a |-> Hit(a[i], 0, 0, i, lex[a[i].text])]
  BY DEF searchLexical
<1>2. D \in SUBSET Chunk /\ D \in SUBSET C
  OBVIOUS
<1>. HIDE DEF D
<1>3. Some(a, D, n)
  BY <1>2, ByScoreSome
<1>. HIDE DEF a
<1>4. DOMAIN a = 1..Len(a) /\ Some(a, C, n)
  BY <1>2, <1>3 DEF Some
<1>. QED
  BY <1>1, <1>4 DEF LexicalHits

\* Hits of the vector search have their types and differ.
LEMMA VectorFresh ==
    ASSUME NEW C \in SUBSET Chunk, NEW vec \in [Text -> Scores \cup {0}], NEW n \in 1..MaxRank,
           NEW v, NEW a, VectorHits(v, a, C, vec, n)
    PROVE  Fresh(v, n)
<1>1. a \in Seq(C) /\ Len(a) \in 0..n /\ \A i, j \in 1..Len(a) : a[i] = a[j] => i = j
  BY DEF VectorHits, Some
<1>2. v = [i \in 1..Len(a) |-> Hit(a[i], i, vec[a[i].text], 0, 0)]
  BY DEF VectorHits
<1>3. MaxRank \in Nat /\ n \in Nat /\ n <= MaxRank
  BY Parameters
<1>4. ASSUME NEW i \in 1..Len(a)
      PROVE  /\ Hit(a[i], i, vec[a[i].text], 0, 0) \in HitType
             /\ Hit(a[i], i, vec[a[i].text], 0, 0).id = a[i].id
             /\ Hit(a[i], i, vec[a[i].text], 0, 0).rerankRank = 0
  <2>1. a[i] \in C /\ i \in 0..MaxRank /\ 0 \in 0..MaxRank
    BY <1>1, <1>3
  <2>2. a[i].id \in Identifier /\ a[i].text \in Text
    BY <2>1, ChunkFacts
  <2>3. vec[a[i].text] \in Scores \cup {0}
    BY <2>2
  <2>. QED
    BY <2>1, <2>2, <2>3 DEF Hit, HitType
<1>. DEFINE E(i) == Hit(a[i], i, vec[a[i].text], 0, 0)
<1>5. v = [i \in 1..Len(a) |-> E(i)]
  BY <1>2
<1>6. ASSUME NEW i \in 1..Len(a) PROVE E(i) \in HitType /\ E(i).id = a[i].id /\ E(i).rerankRank = 0
  BY <1>4
<1>. HIDE DEF E
<1>7. v \in Seq(HitType) /\ Len(v) = Len(a)
  BY <1>1, <1>5, <1>6
<1>8. ASSUME NEW i \in 1..Len(a), NEW j \in 1..Len(a), v[i].id = v[j].id PROVE i = j
  <2>1. a[i].id = a[j].id
    BY <1>5, <1>6, <1>8
  <2>2. a[i] \in Chunk /\ a[j] \in Chunk
    BY <1>1
  <2>. QED
    BY <1>1, <2>1, <2>2, ChunkFacts
<1>9. Distinct(v)
  BY <1>5, <1>8 DEF Distinct
<1>. QED
  BY <1>1, <1>5, <1>6, <1>7, <1>9 DEF Fresh

\* Hits of the lexical search have their types and differ.
LEMMA LexicalFresh ==
    ASSUME NEW C \in SUBSET Chunk, NEW lex \in [Text -> Scores \cup {0}], NEW n \in 1..MaxRank,
           NEW v, NEW a, LexicalHits(v, a, C, lex, n)
    PROVE  Fresh(v, n)
<1>1. a \in Seq(C) /\ Len(a) \in 0..n /\ \A i, j \in 1..Len(a) : a[i] = a[j] => i = j
  BY DEF LexicalHits, Some
<1>2. v = [i \in 1..Len(a) |-> Hit(a[i], 0, 0, i, lex[a[i].text])]
  BY DEF LexicalHits
<1>3. MaxRank \in Nat /\ n \in Nat /\ n <= MaxRank
  BY Parameters
<1>4. ASSUME NEW i \in 1..Len(a)
      PROVE  /\ Hit(a[i], 0, 0, i, lex[a[i].text]) \in HitType
             /\ Hit(a[i], 0, 0, i, lex[a[i].text]).id = a[i].id
             /\ Hit(a[i], 0, 0, i, lex[a[i].text]).rerankRank = 0
  <2>1. a[i] \in C /\ i \in 0..MaxRank /\ 0 \in 0..MaxRank
    BY <1>1, <1>3
  <2>2. a[i].id \in Identifier /\ a[i].text \in Text
    BY <2>1, ChunkFacts
  <2>3. lex[a[i].text] \in Scores \cup {0}
    BY <2>2
  <2>. QED
    BY <2>1, <2>2, <2>3 DEF Hit, HitType
<1>. DEFINE E(i) == Hit(a[i], 0, 0, i, lex[a[i].text])
<1>5. v = [i \in 1..Len(a) |-> E(i)]
  BY <1>2
<1>6. ASSUME NEW i \in 1..Len(a) PROVE E(i) \in HitType /\ E(i).id = a[i].id /\ E(i).rerankRank = 0
  BY <1>4
<1>. HIDE DEF E
<1>7. v \in Seq(HitType) /\ Len(v) = Len(a)
  BY <1>1, <1>5, <1>6
<1>8. ASSUME NEW i \in 1..Len(a), NEW j \in 1..Len(a), v[i].id = v[j].id PROVE i = j
  <2>1. a[i].id = a[j].id
    BY <1>5, <1>6, <1>8
  <2>2. a[i] \in Chunk /\ a[j] \in Chunk
    BY <1>1
  <2>. QED
    BY <1>1, <2>1, <2>2, ChunkFacts
<1>9. Distinct(v)
  BY <1>5, <1>8 DEF Distinct
<1>. QED
  BY <1>1, <1>5, <1>6, <1>7, <1>9 DEF Fresh

-----------------------------------------------------------------------------
(* Fusion.                                                                 *)

\* Hits of different chunks that no reranker has seen.
Mergeable(S) ==
    /\ IsFiniteSet(S) /\ S \in SUBSET HitType
    /\ \A x, y \in S : x.id = y.id => x = y
    /\ \A x \in S : x.rerankRank = 0

\* Where the chunk of h is in ls, and h with the rank it has there.
Both(h, ls)   == {i \in DOMAIN ls : ls[i].id = h.id}
Joined(h, ls) ==
    IF Both(h, ls) = {} THEN h
    ELSE LET l == ls[CHOOSE i \in Both(h, ls) : TRUE]
         IN [h EXCEPT !.lexicalRank = l.lexicalRank, !.lexicalScore = l.lexicalScore]

\* Fresh hits as a set.
LEMMA FreshMembers ==
    ASSUME NEW v, NEW n, Fresh(v, n)
    PROVE  /\ IsFiniteSet(ToSet(v)) /\ ToSet(v) \in SUBSET HitType
           /\ \A x, y \in ToSet(v) : x.id = y.id => x = y
           /\ \A x \in ToSet(v) : x.rerankRank = 0
<1>1. v \in Seq(HitType) /\ Distinct(v) /\ \A i \in 1..Len(v) : v[i].rerankRank = 0
  BY DEF Fresh
<1>2. Len(v) \in Nat /\ DOMAIN v = 1..Len(v) /\ v \in [1..Len(v) -> HitType]
  BY <1>1
<1>3. ToSet(v) = {v[i] : i \in 1..Len(v)}
  BY <1>2 DEF ToSet
<1>4. v \in [1..Len(v) -> ToSet(v)]
  BY <1>2, <1>3
<1>5. v \in Surjection(1..Len(v), ToSet(v))
  BY <1>3, <1>4 DEF Surjection
<1>6. IsFiniteSet(1..Len(v))
  BY <1>2, FS_Interval, 1 \in Int
<1>7. IsFiniteSet(ToSet(v))
  BY <1>5, <1>6, FS_Surjection
<1>. QED
  BY <1>1, <1>2, <1>3, <1>7 DEF Distinct

\* Joining changes the lexical rank and score only.
LEMMA JoinedHit ==
    ASSUME NEW h \in HitType, NEW ls, NEW n, Fresh(ls, n)
    PROVE  Joined(h, ls) \in HitType /\ Joined(h, ls).id = h.id
           /\ Joined(h, ls).rerankRank = h.rerankRank
<1>1. ls \in Seq(HitType)
  BY DEF Fresh
<1>2. CASE Both(h, ls) = {}
  BY <1>2 DEF Joined
<1>3. CASE Both(h, ls) # {}
  <2>. DEFINE i == CHOOSE i \in Both(h, ls) : TRUE
  <2>1. i \in Both(h, ls)
    BY <1>3
  <2>. HIDE DEF i
  <2>2. ls[i] \in HitType
    BY <1>1, <2>1 DEF Both
  <2>3. Joined(h, ls) = [h EXCEPT !.lexicalRank = ls[i].lexicalRank, !.lexicalScore = ls[i].lexicalScore]
    BY <1>3 DEF Joined, i
  <2>. QED
    BY <2>2, <2>3 DEF HitType
<1>. QED
  BY <1>2, <1>3

\* What fuseRRF combines, in these terms.
LEMMA CombinedJoined ==
    ASSUME NEW vs, NEW ls
    PROVE  Combined(vs, ls) = {Joined(h, ls) : h \in ToSet(vs)}
                              \cup {l \in ToSet(ls) : \A h \in ToSet(vs) : h.id # l.id}
BY DEF Combined, Joined, Both

\* Combining two lists of fresh hits does not repeat a chunk.
LEMMA CombinedMergeable ==
    ASSUME NEW vs, NEW ls, NEW n, Fresh(vs, n), Fresh(ls, n)
    PROVE  Mergeable(Combined(vs, ls))
<1>. DEFINE V == ToSet(vs)
            L == ToSet(ls)
            J == {Joined(h, ls) : h \in V}
            A == {l \in L : \A h \in V : h.id # l.id}
<1>1. /\ IsFiniteSet(V) /\ V \in SUBSET HitType
      /\ \A x, y \in V : x.id = y.id => x = y
      /\ \A x \in V : x.rerankRank = 0
  BY FreshMembers
<1>2. /\ IsFiniteSet(L) /\ L \in SUBSET HitType
      /\ \A x, y \in L : x.id = y.id => x = y
      /\ \A x \in L : x.rerankRank = 0
  BY FreshMembers
<1>3. Combined(vs, ls) = J \cup A
  BY CombinedJoined
<1>. HIDE DEF V, L
<1>4. ASSUME NEW h \in V
      PROVE  Joined(h, ls) \in HitType /\ Joined(h, ls).id = h.id /\ Joined(h, ls).rerankRank = 0
  BY <1>1, JoinedHit
<1>5. IsFiniteSet(J)
  <2>. DEFINE f == [h \in V |-> Joined(h, ls)]
  <2>1. f \in Surjection(V, J)
    BY DEF Surjection
  <2>. QED
    BY <1>1, <2>1, FS_Surjection
<1>6. IsFiniteSet(J \cup A)
  <2>1. IsFiniteSet(A)
    BY <1>2, FS_Subset
  <2>. QED
    BY <1>5, <2>1, FS_Union
<1>7. ASSUME NEW x \in J PROVE x \in HitType /\ x.rerankRank = 0 /\ \E h \in V : x = Joined(h, ls) /\ x.id = h.id
  BY <1>4
<1>8. ASSUME NEW x \in J, NEW y \in J, x.id = y.id PROVE x = y
  <2>1. PICK g \in V : x = Joined(g, ls) /\ x.id = g.id
    BY <1>7
  <2>2. PICK h \in V : y = Joined(h, ls) /\ y.id = h.id
    BY <1>7
  <2>. QED
    BY <1>1, <1>8, <2>1, <2>2
<1>9. ASSUME NEW x \in J, NEW y \in A PROVE x.id # y.id
  BY <1>7
<1>. QED
  <2>. HIDE DEF J
  <2>1. \A x \in J \cup A : x \in HitType /\ x.rerankRank = 0
    BY <1>2, <1>7
  <2>2. ASSUME NEW x \in J \cup A, NEW y \in J \cup A, x.id = y.id PROVE x = y
    <3>1. CASE x \in J /\ y \in J
      BY <1>8, <2>2, <3>1
    <3>2. CASE x \in A /\ y \in A
      BY <1>2, <2>2, <3>2
    <3>3. CASE x \in J /\ y \in A
      BY <1>9, <2>2, <3>3
    <3>4. CASE x \in A /\ y \in J
      BY <1>9, <2>2, <3>4
    <3>. HIDE DEF A
    <3>. QED
      BY <3>1, <3>2, <3>3, <3>4
  <2>. HIDE DEF A
  <2>. QED
    BY <1>3, <1>6, <2>1, <2>2 DEF Mergeable

-----------------------------------------------------------------------------
(* The order of fusion, which the hybrid statement has too.                *)

FusedOrder(S, n) ==
    LET Before(a, b) == \/ RRFScore(a) > RRFScore(b)
                        \/ RRFScore(a) = RRFScore(b) /\ BestScore(a) > BestScore(b)
                        \/ RRFScore(a) = RRFScore(b) /\ BestScore(a) = BestScore(b) /\ a.id < b.id
    IN Cut(Ordered(S, Before), n)

\* fuseRRF puts what it combined in this order.
LEMMA FuseOrders ==
    ASSUME NEW vs, NEW ls, NEW n
    PROVE  fuseRRF(vs, ls, n) = FusedOrder(Combined(vs, ls), n)
BY DEF fuseRRF, FusedOrder

\* This order is one, and the best come first in the sense of generationScore.
LEMMA FusedFresh ==
    ASSUME NEW S, Mergeable(S), NEW n \in Nat
    PROVE  Fresh(FusedOrder(S, n), n) /\ RankingOK(FusedOrder(S, n))
<1>. DEFINE Before(a, b) == \/ RRFScore(a) > RRFScore(b)
                            \/ RRFScore(a) = RRFScore(b) /\ BestScore(a) > BestScore(b)
                            \/ RRFScore(a) = RRFScore(b) /\ BestScore(a) = BestScore(b) /\ a.id < b.id
            o == Ordered(S, Before)
            R == {w \in S \X S : Before(w[1], w[2])}
<1>1. FusedOrder(S, n) = Cut(o, n)
  BY DEF FusedOrder
<1>2. o = [i \in 1..Cardinality(S) |-> CHOOSE x \in S : Cardinality({y \in S : Before(y, x)}) = i - 1]
  BY DEF Ordered
<1>3. /\ IsFiniteSet(S) /\ S \in SUBSET HitType
      /\ \A x, y \in S : x.id = y.id => x = y
      /\ \A x \in S : x.rerankRank = 0
  BY DEF Mergeable
<1>4. ASSUME NEW x \in S PROVE RRFScore(x) \in Int /\ BestScore(x) \in Int /\ x.id \in Int
  <2>1. x \in HitType
    BY <1>3
  <2>2. RRFScore(x) \in Int
    BY <2>1, ScoreType
  <2>3. x.id \in Identifier /\ x.vectorScore \in Scores \cup {0} /\ x.lexicalScore \in Scores \cup {0}
    BY <2>1 DEF HitType
  <2>4. x.id \in Int /\ x.vectorScore \in Nat /\ x.lexicalScore \in Nat
    BY <2>3, Parameters
  <2>5. BestScore(x) \in Int
    <3>. DEFINE P == {x.vectorScore, x.lexicalScore}
    <3>1. P # {} /\ P \in SUBSET Int
      BY <2>4
    <3>2. IsFiniteSet(P)
      <4>1. IsFiniteSet({x.vectorScore}) /\ IsFiniteSet({x.lexicalScore})
        BY FS_Singleton
      <4>2. P = {x.vectorScore} \cup {x.lexicalScore}
        OBVIOUS
      <4>. HIDE DEF P
      <4>. QED
        BY <4>1, <4>2, FS_Union
    <3>. HIDE DEF P
    <3>3. Max(P) \in P
      BY <3>1, <3>2, Largest
    <3>. QED
      BY <3>1, <3>3 DEF BestScore, P
  <2>. QED
    BY <2>2, <2>4, <2>5
<1>5. \A a, b \in S : <<a, b>> \in R <=> Before(a, b)
  <2>. SUFFICES ASSUME NEW a \in S, NEW b \in S PROVE <<a, b>> \in R <=> Before(a, b)
    OBVIOUS
  <2>. DEFINE u == <<a, b>>
  <2>1. u \in S \X S /\ u[1] = a /\ u[2] = b
    OBVIOUS
  <2>. HIDE DEF u, Before
  <2>2. u \in R <=> Before(u[1], u[2])
    BY <2>1
  <2>. QED
    BY <2>1, <2>2 DEF u
<1>. HIDE DEF R, o
<1>6. Orders(R, S)
  <2>1. \A x \in S : ~Before(x, x)
    BY <1>4
  <2>2. ASSUME NEW x \in S, NEW y \in S PROVE x = y \/ Before(x, y) \/ Before(y, x)
    BY <1>3, <1>4
  <2>3. ASSUME NEW x \in S, NEW y \in S, NEW z \in S, Before(x, y), Before(y, z) PROVE Before(x, z)
    <3>1. /\ RRFScore(x) \in Int /\ RRFScore(y) \in Int /\ RRFScore(z) \in Int
          /\ BestScore(x) \in Int /\ BestScore(y) \in Int /\ BestScore(z) \in Int
          /\ x.id \in Int /\ y.id \in Int /\ z.id \in Int
      BY <1>4
    <3>. QED
      BY <2>3, <3>1
  <2>. HIDE DEF Before
  <2>. QED
    BY <1>5, <2>1, <2>2, <2>3 DEF Orders
<1>7. ASSUME NEW x \in S, NEW y \in S, Before(x, y) PROVE RRFScore(x) >= RRFScore(y)
  BY <1>4, <1>7
<1>. HIDE DEF Before
<1>8. Ranked(R, S)
  BY <1>3, <1>6, Ranks
<1>9. ASSUME NEW x \in S PROVE {y \in S : Before(y, x)} = Below(R, S, x)
  BY <1>5 DEF Below
<1>10. Lists(o, R, S)
  <2>1. ASSUME NEW i \in 1..Cardinality(S)
        PROVE  o[i] \in S /\ Cardinality(Below(R, S, o[i])) = i - 1
    <3>1. Cardinality(S) \in Nat /\ i - 1 \in 0..(Cardinality(S) - 1)
      BY <1>8 DEF Ranked
    <3>2. \E x \in S : Cardinality({y \in S : Before(y, x)}) = i - 1
      BY <1>8, <1>9, <3>1 DEF Ranked
    <3>3. o[i] = CHOOSE x \in S : Cardinality({y \in S : Before(y, x)}) = i - 1
      BY <1>2
    <3>4. o[i] \in S /\ Cardinality({y \in S : Before(y, o[i])}) = i - 1
      BY <3>2, <3>3
    <3>. QED
      BY <1>9, <3>4
  <2>2. o = [i \in 1..Cardinality(S) |-> o[i]]
    <3>. DEFINE E(i) == CHOOSE x \in S : Cardinality({y \in S : Before(y, x)}) = i - 1
    <3>1. o = [i \in 1..Cardinality(S) |-> E(i)]
      BY <1>2
    <3>. HIDE DEF E
    <3>. QED
      BY <3>1
  <2>. QED
    BY <2>1, <2>2 DEF Lists
<1>11. /\ o \in Seq(S)
       /\ \A i, j \in 1..Len(o) : i < j <=> <<o[i], o[j]>> \in R
       /\ \A i, j \in 1..Len(o) : o[i] = o[j] => i = j
  BY <1>3, <1>6, <1>10, ListFacts
<1>12. Begins(Cut(o, n), o, n, S)
  BY <1>11, CutBegins
<1>. DEFINE c == Cut(o, n)
<1>13. c \in Seq(S) /\ Len(c) \in 0..n /\ Len(c) <= Len(o) /\ \A i \in 1..Len(c) : c[i] = o[i]
  BY <1>12 DEF Begins
<1>. HIDE DEF c
<1>14. ASSUME NEW i \in 1..Len(c) PROVE i \in 1..Len(o) /\ c[i] \in S /\ c[i] = o[i]
  BY <1>11, <1>13
<1>15. ASSUME NEW i \in 1..Len(c), NEW j \in 1..Len(c), c[i].id = c[j].id PROVE i = j
  BY <1>3, <1>11, <1>14, <1>15
<1>16. c \in Seq(HitType) /\ Distinct(c)
  <2>1. DOMAIN c = 1..Len(c)
    BY <1>13
  <2>2. c \in Seq(HitType)
    BY <1>3, <1>13
  <2>. QED
    BY <1>15, <2>1, <2>2 DEF Distinct
<1>17. Fresh(c, n)
  BY <1>3, <1>13, <1>14, <1>16 DEF Fresh
<1>18. ASSUME NEW i \in 1..Len(c), NEW j \in 1..Len(c), i < j
       PROVE  generationScore(c[i]) >= generationScore(c[j])
  <2>1. <<o[i], o[j]>> \in R
    BY <1>11, <1>14, <1>18
  <2>2. Before(c[i], c[j])
    BY <1>5, <1>14, <2>1
  <2>3. RRFScore(c[i]) >= RRFScore(c[j])
    BY <1>7, <1>14, <2>2
  <2>4. generationScore(c[i]) = RRFScore(c[i]) /\ generationScore(c[j]) = RRFScore(c[j])
    BY <1>3, <1>14 DEF generationScore
  <2>. QED
    BY <2>3, <2>4
<1>19. RankingOK(c)
  BY <1>16, <1>18 DEF RankingOK
<1>. QED
  BY <1>1, <1>17, <1>19 DEF c

\* What fuseRRF returns can be selected from.
LEMMA Fuses ==
    ASSUME NEW vs, NEW ls, NEW n \in Nat, Fresh(vs, n), Fresh(ls, n)
    PROVE  Fresh(fuseRRF(vs, ls, n), n) /\ RankingOK(fuseRRF(vs, ls, n))
BY CombinedMergeable, FuseOrders, FusedFresh

-----------------------------------------------------------------------------
(* The order of the reranker.                                              *)

\* The results the provider lets pass are sorted by score.
LEMMA ResultsSorted ==
    ASSUME NEW n \in Nat, NEW results \in Results(n)
    PROVE  \E items \in [1..n -> [index : 1..n, score : Scores]] :
              SortedBy(results, items, [i \in 1..n |-> items[i].score], n)
<1>. DEFINE Score(result) == result.score
<1>1. PICK s \in [1..n -> [index : 1..n, score : Scores]] : results = StableSort(s, Score)
  BY DEF Results
<1>. DEFINE v == [i \in 1..n |-> s[i].score]
            R == Falling(v)
            Before(i, j) == Score(s[i]) > Score(s[j]) \/ (Score(s[i]) = Score(s[j]) /\ i < j)
            at == Ordered(1..n, Before)
<1>2. DOMAIN s = 1..n /\ \A i \in 1..n : s[i].score \in Scores
  OBVIOUS
<1>3. v \in [1..n -> Int]
  <2>1. \A x \in Scores : x \in Int
    BY Parameters
  <2>. QED
    BY <1>2, <2>1
<1>4. Orders(R, 1..n) /\ FallsWith(R, v, n)
  <2>. HIDE DEF v
  <2>. QED
    BY <1>3, FallingOrders
<1>5. ASSUME NEW i \in 1..n, NEW j \in 1..n PROVE Before(i, j) <=> <<i, j>> \in R
  BY <1>4 DEF FallsWith
<1>6. results = [i \in 1..n |-> s[at[i]]]
  BY <1>1, <1>2 DEF StableSort
<1>7. at = [i \in 1..Cardinality(1..n) |->
              CHOOSE x \in 1..n : Cardinality({y \in 1..n : Before(y, x)}) = i - 1]
  BY DEF Ordered
<1>. HIDE DEF R, v, at, Before
<1>8. ASSUME NEW x \in 1..n PROVE {y \in 1..n : Before(y, x)} = Below(R, 1..n, x)
  BY <1>5 DEF Below
<1>9. IsFiniteSet(1..n)
  BY FS_Interval, 1 \in Int, n \in Int
<1>10. Ranked(R, 1..n)
  BY <1>4, <1>9, Ranks
<1>11. Lists(at, R, 1..n)
  <2>1. ASSUME NEW i \in 1..Cardinality(1..n)
        PROVE  at[i] \in 1..n /\ Cardinality(Below(R, 1..n, at[i])) = i - 1
    <3>1. Cardinality(1..n) \in Nat /\ i - 1 \in 0..(Cardinality(1..n) - 1)
      BY <1>10 DEF Ranked
    <3>2. \E x \in 1..n : Cardinality({y \in 1..n : Before(y, x)}) = i - 1
      BY <1>8, <1>10, <3>1 DEF Ranked
    <3>3. at[i] = CHOOSE x \in 1..n : Cardinality({y \in 1..n : Before(y, x)}) = i - 1
      BY <1>7
    <3>4. at[i] \in 1..n /\ Cardinality({y \in 1..n : Before(y, at[i])}) = i - 1
      BY <3>2, <3>3
    <3>. QED
      BY <1>8, <3>4
  <2>2. at = [i \in 1..Cardinality(1..n) |-> at[i]]
    <3>. DEFINE E(i) == CHOOSE x \in 1..n : Cardinality({y \in 1..n : Before(y, x)}) = i - 1
    <3>1. at = [i \in 1..Cardinality(1..n) |-> E(i)]
      BY <1>7
    <3>. HIDE DEF E
    <3>. QED
      BY <3>1
  <2>. QED
    BY <2>1, <2>2 DEF Lists
<1>12. SortedBy(results, s, v, n)
  BY <1>6, <1>11 DEF SortedBy, R
<1>. QED
  BY <1>12 DEF v

\* What the provider lets pass: one result per text, valid indexes, the best first.
ResultsOK(results, n) ==
    /\ DOMAIN results = 1..n /\ Len(results) = n
    /\ \A r \in 1..n : results[r].index \in 1..n /\ results[r].score \in Scores
    /\ \A q, r \in 1..n : q < r => results[q].score >= results[r].score

\* Each result has a valid index, and the scores do not rise.
LEMMA ResultsFall ==
    ASSUME NEW n \in Nat, NEW results \in Results(n)
    PROVE  ResultsOK(results, n)
<1>1. PICK s \in [1..n -> [index : 1..n, score : Scores]] :
         SortedBy(results, s, [i \in 1..n |-> s[i].score], n)
  BY ResultsSorted
<1>. DEFINE v == [i \in 1..n |-> s[i].score]
<1>2. v \in [1..n -> Int]
  <2>1. \A x \in Scores : x \in Int
    BY Parameters
  <2>. QED
    BY <2>1
<1>3. \A i \in 1..n : v[i] = s[i].score
  OBVIOUS
<1>4. SortedBy(results, s, v, n)
  BY <1>1
<1>. HIDE DEF v
<1>5. FallsAs(results, s, v, n)
  BY <1>2, <1>4, SortedFalls
<1>6. DOMAIN results = 1..n /\ Len(results) = n
  BY <1>5 DEF FallsAs
<1>7. ASSUME NEW r \in 1..n PROVE results[r].index \in 1..n /\ results[r].score \in Scores
  BY <1>5 DEF FallsAs
<1>8. ASSUME NEW q \in 1..n, NEW r \in 1..n, q < r PROVE results[q].score >= results[r].score
  <2>1. PICK at \in [1..n -> 1..n] :
           \A i \in 1..n : results[i] = s[at[i]] /\ \A j \in 1..n : i < j => v[at[i]] >= v[at[j]]
    BY <1>5 DEF FallsAs
  <2>2. at[q] \in 1..n /\ at[r] \in 1..n
    OBVIOUS
  <2>3. results[q] = s[at[q]] /\ results[r] = s[at[r]]
    BY <2>1
  <2>4. v[at[q]] >= v[at[r]]
    BY <1>8, <2>1
  <2>5. v[at[q]] = s[at[q]].score /\ v[at[r]] = s[at[r]].score
    BY <1>3, <2>2
  <2>. QED
    BY <2>3, <2>4, <2>5
<1>. QED
  BY <1>6, <1>7, <1>8 DEF ResultsOK

\* The reranker's order names no chunk twice and has the best first, whatever
\* indexes the results repeat: what RankedBy yields can be selected from.
LEMMA Reranks ==
    ASSUME NEW hits, NEW m \in 0..MaxRank, Fresh(hits, m), NEW results \in Results(Len(hits))
    PROVE  RankingOK(RankedBy(hits, results)) /\ Len(RankedBy(hits, results)) <= MaxRank
<1>. DEFINE n == Len(hits)
            named == RankedAsNamed(hits, results)
            T == FirstNamed(results, n)
<1>1. hits \in Seq(HitType) /\ Distinct(hits) /\ n <= m /\ n \in Nat /\ MaxRank \in Nat /\ n <= MaxRank
  BY Parameters DEF Fresh
<1>2. results \in Results(n)
  OBVIOUS
<1>. HIDE DEF n
<1>3. ResultsOK(results, n)
  BY <1>1, <1>2, ResultsFall
<1>4. PICK g : RankedBy(hits, results) = g[n] /\ Chooses(g, named, T)
  BY <1>1, <1>3, RankedChooses DEF ResultsOK
<1>5. named = [r \in 1..n |-> [hits[results[r].index] EXCEPT !.rerankRank = r, !.rerankScore = results[r].score]]
  BY <1>3 DEF RankedAsNamed, ResultsOK
<1>6. ASSUME NEW r \in 1..n
      PROVE  /\ hits[results[r].index] \in HitType
             /\ named[r] \in HitType
             /\ named[r].id = hits[results[r].index].id
             /\ named[r].rerankRank = r
             /\ named[r].rerankScore = results[r].score
             /\ generationScore(named[r]) = results[r].score
  <2>1. results[r].index \in 1..n /\ results[r].score \in Scores
    BY <1>3 DEF ResultsOK
  <2>2. hits[results[r].index] \in HitType
    BY <1>1, <2>1 DEF n
  <2>3. r \in 0..MaxRank /\ r > 0
    BY <1>1
  <2>. DEFINE h == hits[results[r].index]
              x == results[r].score
  <2>4. named[r] = [h EXCEPT !.rerankRank = r, !.rerankScore = x]
    BY <1>5
  <2>. HIDE DEF h, x
  <2>5. h \in HitType /\ x \in Scores
    BY <2>1, <2>2 DEF h, x
  <2>6. named[r] \in HitType /\ named[r].id = h.id /\ named[r].rerankRank = r /\ named[r].rerankScore = x
    BY <2>3, <2>4, <2>5 DEF HitType
  <2>. QED
    BY <2>2, <2>3, <2>6 DEF generationScore, h, x
<1>. DEFINE p == Position(T)
            f == g[n]
<1>. HIDE DEF named
<1>7. named \in Seq(HitType) /\ Len(named) = n
  <2>1. named \in [1..n -> HitType]
    BY <1>5, <1>6
  <2>. QED
    BY <1>1, <2>1
<1>8. T \in SUBSET (1..n)
  BY DEF FirstNamed
<1>9. \A q, r \in T : q < r => results[q].index # results[r].index
  <2>. SUFFICES ASSUME NEW q \in T, NEW r \in T, q < r PROVE results[q].index # results[r].index
    OBVIOUS
  <2>1. q \in 1..(r - 1)
    BY <1>8
  <2>. QED
    BY <2>1 DEF FirstNamed
<1>. HIDE DEF T
<1>10. ChosenTo(n, g, named, T, HitType)
  BY <1>1, <1>4, <1>7, <1>8, ChosenFacts
<1>11. /\ Cardinality(T) \in Nat /\ p \in Seq(T) /\ Len(p) = Cardinality(T)
       /\ \A a, b \in 1..Cardinality(T) : a < b <=> p[a] < p[b]
  BY <1>1, <1>8, PositionFacts
<1>12. f \in Seq(HitType) /\ Len(f) <= Cardinality(T) /\ \A a \in 1..Len(f) : f[a] = named[p[a]]
  BY <1>10 DEF ChosenTo
<1>. HIDE DEF f, p
<1>13. ASSUME NEW a \in 1..Len(f) PROVE a \in 1..Cardinality(T) /\ p[a] \in T /\ p[a] \in 1..n
  <2>1. a \in 1..Cardinality(T)
    BY <1>11, <1>12
  <2>. QED
    <3>1. p \in Seq(T) /\ Len(p) = Cardinality(T)
      BY <1>11
    <3>2. a \in 1..Len(p)
      BY <2>1, <3>1
    <3>3. p[a] \in T
      BY <3>1, <3>2
    <3>. QED
      BY <1>8, <2>1, <3>3
<1>14. ASSUME NEW a \in 1..Len(f), NEW b \in 1..Len(f), a < b
       PROVE  f[a].id # f[b].id /\ generationScore(f[a]) >= generationScore(f[b])
  <2>1. p[a] < p[b]
    BY <1>11, <1>13, <1>14
  <2>2. results[p[a]].index # results[p[b]].index
    BY <1>9, <1>13, <2>1
  <2>3. results[p[a]].index \in 1..n /\ results[p[b]].index \in 1..n
        /\ results[p[a]].score >= results[p[b]].score
    BY <1>3, <1>13, <2>1 DEF ResultsOK
  <2>4. hits[results[p[a]].index].id # hits[results[p[b]].index].id
    <3>1. DOMAIN hits = 1..n
      BY <1>1 DEF n
    <3>. QED
      BY <1>1, <2>2, <2>3, <3>1 DEF Distinct
  <2>5. p[a] \in 1..n /\ f[a] = named[p[a]] /\ p[b] \in 1..n /\ f[b] = named[p[b]]
    BY <1>12, <1>13
  <2>6. /\ f[a].id = hits[results[p[a]].index].id /\ f[b].id = hits[results[p[b]].index].id
        /\ generationScore(f[a]) = results[p[a]].score /\ generationScore(f[b]) = results[p[b]].score
    BY <1>6, <2>5
  <2>. QED
    BY <2>3, <2>4, <2>6
<1>15. Distinct(f)
  <2>1. DOMAIN f = 1..Len(f) /\ Len(f) \in Nat
    BY <1>12
  <2>2. ASSUME NEW a \in 1..Len(f), NEW b \in 1..Len(f), f[a].id = f[b].id PROVE a = b
    <3>1. ~(a < b) /\ ~(b < a)
      BY <1>14, <2>2
    <3>. QED
      BY <2>1, <3>1
  <2>. QED
    BY <2>1, <2>2 DEF Distinct
<1>16. RankingOK(f)
  BY <1>12, <1>14, <1>15 DEF RankingOK
<1>17. Len(f) <= MaxRank
  <2>1. Cardinality(T) <= n
    <3>1. IsFiniteSet(1..n) /\ Cardinality(1..n) = n
      BY <1>1, FS_Interval, 1 \in Int, n \in Int
    <3>. QED
      BY <1>8, <3>1, FS_Subset
  <2>. QED
    BY <1>1, <1>11, <1>12, <2>1
<1>. QED
  BY <1>4, <1>16, <1>17 DEF f

-----------------------------------------------------------------------------
(* The hybrid statement.                                                   *)

RankIn(s, c) == IF Both(c, s) = {} THEN 0 ELSE CHOOSE i \in Both(c, s) : TRUE
Entry(c, vec, lex, vs, ls) ==
    Hit(c, RankIn(vs, c), IF RankIn(vs, c) = 0 THEN 0 ELSE vec[c.text],
        RankIn(ls, c), IF RankIn(ls, c) = 0 THEN 0 ELSE lex[c.text])
Found(C, vs, ls) == {k \in C : Both(k, vs) \cup Both(k, ls) # {}}
Outer(C, vec, lex, vs, ls) == {Entry(c, vec, lex, vs, ls) : c \in Found(C, vs, ls)}

\* The hybrid statement puts its outer join in the order of fusion.
LEMMA HybridOrders ==
    ASSUME NEW C, NEW vec, NEW lex, NEW n
    PROVE  searchHybrid(C, vec, lex, n)
              = FusedOrder(Outer(C, vec, lex, searchVector(C, vec, n), searchLexical(C, lex, n)), n)
BY DEF searchHybrid, FusedOrder, Outer, Found, Entry, RankIn, Both

\* c is at most once in s, which is made of the chunks a.
Once(s, a, c) ==
    /\ \A i \in 1..Len(a) : a[i] = c => Both(c, s) = {i} /\ RankIn(s, c) = i
    /\ (\A i \in 1..Len(a) : a[i] # c) => Both(c, s) = {} /\ RankIn(s, c) = 0

\* A search returns no chunk twice, so the rank of a chunk is well-defined.
LEMMA OneRank ==
    ASSUME NEW C \in SUBSET Chunk, NEW a, NEW n, Some(a, C, n), NEW s, DOMAIN s = 1..Len(a),
           \A i \in 1..Len(a) : s[i].id = a[i].id, NEW c \in C
    PROVE  Once(s, a, c)
<1>1. a \in Seq(C) /\ \A i, j \in 1..Len(a) : a[i] = a[j] => i = j
  BY DEF Some
<1>2. ASSUME NEW i \in 1..Len(a) PROVE i \in Both(c, s) <=> a[i] = c
  <2>1. a[i] \in Chunk /\ c \in Chunk
    BY <1>1
  <2>. QED
    BY <2>1, ChunkFacts DEF Both
<1>3. Both(c, s) \in SUBSET (1..Len(a))
  BY DEF Both
<1>4. ASSUME NEW i \in 1..Len(a), a[i] = c PROVE Both(c, s) = {i} /\ RankIn(s, c) = i
  <2>1. Both(c, s) = {i}
    BY <1>1, <1>2, <1>3, <1>4
  <2>. QED
    BY <2>1 DEF RankIn
<1>5. ASSUME \A i \in 1..Len(a) : a[i] # c PROVE Both(c, s) = {} /\ RankIn(s, c) = 0
  <2>1. Both(c, s) = {}
    BY <1>2, <1>3, <1>5
  <2>. QED
    BY <2>1 DEF RankIn
<1>. QED
  BY <1>4, <1>5 DEF Once

\* The outer join of two searches of the same chunks is what fuseRRF combines.
LEMMA OuterCombined ==
    ASSUME NEW C \in SUBSET Chunk, NEW vec, NEW lex, NEW n,
           NEW vs, NEW a, VectorHits(vs, a, C, vec, n), NEW ls, NEW b, LexicalHits(ls, b, C, lex, n)
    PROVE  Outer(C, vec, lex, vs, ls) = Combined(vs, ls)
<1>. DEFINE F(c) == Entry(c, vec, lex, vs, ls)
            J == {Joined(h, ls) : h \in ToSet(vs)}
            A == {l \in ToSet(ls) : \A h \in ToSet(vs) : h.id # l.id}
<1>1. Some(a, C, n) /\ a \in Seq(C) /\ Len(a) \in Nat
  BY DEF VectorHits, Some
<1>2. Some(b, C, n) /\ b \in Seq(C) /\ Len(b) \in Nat
  BY DEF LexicalHits, Some
<1>3. /\ DOMAIN vs = 1..Len(a)
      /\ \A i \in 1..Len(a) : vs[i] = Hit(a[i], i, vec[a[i].text], 0, 0)
  BY DEF VectorHits
<1>4. /\ DOMAIN ls = 1..Len(b)
      /\ \A i \in 1..Len(b) : ls[i] = Hit(b[i], 0, 0, i, lex[b[i].text])
  BY DEF LexicalHits
<1>5. \A i \in 1..Len(a) : vs[i].id = a[i].id /\ a[i] \in C
  BY <1>1, <1>3 DEF Hit
<1>6. \A i \in 1..Len(b) : ls[i].id = b[i].id /\ b[i] \in C
  BY <1>2, <1>4 DEF Hit
<1>7. ASSUME NEW c \in C PROVE Once(vs, a, c) /\ Once(ls, b, c)
  <2>1. Once(vs, a, c)
    BY <1>1, <1>3, <1>5, OneRank
  <2>2. Once(ls, b, c)
    BY <1>2, <1>4, <1>6, OneRank
  <2>. QED
    BY <2>1, <2>2
<1>8. /\ \A x : x \in ToSet(vs) <=> \E i \in 1..Len(a) : x = vs[i]
      /\ \A x : x \in ToSet(ls) <=> \E i \in 1..Len(b) : x = ls[i]
  BY <1>3, <1>4 DEF ToSet
<1>9. ASSUME NEW i \in 1..Len(a) PROVE F(a[i]) = Joined(vs[i], ls) /\ a[i] \in Found(C, vs, ls)
  <2>. DEFINE c == a[i]
  <2>1. c \in C
    BY <1>5
  <2>2. Both(c, vs) = {i} /\ RankIn(vs, c) = i /\ i # 0
    BY <1>7, <2>1 DEF Once
  <2>3. c \in Found(C, vs, ls)
    BY <2>1, <2>2 DEF Found
  <2>4. vs[i] = Hit(c, i, vec[c.text], 0, 0)
    BY <1>3
  <2>5. Both(vs[i], ls) = Both(c, ls)
    BY <1>5 DEF Both
  <2>. HIDE DEF c
  <2>6. CASE \E j \in 1..Len(b) : b[j] = c
    <3>1. PICK j \in 1..Len(b) : b[j] = c
      BY <2>6
    <3>2. Both(c, ls) = {j} /\ RankIn(ls, c) = j /\ j # 0
      BY <1>7, <2>1, <3>1 DEF Once
    <3>3. F(c) = Hit(c, i, vec[c.text], j, lex[c.text])
      BY <2>2, <3>2 DEF Entry
    <3>4. ls[j] = Hit(c, 0, 0, j, lex[c.text])
      BY <1>4, <3>1
    <3>5. (CHOOSE k \in Both(vs[i], ls) : TRUE) = j /\ Both(vs[i], ls) # {}
      BY <2>5, <3>2
    <3>6. Joined(vs[i], ls) = [vs[i] EXCEPT !.lexicalRank = ls[j].lexicalRank,
                                            !.lexicalScore = ls[j].lexicalScore]
      BY <3>5 DEF Joined
    <3>. DEFINE l == ls[j]
                h == vs[i]
    <3>7. l.lexicalRank = j /\ l.lexicalScore = lex[c.text]
      BY <3>4 DEF Hit
    <3>8. Joined(h, ls) = [h EXCEPT !.lexicalRank = j, !.lexicalScore = lex[c.text]]
      BY <3>6, <3>7
    <3>9. h = Hit(c, i, vec[c.text], 0, 0)
      BY <2>4
    <3>. HIDE DEF h, l
    <3>10. Joined(h, ls) = Hit(c, i, vec[c.text], j, lex[c.text])
      BY <3>8, <3>9 DEF Hit
    <3>. QED
      BY <2>3, <3>3, <3>10 DEF c, h
  <2>7. CASE \A j \in 1..Len(b) : b[j] # c
    <3>1. Both(c, ls) = {} /\ RankIn(ls, c) = 0
      BY <1>7, <2>1, <2>7 DEF Once
    <3>2. F(c) = Hit(c, i, vec[c.text], 0, 0)
      BY <2>2, <3>1 DEF Entry
    <3>3. Joined(vs[i], ls) = vs[i]
      BY <2>5, <3>1 DEF Joined
    <3>. QED
      BY <2>3, <2>4, <3>2, <3>3 DEF c
  <2>. QED
    BY <2>6, <2>7
<1>10. ASSUME NEW j \in 1..Len(b), \A i \in 1..Len(a) : a[i] # b[j]
      PROVE  F(b[j]) = ls[j] /\ b[j] \in Found(C, vs, ls)
  <2>. DEFINE c == b[j]
  <2>1. c \in C
    BY <1>6
  <2>2. Both(c, ls) = {j} /\ RankIn(ls, c) = j /\ j # 0
    BY <1>7, <2>1 DEF Once
  <2>3. c \in Found(C, vs, ls)
    BY <2>1, <2>2 DEF Found
  <2>4. ls[j] = Hit(c, 0, 0, j, lex[c.text])
    BY <1>4
  <2>5. Both(c, vs) = {} /\ RankIn(vs, c) = 0
    BY <1>7, <1>10, <2>1 DEF Once
  <2>. HIDE DEF c
  <2>6. F(c) = Hit(c, 0, 0, j, lex[c.text])
    BY <2>2, <2>5 DEF Entry
  <2>. QED
    BY <2>3, <2>4, <2>6 DEF c
<1>11. ASSUME NEW j \in 1..Len(b)
       PROVE  ls[j] \in A <=> \A i \in 1..Len(a) : a[i] # b[j]
  <2>1. ASSUME NEW i \in 1..Len(a) PROVE vs[i].id = ls[j].id <=> a[i] = b[j]
    <3>1. a[i] \in Chunk /\ b[j] \in Chunk
      BY <1>5, <1>6
    <3>. QED
      BY <1>5, <1>6, <3>1, ChunkFacts
  <2>2. ls[j] \in A <=> \A i \in 1..Len(a) : vs[i].id # ls[j].id
    BY <1>8
  <2>. QED
    BY <2>1, <2>2
<1>12. Combined(vs, ls) = J \cup A
  BY CombinedJoined
<1>13. Outer(C, vec, lex, vs, ls) = {F(c) : c \in Found(C, vs, ls)}
  BY DEF Outer
<1>. HIDE DEF F
<1>14. ASSUME NEW c \in Found(C, vs, ls) PROVE F(c) \in J \cup A
  <2>1. CASE \E i \in 1..Len(a) : a[i] = c
    BY <1>8, <1>9, <2>1
  <2>2. CASE \A i \in 1..Len(a) : a[i] # c
    <3>1. c \in C /\ Both(c, vs) \cup Both(c, ls) # {}
      BY DEF Found
    <3>2. Both(c, vs) = {}
      BY <1>7, <2>2, <3>1 DEF Once
    <3>3. PICK j \in 1..Len(b) : b[j] = c
      BY <1>7, <3>1, <3>2 DEF Once
    <3>. QED
      BY <1>10, <1>11, <2>2, <3>3
  <2>. QED
    BY <2>1, <2>2
<1>15. ASSUME NEW x \in J PROVE \E c \in Found(C, vs, ls) : x = F(c)
  BY <1>8, <1>9
<1>16. ASSUME NEW x \in A PROVE \E c \in Found(C, vs, ls) : x = F(c)
  <2>1. PICK j \in 1..Len(b) : x = ls[j]
    BY <1>8
  <2>. HIDE DEF A
  <2>. QED
    BY <1>10, <1>11, <1>16, <2>1
<1>. HIDE DEF J, A
<1>. QED
  BY <1>12, <1>13, <1>14, <1>15, <1>16

\* Two searches of the same chunks and fuseRRF give what the hybrid statement gives.
LEMMA HybridFuses ==
    ASSUME NEW C \in SUBSET Chunk, NEW vec \in [Text -> Scores \cup {0}],
           NEW lex \in [Text -> Scores \cup {0}], NEW n \in Nat
    PROVE  fuseRRF(searchVector(C, vec, n), searchLexical(C, lex, n), n) = searchHybrid(C, vec, lex, n)
<1>1. PICK a : VectorHits(searchVector(C, vec, n), a, C, vec, n)
  BY VectorFinds
<1>2. PICK b : LexicalHits(searchLexical(C, lex, n), b, C, lex, n)
  BY LexicalFinds
<1>. DEFINE vs == searchVector(C, vec, n)
            ls == searchLexical(C, lex, n)
<1>3. searchHybrid(C, vec, lex, n) = FusedOrder(Outer(C, vec, lex, vs, ls), n)
  BY HybridOrders
<1>4. VectorHits(vs, a, C, vec, n) /\ LexicalHits(ls, b, C, lex, n)
  BY <1>1, <1>2
<1>. HIDE DEF vs, ls
<1>5. Outer(C, vec, lex, vs, ls) = Combined(vs, ls)
  BY <1>4, OuterCombined
<1>6. fuseRRF(vs, ls, n) = FusedOrder(Combined(vs, ls), n)
  BY FuseOrders
<1>. QED
  BY <1>3, <1>5, <1>6 DEF vs, ls

-----------------------------------------------------------------------------
(* The inductive invariant.                                                *)

\* What the searches see, ask for and find is of the kinds the model names.
StoreOK ==
    /\ chunks \in SUBSET Chunk
    /\ read \in SUBSET Chunk
    /\ changes \in 0..MaxChanges

RequestOK ==
    /\ stage \in {"arrived", "vector", "lexical", "rerank", "answering", "over"}
    /\ request \in [topK : TopKs \cup {0}, rerank : BOOLEAN,
                    vec : [Text -> Scores \cup {0}], lex : [Text -> Scores \cup {0}]]

HitsOK(hits) == hits \in Seq(HitType) /\ Len(hits) <= MaxRank

\* The vector hits are those of the chunks that were read; the candidates are
\* fresh hits, the best first.
Searched    == stage = "lexical" => vectorHits = searchVector(read, request.vec, Limit)
FusedBefore == stage = "rerank" => Fresh(candidates, Limit) /\ RankingOK(candidates)

OutcomeOK ==
    /\ HitsOK(outcome.citations)
    /\ outcome.blocks = Blocks(outcome.citations)
    /\ outcome.reranked \in BOOLEAN /\ outcome.fallback \in BOOLEAN

RetrievalInv ==
    /\ StoreOK
    /\ RequestOK
    /\ HitsOK(vectorHits) /\ HitsOK(candidates) /\ HitsOK(ranking)
    /\ Searched
    /\ FusedBefore
    /\ OutcomeOK
    /\ CitationsDiffer
    /\ CitedUnlessCrowded

\* The empty sequence of hits.
LEMMA NoHits == HitsOK(<<>>)
BY Parameters DEF HitsOK

\* What is prepared from a ranking.
SourcesOf(q, r, k) ==
    /\ PrepareGenerationContext(selectDiverse(r, k, RerankMaxPerDoc)) = Context(q)
    /\ HitsOK(q)
    /\ \A a, b \in DOMAIN q : Key[q[a].text] = Key[q[b].text] => a = b
    /\ CitedFrom(r, q, Blocks(q), RoomyIn(r, k))

\* Sources are prepared from any ranking that may be selected from.
LEMMA SourcesFound ==
    ASSUME NEW r, RankingOK(r), Len(r) <= MaxRank, NEW k \in Nat
    PROVE  \E q : SourcesOf(q, r, k)
<1>1. PICK h, T : Prepares(h, T, r, k)
  BY Prepared
<1>2. r \in Seq(HitType) /\ Distinct(r) /\ Len(r) \in Nat
  BY DEF RankingOK
<1>3. T \in SUBSET (1..Len(r)) /\ Chooses(h, r, T)
  BY <1>1 DEF Prepares
<1>. DEFINE q == h[Len(r)]
<1>4. PrepareGenerationContext(selectDiverse(r, k, RerankMaxPerDoc)) = Context(q)
  BY <1>1 DEF Prepares
<1>5. q \in Seq(HitType) /\ Len(q) <= Cardinality(T)
  <2>1. ChosenTo(Len(r), h, r, T, HitType)
    BY <1>2, <1>3, ChosenFacts
  <2>. QED
    BY <2>1 DEF ChosenTo
<1>6. Cardinality(T) \in Nat /\ Cardinality(T) <= Len(r)
  <2>1. IsFiniteSet(1..Len(r)) /\ Cardinality(1..Len(r)) = Len(r)
    BY <1>2, FS_Interval, 1 \in Int
  <2>. QED
    BY <1>3, <2>1, FS_Subset, FS_CardinalityType
<1>7. CitedFrom(r, q, Blocks(q), RoomyIn(r, k))
  BY <1>1, <1>2, PreparedCrowded
<1>8. \A a, b \in 1..Len(q) : Key[q[a].text] = Key[q[b].text] => a = b
  BY <1>1, <1>2, PreparedDiffer
<1>. HIDE DEF q
<1>9. HitsOK(q)
  BY <1>2, <1>5, <1>6, Parameters DEF HitsOK
<1>10. DOMAIN q = 1..Len(q)
  BY <1>5
<1>11. SourcesOf(q, r, k)
  BY <1>4, <1>7, <1>8, <1>9, <1>10 DEF SourcesOf
<1>. QED
  BY <1>11

\* The outcome of a selection.
LEMMA Selects ==
    ASSUME RetrievalInv, NEW r, RankingOK(r), Len(r) <= MaxRank,
           NEW reranked \in BOOLEAN, NEW fallback \in BOOLEAN, Select(r, reranked, fallback)
    PROVE  RetrievalInv'
<1>1. request.topK \in Nat
  <2>1. request.topK \in TopKs \cup {0}
    BY DEF RetrievalInv, RequestOK
  <2>. QED
    BY <2>1, Parameters
<1>2. PICK q : SourcesOf(q, r, request.topK)
  BY <1>1, SourcesFound
<1>3. Context(q).citations = q /\ Context(q).blocks = Blocks(q)
  BY DEF Context
<1>4. outcome' = [citations |-> q, blocks |-> Blocks(q), reranked |-> reranked, fallback |-> fallback]
  BY <1>2, <1>3 DEF Select, SourcesOf
<1>5. /\ ranking' = r /\ stage' = "answering"
      /\ UNCHANGED <<chunks, changes, request, vectorHits, read, candidates>>
  BY DEF Select, database
<1>6. outcome'.citations = q /\ outcome'.blocks = Blocks(q)
  BY <1>4
<1>7. StoreOK' /\ RequestOK' /\ HitsOK(vectorHits)' /\ HitsOK(candidates)' /\ Searched' /\ FusedBefore'
  <2>1. StoreOK /\ RequestOK /\ HitsOK(vectorHits) /\ HitsOK(candidates)
    BY DEF RetrievalInv
  <2>. QED
    BY <1>5, <2>1 DEF StoreOK, RequestOK, HitsOK, Searched, FusedBefore
<1>8. HitsOK(ranking)'
  BY <1>5 DEF RankingOK, HitsOK
<1>9. OutcomeOK'
  BY <1>2, <1>4, <1>6 DEF SourcesOf, OutcomeOK, HitsOK, Blocks
<1>10. CitationsDiffer'
  BY <1>2, <1>6 DEF SourcesOf, CitationsDiffer
<1>11. CitedUnlessCrowded'
  <2>1. Roomy' = RoomyIn(r, request.topK)
    BY <1>5 DEF Roomy, RoomyIn, Ahead
  <2>2. CitedFrom(r, q, Blocks(q), RoomyIn(r, request.topK))
    BY <1>2 DEF SourcesOf
  <2>3. CitedFrom(ranking', outcome'.citations, outcome'.blocks, Roomy')
    BY <1>5, <1>6, <2>1, <2>2
  <2>. QED
    BY <2>3 DEF CitedUnlessCrowded, CitedFrom, Ahead
<1>. QED
  BY <1>7, <1>8, <1>9, <1>10, <1>11 DEF RetrievalInv

\* What the invariant says of the outcome lasts while ranking and request do.
LEMMA OutcomeStays ==
    ASSUME OutcomeOK, CitationsDiffer, CitedUnlessCrowded,
           UNCHANGED <<stage, request, ranking, outcome>>
    PROVE  OutcomeOK' /\ CitationsDiffer' /\ CitedUnlessCrowded'
<1>1. OutcomeOK'
  BY DEF OutcomeOK, HitsOK, Blocks
<1>2. CitationsDiffer'
  BY DEF CitationsDiffer
<1>3. Roomy' = Roomy
  BY DEF Roomy, Ahead
<1>4. CitedUnlessCrowded'
  <2>. SUFFICES ASSUME stage' = "answering"
                PROVE  CitedFrom(ranking', outcome'.citations, outcome'.blocks, Roomy')
    BY DEF CitedUnlessCrowded, CitedFrom, Ahead
  <2>1. CitedFrom(ranking, outcome.citations, outcome.blocks, Roomy)
    BY DEF CitedUnlessCrowded, CitedFrom, Ahead
  <2>. QED
    BY <1>3, <2>1
<1>. QED
  BY <1>1, <1>2, <1>4

\* A new generation of a document is made of chunks.
LEMMA GenerationOfChunks ==
    ASSUME NEW d, NEW g \in -1..1
    PROVE  Generation(d, g) \in SUBSET Chunk
BY DEF Generation, Chunk

\* Another transaction changes the stored chunks only.
LEMMA Changes ==
    ASSUME RetrievalInv, NEW C \in SUBSET Chunk, Change(C)
    PROVE  RetrievalInv'
<1>1. /\ chunks' = C /\ changes' \in 0..MaxChanges
      /\ UNCHANGED <<stage, request, vectorHits, read, candidates, ranking, outcome>>
  <2>1. changes \in Nat /\ MaxChanges \in Nat
    BY RetrievalAssumption DEF RetrievalInv, StoreOK
  <2>. QED
    BY <2>1 DEF Change
<1>2. StoreOK'
  BY <1>1 DEF RetrievalInv, StoreOK
<1>3. Limit' = Limit
  BY <1>1 DEF Limit
<1>4. RequestOK' /\ HitsOK(vectorHits)' /\ HitsOK(candidates)' /\ HitsOK(ranking)'
  BY <1>1 DEF RetrievalInv, RequestOK, HitsOK
<1>5. Searched' /\ FusedBefore'
  BY <1>1, <1>3 DEF RetrievalInv, Searched, FusedBefore
<1>6. OutcomeOK' /\ CitationsDiffer' /\ CitedUnlessCrowded'
  BY <1>1, OutcomeStays DEF RetrievalInv
<1>. QED
  BY <1>2, <1>4, <1>5, <1>6 DEF RetrievalInv

\* No sources yet, or no more.
LEMMA NoSources ==
    ASSUME outcome = NoOutcome, stage # "answering"
    PROVE  OutcomeOK /\ CitationsDiffer /\ CitedUnlessCrowded
<1>1. /\ outcome.citations = <<>> /\ outcome.blocks = <<>>
      /\ outcome.reranked = FALSE /\ outcome.fallback = FALSE
  BY DEF NoOutcome
<1>2. Blocks(<<>>) = <<>>
  BY DEF Blocks
<1>3. OutcomeOK
  BY <1>1, <1>2, NoHits DEF OutcomeOK
<1>4. CitationsDiffer /\ CitedUnlessCrowded
  BY <1>1 DEF CitationsDiffer, CitedUnlessCrowded
<1>. QED
  BY <1>3, <1>4

\* The invariant holds in the initial states.
LEMMA RetrievalStarts ==
    ASSUME RetrievalInit
    PROVE  RetrievalInv
<1>1. StoreOK
  <2>1. PICK D \in SUBSET Documents : chunks = {[id |-> t, text |-> t] : t \in {u \in Text : Doc[u] \in D}}
    BY DEF RetrievalInit
  <2>2. ASSUME NEW t \in Text PROVE [id |-> t, text |-> t] \in Chunk
    <3>1. Max(Text) \in Nat /\ t \in Nat
      BY Parameters
    <3>2. 0 * Max(Text) + t = t /\ 0 \in -1..1
      BY <3>1
    <3>. QED
      BY <3>2 DEF Chunk
  <2>3. MaxChanges \in Nat
    BY RetrievalAssumption
  <2>. QED
    BY <2>1, <2>2, <2>3 DEF StoreOK, RetrievalInit
<1>2. RequestOK
  BY DEF RetrievalInit, RequestOK, NoRequest
<1>3. HitsOK(vectorHits) /\ HitsOK(candidates) /\ HitsOK(ranking)
  BY NoHits DEF RetrievalInit
<1>4. Searched /\ FusedBefore
  BY DEF RetrievalInit, Searched, FusedBefore
<1>5. OutcomeOK /\ CitationsDiffer /\ CitedUnlessCrowded
  BY NoSources DEF RetrievalInit
<1>. QED
  BY <1>1, <1>2, <1>3, <1>4, <1>5 DEF RetrievalInv

\* Both searches, with a request that is of the kind named.
LEMMA LimitBounded ==
    ASSUME RequestOK
    PROVE  Limit \in 1..MaxRank /\ Limit \in Nat /\ MaxRank \in Nat
<1>1. request.topK \in TopKs \cup {0}
  BY DEF RequestOK
<1>. QED
  BY <1>1, Parameters DEF Limit

\* LexicalSearch fuses what may have been read from two states of the database.
LEMMA Fused ==
    ASSUME RetrievalInv, LexicalSearch
    PROVE  Fresh(candidates', Limit) /\ RankingOK(candidates')
<1>1. stage = "lexical"
  BY DEF LexicalSearch
<1>2. RequestOK /\ chunks \in SUBSET Chunk /\ read \in SUBSET Chunk
      /\ vectorHits = searchVector(read, request.vec, Limit)
  BY <1>1 DEF RetrievalInv, StoreOK, Searched
<1>3. request.vec \in [Text -> Scores \cup {0}] /\ request.lex \in [Text -> Scores \cup {0}]
  BY <1>2 DEF RequestOK
<1>4. Limit \in 1..MaxRank /\ Limit \in Nat
  BY <1>2, LimitBounded
<1>5. Fresh(vectorHits, Limit)
  <2>1. PICK a : VectorHits(vectorHits, a, read, request.vec, Limit)
    BY <1>2, <1>3, <1>4, VectorFinds
  <2>. QED
    BY <1>2, <1>3, <1>4, <2>1, VectorFresh
<1>. DEFINE ls == searchLexical(chunks, request.lex, Limit)
<1>6. Fresh(ls, Limit)
  <2>1. PICK b : LexicalHits(ls, b, chunks, request.lex, Limit)
    BY <1>2, <1>3, <1>4, LexicalFinds
  <2>. HIDE DEF ls
  <2>. QED
    BY <1>2, <1>3, <1>4, <2>1, LexicalFresh
<1>7. candidates' = fuseRRF(vectorHits, ls, Limit)
  BY DEF LexicalSearch
<1>. HIDE DEF ls
<1>. QED
  BY <1>4, <1>5, <1>6, <1>7, Fuses

\* Every step keeps the invariant.
LEMMA RetrievalSteps ==
    ASSUME RetrievalInv, [RetrievalNext]_retrievalVars
    PROVE  RetrievalInv'
<1>1. /\ StoreOK /\ RequestOK
      /\ HitsOK(vectorHits) /\ HitsOK(candidates) /\ HitsOK(ranking)
      /\ Searched /\ FusedBefore
      /\ OutcomeOK /\ CitationsDiffer /\ CitedUnlessCrowded
  BY DEF RetrievalInv
<1>2. ASSUME NEW k \in TopKs, NEW rerank \in Reranking, NEW vec \in [Text -> Scores],
             NEW lex \in [Text -> Scores], Embed(k, rerank, vec, lex)
      PROVE  RetrievalInv'
  <2>1. /\ stage = "arrived" /\ stage' = "vector"
        /\ request' = [topK |-> k, rerank |-> rerank, vec |-> vec, lex |-> lex]
        /\ UNCHANGED <<chunks, changes, vectorHits, read, candidates, ranking, outcome>>
    BY <1>2 DEF Embed, database
  <2>2. RequestOK'
    <3>1. rerank \in BOOLEAN
      BY RetrievalAssumption
    <3>. QED
      BY <2>1, <3>1 DEF RequestOK
  <2>3. StoreOK' /\ HitsOK(vectorHits)' /\ HitsOK(candidates)' /\ HitsOK(ranking)'
    BY <1>1, <2>1 DEF StoreOK, HitsOK
  <2>4. Searched' /\ FusedBefore'
    BY <2>1 DEF Searched, FusedBefore
  <2>5. OutcomeOK' /\ CitationsDiffer' /\ CitedUnlessCrowded'
    BY <1>1, <2>1 DEF OutcomeOK, HitsOK, Blocks, CitationsDiffer, CitedUnlessCrowded
  <2>. QED
    BY <2>2, <2>3, <2>4, <2>5 DEF RetrievalInv
<1>3. ASSUME VectorSearch PROVE RetrievalInv'
  <2>1. /\ stage = "vector" /\ stage' = "lexical" /\ read' = chunks
        /\ vectorHits' = searchVector(chunks, request.vec, Limit)
        /\ UNCHANGED <<chunks, changes, request, candidates, ranking, outcome>>
    BY <1>3 DEF VectorSearch, database
  <2>2. StoreOK' /\ RequestOK' /\ HitsOK(candidates)' /\ HitsOK(ranking)'
    BY <1>1, <2>1 DEF StoreOK, RequestOK, HitsOK
  <2>3. HitsOK(vectorHits)'
    <3>1. Limit \in 1..MaxRank /\ Limit \in Nat /\ MaxRank \in Nat
      BY <1>1, LimitBounded
    <3>2. chunks \in SUBSET Chunk /\ request.vec \in [Text -> Scores \cup {0}]
      BY <1>1 DEF StoreOK, RequestOK
    <3>3. PICK a : VectorHits(vectorHits', a, chunks, request.vec, Limit)
      BY <2>1, <3>1, <3>2, VectorFinds
    <3>4. Fresh(vectorHits', Limit)
      BY <3>1, <3>2, <3>3, VectorFresh
    <3>. QED
      BY <3>1, <3>4 DEF Fresh, HitsOK
  <2>4. Searched' /\ FusedBefore'
    <3>1. Limit' = Limit
      BY <2>1 DEF Limit
    <3>. QED
      BY <2>1, <3>1 DEF Searched, FusedBefore
  <2>5. OutcomeOK' /\ CitationsDiffer' /\ CitedUnlessCrowded'
    BY <1>1, <2>1 DEF OutcomeOK, HitsOK, Blocks, CitationsDiffer, CitedUnlessCrowded
  <2>. QED
    BY <2>2, <2>3, <2>4, <2>5 DEF RetrievalInv
<1>4. ASSUME LexicalSearch PROVE RetrievalInv'
  <2>1. /\ stage = "lexical" /\ stage' = "rerank" /\ vectorHits' = <<>> /\ read' = {}
        /\ request' = [NoRequest EXCEPT !.topK = request.topK, !.rerank = request.rerank]
        /\ UNCHANGED <<chunks, changes, ranking, outcome>>
    BY <1>4 DEF LexicalSearch, database
  <2>2. StoreOK' /\ HitsOK(vectorHits)' /\ HitsOK(ranking)'
    BY <1>1, <2>1, NoHits DEF StoreOK, HitsOK
  <2>3. RequestOK' /\ Limit' = Limit
    BY <1>1, <2>1 DEF RequestOK, NoRequest, Limit
  <2>4. Fresh(candidates', Limit) /\ RankingOK(candidates')
    BY <1>4, Fused
  <2>5. HitsOK(candidates)'
    <3>1. Limit \in 1..MaxRank /\ Limit \in Nat /\ MaxRank \in Nat
      BY <1>1, LimitBounded
    <3>. QED
      BY <2>4, <3>1 DEF Fresh, HitsOK
  <2>6. Searched' /\ FusedBefore'
    BY <2>1, <2>3, <2>4 DEF Searched, FusedBefore
  <2>7. OutcomeOK' /\ CitationsDiffer' /\ CitedUnlessCrowded'
    BY <1>1, <2>1 DEF OutcomeOK, HitsOK, Blocks, CitationsDiffer, CitedUnlessCrowded
  <2>. QED
    BY <2>2, <2>3, <2>5, <2>6, <2>7 DEF RetrievalInv
<1>5. ASSUME stage = "rerank"
      PROVE  /\ RankingOK(candidates) /\ Len(candidates) <= MaxRank
             /\ Fresh(candidates, Limit) /\ Limit \in 0..MaxRank
  BY <1>1, <1>5, LimitBounded DEF FusedBefore, HitsOK
<1>6. ASSUME SelectFused PROVE RetrievalInv'
  <2>1. stage = "rerank" /\ Select(candidates, FALSE, FALSE)
    BY <1>6 DEF SelectFused, Select
  <2>. QED
    BY <1>5, <2>1, Selects
<1>7. ASSUME Rerank PROVE RetrievalInv'
  <2>1. PICK results \in Results(Len(candidates)) : Select(RankedBy(candidates, results), TRUE, FALSE)
    BY <1>7 DEF Rerank
  <2>2. stage = "rerank"
    BY <2>1 DEF Select
  <2>3. RankingOK(RankedBy(candidates, results)) /\ Len(RankedBy(candidates, results)) <= MaxRank
    BY <1>5, <2>2, Reranks
  <2>. QED
    BY <2>1, <2>3, Selects
<1>8. ASSUME RerankFails PROVE RetrievalInv'
  <2>1. stage = "rerank" /\ Select(candidates, FALSE, TRUE)
    BY <1>8 DEF RerankFails, Select
  <2>. QED
    BY <1>5, <2>1, Selects
<1>9. ASSUME Over PROVE RetrievalInv'
  <2>1. /\ stage' = "over" /\ request' = NoRequest /\ vectorHits' = <<>> /\ read' = {}
        /\ candidates' = <<>> /\ ranking' = <<>> /\ outcome' = NoOutcome
        /\ UNCHANGED <<chunks, changes>>
    BY <1>9 DEF Over, database
  <2>2. StoreOK' /\ RequestOK'
    BY <1>1, <2>1 DEF StoreOK, RequestOK, NoRequest
  <2>3. HitsOK(vectorHits)' /\ HitsOK(candidates)' /\ HitsOK(ranking)'
    BY <2>1, NoHits DEF HitsOK
  <2>4. Searched' /\ FusedBefore'
    BY <2>1 DEF Searched, FusedBefore
  <2>5. OutcomeOK' /\ CitationsDiffer' /\ CitedUnlessCrowded'
    <3>1. /\ outcome'.citations = <<>> /\ outcome'.blocks = <<>>
          /\ outcome'.reranked = FALSE /\ outcome'.fallback = FALSE
      BY <2>1 DEF NoOutcome
    <3>2. Blocks(<<>>) = <<>>
      BY DEF Blocks
    <3>3. HitsOK(outcome'.citations)
      BY <3>1, NoHits
    <3>4. OutcomeOK'
      BY <3>1, <3>2, <3>3 DEF OutcomeOK, HitsOK, Blocks
    <3>. QED
      BY <2>1, <3>1, <3>4 DEF CitationsDiffer, CitedUnlessCrowded
  <2>. QED
    BY <2>2, <2>3, <2>4, <2>5 DEF RetrievalInv
<1>10. ASSUME NEW d \in Documents, ReplaceDocumentChunks(d) \/ CreateDocument(d) \/ DeleteDocument(d)
       PROVE  RetrievalInv'
  <2>1. chunks \in SUBSET Chunk
    BY <1>1 DEF StoreOK
  <2>2. CASE ReplaceDocumentChunks(d)
    <3>1. PICK g \in -1..1 : Change((chunks \ Of(d)) \cup Generation(d, g))
      BY <2>2 DEF ReplaceDocumentChunks
    <3>2. (chunks \ Of(d)) \cup Generation(d, g) \in SUBSET Chunk
      BY <2>1, GenerationOfChunks
    <3>. QED
      BY <3>1, <3>2, Changes
  <2>3. CASE CreateDocument(d)
    <3>1. Change(chunks \cup Generation(d, 0))
      BY <2>3 DEF CreateDocument
    <3>2. 0 \in -1..1
      OBVIOUS
    <3>3. chunks \cup Generation(d, 0) \in SUBSET Chunk
      BY <2>1, <3>2, GenerationOfChunks
    <3>. QED
      BY <3>1, <3>3, Changes
  <2>4. CASE DeleteDocument(d)
    <3>1. Change(chunks \ Of(d))
      BY <2>4 DEF DeleteDocument
    <3>2. chunks \ Of(d) \in SUBSET Chunk
      BY <2>1
    <3>. QED
      BY <3>1, <3>2, Changes
  <2>. QED
    BY <1>10, <2>2, <2>3, <2>4
<1>11. ASSUME UNCHANGED retrievalVars PROVE RetrievalInv'
  <2>1. UNCHANGED <<chunks, changes, stage, request, vectorHits, read, candidates, ranking, outcome>>
    BY <1>11 DEF retrievalVars
  <2>2. StoreOK' /\ RequestOK' /\ HitsOK(vectorHits)' /\ HitsOK(candidates)' /\ HitsOK(ranking)'
    BY <1>1, <2>1 DEF StoreOK, RequestOK, HitsOK
  <2>3. Searched' /\ FusedBefore'
    <3>1. Limit' = Limit
      BY <2>1 DEF Limit
    <3>. QED
      BY <1>1, <2>1, <3>1 DEF Searched, FusedBefore
  <2>4. OutcomeOK' /\ CitationsDiffer' /\ CitedUnlessCrowded'
    BY <1>1, <2>1, OutcomeStays
  <2>. QED
    BY <2>2, <2>3, <2>4 DEF RetrievalInv
<1>. QED
  BY <1>2, <1>3, <1>4, <1>6, <1>7, <1>8, <1>9, <1>10, <1>11 DEF RetrievalNext, Complete, Fail

-----------------------------------------------------------------------------
(* The theorems.                                                           *)

\* The invariant of a question holds throughout.
THEOREM RetrievalInvariant == RetrievalSpec => []RetrievalInv
BY RetrievalStarts, RetrievalSteps, PTL DEF RetrievalSpec

\* Every variable has its type.
THEOREM RetrievalTypeCorrect == RetrievalSpec => []RetrievalTypeOK
<1>1. RetrievalInv => RetrievalTypeOK
  <2>. SUFFICES ASSUME RetrievalInv PROVE RetrievalTypeOK
    OBVIOUS
  <2>1. \A c \in Chunk : c \in [id : Identifier, text : Text]
    BY DEF Chunk, Identifier
  <2>2. \A hits : HitsOK(hits) => Len(hits) <= MaxRank /\ ToSet(hits) \subseteq HitType
    BY DEF HitsOK, ToSet
  <2>3. \A hits \in {vectorHits, candidates, ranking, outcome.citations} :
           Len(hits) <= MaxRank /\ ToSet(hits) \subseteq HitType
    BY <2>2 DEF RetrievalInv, OutcomeOK
  <2>4. ToSet(outcome.blocks) \subseteq [number : Nat, text : Text]
    <3>1. outcome.citations \in Seq(HitType) /\ outcome.blocks = Blocks(outcome.citations)
      BY DEF RetrievalInv, OutcomeOK, HitsOK
    <3>2. ASSUME NEW m \in 1..Len(outcome.citations)
          PROVE  outcome.blocks[m] \in [number : Nat, text : Text]
      <4>1. outcome.citations[m] \in HitType
        BY <3>1
      <4>2. outcome.citations[m].text \in Text
        BY <4>1 DEF HitType
      <4>. QED
        BY <3>1, <4>2 DEF Blocks, Block
    <3>3. DOMAIN outcome.blocks = 1..Len(outcome.citations)
      BY <3>1 DEF Blocks
    <3>. QED
      BY <3>2, <3>3 DEF ToSet
  <2>. QED
    BY <2>1, <2>3, <2>4 DEF RetrievalInv, StoreOK, RequestOK, OutcomeOK, RetrievalTypeOK
<1>. QED
  BY <1>1, RetrievalInvariant, PTL

\* Source [n] of the prompt is the n-th citation, whatever was left out.
THEOREM SourceNumbers == RetrievalSpec => []NumbersMatchCitations
<1>1. RetrievalInv => NumbersMatchCitations
  <2>. SUFFICES ASSUME RetrievalInv PROVE NumbersMatchCitations
    OBVIOUS
  <2>1. outcome.citations \in Seq(HitType) /\ outcome.blocks = Blocks(outcome.citations)
    BY DEF RetrievalInv, OutcomeOK, HitsOK
  <2>. QED
    BY <2>1 DEF Blocks, Block, NumbersMatchCitations
<1>. QED
  BY <1>1, RetrievalInvariant, PTL

\* No text is cited twice.
THEOREM NoTextTwice == RetrievalSpec => []CitationsDiffer
<1>1. RetrievalInv => CitationsDiffer
  BY DEF RetrievalInv
<1>. QED
  BY <1>1, RetrievalInvariant, PTL

\* The selections in turn, the skips and the budget of the prompt leave out a
\* hit only for a reason that the ranking shows.
THEOREM LeftOutForAReason == RetrievalSpec => []CitedUnlessCrowded
<1>1. RetrievalInv => CitedUnlessCrowded
  BY DEF RetrievalInv
<1>. QED
  BY <1>1, RetrievalInvariant, PTL

\* Two searches of the same chunks and the fusion of what they find give what
\* the hybrid statement of the store gives.
THEOREM TwoSearchesAreHybrid == RetrievalSpec => SameAsStoreHybrid
<1>1. ASSUME RetrievalInv, LexicalSearch, read = chunks
      PROVE  candidates' = searchHybrid(chunks, request.vec, request.lex, Limit)
  <2>1. stage = "lexical" /\ StoreOK /\ RequestOK /\ Searched
    BY <1>1 DEF LexicalSearch, RetrievalInv
  <2>2. vectorHits = searchVector(chunks, request.vec, Limit)
    BY <1>1, <2>1 DEF Searched
  <2>3. candidates' = fuseRRF(vectorHits, searchLexical(chunks, request.lex, Limit), Limit)
    BY <1>1 DEF LexicalSearch
  <2>4. chunks \in SUBSET Chunk /\ request.vec \in [Text -> Scores \cup {0}]
        /\ request.lex \in [Text -> Scores \cup {0}]
    BY <2>1 DEF StoreOK, RequestOK
  <2>5. Limit \in Nat
    BY <2>1, LimitBounded
  <2>. QED
    BY <2>2, <2>3, <2>4, <2>5, HybridFuses
<1>2. RetrievalInv /\ [RetrievalNext]_retrievalVars
         => [LexicalSearch /\ read = chunks =>
                candidates' = searchHybrid(chunks, request.vec, request.lex, Limit)]_retrievalVars
  BY <1>1
<1>. QED
  BY <1>2, RetrievalInvariant, PTL DEF RetrievalSpec, SameAsStoreHybrid

-----------------------------------------------------------------------------
(* The inductive invariant.                                                *)

Lines  == [line : {"delta", "other", "garbage"} \cup Endings, n : Nat]
Events == [event : {"token", "rejected", "error", "citations", "done"}, n : Nat]

Before == {"request", "prepare", "connect", "read"}
After  == {"failed", "citations", "done", "returned"}

\* TypeOK as far as the proofs need it: the sequences are not bounded here.
Types ==
    /\ pc \in Before \cup After
    /\ wire \in Seq(Lines)
    /\ produced \in Nat
    /\ ending \in Endings \cup {"none"}
    /\ delivered \in Seq(Events)
    /\ client \in BOOLEAN /\ late \in BOOLEAN /\ broken \in BOOLEAN /\ cancelled \in BOOLEAN

\* Of the deltas that were sent, those after the k-th are on the wire, in order,
\* and the end of the stream, if it was sent, is behind them.
WireHolds(k) ==
    /\ k \in 0..produced
    /\ \A i \in DOMAIN wire : wire[i].line = "delta" => wire[i].n \in (k + 1)..produced
    /\ \A m \in (k + 1)..produced : \E i \in DOMAIN wire : wire[i] = Delta(m)
    /\ \A i, j \in DOMAIN wire :
          i < j /\ wire[i].line = "delta" /\ wire[j].line = "delta" => wire[i].n < wire[j].n
    /\ \A i \in DOMAIN wire :
          wire[i].line \in Endings => i = Len(wire) /\ wire[i].line = ending
    /\ ending = "none" => \A i \in DOMAIN wire : wire[i].line \notin Endings

Tokens(k) == [n \in 1..k |-> Token(n)]

\* A connection that was not interrupted: what is written reaches the client.
Intact == client /\ ~broken

\* Until the answer ends, the client has what was read, from the first delta on.
ReadSoFar ==
    pc \in Before => \E k \in Nat :
        /\ WireHolds(k)
        /\ emitted => k > 0
        /\ Intact => delivered = Tokens(k)

\* After it, all there was; and done comes last.
Answered ==
    /\ pc \in {"citations", "done"} => ending \in {"[DONE]", "eof"} /\ produced > 0
    /\ pc = "citations" /\ Intact => delivered = Tokens(produced)
    /\ pc = "done" /\ Intact => delivered = Append(Tokens(produced), Event("citations"))

\* Nothing final has been said before the handler returns.
Final == {"done", "error", "rejected"}

NothingFinal == pc # "returned" => \A i \in DOMAIN delivered : delivered[i].event \notin Final

\* A connection fails only if the client leaves or takes too long.
Causes ==
    /\ broken => ~client \/ late
    /\ cancelled => ~client \/ late

IInv == Types /\ ReadSoFar /\ Answered /\ NothingFinal /\ Causes /\ DoneIsComplete /\ ClientLearns

-----------------------------------------------------------------------------
(* Sequences.                                                              *)

LEMMA TokensAreEvents ==
    ASSUME NEW k \in Nat
    PROVE  /\ Tokens(k) \in Seq(Events) /\ Len(Tokens(k)) = k
           /\ Append(Tokens(k), Token(k + 1)) = Tokens(k + 1)
<1>1. \A n \in 1..k : Token(n) \in Events
  BY DEF Token, Events
<1>2. Tokens(k) \in Seq(Events) /\ Len(Tokens(k)) = k
  BY <1>1 DEF Tokens
<1>3. Append(Tokens(k), Token(k + 1)) = Tokens(k + 1)
  <2>1. \A n \in 1..(k+1) : Token(n) \in Events
    BY DEF Token, Events
  <2>2. Tokens(k + 1) \in Seq(Events) /\ Len(Tokens(k+1)) = k + 1
    BY <2>1 DEF Tokens
  <2>3. Append(Tokens(k), Token(k + 1)) \in Seq(Events) /\ Len(Append(Tokens(k), Token(k + 1))) = k + 1
    BY <1>2, <2>1
  <2>4. \A n \in 1..(k + 1) : Append(Tokens(k), Token(k + 1))[n] = Tokens(k + 1)[n]
    BY <1>2 DEF Tokens
  <2>. QED
    BY <2>2, <2>3, <2>4
<1>. QED
  BY <1>2, <1>3

LEMMA AppendTwice ==
    ASSUME NEW s \in Seq(Events), NEW a \in Events, NEW b \in Events
    PROVE  Append(Append(s, a), b) = s \o <<a, b>>
OBVIOUS

\* An event behind events that are not final is the only final one.
LEMMA OneFinal ==
    ASSUME NEW s \in Seq(Events), NEW e \in Events,
           \A i \in DOMAIN s : s[i].event \notin Final
    PROVE  /\ e.event \in Final =>
                \E i \in DOMAIN Append(s, e) : \A j \in DOMAIN Append(s, e) :
                    Append(s, e)[j].event \in Final <=> i = j
           /\ e.event \notin Final =>
                \A i \in DOMAIN Append(s, e) : Append(s, e)[i].event \notin Final
<1>1. DOMAIN Append(s, e) = 1..(Len(s) + 1) /\ Append(s, e)[Len(s) + 1] = e
      /\ \A i \in 1..Len(s) : Append(s, e)[i] = s[i]
  OBVIOUS
<1>2. \A i \in 1..Len(s) : Append(s, e)[i].event \notin Final
  BY <1>1
<1>3. CASE e.event \in Final
  <2>1. \A j \in 1..(Len(s) + 1) : Append(s, e)[j].event \in Final <=> Len(s) + 1 = j
    BY <1>1, <1>2, <1>3
  <2>. QED
    BY <1>1, <1>3, <2>1
<1>. QED
  BY <1>1, <1>2, <1>3

-----------------------------------------------------------------------------
(* The wire.                                                               *)

\* The model sends one more line.
LEMMA SendingKeeps ==
    ASSUME Types, NEW k \in Nat, WireHolds(k), ending = "none",
           \/ /\ wire' = Append(wire, Delta(produced + 1))
              /\ produced' = produced + 1 /\ UNCHANGED ending
           \/ /\ \E l \in {"other", "garbage"} : wire' = Append(wire, Line(l))
              /\ UNCHANGED <<produced, ending>>
           \/ /\ \E e \in Endings : wire' = Append(wire, Line(e)) /\ ending' = e
              /\ UNCHANGED produced
    PROVE  WireHolds(k)' /\ wire' \in Seq(Lines)
<1>1. PICK last \in Lines : wire' = Append(wire, last) /\
            \/ last = Delta(produced + 1) /\ produced' = produced + 1 /\ ending' = ending
            \/ last.line \in {"other", "garbage"} /\ produced' = produced /\ ending' = ending
            \/ last.line \in Endings /\ produced' = produced /\ ending' = last.line
  BY DEF Types, Lines, Delta, Line, Endings
<1>2. /\ wire \in Seq(Lines) /\ wire' \in Seq(Lines) /\ Len(wire') = Len(wire) + 1
      /\ wire'[Len(wire) + 1] = last /\ \A i \in 1..Len(wire) : wire'[i] = wire[i]
      /\ produced \in Nat
  BY <1>1 DEF Types
<1>3. ASSUME NEW i \in 1..Len(wire) PROVE wire[i].line \notin Endings
  BY <1>2, <1>3 DEF WireHolds
<1>4. /\ k \in 0..produced
      /\ \A i \in 1..Len(wire) : wire[i].line = "delta" => wire[i].n \in (k + 1)..produced
      /\ \A m \in (k + 1)..produced : \E i \in 1..Len(wire) : wire[i] = Delta(m)
      /\ \A i, j \in 1..Len(wire) :
           i < j /\ wire[i].line = "delta" /\ wire[j].line = "delta" => wire[i].n < wire[j].n
  BY <1>2 DEF WireHolds
<1>5. last.line = "delta" => last = Delta(produced + 1) /\ last.n = produced + 1
  BY <1>1 DEF Delta, Endings
<1>6. produced' \in produced..(produced + 1) /\ (produced' = produced + 1 => last = Delta(produced'))
  BY <1>1, <1>2
<1>7. ASSUME NEW i \in DOMAIN wire', wire'[i].line = "delta"
      PROVE  wire'[i].n \in (k + 1)..produced'
  <2>1. CASE i = Len(wire) + 1
    <3>1. last = Delta(produced + 1) /\ last.n = produced + 1
      BY <1>2, <1>5, <1>7, <2>1
    <3>2. produced' = produced + 1
      BY <1>1, <3>1 DEF Delta, Endings
    <3>. QED
      BY <1>2, <1>4, <2>1, <3>1, <3>2
  <2>2. CASE i \in 1..Len(wire)
    BY <1>2, <1>4, <1>6, <1>7, <2>2
  <2>. QED
    BY <1>2, <2>1, <2>2
<1>8. ASSUME NEW m \in (k + 1)..produced' PROVE \E i \in DOMAIN wire' : wire'[i] = Delta(m)
  <2>1. CASE m \in (k + 1)..produced
    BY <1>2, <1>4, <2>1
  <2>2. CASE m = produced + 1
    BY <1>2, <1>6, <2>2
  <2>. QED
    BY <1>2, <1>4, <1>6, <2>1, <2>2
<1>9. ASSUME NEW i \in DOMAIN wire', NEW j \in DOMAIN wire', i < j,
             wire'[i].line = "delta", wire'[j].line = "delta"
      PROVE  wire'[i].n < wire'[j].n
  <2>1. i \in 1..Len(wire) /\ wire'[i] = wire[i] /\ wire[i].n \in (k + 1)..produced
    BY <1>2, <1>4, <1>9
  <2>2. CASE j = Len(wire) + 1
    BY <1>2, <1>5, <1>9, <2>1, <2>2
  <2>3. CASE j \in 1..Len(wire)
    BY <1>2, <1>4, <1>9, <2>1, <2>3
  <2>. QED
    BY <1>2, <2>2, <2>3
<1>10. \A i \in DOMAIN wire' : wire'[i].line \in Endings => i = Len(wire') /\ wire'[i].line = ending'
  BY <1>1, <1>2, <1>3 DEF Delta, Endings
<1>11. ending' = "none" => \A i \in DOMAIN wire' : wire'[i].line \notin Endings
  BY <1>1, <1>2, <1>3 DEF Delta, Endings
<1>12. k \in 0..produced'
  BY <1>2, <1>4, <1>6
<1>. QED
  BY <1>2, <1>7, <1>8, <1>9, <1>10, <1>11, <1>12 DEF WireHolds

\* The handler takes the first line off.
LEMMA TakingKeeps ==
    ASSUME NEW k \in Nat, WireHolds(k), wire \in Seq(Lines), wire' \in Seq(Lines),
           Len(wire) \in Nat \ {0}, Len(wire') = Len(wire) - 1,
           \A i \in 1..Len(wire') : wire'[i] = wire[i + 1],
           produced \in Nat, produced' = produced, ending' = ending
    PROVE  /\ wire[1].line = "delta" => wire[1].n = k + 1 /\ WireHolds(k + 1)'
           /\ wire[1].line \in {"other", "garbage"} => WireHolds(k)'
           /\ wire[1].line \in Endings => k = produced /\ ending = wire[1].line
<1>1. DOMAIN wire = 1..Len(wire) /\ DOMAIN wire' = 1..Len(wire')
  OBVIOUS
<1>2. \A i \in 1..Len(wire') : wire'[i] = wire[i + 1] /\ i + 1 \in 1..Len(wire)
  OBVIOUS
<1>3. k \in 0..produced
  BY DEF WireHolds
<1>4. ASSUME NEW i \in 1..Len(wire), wire[i].line = "delta"
      PROVE  wire[i].n \in (k + 1)..produced
  BY <1>1, <1>4 DEF WireHolds
<1>5. ASSUME NEW m \in (k + 1)..produced PROVE \E i \in 1..Len(wire) : wire[i] = Delta(m)
  BY <1>1 DEF WireHolds
<1>6. ASSUME NEW i \in 1..Len(wire), NEW j \in 1..Len(wire), i < j,
             wire[i].line = "delta", wire[j].line = "delta"
      PROVE  wire[i].n < wire[j].n
  BY <1>1, <1>6 DEF WireHolds
<1>7. ASSUME NEW i \in 1..Len(wire), wire[i].line \in Endings
      PROVE  i = Len(wire) /\ wire[i].line = ending
  BY <1>1, <1>7 DEF WireHolds
<1>8. ASSUME ending = "none", NEW i \in 1..Len(wire) PROVE wire[i].line \notin Endings
  BY <1>1, <1>8 DEF WireHolds
<1>9. \A m : Delta(m).line = "delta" /\ Delta(m).n = m
  BY DEF Delta
<1>10. ASSUME NEW b \in Nat, b <= produced, k <= b,
             \A i \in 2..Len(wire) : wire[i].line = "delta" => wire[i].n > b,
             \A m \in (b + 1)..produced : wire[1] # Delta(m)
      PROVE  WireHolds(b)'
  <2>1. ASSUME NEW i \in 1..Len(wire'), wire'[i].line = "delta"
        PROVE  wire'[i].n \in (b + 1)..produced
    <3>1. wire'[i] = wire[i + 1] /\ i + 1 \in 2..Len(wire) /\ i + 1 \in 1..Len(wire)
      BY <1>2
    <3>2. wire[i + 1].n \in (k + 1)..produced
      BY <1>4, <2>1, <3>1
    <3>3. wire[i + 1].n > b
      BY <1>10, <2>1, <3>1
    <3>. QED
      BY <1>3, <1>10, <3>1, <3>2, <3>3
  <2>2. ASSUME NEW m \in (b + 1)..produced PROVE \E i \in 1..Len(wire') : wire'[i] = Delta(m)
    <3>1. m \in (k + 1)..produced
      BY <1>3, <1>10
    <3>2. PICK i \in 1..Len(wire) : wire[i] = Delta(m)
      BY <1>5, <3>1
    <3>3. i # 1
      BY <1>10, <3>2
    <3>4. i - 1 \in 1..Len(wire') /\ (i - 1) + 1 = i
      BY <3>3
    <3>5. wire'[i - 1] = wire[i]
      BY <1>2, <3>4
    <3>. QED
      BY <3>2, <3>4, <3>5
  <2>3. ASSUME NEW i \in 1..Len(wire'), NEW j \in 1..Len(wire'), i < j,
               wire'[i].line = "delta", wire'[j].line = "delta"
        PROVE  wire'[i].n < wire'[j].n
    <3>1. /\ wire'[i] = wire[i + 1] /\ i + 1 \in 1..Len(wire)
          /\ wire'[j] = wire[j + 1] /\ j + 1 \in 1..Len(wire) /\ i + 1 < j + 1
      BY <1>2, <2>3
    <3>. QED
      BY <1>6, <2>3, <3>1
  <2>4. ASSUME NEW i \in 1..Len(wire'), wire'[i].line \in Endings
        PROVE  i = Len(wire') /\ wire'[i].line = ending'
    <3>1. wire'[i] = wire[i + 1] /\ i + 1 \in 1..Len(wire)
      BY <1>2
    <3>2. i + 1 = Len(wire) /\ wire[i + 1].line = ending
      BY <1>7, <2>4, <3>1
    <3>. QED
      BY <3>1, <3>2
  <2>5. ASSUME ending' = "none", NEW i \in 1..Len(wire') PROVE wire'[i].line \notin Endings
    <3>1. wire'[i] = wire[i + 1] /\ i + 1 \in 1..Len(wire)
      BY <1>2
    <3>. QED
      BY <1>8, <2>5, <3>1
  <2>6. b \in 0..produced'
    BY <1>10
  <2>. QED
    BY <1>1, <2>1, <2>2, <2>3, <2>4, <2>5, <2>6 DEF WireHolds
<1>11. 1 \in 1..Len(wire)
  OBVIOUS
<1>12. CASE wire[1].line = "delta"
  <2>1. wire[1].n \in (k + 1)..produced
    BY <1>4, <1>11, <1>12
  <2>2. k + 1 \in (k + 1)..produced
    BY <1>3, <2>1
  <2>3. PICK i \in 1..Len(wire) : wire[i] = Delta(k + 1)
    BY <1>5, <2>2
  <2>4. wire[i].line = "delta" /\ wire[i].n = k + 1
    BY <1>9, <2>3
  <2>5. i = 1
    <3>1. i # 1 => wire[1].n < k + 1
      BY <1>6, <1>11, <1>12, <2>4
    <3>. QED
      BY <2>1, <3>1
  <2>6. \A j \in 2..Len(wire) : wire[j].line = "delta" => wire[j].n > k + 1
    <3>1. \A j \in 2..Len(wire) : j \in 1..Len(wire) /\ 1 < j
      OBVIOUS
    <3>. QED
      BY <1>4, <1>6, <1>11, <1>12, <2>4, <2>5, <3>1
  <2>7. \A m \in (k + 1 + 1)..produced : wire[1] # Delta(m)
    BY <1>9, <2>4, <2>5
  <2>8. WireHolds(k + 1)'
    BY <1>3, <1>10, <2>2, <2>6, <2>7
  <2>. QED
    BY <1>12, <2>4, <2>5, <2>8 DEF Endings
<1>13. CASE wire[1].line \in {"other", "garbage"}
  <2>1. \A m \in (k + 1)..produced : wire[1] # Delta(m)
    BY <1>9, <1>13
  <2>2. ASSUME NEW i \in 2..Len(wire), wire[i].line = "delta" PROVE wire[i].n > k
    BY <1>3, <1>4, <2>2
  <2>3. WireHolds(k)'
    BY <1>3, <1>10, <2>1, <2>2
  <2>. QED
    BY <1>13, <2>3 DEF Endings
<1>14. CASE wire[1].line \in Endings
  <2>1. 1 = Len(wire) /\ ending = wire[1].line
    BY <1>7, <1>11, <1>14
  <2>2. wire[1].line # "delta"
    BY <1>14 DEF Endings
  <2>3. ASSUME NEW m \in (k + 1)..produced PROVE FALSE
    BY <1>5, <1>9, <2>1, <2>2
  <2>4. k = produced
    BY <1>3, <2>3
  <2>. QED
    BY <1>14, <2>1, <2>4 DEF Endings
<1>. QED
  BY <1>12, <1>13, <1>14

\* The handler reads a line.
LEMMA ReadingKeeps ==
    ASSUME Types, NEW k \in Nat, WireHolds(k), wire # <<>>, wire' = Tail(wire),
           UNCHANGED <<produced, ending>>
    PROVE  /\ wire' \in Seq(Lines)
           /\ Head(wire).line = "delta" => Head(wire).n = k + 1 /\ WireHolds(k + 1)'
           /\ Head(wire).line \in {"other", "garbage"} => WireHolds(k)'
           /\ Head(wire).line \in Endings => k = produced /\ ending = Head(wire).line
<1>1. /\ wire \in Seq(Lines) /\ wire' \in Seq(Lines) /\ Len(wire) \in Nat \ {0}
      /\ Len(wire') = Len(wire) - 1 /\ Head(wire) = wire[1]
      /\ \A i \in 1..Len(wire') : wire'[i] = wire[i + 1]
      /\ produced \in Nat /\ produced' = produced /\ ending' = ending
  BY DEF Types
<1>. QED
  BY <1>1, TakingKeeps

-----------------------------------------------------------------------------
(* The steps.                                                              *)

\* As long as nothing final was said, nothing that is promised of the end is due.
LEMMA NotYet ==
    ASSUME NothingFinal', pc' # "returned"
    PROVE  DoneIsComplete' /\ ClientLearns'
BY DEF NothingFinal, Final, DoneIsComplete, ClientLearns, Got

\* What a write does to the connection and to what the client has.
LEMMA Writing ==
    ASSUME Types, Causes, NEW e \in Events, WriteSucceeds(e) \/ WriteFails(e)
    PROVE  /\ client' = client /\ late' = late /\ broken' \in BOOLEAN /\ cancelled' \in BOOLEAN
           /\ Causes'
           /\ delivered' \in Seq(Events)
           /\ \/ delivered' = delivered /\ ~Intact' /\ (~client \/ late)
              \/ delivered' = Append(delivered, e) /\ Intact
           /\ WriteFails(e) => delivered' = delivered /\ (~client \/ late)
<1>. USE DEF Types, Causes, Intact
<1>1. CASE Reaches(e)
  BY <1>1 DEF Reaches, connection, WriteFails, Breaks, Refused
<1>2. CASE Vanishes(e)
  BY <1>2 DEF Vanishes, connection, WriteFails, Breaks, Refused
<1>3. CASE Breaks(e)
  BY <1>3 DEF Breaks
<1>4. CASE Refused
  BY <1>4 DEF Refused, connection
<1>. QED
  BY <1>1, <1>2, <1>3, <1>4 DEF WriteSucceeds, WriteFails

\* The model goes on with its stream while the handler reads it.
LEMMA ModelKeeps ==
    ASSUME IInv, SendDelta \/ SendOther \/ End
    PROVE  IInv'
<1>1. /\ pc = "read" /\ ending = "none" /\ UNCHANGED <<pc, emitted, connection, delivered>>
  BY DEF SendDelta, SendOther, End, ModelSends
<1>2. \/ /\ wire' = Append(wire, Delta(produced + 1))
         /\ produced' = produced + 1 /\ UNCHANGED ending
      \/ /\ \E l \in {"other", "garbage"} : wire' = Append(wire, Line(l))
         /\ UNCHANGED <<produced, ending>>
      \/ /\ \E e \in Endings : wire' = Append(wire, Line(e)) /\ ending' = e
         /\ UNCHANGED produced
  BY DEF SendDelta, SendOther, End, ModelSends
<1>3. PICK k \in Nat : WireHolds(k) /\ (emitted => k > 0) /\ (Intact => delivered = Tokens(k))
  BY <1>1 DEF IInv, ReadSoFar, Before
<1>4. WireHolds(k)' /\ wire' \in Seq(Lines)
  BY <1>1, <1>2, <1>3, SendingKeeps DEF IInv
<1>5. ReadSoFar'
  BY <1>1, <1>3, <1>4 DEF ReadSoFar, Intact, connection
<1>6. Types'
  BY <1>1, <1>2, <1>4 DEF Types, IInv, connection
<1>7. Answered' /\ NothingFinal' /\ Causes'
  BY <1>1 DEF Answered, NothingFinal, Causes, IInv, connection
<1>8. DoneIsComplete' /\ ClientLearns'
  BY <1>1, <1>7, NotYet
<1>. QED
  BY <1>5, <1>6, <1>7, <1>8 DEF IInv

\* The client leaves, the server notices, or the time is over.
LEMMA ConnectionKeeps ==
    ASSUME IInv, Disconnect \/ NoticeDisconnect \/ WriteTimeout
    PROVE  IInv'
<1>1. /\ pc # "returned" /\ pc' = pc /\ wire' = wire /\ produced' = produced
      /\ ending' = ending /\ emitted' = emitted /\ broken' = broken /\ delivered' = delivered
  BY DEF Disconnect, NoticeDisconnect, WriteTimeout, model
<1>2. /\ client' \in BOOLEAN /\ late' \in BOOLEAN /\ cancelled' \in BOOLEAN
      /\ Intact' => Intact
      /\ Causes'
  <2>. USE DEF IInv, Types, Intact, Causes
  <2>1. CASE Disconnect
    BY <1>1, <2>1 DEF Disconnect
  <2>2. CASE NoticeDisconnect
    BY <1>1, <2>2 DEF NoticeDisconnect
  <2>3. CASE WriteTimeout
    BY <1>1, <2>3 DEF WriteTimeout
  <2>. QED
    BY <2>1, <2>2, <2>3
<1>3. Types'
  BY <1>1, <1>2 DEF IInv, Types
<1>4. ReadSoFar'
  <2>1. \A k : WireHolds(k) => WireHolds(k)'
    BY <1>1 DEF WireHolds
  <2>. QED
    BY <1>1, <1>2, <2>1 DEF IInv, ReadSoFar
<1>5. Answered' /\ NothingFinal'
  BY <1>1, <1>2 DEF IInv, Answered, NothingFinal
<1>6. DoneIsComplete' /\ ClientLearns'
  BY <1>1, <1>5, NotYet
<1>. QED
  BY <1>2, <1>3, <1>4, <1>5, <1>6 DEF IInv

\* The handler returns: with a last word, or because the client cannot hear it.
LEMMA ReturningKeeps ==
    ASSUME IInv, pc # "returned", pc' = "returned", UNCHANGED <<wire, produced, ending>>,
           client' = client, late' = late, broken' \in BOOLEAN, cancelled' \in BOOLEAN, Causes',
           NEW e \in Events, e.event \in Final, e.event = "done" => pc = "done" /\ e = Event("done"),
           \/ delivered' = delivered /\ (~client \/ late)
           \/ delivered' = Append(delivered, e) /\ Intact
    PROVE  IInv'
<1>1. delivered \in Seq(Events) /\ \A i \in DOMAIN delivered : delivered[i].event \notin Final
  BY DEF IInv, Types, NothingFinal
<1>2. Types'
  BY <1>1 DEF IInv, Types, After
<1>3. ReadSoFar' /\ Answered' /\ NothingFinal'
  BY DEF ReadSoFar, Answered, NothingFinal, Before
<1>4. ClientLearns'
  <2>1. CASE ~client \/ late
    BY <2>1 DEF ClientLearns
  <2>2. CASE delivered' = Append(delivered, e)
    BY <1>1, <2>2, OneFinal DEF ClientLearns, Final
  <2>. QED
    BY <2>1, <2>2
<1>5. DoneIsComplete'
  <2>1. CASE delivered' = delivered
    BY <1>1, <2>1 DEF DoneIsComplete, Got, Final
  <2>2. CASE delivered' = Append(delivered, e) /\ e.event # "done"
    <3>1. \A i \in DOMAIN delivered' :
             delivered'[i] = e \/ \E j \in DOMAIN delivered : delivered'[i] = delivered[j]
      BY <1>1, <2>2
    <3>. QED
      BY <1>1, <2>2, <3>1 DEF DoneIsComplete, Got, Final
  <2>3. CASE delivered' = Append(delivered, e) /\ Intact /\ e.event = "done"
    <3>1. /\ ending \in {"[DONE]", "eof"} /\ produced > 0 /\ produced \in Nat
          /\ delivered = Append(Tokens(produced), Event("citations"))
      BY <2>3 DEF IInv, Answered, Types
    <3>2. Event("citations") \in Events /\ Event("done") \in Events
      BY DEF Event, Events
    <3>3. delivered' = Tokens(produced) \o <<Event("citations"), Event("done")>>
      BY <2>3, <3>1, <3>2, TokensAreEvents, AppendTwice
    <3>. QED
      BY <3>1, <3>3 DEF DoneIsComplete, Tokens
  <2>. QED
    BY <2>1, <2>2, <2>3
<1>. QED
  BY <1>2, <1>3, <1>4, <1>5 DEF IInv

\* The handler goes on, and is not through yet.
LEMMA GoingOn ==
    ASSUME IInv, Types', pc # "returned", pc' # "returned", ReadSoFar', Answered', Causes',
           NEW e \in Events, e.event \notin Final,
           delivered' = delivered \/ delivered' = Append(delivered, e)
    PROVE  IInv'
<1>1. delivered \in Seq(Events) /\ \A i \in DOMAIN delivered : delivered[i].event \notin Final
  BY DEF IInv, Types, NothingFinal
<1>2. NothingFinal'
  BY <1>1, OneFinal DEF NothingFinal
<1>. QED
  BY <1>2, NotYet DEF IInv

\* The steps of the handler.
LEMMA HandlerKeeps ==
    ASSUME IInv, RejectRequest \/ AcceptRequest \/ Proceed \/ CallFails \/ HandlerStep
    PROVE  IInv'
<1>1. Types /\ Causes
  BY DEF IInv
<1>2. \A e \in {"rejected", "error", "citations", "done"} : Event(e) \in Events /\ Event(e).event = e
  BY DEF Event, Events
<1>3. CASE RejectRequest
  <2>1. pc = "request" /\ pc' = "returned" /\ UNCHANGED <<wire, produced, ending>>
        /\ (WriteSucceeds(Event("rejected")) \/ WriteFails(Event("rejected")))
    BY <1>3 DEF RejectRequest, model
  <2>. QED
    BY <1>1, <1>2, <2>1, Writing, ReturningKeeps DEF Final
<1>4. CASE AcceptRequest \/ Proceed \/ CallFails \/ Cancelled
  <2>1. /\ pc \in Before /\ pc' \in Before \cup {"failed"}
        /\ UNCHANGED <<wire, produced, ending, emitted, client, late, broken, cancelled, delivered>>
    BY <1>4 DEF AcceptRequest, Proceed, CallFails, Cancelled, Cancels, Before, model, connection
  <2>2. Types' /\ Causes'
    BY <1>1, <2>1 DEF Types, Causes, Before, After
  <2>3. ReadSoFar'
    BY <2>1 DEF IInv, ReadSoFar, WireHolds, Intact
  <2>4. Answered' /\ pc # "returned" /\ pc' # "returned"
    BY <2>1 DEF Answered, Before
  <2>. QED
    BY <1>2, <2>1, <2>2, <2>3, <2>4, GoingOn DEF Final
<1>5. CASE ReadDelta
  <2>1. /\ pc = "read" /\ wire # <<>> /\ Head(wire).line = "delta" /\ wire' = Tail(wire)
        /\ UNCHANGED <<produced, ending>>
    BY <1>5 DEF ReadDelta, Read
  <2>2. PICK k \in Nat : WireHolds(k) /\ (Intact => delivered = Tokens(k))
    BY <2>1 DEF IInv, ReadSoFar, Before
  <2>3. Head(wire).n = k + 1 /\ WireHolds(k + 1)' /\ wire' \in Seq(Lines)
    BY <1>1, <2>1, <2>2, ReadingKeeps
  <2>4. Token(k + 1) \in Events /\ Token(k + 1).event = "token" /\ k + 1 \in Nat
    BY DEF Token, Events
  <2>5. /\ WriteSucceeds(Token(k + 1)) \/ WriteFails(Token(k + 1))
        /\ \/ pc' = "read" /\ WriteSucceeds(Token(k + 1))
           \/ pc' = "failed"
    BY <1>5, <2>1, <2>3 DEF ReadDelta
  <2>6. /\ client' = client /\ late' = late /\ broken' \in BOOLEAN /\ cancelled' \in BOOLEAN
        /\ Causes' /\ delivered' \in Seq(Events)
        /\ \/ delivered' = delivered /\ ~Intact'
           \/ delivered' = Append(delivered, Token(k + 1)) /\ Intact
    BY <1>1, <2>4, <2>5, Writing
  <2>7. Types' /\ Answered' /\ pc' # "returned"
    BY <1>1, <2>1, <2>3, <2>5, <2>6 DEF Types, Answered, Before, After
  <2>8. Intact' => delivered' = Tokens(k + 1)
    BY <2>2, <2>6, TokensAreEvents
  <2>9. ReadSoFar'
    <3>1. \E n \in Nat : WireHolds(n)' /\ n > 0 /\ (Intact' => delivered' = Tokens(n))
      BY <2>3, <2>4, <2>8
    <3>. QED
      BY <3>1 DEF ReadSoFar, Tokens
  <2>. QED
    BY <2>1, <2>4, <2>6, <2>7, <2>9, GoingOn DEF Final
<1>6. CASE ReadOther
  <2>1. /\ pc = "read" /\ wire # <<>> /\ Head(wire).line = "other" /\ wire' = Tail(wire)
        /\ UNCHANGED <<pc, produced, ending, emitted, client, late, broken, cancelled, delivered>>
    BY <1>6 DEF ReadOther, Read, connection
  <2>2. PICK k \in Nat : WireHolds(k) /\ (emitted => k > 0) /\ (Intact => delivered = Tokens(k))
    BY <2>1 DEF IInv, ReadSoFar, Before
  <2>3. WireHolds(k)' /\ wire' \in Seq(Lines)
    BY <1>1, <2>1, <2>2, ReadingKeeps
  <2>4. Types' /\ Causes' /\ Answered'
    BY <1>1, <2>1, <2>3 DEF Types, Causes, Answered
  <2>5. ReadSoFar'
    BY <2>1, <2>2, <2>3 DEF ReadSoFar, Intact
  <2>. QED
    BY <1>2, <2>1, <2>4, <2>5, GoingOn DEF Final
<1>7. CASE ReadEnd
  <2>1. PICK l \in Endings \cup {"garbage"} :
           Read(l) /\ pc' = IF l \in EndsAnswer /\ emitted THEN "citations" ELSE "failed"
    BY <1>7 DEF ReadEnd
  <2>2. /\ pc = "read" /\ wire # <<>> /\ Head(wire).line = l /\ wire' = Tail(wire)
        /\ UNCHANGED <<produced, ending, emitted, client, late, broken, cancelled, delivered>>
    BY <1>7, <2>1 DEF ReadEnd, Read, connection
  <2>3. PICK k \in Nat : WireHolds(k) /\ (emitted => k > 0) /\ (Intact => delivered = Tokens(k))
    BY <2>2 DEF IInv, ReadSoFar, Before
  <2>4. wire' \in Seq(Lines) /\ (l \in Endings => k = produced /\ ending = l)
    BY <1>1, <2>2, <2>3, ReadingKeeps
  <2>5. Types' /\ Causes' /\ ReadSoFar' /\ pc' # "returned"
    BY <1>1, <2>1, <2>2, <2>4 DEF Types, Causes, ReadSoFar, Before, After
  <2>6. Answered'
    BY <2>1, <2>2, <2>3, <2>4 DEF Answered, Intact, EndsAnswer, Endings
  <2>. QED
    BY <1>2, <2>2, <2>5, <2>6, GoingOn DEF Final
<1>8. CASE ReportError
  <2>1. pc = "failed" /\ pc' = "returned" /\ UNCHANGED <<wire, produced, ending>>
    BY <1>8 DEF ReportError, model
  <2>2. CASE cancelled /\ UNCHANGED <<connection, delivered>>
    <3>1. /\ client' = client /\ late' = late /\ broken' = broken /\ cancelled' = cancelled
          /\ delivered' = delivered
      BY <2>2 DEF connection
    <3>2. (~client \/ late) /\ Causes' /\ broken' \in BOOLEAN /\ cancelled' \in BOOLEAN
      BY <1>1, <2>2, <3>1 DEF Causes, Types
    <3>. QED
      BY <1>2, <2>1, <3>1, <3>2, ReturningKeeps DEF Final
  <2>3. CASE WriteSucceeds(Event("error")) \/ WriteFails(Event("error"))
    BY <1>1, <1>2, <2>1, <2>3, Writing, ReturningKeeps DEF Final
  <2>. QED
    BY <1>8, <2>2, <2>3 DEF ReportError
<1>9. CASE SendCitations
  <2>1. /\ pc = "citations" /\ UNCHANGED <<wire, produced, ending, emitted>>
        /\ \/ WriteSucceeds(Event("citations")) /\ pc' = "done"
           \/ WriteFails(Event("citations")) /\ pc' = "returned"
    BY <1>9 DEF SendCitations, model
  <2>2. /\ client' = client /\ late' = late /\ broken' \in BOOLEAN /\ cancelled' \in BOOLEAN
        /\ Causes' /\ delivered' \in Seq(Events)
        /\ \/ delivered' = delivered /\ ~Intact'
           \/ delivered' = Append(delivered, Event("citations")) /\ Intact
        /\ WriteFails(Event("citations")) => delivered' = delivered /\ (~client \/ late)
    BY <1>1, <1>2, <2>1, Writing
  <2>3. CASE pc' = "returned"
    BY <1>2, <2>1, <2>2, <2>3, ReturningKeeps DEF Final
  <2>4. CASE pc' = "done"
    <3>1. Types' /\ ReadSoFar'
      BY <1>1, <2>1, <2>2, <2>4 DEF Types, ReadSoFar, Before, After
    <3>2. Answered'
      BY <2>1, <2>2, <2>4 DEF IInv, Answered, Tokens
    <3>. QED
      BY <1>2, <2>1, <2>2, <2>4, <3>1, <3>2, GoingOn DEF Final
  <2>. QED
    BY <2>1, <2>3, <2>4
<1>10. CASE SendDone
  <2>1. pc = "done" /\ pc' = "returned" /\ UNCHANGED <<wire, produced, ending>>
        /\ (WriteSucceeds(Event("done")) \/ WriteFails(Event("done")))
    BY <1>10 DEF SendDone, model
  <2>. QED
    BY <1>1, <1>2, <2>1, Writing, ReturningKeeps DEF Final
<1>. QED
  BY <1>3, <1>4, <1>5, <1>6, <1>7, <1>8, <1>9, <1>10 DEF HandlerStep

-----------------------------------------------------------------------------
(* The theorems.                                                           *)

\* The inductive invariant holds in every state of a request.
THEOREM Invariant == Spec => []IInv
<1>1. Init => IInv
  <2>. SUFFICES ASSUME Init PROVE IInv
    OBVIOUS
  <2>1. Types /\ Answered /\ NothingFinal /\ Causes /\ DoneIsComplete /\ ClientLearns
    <3>1. Types
      <4>1. wire \in Seq(Lines) /\ delivered \in Seq(Events)
        BY DEF Init
      <4>2. pc = "request" /\ produced \in Nat /\ ending = "none"
        BY DEF Init
      <4>. QED
        BY <4>1, <4>2 DEF Init, Types, Before
    <3>2. Answered /\ Causes
      BY DEF Init, Answered, Causes
    <3>3. NothingFinal /\ DoneIsComplete /\ ClientLearns
      BY DEF Init, NothingFinal, DoneIsComplete, ClientLearns, Got
    <3>. QED
      BY <3>1, <3>2, <3>3
  <2>2. WireHolds(0) /\ delivered = Tokens(0)
    BY DEF Init, WireHolds, Tokens
  <2>3. ReadSoFar
    BY <2>2 DEF Init, ReadSoFar
  <2>. QED
    BY <2>1, <2>3 DEF IInv
<1>2. IInv /\ [Next]_vars => IInv'
  <2>. SUFFICES ASSUME IInv, [Next]_vars PROVE IInv'
    OBVIOUS
  <2>1. CASE SendDelta \/ SendOther \/ End
    BY <2>1, ModelKeeps
  <2>2. CASE Disconnect \/ NoticeDisconnect \/ WriteTimeout
    BY <2>2, ConnectionKeeps
  <2>3. CASE RejectRequest \/ AcceptRequest \/ Proceed \/ CallFails \/ HandlerStep
    BY <2>3, HandlerKeeps
  <2>4. CASE UNCHANGED vars
    BY <2>4 DEF vars, IInv, Types, ReadSoFar, WireHolds, Intact, Answered, NothingFinal, Causes,
                DoneIsComplete, ClientLearns, Got
  <2>. QED
    BY <2>1, <2>2, <2>3, <2>4 DEF Next
<1>. QED
  BY <1>1, <1>2, PTL DEF Spec

\* An answer is called done only if it is all that the model sent.
THEOREM DoneMeansComplete == Spec => []DoneIsComplete
<1>1. IInv => DoneIsComplete
  BY DEF IInv
<1>. QED
  BY <1>1, Invariant, PTL

\* A client that stays is told exactly once how its answer ended.
THEOREM ClientIsTold == Spec => []ClientLearns
<1>1. IInv => ClientLearns
  BY DEF IInv
<1>. QED
  BY <1>1, Invariant, PTL
=============================================================================
