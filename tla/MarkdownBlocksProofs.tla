------------------------ MODULE MarkdownBlocksProofs ------------------------
(***************************************************************************)
(* What MarkdownBlocks promises for files of any length.                   *)
(***************************************************************************)
EXTENDS MarkdownBlocks, WellFoundedInduction, TLAPS

-----------------------------------------------------------------------------
(* The inductive invariant.                                                *)

Fences    == {l \in Line : l.kind = "fence"}
Titles    == {l.title : l \in {h \in Line : h.kind = "heading"}} \cup {""}
Languages == {l.language : l \in Fences} \cup {""}

BlockType == [from : Nat, to : Nat, type : {"text", "code"}, language : Languages,
              path : Seq(Titles)]
PartType  == [block : Nat, end : Nat \cup {-1}, index : Nat, path : Seq(Titles)]

Types ==
    /\ format \in {"markdown", "plain"}
    /\ lines \in Seq(Line)
    /\ fence \in {None} \cup [marker : {l.marker : l \in Fences}, language : Languages]
    /\ path \in Seq(Titles)
    /\ current \in 0..Len(lines)
    /\ blocks \in Seq(BlockType)
    /\ start \in 0..Len(blocks)
    /\ parts \in Seq(PartType)
    /\ phase \in {"lines", "blocks", "done"}
    /\ phase # "lines" => current = 0
    /\ phase = "lines" => start = 0
    /\ phase = "done" => start = Len(blocks)

\* What is being read: behind an open fence nothing that closes it, in a text
\* only lines of text.
OpenBlock ==
    /\ phase = "lines" /\ fence # None =>
         /\ current # 0
         /\ Kind(lines[current]) = "fence" /\ lines[current].marker = fence.marker
         /\ \A n \in (current + 1)..Len(lines) :
               ~(lines[n].kind = "fence" /\ lines[n].marker = fence.marker)
    /\ fence = None /\ current # 0 => \A n \in current..Len(lines) : Kind(lines[n]) = "text"

\* The line is in no block, nor in the one that is being read.
Outside(n) == n \notin Covered /\ (current = 0 \/ n < current)

BlocksInOrder ==
    /\ \A b \in 1..Len(blocks) :
         /\ blocks[b].from \in 1..blocks[b].to /\ blocks[b].to <= Len(lines)
         /\ current # 0 => blocks[b].to < current
    /\ \A b, c \in 1..Len(blocks) : b < c => blocks[b].to < blocks[c].from

OnlyBlankOutside ==
    \A n \in 1..Len(lines) : Outside(n) => Kind(lines[n]) \in {"blank", "heading"}

\* A fence of the kind that the block begins with.
EndsAt(b, n) == lines[n].kind = "fence" /\ lines[n].marker = lines[blocks[b].from].marker

\* As BlocksAreWhole has it, from the moment that the block is there.
BlockIsWhole(b) ==
    IF blocks[b].type = "code"
    THEN /\ Kind(lines[blocks[b].from]) = "fence"
         /\ \A n \in (blocks[b].from + 1)..(blocks[b].to - 1) : ~EndsAt(b, n)
         /\ \/ blocks[b].to > blocks[b].from /\ EndsAt(b, blocks[b].to)
            \/ phase # "lines" /\ \A n \in (blocks[b].to + 1)..Len(lines) : lines[n].kind = "blank"
    ELSE /\ \A n \in Span(b) : Kind(lines[n]) = "text"
         /\ blocks[b].to < Len(lines) => Kind(lines[blocks[b].to + 1]) # "text"
         /\ phase = "lines" => blocks[b].to < Len(lines)

\* The path that headings make: of those at the lines H of the file s.
LastOf(H, s, l) == Max({n \in H : s[n].level <= l})

HeadingAt(H, s, l) ==
    IF (\E n \in H : s[n].level <= l) /\ s[LastOf(H, s, l)].level = l
    THEN s[LastOf(H, s, l)].title ELSE ""

PathOf(H, s) ==
    IF H = {} THEN <<>> ELSE [l \in 1..s[Max(H)].level |-> HeadingAt(H, s, l)]

Standing == {n \in 1..Len(lines) : Outside(n) /\ Kind(lines[n]) = "heading"}

PathStands == phase = "lines" => path = PathOf(Standing, lines)

Above(b) == {n \in 1..(blocks[b].from - 1) : n \notin Covered /\ Kind(lines[n]) = "heading"}

BlocksFiled == \A b \in 1..Len(blocks) : blocks[b].path = PathOf(Above(b), lines)

Meta(x) == <<x.type, x.language, x.path>>

FirstOf(p) == p.block + 1
EndOf(p)   == IF p.end = -1 THEN p.block + 1 ELSE p.end + 1

\* The blocks up to start are in chunks, which end where a group ends.
ChunksSoFar ==
    /\ \A k \in 1..Len(parts) :
         /\ parts[k].index = k - 1
         /\ 1 <= FirstOf(parts[k]) /\ FirstOf(parts[k]) <= EndOf(parts[k]) /\ EndOf(parts[k]) <= start
         /\ \A b \in FirstOf(parts[k])..EndOf(parts[k]) :
              Meta(blocks[b]) = Meta(blocks[FirstOf(parts[k])])
    /\ \A b \in 1..start : \E k \in 1..Len(parts) : b \in FirstOf(parts[k])..EndOf(parts[k])
    /\ \A k \in 1..(Len(parts) - 1) :
         \/ /\ FirstOf(parts[k]) = FirstOf(parts[k + 1])
            /\ EndOf(parts[k]) = EndOf(parts[k + 1])
         \/ /\ EndOf(parts[k]) < FirstOf(parts[k + 1])
            /\ Meta(blocks[EndOf(parts[k])]) # Meta(blocks[EndOf(parts[k]) + 1])
    /\ Len(parts) > 0 => EndOf(parts[Len(parts)]) = start
    /\ 0 < start /\ start < Len(blocks) => Meta(blocks[start]) # Meta(blocks[start + 1])

IInv ==
    /\ Types
    /\ OpenBlock
    /\ BlocksInOrder
    /\ OnlyBlankOutside
    /\ \A b \in 1..Len(blocks) : BlockIsWhole(b)
    /\ PathStands
    /\ BlocksFiled
    /\ ChunksSoFar

-----------------------------------------------------------------------------
(* Least and greatest numbers.  That a set of numbers has a least one is   *)
(* the well-foundedness of the natural numbers, with sets for predicates.  *)

Less == {p \in Nat \X Nat : p[1] < p[2]}

LEMMA Least ==
    ASSUME NEW S \in SUBSET Nat, S # {}
    PROVE  \E x \in S : \A y \in S : x <= y
<1>1. IsWellFoundedOn(Less, Nat)
  BY NatLessThanWellFounded DEF OpToRel, Less
<1>2. PICK x \in S : \A y \in S : ~(<<y, x>> \in Less)
  BY <1>1, WFMin
<1>3. ASSUME NEW y \in S PROVE x <= y
  <2>1. <<y, x>> \in Nat \X Nat /\ <<y, x>>[1] = y /\ <<y, x>>[2] = x
    OBVIOUS
  <2>2. ~(y < x)
    BY <1>2, <2>1 DEF Less
  <2>. QED
    BY <2>2
<1>. QED
  BY <1>3

LEMMA MaxOf ==
    ASSUME NEW L \in Nat, NEW S \in SUBSET (0..L), S # {}
    PROVE  Max(S) \in S /\ \A y \in S : y <= Max(S)
<1>1. \E x \in S : \A y \in S : x >= y
  <2>. DEFINE T == {L - x : x \in S}
  <2>1. T \in SUBSET Nat /\ T # {}
    <3>1. \A x \in S : x \in 0..L /\ L - x \in Nat
      OBVIOUS
    <3>2. PICK x \in S : TRUE
      OBVIOUS
    <3>3. L - x \in T
      BY <3>2
    <3>. QED
      BY <3>1, <3>3
  <2>2. PICK n \in T : \A m \in T : n <= m
    BY <2>1, Least
  <2>3. PICK x \in S : n = L - x
    BY <2>2
  <2>4. ASSUME NEW y \in S PROVE x >= y
    <3>1. L - y \in T
      OBVIOUS
    <3>2. L - x <= L - y
      BY <2>2, <2>3, <3>1
    <3>. QED
      BY <3>2
  <2>. QED
    BY <2>4
<1>2. Max(S) \in S /\ \A y \in S : Max(S) >= y
  BY <1>1 DEF Max
<1>. QED
  BY <1>2

LEMMA MaxIs ==
    ASSUME NEW S \in SUBSET Nat, NEW x \in S, \A y \in S : y <= x
    PROVE  Max(S) = x
<1>1. x \in S /\ \A y \in S : x >= y
  OBVIOUS
<1>2. Max(S) \in S /\ \A y \in S : Max(S) >= y
  BY <1>1 DEF Max
<1>3. Max(S) \in Nat /\ Max(S) >= x /\ x >= Max(S) /\ x \in Nat
  BY <1>1, <1>2
<1>. QED
  BY <1>3

LEMMA IntervalEnds ==
    ASSUME NEW a \in Nat, NEW b \in Nat, a <= b
    PROVE  Max(a..b) = b /\ Min(a..b) = a
<1>1. Max(a..b) = b
  BY MaxIs
<1>2. Min(a..b) \in a..b /\ \A y \in a..b : Min(a..b) <= y
  <2>1. a \in a..b /\ \A y \in a..b : a <= y
    OBVIOUS
  <2>. QED
    BY <2>1 DEF Min
<1>3. Min(a..b) = a
  BY <1>2
<1>. QED
  BY <1>1, <1>3

-----------------------------------------------------------------------------
(* Lines and paths.                                                        *)

LEMMA Kinds ==
    ASSUME NEW l \in Line
    PROVE  /\ Kind(l) \in {"text", "blank", "heading", "fence"}
           /\ Kind(l) = "heading" => l.kind = "heading" /\ l.level \in 1..6 /\ l.title \in Titles
           /\ Kind(l) = "fence" => l.kind = "fence" /\ l.marker # ""
           /\ Kind(l) = "blank" <=> l.kind = "blank"
BY MarkdownAssumption DEF Kind, Titles

\* The last heading at a level or above it is one of the headings.
LEMMA LastIsOne ==
    ASSUME NEW N \in Nat, NEW H \in SUBSET (1..N), NEW s, NEW l, \E n \in H : s[n].level <= l
    PROVE  /\ LastOf(H, s, l) \in H /\ s[LastOf(H, s, l)].level <= l
           /\ \A n \in H : s[n].level <= l => n <= LastOf(H, s, l)
<1>. DEFINE T == {n \in H : s[n].level <= l}
<1>1. T # {}
  <2>1. PICK n \in H : s[n].level <= l
    OBVIOUS
  <2>2. n \in T
    BY <2>1
  <2>. QED
    BY <2>2
<1>2. T \in SUBSET (0..N)
  <2>1. H \in SUBSET (0..N)
    OBVIOUS
  <2>2. T \in SUBSET H
    BY Zenon
  <2>. HIDE DEF T
  <2>. QED
    BY <2>1, <2>2, Zenon
<1>3. Max(T) \in T /\ \A n \in T : n <= Max(T)
  <2>. HIDE DEF T
  <2>. QED
    BY <1>1, <1>2, MaxOf
<1>. QED
  BY <1>3 DEF LastOf

\* What stands at a level depends only on the headings it is made of.
LEMMA HeadingKept ==
    ASSUME NEW N \in Nat, NEW H \in SUBSET (1..N), NEW s, NEW t, NEW l,
           \A n \in H : t[n] = s[n]
    PROVE  HeadingAt(H, t, l) = HeadingAt(H, s, l)
<1>1. {n \in H : t[n].level <= l} = {n \in H : s[n].level <= l}
  OBVIOUS
<1>2. LastOf(H, t, l) = LastOf(H, s, l)
  BY <1>1 DEF LastOf
<1>3. (\E n \in H : t[n].level <= l) <=> (\E n \in H : s[n].level <= l)
  OBVIOUS
<1>4. CASE \E n \in H : s[n].level <= l
  <2>1. LastOf(H, s, l) \in H
    BY <1>4, LastIsOne
  <2>2. t[LastOf(H, s, l)] = s[LastOf(H, s, l)]
    BY <2>1
  <2>. QED
    BY <1>2, <1>3, <1>4, <2>2 DEF HeadingAt
<1>5. CASE ~\E n \in H : s[n].level <= l
  BY <1>3, <1>5 DEF HeadingAt
<1>. QED
  BY <1>4, <1>5

LEMMA PathKept ==
    ASSUME NEW N \in Nat, NEW H \in SUBSET (1..N), NEW s, NEW t, \A n \in H : t[n] = s[n]
    PROVE  PathOf(H, t) = PathOf(H, s)
<1>1. CASE H = {}
  BY <1>1 DEF PathOf
<1>2. CASE H # {}
  <2>1. H \in SUBSET (0..N)
    OBVIOUS
  <2>2. Max(H) \in H
    BY <1>2, <2>1, MaxOf
  <2>3. t[Max(H)] = s[Max(H)]
    BY <2>2
  <2>4. \A l : HeadingAt(H, t, l) = HeadingAt(H, s, l)
    BY HeadingKept
  <2>. QED
    BY <1>2, <2>3, <2>4 DEF PathOf
<1>. QED
  BY <1>1, <1>2

\* What stands at each level when a heading is added behind the others.
LEMMA HeadingAdded ==
    ASSUME NEW N \in Nat, NEW H \in SUBSET (1..N), NEW s, NEW i \in Nat,
           \A n \in H : s[n].level \in Nat, s[N + 1].level \in Nat
    PROVE  /\ s[N + 1].level = i => HeadingAt(H \cup {N + 1}, s, i) = s[N + 1].title
           /\ s[N + 1].level > i => HeadingAt(H \cup {N + 1}, s, i) = HeadingAt(H, s, i)
<1>. DEFINE G == H \cup {N + 1}
<1>1. ASSUME s[N + 1].level = i PROVE HeadingAt(G, s, i) = s[N + 1].title
  <2>. DEFINE T == {n \in G : s[n].level <= i}
  <2>1. \A n \in G : n \in Nat /\ n <= N + 1
    <3>1. \A n \in 1..N : n \in Nat /\ n <= N + 1
      OBVIOUS
    <3>2. N + 1 \in Nat /\ N + 1 <= N + 1
      OBVIOUS
    <3>. QED
      BY <3>1, <3>2, Zenon
  <2>2. N + 1 \in T
    <3>1. N + 1 \in G /\ s[N + 1].level <= i
      BY <1>1
    <3>. QED
      BY <3>1
  <2>3. T \in SUBSET Nat /\ N + 1 \in T /\ \A n \in T : n <= N + 1
    <3>1. T \in SUBSET G
      BY Zenon
    <3>. HIDE DEF T, G
    <3>. QED
      BY <2>1, <2>2, <3>1
  <2>4. Max(T) = N + 1
    <3>. HIDE DEF T
    <3>. QED
      BY <2>3, MaxIs
  <2>5. LastOf(G, s, i) = N + 1
    BY <2>4 DEF LastOf
  <2>6. \E n \in G : s[n].level <= i
    BY <1>1
  <2>. QED
    BY <1>1, <2>5, <2>6 DEF HeadingAt
<1>2. ASSUME s[N + 1].level > i PROVE HeadingAt(G, s, i) = HeadingAt(H, s, i)
  <2>1. {n \in G : s[n].level <= i} = {n \in H : s[n].level <= i}
    BY <1>2
  <2>2. LastOf(G, s, i) = LastOf(H, s, i)
    BY <2>1 DEF LastOf
  <2>3. (\E n \in G : s[n].level <= i) <=> (\E n \in H : s[n].level <= i)
    BY <1>2
  <2>. QED
    BY <2>2, <2>3 DEF HeadingAt
<1>. QED
  BY <1>1, <1>2

\* Below the last heading stands nothing.
LEMMA NothingBelow ==
    ASSUME NEW N \in Nat, NEW H \in SUBSET (1..N), NEW s, NEW i \in Nat,
           \A n \in H : s[n].level \in Nat, H # {} => s[Max(H)].level < i
    PROVE  HeadingAt(H, s, i) = ""
<1>1. CASE ~\E n \in H : s[n].level <= i
  BY <1>1 DEF HeadingAt
<1>2. CASE \E n \in H : s[n].level <= i
  <2>1. /\ LastOf(H, s, i) \in H /\ \A n \in H : s[n].level <= i => n <= LastOf(H, s, i)
    BY <1>2, LastIsOne
  <2>2. H \in SUBSET (0..N) /\ H # {}
    BY <1>2
  <2>3. Max(H) \in H /\ \A n \in H : n <= Max(H)
    BY <2>2, MaxOf
  <2>4. s[Max(H)].level <= i /\ s[Max(H)].level # i
    BY <2>2, <2>3
  <2>5. Max(H) <= LastOf(H, s, i) /\ LastOf(H, s, i) <= Max(H)
    BY <2>1, <2>3, <2>4
  <2>6. LastOf(H, s, i) = Max(H)
    <3>1. LastOf(H, s, i) \in Nat /\ Max(H) \in Nat
      <4>1. H \in SUBSET Nat
        OBVIOUS
      <4>2. LastOf(H, s, i) \in H /\ Max(H) \in H
        BY <2>1, <2>3
      <4>. QED
        BY <4>1, <4>2, Zenon
    <3>. QED
      BY <2>5, <3>1
  <2>. QED
    BY <2>4, <2>6 DEF HeadingAt
<1>. QED
  BY <1>1, <1>2

\* Two paths, one after the other.
LEMMA Joined ==
    ASSUME NEW A \in Seq(Titles), NEW B \in Seq(Titles)
    PROVE  /\ A \o B \in Seq(Titles)
           /\ Len(A \o B) = Len(A) + Len(B)
           /\ \A n \in 1..Len(A) : (A \o B)[n] = A[n]
           /\ \A n \in 1..Len(B) : (A \o B)[Len(A) + n] = B[n]
<1>1. /\ A \o B \in Seq(Titles) /\ Len(A \o B) = Len(A) + Len(B)
      /\ \A n \in 1..Len(A) : (A \o B)[n] = A[n]
  OBVIOUS
<1>2. ASSUME NEW n \in 1..Len(B) PROVE (A \o B)[Len(A) + n] = B[n]
  <2>1. Len(A) + n \in 1..(Len(A) + Len(B)) /\ ~(Len(A) + n <= Len(A))
        /\ Len(A) + n - Len(A) = n
    OBVIOUS
  <2>. QED
    BY <2>1
<1>. QED
  BY <1>1, <1>2

\* The headings kept, none up to the new one, and the new one.
LEMMA JoinedThree ==
    ASSUME NEW A \in Seq(Titles), NEW B \in Seq(Titles), NEW X \in Seq(Titles), Len(X) = 1
    PROVE  LET q == A \o B \o X
           IN /\ q \in Seq(Titles)
              /\ Len(q) = Len(A) + Len(B) + 1
              /\ \A n \in 1..Len(A) : q[n] = A[n]
              /\ \A n \in 1..Len(B) : q[Len(A) + n] = B[n]
              /\ q[Len(A) + Len(B) + 1] = X[1]
<1>. DEFINE C == A \o B
<1>1. /\ C \in Seq(Titles) /\ Len(C) = Len(A) + Len(B)
      /\ \A n \in 1..Len(A) : C[n] = A[n]
      /\ \A n \in 1..Len(B) : C[Len(A) + n] = B[n]
  BY Joined, Zenon
<1>2. Len(A) \in Nat /\ Len(B) \in Nat
  OBVIOUS
<1>. HIDE DEF C
<1>3. /\ C \o X \in Seq(Titles) /\ Len(C \o X) = Len(C) + Len(X)
      /\ \A n \in 1..Len(C) : (C \o X)[n] = C[n]
      /\ \A n \in 1..Len(X) : (C \o X)[Len(C) + n] = X[n]
  BY <1>1, Joined, Zenon
<1>4. Len(C \o X) = Len(A) + Len(B) + 1
  BY <1>1, <1>3
<1>5. \A n \in 1..Len(A) : n \in 1..Len(C)
  BY <1>1, <1>2
<1>6. \A n \in 1..Len(B) : Len(A) + n \in 1..Len(C)
  BY <1>1, <1>2
<1>7. \A n \in 1..Len(A) : (C \o X)[n] = A[n]
  BY <1>1, <1>3, <1>5, Zenon
<1>8. \A n \in 1..Len(B) : (C \o X)[Len(A) + n] = B[n]
  BY <1>1, <1>3, <1>6, Zenon
<1>9. (C \o X)[Len(A) + Len(B) + 1] = X[1]
  <2>1. 1 \in 1..Len(X) /\ Len(C) + 1 = Len(A) + Len(B) + 1
    BY <1>1
  <2>. QED
    BY <1>3, <2>1
<1>. QED
  BY <1>3, <1>4, <1>7, <1>8, <1>9 DEF C

LEMMA Filled ==
    ASSUME NEW e \in Titles, NEW j \in Nat
    PROVE  LET B == [n \in 1..j |-> e]
           IN B \in Seq(Titles) /\ Len(B) = j /\ \A n \in 1..j : B[n] = e
OBVIOUS

Made(p, k, j, x) == [n \in 1..k |-> p[n]] \o [n \in 1..j |-> ""] \o <<x>>

IsMade(q, p, k, j, x) ==
    /\ q \in Seq(Titles) /\ Len(q) = k + j + 1
    /\ \A n \in 1..k : q[n] = p[n]
    /\ \A n \in 1..j : q[k + n] = ""
    /\ q[k + j + 1] = x

LEMMA PathMade ==
    ASSUME NEW p \in Seq(Titles), NEW x \in Titles, NEW j \in Nat, NEW k \in 0..Len(p)
    PROVE  IsMade(Made(p, k, j, x), p, k, j, x)
<1>1. PICK A \in Seq(Titles) :
         A = [n \in 1..k |-> p[n]] /\ Len(A) = k /\ \A n \in 1..k : A[n] = p[n]
  <2>. DEFINE a == [n \in 1..k |-> p[n]]
  <2>1. a \in Seq(Titles) /\ Len(a) = k /\ \A n \in 1..k : a[n] = p[n]
    OBVIOUS
  <2>. QED
    BY <2>1
<1>2. PICK B \in Seq(Titles) :
         B = [n \in 1..j |-> ""] /\ Len(B) = j /\ \A n \in 1..j : B[n] = ""
  <2>1. "" \in Titles
    BY DEF Titles
  <2>. QED
    BY <2>1, Filled, Zenon
<1>3. PICK X \in Seq(Titles) : X = <<x>> /\ Len(X) = 1 /\ X[1] = x
  <2>1. <<x>> \in Seq(Titles) /\ Len(<<x>>) = 1 /\ <<x>>[1] = x
    OBVIOUS
  <2>. QED
    BY <2>1
<1>4. /\ A \o B \o X \in Seq(Titles)
      /\ Len(A \o B \o X) = Len(A) + Len(B) + 1
      /\ \A n \in 1..Len(A) : (A \o B \o X)[n] = A[n]
      /\ \A n \in 1..Len(B) : (A \o B \o X)[Len(A) + n] = B[n]
      /\ (A \o B \o X)[Len(A) + Len(B) + 1] = X[1]
  BY <1>3, JoinedThree
<1>5. Len(A) = k /\ Len(B) = j /\ X[1] = x
  BY <1>1, <1>2, <1>3
<1>6. /\ A \o B \o X \in Seq(Titles)
      /\ Len(A \o B \o X) = k + j + 1
      /\ \A n \in 1..k : (A \o B \o X)[n] = p[n]
      /\ \A n \in 1..j : (A \o B \o X)[k + n] = ""
      /\ (A \o B \o X)[k + j + 1] = x
  BY <1>1, <1>2, <1>4, <1>5, Zenon
<1>7. A = [n \in 1..k |-> p[n]] /\ B = [n \in 1..j |-> ""] /\ X = <<x>>
  BY <1>1, <1>2, <1>3, Zenon
<1>. QED
  BY <1>6, <1>7, Zenon DEF Made, IsMade

\* The path q is p with all from the level L on replaced by the title x.
Replaces(q, p, k, L, x) ==
    /\ k \in 0..Len(p) /\ k < L
    /\ k < L - 1 => k = Len(p)
    /\ Len(q) = L
    /\ \A n \in 1..k : q[n] = p[n]
    /\ \A n \in (k + 1)..(L - 1) : q[n] = ""
    /\ q[L] = x

\* One more heading: what the parser makes of its path is what the headings say.
LEMMA PathGrows ==
    ASSUME NEW N \in Nat, NEW H \in SUBSET (1..N), NEW s, NEW L \in Nat \ {0},
           \A n \in H : s[n].level \in Nat, s[N + 1].level = L,
           NEW p \in Seq(Titles), NEW q \in Seq(Titles), NEW k
    PROVE  Replaces(q, p, k, L, s[N + 1].title) /\ p = PathOf(H, s)
              => q = PathOf(H \cup {N + 1}, s)
<1>. SUFFICES ASSUME Replaces(q, p, k, L, s[N + 1].title), p = PathOf(H, s)
              PROVE  q = PathOf(H \cup {N + 1}, s)
  BY Zenon
<1>. DEFINE G == H \cup {N + 1}
            x == s[N + 1].title
<1>1. k \in 0..Len(p) /\ k < L /\ (k < L - 1 => k = Len(p)) /\ Len(p) \in Nat
  <2>1. Len(p) \in Nat
    OBVIOUS
  <2>2. k \in 0..Len(p) /\ k < L /\ (k < L - 1 => k = Len(p))
    BY Zenon DEF Replaces
  <2>. QED
    BY <2>1, <2>2, Zenon
<1>2. /\ Len(q) = L /\ q[L] = x
      /\ \A n \in 1..k : q[n] = p[n]
      /\ \A n \in (k + 1)..(L - 1) : q[n] = ""
  BY DEF Replaces
<1>3. H # {} => Max(H) \in H
  <2>1. H \in SUBSET (0..N)
    OBVIOUS
  <2>. QED
    BY <2>1, MaxOf, Zenon
<1>4. H # {} => p = [i \in 1..s[Max(H)].level |-> HeadingAt(H, s, i)]
  BY Zenon DEF PathOf
<1>5. H # {} => s[Max(H)].level \in Nat
  BY <1>3
<1>6. H # {} => Len(p) = s[Max(H)].level /\ \A i \in 1..Len(p) : p[i] = HeadingAt(H, s, i)
  <2>1. ASSUME NEW a \in Nat, p = [i \in 1..a |-> HeadingAt(H, s, i)]
        PROVE  Len(p) = a /\ \A i \in 1..a : p[i] = HeadingAt(H, s, i)
    BY <2>1
  <2>. QED
    BY <1>4, <1>5, <2>1, Zenon
<1>7. H = {} => Len(p) = 0
  BY DEF PathOf
<1>8. ASSUME NEW i \in 1..L PROVE q[i] = HeadingAt(G, s, i)
  <2>1. i \in Nat
    OBVIOUS
  <2>2. s[N + 1].level \in Nat
    OBVIOUS
  <2>3. /\ s[N + 1].level = i => HeadingAt(H \cup {N + 1}, s, i) = s[N + 1].title
        /\ s[N + 1].level > i => HeadingAt(H \cup {N + 1}, s, i) = HeadingAt(H, s, i)
    <3>1. \A n \in H : s[n].level \in Nat
      OBVIOUS
    <3>. QED
      BY <2>1, <2>2, <3>1, HeadingAdded
  <2>4. CASE i = L
    BY <1>2, <2>4, <2>3, Zenon
  <2>5. CASE i < L
    <3>1. HeadingAt(G, s, i) = HeadingAt(H, s, i)
      <4>1. s[N + 1].level > i
        BY <2>5
      <4>. QED
        BY <2>3, <4>1, Zenon
    <3>. HIDE DEF G
    <3>2. CASE i <= k
      <4>1. i \in 1..Len(p) /\ i \in 1..k /\ Len(p) # 0
        BY <1>1, <3>2
      <4>2. p[i] = HeadingAt(H, s, i)
        BY <1>6, <1>7, <4>1, Zenon
      <4>. QED
        BY <1>2, <3>1, <4>1, <4>2, Zenon
    <3>3. CASE i > k
      <4>1. i \in (k + 1)..(L - 1) /\ Len(p) < i
        BY <1>1, <2>5, <3>3
      <4>2. q[i] = ""
        BY <1>2, <4>1, Zenon
      <4>3. H # {} => s[Max(H)].level < i
        BY <1>6, <4>1
      <4>4. HeadingAt(H, s, i) = ""
        BY <2>1, <4>3, NothingBelow, Zenon
      <4>. QED
        BY <3>1, <4>2, <4>4, Zenon
    <3>4. i <= k \/ i > k
      BY <1>1
    <3>. QED
      BY <3>2, <3>3, <3>4, Zenon
  <2>6. i = L \/ i < L
    OBVIOUS
  <2>. QED
    BY <2>4, <2>5, <2>6, Zenon
<1>9. Max(G) = N + 1
  <2>1. \A n \in G : n \in Nat /\ n <= N + 1
    OBVIOUS
  <2>2. N + 1 \in G
    OBVIOUS
  <2>. HIDE DEF G
  <2>3. G \in SUBSET Nat
    BY <2>1, Zenon
  <2>. QED
    BY <2>1, <2>2, <2>3, MaxIs, Zenon
<1>10. G # {}
  BY Zenon
<1>. HIDE DEF G
<1>11. PathOf(G, s) = [i \in 1..L |-> HeadingAt(G, s, i)]
  BY <1>9, <1>10, Zenon DEF PathOf
<1>12. q = [i \in 1..L |-> q[i]]
  <2>1. Len(q) = L
    BY <1>2
  <2>2. q = [i \in 1..Len(q) |-> q[i]]
    OBVIOUS
  <2>. QED
    BY <2>1, <2>2, Zenon
<1>13. q = PathOf(G, s)
  BY <1>8, <1>11, <1>12, Zenon
<1>. QED
  BY <1>13 DEF G

-----------------------------------------------------------------------------
(* The steps that read a line.                                             *)

LEMMA InCovered ==
    ASSUME NEW n
    PROVE  n \in Covered <=> \E b \in 1..Len(blocks) : n \in blocks[b].from..blocks[b].to
BY Zenon DEF Covered, Span

LEMMA InCoveredNext ==
    ASSUME NEW n
    PROVE  n \in Covered' <=> \E b \in 1..Len(blocks') : n \in blocks'[b].from..blocks'[b].to
BY Zenon DEF Covered, Span

\* What is read stays as it was.
LEMMA LinesStay ==
    ASSUME Types, NEW l \in Line, lines' = Append(lines, l), format' = format
    PROVE  /\ lines' \in Seq(Line) /\ Len(lines') = Len(lines) + 1 /\ Len(lines) \in Nat
           /\ lines'[Len(lines) + 1] = l
           /\ \A n \in 1..(Len(lines) + 1) : Kind(lines[n])' = Kind(lines'[n])
           /\ \A n \in 1..Len(lines) : lines'[n] = lines[n] /\ Kind(lines[n])' = Kind(lines[n])
<1>1. lines \in Seq(Line)
  BY DEF Types
<1>2. /\ lines' \in Seq(Line) /\ Len(lines') = Len(lines) + 1 /\ Len(lines) \in Nat
      /\ lines'[Len(lines) + 1] = l
      /\ \A n \in 1..Len(lines) : lines'[n] = lines[n]
  BY <1>1
<1>3. \A n \in 1..(Len(lines) + 1) : Kind(lines[n])' = Kind(lines'[n])
  BY Zenon DEF Kind
<1>. QED
  BY <1>2, <1>3

LEMMA BlockAppended ==
    ASSUME Types, NEW nb \in BlockType, blocks' = Append(blocks, nb)
    PROVE  /\ blocks' \in Seq(BlockType) /\ Len(blocks') = Len(blocks) + 1 /\ Len(blocks) \in Nat
           /\ \A b \in 1..Len(blocks) : blocks'[b] = blocks[b] /\ blocks[b] \in BlockType
           /\ blocks'[Len(blocks) + 1] = nb
<1>1. blocks \in Seq(BlockType)
  BY DEF Types
<1>. HIDE DEF BlockType
<1>. QED
  BY <1>1

LEMMA BlockFields ==
    ASSUME NEW b \in BlockType
    PROVE  /\ b.from \in Nat /\ b.to \in Nat /\ b.type \in {"text", "code"}
           /\ b.language \in Languages /\ b.path \in Seq(Titles)
BY DEF BlockType

\* A new block covers its lines and nothing else.
LEMMA CoveredGrows ==
    ASSUME Types, NEW nb \in BlockType, blocks' = Append(blocks, nb), NEW n
    PROVE  n \in Covered' <=> n \in Covered \/ n \in nb.from..nb.to
<1>1. /\ Len(blocks') = Len(blocks) + 1 /\ Len(blocks) \in Nat
      /\ \A b \in 1..Len(blocks) : blocks'[b] = blocks[b]
      /\ blocks'[Len(blocks) + 1] = nb
  BY BlockAppended
<1>2. 1..Len(blocks') = (1..Len(blocks)) \cup {Len(blocks) + 1}
  BY <1>1
<1>3. n \in Covered <=> \E b \in 1..Len(blocks) : n \in blocks[b].from..blocks[b].to
  BY InCovered
<1>4. n \in Covered' <=> \E b \in 1..Len(blocks') : n \in blocks'[b].from..blocks'[b].to
  BY InCoveredNext
<1>. QED
  BY <1>1, <1>2, <1>3, <1>4, Zenon

\* No block reaches beyond what is read.
LEMMA CoveredRead ==
    ASSUME Types, BlocksInOrder, NEW n \in Nat, n \in Covered
    PROVE  n \in 1..Len(lines) /\ (current # 0 => n < current)
<1>1. PICK b \in 1..Len(blocks) : n \in blocks[b].from..blocks[b].to
  BY InCovered
<1>2. blocks[b].from \in Nat /\ blocks[b].to \in Nat /\ current \in Nat /\ Len(lines) \in Nat
  <2>1. blocks[b] \in BlockType
    BY DEF Types
  <2>2. current \in 0..Len(lines) /\ lines \in Seq(Line)
    BY DEF Types
  <2>. QED
    BY <2>1, <2>2, BlockFields
<1>3. blocks[b].from \in 1..blocks[b].to /\ blocks[b].to <= Len(lines)
      /\ (current # 0 => blocks[b].to < current)
  BY DEF BlocksInOrder
<1>. QED
  BY <1>1, <1>2, <1>3

\* The bounds of a block.
LEMMA BlockBounds ==
    ASSUME Types, BlocksInOrder, NEW b \in 1..Len(blocks)
    PROVE  /\ blocks[b] \in BlockType /\ blocks[b].from \in Nat /\ blocks[b].to \in Nat
           /\ 1 <= blocks[b].from /\ blocks[b].from <= blocks[b].to /\ blocks[b].to <= Len(lines)
           /\ current # 0 => blocks[b].to < current
           /\ current \in Nat /\ current <= Len(lines) /\ Len(lines) \in Nat
<1>1. blocks[b] \in BlockType
  BY DEF Types
<1>2. current \in 0..Len(lines) /\ lines \in Seq(Line)
  BY DEF Types
<1>3. blocks[b].from \in Nat /\ blocks[b].to \in Nat
  BY <1>1, BlockFields
<1>4. blocks[b].from \in 1..blocks[b].to /\ blocks[b].to <= Len(lines)
      /\ (current # 0 => blocks[b].to < current)
  BY DEF BlocksInOrder
<1>. QED
  BY <1>1, <1>2, <1>3, <1>4

\* The headings above a block are the same if nothing before it changes.
LEMMA AboveKept ==
    ASSUME Types, BlocksInOrder, NEW b \in 1..Len(blocks), blocks'[b] = blocks[b],
           \A n \in 1..Len(lines) : lines'[n] = lines[n] /\ Kind(lines[n])' = Kind(lines[n]),
           \A n \in 1..(blocks[b].from - 1) : n \in Covered' <=> n \in Covered
    PROVE  PathOf(Above(b), lines)' = PathOf(Above(b), lines)
<1>1. /\ blocks[b].from \in Nat /\ blocks[b].from <= Len(lines) /\ Len(lines) \in Nat
  BY BlockBounds
<1>2. 1..(blocks[b].from - 1) \in SUBSET (1..Len(lines))
  BY <1>1
<1>3. Above(b)' = {n \in 1..(blocks'[b].from - 1) : n \notin Covered' /\ Kind(lines[n])' = "heading"}
  BY DEF Above
<1>4. Above(b) = {n \in 1..(blocks[b].from - 1) : n \notin Covered /\ Kind(lines[n]) = "heading"}
  BY DEF Above
<1>5. Above(b)' = Above(b)
  BY <1>2, <1>3, <1>4, Zenon
<1>6. Above(b) \in SUBSET (1..Len(lines))
  BY <1>2, <1>4, Zenon
<1>7. \A n \in Above(b) : lines'[n] = lines[n]
  BY <1>6, Zenon
<1>8. PathOf(Above(b), lines') = PathOf(Above(b), lines)
  BY <1>1, <1>6, <1>7, PathKept
<1>9. PathOf(Above(b), lines)' = PathOf(Above(b)', lines')
  OBVIOUS
<1>. QED
  BY <1>5, <1>8, <1>9

\* A block that is complete stays so when a line is read.
LEMMA WholeKept ==
    ASSUME Types, BlocksInOrder, NEW l \in Line, lines' = Append(lines, l), format' = format,
           phase = "lines", phase' = "lines",
           NEW b \in 1..Len(blocks), blocks'[b] = blocks[b], BlockIsWhole(b)
    PROVE  BlockIsWhole(b)'
<1>. DEFINE from == blocks[b].from
            to   == blocks[b].to
            N    == Len(lines)
<1>1. from \in Nat /\ to \in Nat /\ 1 <= from /\ from <= to /\ to <= N /\ N \in Nat
  BY BlockBounds
<1>2. /\ Len(lines') = N + 1
      /\ \A n \in 1..N : lines'[n] = lines[n] /\ Kind(lines[n])' = Kind(lines[n])
      /\ \A n \in 1..(N + 1) : Kind(lines[n])' = Kind(lines'[n])
  BY LinesStay
<1>3. \A n \in 1..N : Kind(lines'[n]) = Kind(lines[n])
  <2>1. \A n \in 1..N : n \in 1..(N + 1)
    BY <1>1
  <2>. QED
    BY <1>2, <2>1, Zenon
<1>4. \A n \in from..to : n \in 1..N
  BY <1>1
<1>5. CASE blocks[b].type = "code"
  <2>1. /\ Kind(lines[from]) = "fence"
        /\ \A n \in (from + 1)..(to - 1) :
              ~(lines[n].kind = "fence" /\ lines[n].marker = lines[from].marker)
        /\ to > from /\ lines[to].kind = "fence" /\ lines[to].marker = lines[from].marker
    BY <1>5, Zenon DEF BlockIsWhole, EndsAt
  <2>2. from \in 1..N /\ to \in 1..N /\ \A n \in (from + 1)..(to - 1) : n \in 1..N
    BY <1>1
  <2>3. lines'[from] = lines[from] /\ Kind(lines'[from]) = Kind(lines[from]) /\ lines'[to] = lines[to]
        /\ \A n \in (from + 1)..(to - 1) : lines'[n] = lines[n]
    BY <1>2, <1>3, <2>2, Zenon
  <2>4. /\ Kind(lines'[from]) = "fence"
        /\ \A n \in (from + 1)..(to - 1) :
              ~(lines'[n].kind = "fence" /\ lines'[n].marker = lines'[from].marker)
        /\ to > from /\ lines'[to].kind = "fence" /\ lines'[to].marker = lines'[from].marker
    BY <2>1, <2>3, Zenon
  <2>5. Kind(lines[blocks[b].from])' = Kind(lines'[blocks'[b].from])
    BY Zenon DEF Kind
  <2>. QED
    BY <1>5, <2>4, <2>5, Zenon DEF BlockIsWhole, EndsAt
<1>6. CASE blocks[b].type # "code"
  <2>1. /\ \A n \in from..to : Kind(lines[n]) = "text"
        /\ to < N /\ Kind(lines[to + 1]) # "text"
    BY <1>6, Zenon DEF BlockIsWhole, Span
  <2>2. \A n \in from..to : Kind(lines'[n]) = "text"
    BY <1>4, <1>3, <2>1, Zenon
  <2>3. to + 1 \in 1..N /\ to < N + 1
    BY <1>1, <2>1
  <2>4. Kind(lines'[to + 1]) # "text"
    BY <1>3, <2>1, <2>3, Zenon
  <2>5. /\ Kind(lines[blocks[b].to + 1])' = Kind(lines'[blocks'[b].to + 1])
        /\ \A n : Kind(lines[n])' = Kind(lines'[n])
    BY Zenon DEF Kind
  <2>6. to < Len(lines')
    BY <1>2, <2>3
  <2>. QED
    BY <1>6, <2>2, <2>4, <2>5, <2>6, Zenon DEF BlockIsWhole, Span
<1>. QED
  BY <1>5, <1>6

\* What the parser does to its blocks when it reads a line: it leaves them, or it
\* ends the block that is being read with this line or with the line before.
Stays ==
    /\ blocks' = blocks
    /\ current # 0 => current' = current
    /\ current = 0 => current' \in {0, Len(lines) + 1}

Ends(nb) ==
    /\ current # 0 /\ nb \in BlockType
    /\ blocks' = Append(blocks, nb)
    /\ nb.from = current /\ nb.to \in {Len(lines), Len(lines) + 1}
    /\ current' \in {0, Len(lines) + 1}
    /\ nb.to = Len(lines) + 1 => current' = 0

LEMMA OutsideStays ==
    ASSUME Types, BlocksInOrder, NEW nb, Stays \/ Ends(nb), NEW n \in 1..Len(lines)
    PROVE  Outside(n)' <=> Outside(n)
<1>1. current \in Nat /\ current <= Len(lines) /\ Len(lines) \in Nat
  BY DEF Types
<1>2. Outside(n)' <=> n \notin Covered' /\ (current' = 0 \/ n < current')
  BY Zenon DEF Outside
<1>3. Outside(n) <=> n \notin Covered /\ (current = 0 \/ n < current)
  BY Zenon DEF Outside
<1>4. CASE Stays
  <2>1. Covered' = Covered
    BY <1>4, Zenon DEF Covered, Span, Stays
  <2>2. (current' = 0 \/ n < current') <=> (current = 0 \/ n < current)
    BY <1>1, <1>4 DEF Stays
  <2>. QED
    BY <1>2, <1>3, <2>1, <2>2, Zenon
<1>5. CASE Ends(nb)
  <2>1. n \in Covered' <=> n \in Covered \/ n \in nb.from..nb.to
    BY <1>5, CoveredGrows DEF Ends
  <2>2. n \in nb.from..nb.to <=> ~(n < current)
    BY <1>1, <1>5 DEF Ends
  <2>3. (current' = 0 \/ n < current') /\ current # 0
    BY <1>1, <1>5 DEF Ends
  <2>. QED
    BY <1>2, <1>3, <2>1, <2>2, <2>3, Zenon
<1>. QED
  BY <1>4, <1>5

LEMMA OutsideNew ==
    ASSUME Types, BlocksInOrder, NEW nb, Stays \/ Ends(nb), NEW n, n = Len(lines) + 1
    PROVE  Outside(n)' <=> current' = 0 /\ ~(Ends(nb) /\ nb.to = n)
<1>1. current \in Nat /\ current <= Len(lines) /\ Len(lines) \in Nat /\ n \in Nat /\ n > Len(lines)
  BY DEF Types
<1>2. Outside(n)' <=> n \notin Covered' /\ (current' = 0 \/ n < current')
  BY Zenon DEF Outside
<1>3. n \notin Covered
  BY <1>1, CoveredRead
<1>4. current' \in {0, current, n}
  BY DEF Stays, Ends
<1>5. ~(n < current')
  BY <1>1, <1>4
<1>6. CASE ~Ends(nb)
  <2>1. Covered' = Covered
    BY <1>6, Zenon DEF Covered, Span, Stays
  <2>. QED
    BY <1>2, <1>3, <1>5, <1>6, <2>1, Zenon
<1>7. CASE Ends(nb)
  <2>1. n \in Covered' <=> n \in Covered \/ n \in nb.from..nb.to
    BY <1>7, CoveredGrows DEF Ends
  <2>2. n \in nb.from..nb.to <=> nb.to = n
    BY <1>1, <1>7 DEF Ends
  <2>. QED
    BY <1>2, <1>3, <1>5, <1>7, <2>1, <2>2, Zenon
<1>. QED
  BY <1>6, <1>7

\* The headings that stand after a line is read.
LEMMA StandingNext ==
    ASSUME Types, BlocksInOrder, NEW nb, Stays \/ Ends(nb), NEW N, N = Len(lines) + 1,
           NEW l \in Line, lines' = Append(lines, l), format' = format
    PROVE  /\ Outside(N)' /\ Kind(l) = "heading" => Standing' = Standing \cup {N}
           /\ ~(Outside(N)' /\ Kind(l) = "heading") => Standing' = Standing
<1>1. Len(lines) \in Nat /\ 1..N = (1..Len(lines)) \cup {N}
  BY DEF Types
<1>2. /\ Len(lines') = N /\ lines'[N] = l
      /\ \A n \in 1..Len(lines) : lines'[n] = lines[n] /\ Kind(lines[n])' = Kind(lines[n])
      /\ \A n \in 1..N : Kind(lines[n])' = Kind(lines'[n])
  BY LinesStay
<1>3. Kind(lines[N])' = Kind(l)
  BY <1>1, <1>2, Zenon
<1>4. \A n \in 1..Len(lines) : Outside(n)' <=> Outside(n)
  BY OutsideStays, Zenon
<1>5. \A n : n \in Standing' <=> n \in 1..N /\ Outside(n)' /\ Kind(lines[n])' = "heading"
  BY <1>2, Zenon DEF Standing
<1>6. \A n : n \in Standing <=> n \in 1..Len(lines) /\ Outside(n) /\ Kind(lines[n]) = "heading"
  BY Zenon DEF Standing
<1>7. \A n : n \in Standing' <=> n \in Standing \/ (n = N /\ Outside(N)' /\ Kind(l) = "heading")
  BY <1>1, <1>2, <1>3, <1>4, <1>5, <1>6, Zenon
<1>. QED
  BY <1>7, Zenon

\* Only blank lines and headings are outside of the blocks, if the new line is one.
LEMMA OutsideNext ==
    ASSUME Types, BlocksInOrder, OnlyBlankOutside, NEW nb, Stays \/ Ends(nb),
           NEW N, N = Len(lines) + 1, NEW l \in Line, lines' = Append(lines, l), format' = format,
           Outside(N)' => Kind(l) \in {"blank", "heading"}
    PROVE  OnlyBlankOutside'
<1>1. Len(lines) \in Nat /\ 1..N = (1..Len(lines)) \cup {N}
  BY DEF Types
<1>2. /\ Len(lines') = N /\ lines'[N] = l
      /\ \A n \in 1..Len(lines) : lines'[n] = lines[n] /\ Kind(lines[n])' = Kind(lines[n])
      /\ \A n \in 1..N : Kind(lines[n])' = Kind(lines'[n])
  BY LinesStay
<1>3. Kind(lines[N])' = Kind(l)
  BY <1>1, <1>2, Zenon
<1>4. \A n \in 1..Len(lines) : Outside(n)' <=> Outside(n)
  BY OutsideStays, Zenon
<1>5. \A n \in 1..Len(lines) : Outside(n) => Kind(lines[n]) \in {"blank", "heading"}
  BY Zenon DEF OnlyBlankOutside
<1>6. \A n \in 1..N : Outside(n)' => Kind(lines[n])' \in {"blank", "heading"}
  BY <1>1, <1>2, <1>3, <1>4, <1>5, Zenon
<1>. QED
  BY <1>2, <1>6, Zenon DEF OnlyBlankOutside

\* The blocks stay in order, whether one more comes or none.
LEMMA OrderAdded ==
    ASSUME Types, BlocksInOrder, NEW nb \in BlockType, blocks' = Append(blocks, nb), current # 0,
           nb.from = current, current <= nb.to, nb.to <= Len(lines'),
           Len(lines') \in Nat, Len(lines) <= Len(lines'),
           current' # 0 => current' \in Nat /\ Len(lines) < current' /\ nb.to < current'
    PROVE  BlocksInOrder'
<1>1. current \in Nat /\ current <= Len(lines) /\ Len(lines) \in Nat /\ Len(blocks) \in Nat
      /\ nb.to \in Nat
  BY BlockFields DEF Types
<1>2. \A b \in 1..Len(blocks) :
         /\ blocks[b].from \in Nat /\ blocks[b].to \in Nat
         /\ 1 <= blocks[b].from /\ blocks[b].from <= blocks[b].to /\ blocks[b].to <= Len(lines)
         /\ current # 0 => blocks[b].to < current
  BY BlockBounds
<1>3. \A b, c \in 1..Len(blocks) : b < c => blocks[b].to < blocks[c].from
  BY DEF BlocksInOrder
<1>4. /\ Len(blocks') = Len(blocks) + 1 /\ blocks'[Len(blocks) + 1] = nb
      /\ \A b \in 1..Len(blocks) : blocks'[b] = blocks[b]
  BY BlockAppended
<1>5. ASSUME NEW b \in 1..Len(blocks')
      PROVE  /\ blocks'[b].from \in 1..blocks'[b].to /\ blocks'[b].to <= Len(lines')
             /\ current' # 0 => blocks'[b].to < current'
  <2>1. CASE b \in 1..Len(blocks)
    <3>1. /\ blocks[b].from \in Nat /\ blocks[b].to \in Nat
          /\ 1 <= blocks[b].from /\ blocks[b].from <= blocks[b].to /\ blocks[b].to <= Len(lines)
          /\ blocks'[b] = blocks[b]
      BY <1>2, <1>4, <2>1
    <3>. QED
      BY <1>1, <3>1
  <2>2. CASE b = Len(blocks) + 1
    <3>1. blocks'[b] = nb
      BY <1>4, <2>2
    <3>. QED
      BY <1>1, <3>1
  <2>. QED
    BY <1>1, <1>4, <2>1, <2>2
<1>6. ASSUME NEW b \in 1..Len(blocks'), NEW c \in 1..Len(blocks'), b < c
      PROVE  blocks'[b].to < blocks'[c].from
  <2>1. b \in 1..Len(blocks) /\ blocks'[b] = blocks[b]
    BY <1>1, <1>4, <1>6
  <2>2. CASE c \in 1..Len(blocks)
    BY <1>3, <1>4, <1>6, <2>1, <2>2
  <2>3. CASE c = Len(blocks) + 1
    BY <1>2, <1>4, <2>1, <2>3
  <2>. QED
    BY <1>1, <1>4, <2>2, <2>3
<1>. QED
  BY <1>5, <1>6, Zenon DEF BlocksInOrder

LEMMA OrderNext ==
    ASSUME Types, BlocksInOrder, NEW nb, Stays \/ Ends(nb), Len(lines') = Len(lines) + 1
    PROVE  BlocksInOrder'
<1>1. current \in Nat /\ current <= Len(lines) /\ Len(lines) \in Nat
  BY DEF Types
<1>2. CASE Stays
  <2>1. blocks' = blocks /\ (current' # 0 => current' = current \/ current' = Len(lines) + 1)
        /\ (current # 0 => current' = current)
    BY <1>2, Zenon DEF Stays
  <2>2. \A b \in 1..Len(blocks) :
          /\ blocks[b].from \in Nat /\ blocks[b].to \in Nat
          /\ 1 <= blocks[b].from /\ blocks[b].from <= blocks[b].to /\ blocks[b].to <= Len(lines)
          /\ current # 0 => blocks[b].to < current
    BY BlockBounds
  <2>3. \A b \in 1..Len(blocks) :
          /\ blocks[b].from \in 1..blocks[b].to /\ blocks[b].to <= Len(lines')
          /\ current' # 0 => blocks[b].to < current'
    BY <1>1, <2>1, <2>2
  <2>4. \A b, c \in 1..Len(blocks) : b < c => blocks[b].to < blocks[c].from
    BY DEF BlocksInOrder
  <2>. QED
    BY <2>1, <2>3, <2>4 DEF BlocksInOrder
<1>3. CASE Ends(nb)
  <2>1. /\ nb \in BlockType /\ blocks' = Append(blocks, nb)
        /\ nb.from = current /\ current # 0 /\ nb.to \in {Len(lines), Len(lines) + 1}
        /\ current' \in {0, Len(lines) + 1} /\ (nb.to = Len(lines) + 1 => current' = 0)
    BY <1>3, Zenon DEF Ends
  <2>2. /\ current <= nb.to /\ nb.to <= Len(lines')
        /\ Len(lines') \in Nat /\ Len(lines) <= Len(lines')
        /\ current' # 0 => current' \in Nat /\ Len(lines) < current' /\ nb.to < current'
    BY <1>1, <2>1
  <2>. QED
    BY <2>1, <2>2, OrderAdded
<1>. QED
  BY <1>2, <1>3

\* All blocks are whole, if the one that ends with this step is.
LEMMA WholeNext ==
    ASSUME Types, BlocksInOrder, \A b \in 1..Len(blocks) : BlockIsWhole(b), NEW nb, Stays \/ Ends(nb),
           NEW l \in Line, lines' = Append(lines, l), format' = format,
           phase = "lines", phase' = "lines",
           NEW M, M = Len(blocks) + 1, Ends(nb) => BlockIsWhole(M)'
    PROVE  \A b \in 1..Len(blocks') : BlockIsWhole(b)'
<1>1. ASSUME NEW b \in 1..Len(blocks), blocks'[b] = blocks[b] PROVE BlockIsWhole(b)'
  <2>1. BlockIsWhole(b)
    OBVIOUS
  <2>. QED
    BY <1>1, <2>1, WholeKept
<1>2. CASE Stays
  BY <1>1, <1>2, Zenon DEF Stays
<1>3. CASE Ends(nb)
  <2>1. /\ Len(blocks') = M /\ Len(blocks) \in Nat
        /\ \A b \in 1..Len(blocks) : blocks'[b] = blocks[b]
    BY <1>3, BlockAppended DEF Ends
  <2>2. 1..M = (1..Len(blocks)) \cup {M}
    BY <2>1
  <2>. QED
    BY <1>1, <1>3, <2>1, <2>2, Zenon
<1>. QED
  BY <1>2, <1>3

\* All blocks are filed under their headings, if the one that ends with this step
\* gets the path of the parser.
Adds(nb) ==
    /\ current # 0 /\ nb \in BlockType
    /\ blocks' = Append(blocks, nb)
    /\ nb.from = current /\ nb.path = path

Grows(nb) == blocks' = blocks \/ Adds(nb)

LEMMA FiledNext ==
    ASSUME Types, BlocksInOrder, BlocksFiled, PathStands, phase = "lines",
           NEW nb, Grows(nb),
           \A n \in 1..Len(lines) : lines'[n] = lines[n] /\ Kind(lines[n])' = Kind(lines[n])
    PROVE  BlocksFiled'
<1>1. \A n \in 1..Len(lines) : lines'[n] = lines[n] /\ Kind(lines[n])' = Kind(lines[n])
  OBVIOUS
<1>2. current \in Nat /\ current <= Len(lines) /\ Len(lines) \in Nat /\ Len(blocks) \in Nat
  BY DEF Types
<1>3. ASSUME NEW b \in 1..Len(blocks), blocks'[b] = blocks[b],
             \A n \in 1..(blocks[b].from - 1) : n \in Covered' <=> n \in Covered
      PROVE  blocks'[b].path = PathOf(Above(b), lines)'
  <2>1. PathOf(Above(b), lines)' = PathOf(Above(b), lines)
    BY <1>1, <1>3, AboveKept
  <2>2. blocks[b].path = PathOf(Above(b), lines)
    BY Zenon DEF BlocksFiled
  <2>. QED
    BY <1>3, <2>1, <2>2, Zenon
<1>4. CASE blocks' = blocks
  <2>1. Covered' = Covered /\ blocks' = blocks
    BY <1>4, Zenon DEF Covered, Span
  <2>2. \A b \in 1..Len(blocks) : blocks'[b].path = PathOf(Above(b), lines)'
    BY <1>3, <2>1, Zenon
  <2>. QED
    BY <2>1, <2>2, Zenon DEF BlocksFiled
<1>5. CASE Adds(nb)
  <2>. DEFINE M == Len(blocks) + 1
  <2>1. /\ Len(blocks') = M /\ blocks'[M] = nb
        /\ \A b \in 1..Len(blocks) : blocks'[b] = blocks[b]
    BY <1>5, BlockAppended DEF Adds
  <2>2. /\ nb.from = current /\ current # 0 /\ nb.path = path
        /\ nb \in BlockType /\ blocks' = Append(blocks, nb)
    BY <1>5, Zenon DEF Adds
  <2>3. \A n : n \in Covered' <=> n \in Covered \/ n \in nb.from..nb.to
    BY <2>2, CoveredGrows
  <2>4. \A n \in 1..(current - 1) : n \in Covered' <=> n \in Covered
    <3>1. \A n \in 1..(current - 1) : n \notin nb.from..nb.to
      BY <1>2, <2>2
    <3>. QED
      BY <2>3, <3>1, Zenon
  <2>5. ASSUME NEW b \in 1..Len(blocks) PROVE blocks'[b].path = PathOf(Above(b), lines)'
    <3>1. blocks[b].from \in Nat /\ blocks[b].from < current
      BY <1>2, <2>2, BlockBounds
    <3>2. \A n \in 1..(blocks[b].from - 1) : n \in 1..(current - 1)
      BY <1>2, <3>1
    <3>3. \A n \in 1..(blocks[b].from - 1) : n \in Covered' <=> n \in Covered
      BY <2>4, <3>2, Zenon
    <3>. QED
      BY <1>3, <2>1, <3>3, Zenon
  <2>6. ASSUME NEW m, m = M PROVE blocks'[m].path = PathOf(Above(m), lines)'
    <3>1. blocks'[m] = nb
      BY <2>1, <2>6, Zenon
    <3>2. Above(m)' = {n \in 1..(blocks'[m].from - 1) : n \notin Covered' /\ Kind(lines[n])' = "heading"}
      BY DEF Above
    <3>3. \A n : n \in Above(m)' <=> n \in 1..(current - 1) /\ n \notin Covered' /\ Kind(lines[n])' = "heading"
      BY <2>2, <3>1, <3>2, Zenon
    <3>4. \A n : n \in Standing <=> n \in 1..Len(lines) /\ Outside(n) /\ Kind(lines[n]) = "heading"
      BY Zenon DEF Standing
    <3>5. \A n : Outside(n) <=> n \notin Covered /\ n < current
      BY <2>2, Zenon DEF Outside
    <3>6. \A n : n \in 1..(current - 1) <=> n \in 1..Len(lines) /\ n < current
      BY <1>2
    <3>7. Above(m)' = Standing
      BY <1>1, <2>4, <3>3, <3>4, <3>5, <3>6, Zenon
    <3>8. Standing \in SUBSET (1..Len(lines)) /\ \A n \in Standing : lines'[n] = lines[n]
      BY <1>1, <3>4, Zenon
    <3>9. PathOf(Standing, lines') = PathOf(Standing, lines)
      BY <1>2, <3>8, PathKept, Zenon
    <3>10. PathOf(Above(m), lines)' = PathOf(Above(m)', lines')
      OBVIOUS
    <3>11. path = PathOf(Standing, lines) /\ nb.path = path
      BY <2>2, Zenon DEF PathStands
    <3>. QED
      BY <3>1, <3>7, <3>9, <3>10, <3>11, Zenon
  <2>7. 1..M = (1..Len(blocks)) \cup {M}
    BY <1>2
  <2>8. ASSUME NEW b \in 1..Len(blocks') PROVE blocks'[b].path = PathOf(Above(b), lines)'
    <3>1. b \in 1..Len(blocks) \/ b = M
      BY <1>2, <2>1
    <3>. QED
      BY <2>5, <2>6, <3>1, Zenon
  <2>. QED
    BY <2>8, Zenon DEF BlocksFiled
<1>. QED
  BY <1>4, <1>5, Zenon DEF Grows

\* The path that is kept still says where the next line stands.
LEMMA PathNext ==
    ASSUME Types, BlocksInOrder, PathStands, NEW nb, Stays \/ Ends(nb),
           NEW N, N = Len(lines) + 1, NEW l \in Line, lines' = Append(lines, l), format' = format,
           phase = "lines", ~(Outside(N)' /\ Kind(l) = "heading"), path' = path
    PROVE  PathStands'
<1>1. \A n \in 1..Len(lines) : lines'[n] = lines[n]
  BY LinesStay
<1>2. Len(lines) \in Nat
  BY DEF Types
<1>3. Standing' = Standing
  BY StandingNext
<1>4. Standing \in SUBSET (1..Len(lines))
  BY Zenon DEF Standing
<1>5. PathOf(Standing, lines') = PathOf(Standing, lines)
  BY <1>1, <1>2, <1>4, PathKept
<1>6. PathOf(Standing, lines)' = PathOf(Standing', lines')
  OBVIOUS
<1>7. path = PathOf(Standing, lines)
  BY DEF PathStands
<1>. QED
  BY <1>3, <1>5, <1>6, <1>7, Zenon DEF PathStands

\* So does the path that a heading leaves.
LEMMA PathReplaced ==
    ASSUME Types, BlocksInOrder, PathStands, NEW nb, Stays \/ Ends(nb),
           NEW N, N = Len(lines) + 1, NEW l \in Line, lines' = Append(lines, l), format' = format,
           phase = "lines", Outside(N)', Kind(l) = "heading",
           path' = Made(path, Kept(l.level), l.level - 1 - Kept(l.level), l.title)
    PROVE  PathStands' /\ path' \in Seq(Titles)
<1>1. /\ \A n \in 1..Len(lines) : lines'[n] = lines[n]
      /\ lines'[N] = l
  BY LinesStay
<1>2. Len(lines) \in Nat /\ path \in Seq(Titles) /\ Len(path) \in Nat
  BY DEF Types
<1>3. Standing' = Standing \cup {N}
  BY StandingNext
<1>4. Standing \in SUBSET (1..Len(lines))
  BY Zenon DEF Standing
<1>5. PathOf(Standing, lines') = PathOf(Standing, lines)
  BY <1>1, <1>2, <1>4, PathKept
<1>6. PathOf(Standing, lines)' = PathOf(Standing', lines')
  OBVIOUS
<1>7. path = PathOf(Standing, lines)
  BY DEF PathStands
<1>8. l.kind = "heading" /\ l.level \in 1..6 /\ l.title \in Titles
  BY Kinds
<1>9. PICK k \in 0..Len(path), j \in Nat :
         /\ k = Kept(l.level) /\ j = l.level - 1 - Kept(l.level)
         /\ k + j + 1 = l.level /\ (j # 0 => k = Len(path))
  <2>1. Len(path) \in Nat
    BY <1>2
  <2>2. ASSUME NEW L \in 1..6
        PROVE  /\ Kept(L) \in 0..Len(path) /\ L - 1 - Kept(L) \in Nat
               /\ Kept(L) + (L - 1 - Kept(L)) + 1 = L
               /\ L - 1 - Kept(L) # 0 => Kept(L) = Len(path)
    BY <2>1 DEF Kept
  <2>3. /\ Kept(l.level) \in 0..Len(path) /\ l.level - 1 - Kept(l.level) \in Nat
        /\ Kept(l.level) + (l.level - 1 - Kept(l.level)) + 1 = l.level
        /\ l.level - 1 - Kept(l.level) # 0 => Kept(l.level) = Len(path)
    BY <1>8, <2>2
  <2>. QED
    BY <2>3
<1>10. path' = Made(path, k, j, l.title)
  BY <1>9, Zenon
<1>11. /\ path' \in Seq(Titles) /\ Len(path') = k + j + 1
       /\ \A n \in 1..k : path'[n] = path[n]
       /\ \A n \in 1..j : path'[k + n] = ""
       /\ path'[k + j + 1] = l.title
  <2>1. PICK x \in Titles : x = l.title
    BY <1>8
  <2>2. path' = Made(path, k, j, x)
    BY <1>10, <2>1, Zenon
  <2>3. IsMade(Made(path, k, j, x), path, k, j, x)
    BY <1>2, PathMade, Zenon
  <2>. QED
    BY <2>1, <2>2, <2>3, Zenon DEF IsMade
<1>12. ASSUME NEW n \in (k + 1)..(l.level - 1) PROVE path'[n] = ""
  <2>1. k + j + 1 = l.level
    BY <1>9
  <2>2. n - k \in 1..j /\ k + (n - k) = n
    BY <2>1
  <2>. QED
    BY <1>11, <2>2
<1>13. k < l.level /\ (k < l.level - 1 => k = Len(path))
  BY <1>8, <1>9
<1>14. Replaces(path', path, k, l.level, l.title)
  BY <1>9, <1>11, <1>12, <1>13, Zenon DEF Replaces
<1>15. ASSUME NEW n \in Standing PROVE lines'[n].level \in Nat
  <2>1. n \in 1..Len(lines) /\ Kind(lines[n]) = "heading"
    BY Zenon DEF Standing
  <2>2. lines[n] \in Line
    BY <2>1 DEF Types
  <2>3. lines[n].level \in 1..6
    BY <2>1, <2>2, Kinds
  <2>. QED
    BY <1>1, <2>1, <2>3
<1>16. path' = PathOf(Standing \cup {N}, lines')
  <2>1. path = PathOf(Standing, lines')
    BY <1>5, <1>7
  <2>2. lines'[Len(lines) + 1].level = l.level /\ lines'[Len(lines) + 1].title = l.title
        /\ l.level \in Nat \ {0}
    BY <1>1, <1>8
  <2>. QED
    BY <1>2, <1>4, <1>11, <1>14, <1>15, <2>1, <2>2, PathGrows, Zenon
<1>. QED
  BY <1>3, <1>6, <1>11, <1>16, Zenon DEF PathStands

\* The chunks are not there yet.
LEMMA NoChunksYet ==
    ASSUME Types, ChunksSoFar, start = 0
    PROVE  Len(parts) = 0
<1>1. Len(parts) \in Nat
  BY DEF Types
<1>2. SUFFICES ASSUME Len(parts) > 0 PROVE FALSE
  BY <1>1
<1>3. Len(parts) \in 1..Len(parts) /\ parts[Len(parts)] \in PartType
  BY <1>1, <1>2 DEF Types
<1>4. /\ 1 <= FirstOf(parts[Len(parts)]) /\ FirstOf(parts[Len(parts)]) <= EndOf(parts[Len(parts)])
      /\ EndOf(parts[Len(parts)]) <= start
  BY <1>3, Zenon DEF ChunksSoFar
<1>5. ASSUME NEW p \in PartType PROVE FirstOf(p) \in Nat /\ EndOf(p) \in Nat
  <2>1. p.block \in Nat /\ p.end \in Nat \cup {-1}
    BY DEF PartType
  <2>. QED
    BY <2>1 DEF FirstOf, EndOf
<1>6. FirstOf(parts[Len(parts)]) \in Nat /\ EndOf(parts[Len(parts)]) \in Nat
  BY <1>3, <1>5
<1>. QED
  BY <1>4, <1>6

LEMMA ChunksStay ==
    ASSUME Types, ChunksSoFar, start = 0, start' = start, parts' = parts
    PROVE  ChunksSoFar'
<1>1. Len(parts) = 0
  BY NoChunksYet
<1>2. Len(parts') = 0 /\ start' = 0
  BY <1>1
<1>3. 1..Len(parts') = {} /\ 1..start' = {} /\ 1..(Len(parts') - 1) = {} /\ ~(Len(parts') > 0) /\ ~(0 < start')
  BY <1>2
<1>. QED
  BY <1>3, Zenon DEF ChunksSoFar

\* Whatever a line does to blocks, path and fence, the invariant holds after it.
LEMMA LineRead ==
    ASSUME IInv, NEW l \in Line, lines' = Append(lines, l), format' = format,
           start' = start, parts' = parts, phase = "lines", phase' = "lines",
           NEW nb, Stays \/ Ends(nb), Ends(nb) => nb.path = path,
           NEW M, M = Len(blocks) + 1, Ends(nb) => BlockIsWhole(M)',
           NEW N, N = Len(lines) + 1, Outside(N)' => Kind(l) \in {"blank", "heading"},
           fence' \in {None} \cup [marker : {h.marker : h \in Fences}, language : Languages],
           path' \in Seq(Titles), PathStands', OpenBlock'
    PROVE  IInv'
<1>1. /\ Types /\ BlocksInOrder /\ OnlyBlankOutside /\ PathStands /\ BlocksFiled /\ ChunksSoFar
      /\ \A b \in 1..Len(blocks) : BlockIsWhole(b)
  BY Zenon DEF IInv
<1>2. lines' \in Seq(Line) /\ Len(lines') = Len(lines) + 1 /\ Len(lines) \in Nat
  BY <1>1, LinesStay
<1>3. BlocksInOrder'
  BY <1>1, <1>2, OrderNext
<1>4. OnlyBlankOutside'
  BY <1>1, OutsideNext
<1>5. \A b \in 1..Len(blocks') : BlockIsWhole(b)'
  BY <1>1, WholeNext
<1>6. BlocksFiled'
  <2>1. \A n \in 1..Len(lines) : lines'[n] = lines[n] /\ Kind(lines[n])' = Kind(lines[n])
    BY <1>1, LinesStay
  <2>2. Grows(nb)
    BY Zenon DEF Stays, Ends, Adds, Grows
  <2>. QED
    BY <1>1, <2>1, <2>2, FiledNext
<1>7. start = 0
  BY <1>1 DEF Types
<1>8. ChunksSoFar'
  BY <1>1, <1>7, ChunksStay
<1>9. blocks' \in Seq(BlockType)
  <2>1. CASE Stays
    BY <1>1, <2>1, Zenon DEF Types, Stays
  <2>2. CASE Ends(nb)
    <3>1. nb \in BlockType /\ blocks' = Append(blocks, nb)
      BY <2>2, Zenon DEF Ends
    <3>. QED
      BY <1>1, <3>1, BlockAppended, Zenon
  <2>. QED
    BY <2>1, <2>2
<1>10. current' \in 0..Len(lines')
  <2>1. current \in 0..Len(lines)
    BY <1>1 DEF Types
  <2>2. current' \in {0, current, Len(lines) + 1}
    BY DEF Stays, Ends
  <2>. QED
    BY <1>2, <2>1, <2>2
<1>11. /\ format' \in {"markdown", "plain"}
       /\ parts' \in Seq(PartType)
       /\ start' = 0
  BY <1>1, <1>7, Zenon DEF Types
<1>12. start' \in 0..Len(blocks')
  <2>1. Len(blocks') \in Nat
    BY <1>9
  <2>. QED
    BY <1>11, <2>1
<1>13. Types'
  BY <1>2, <1>9, <1>10, <1>11, <1>12, Zenon DEF Types
<1>. QED
  BY <1>3, <1>4, <1>5, <1>6, <1>8, <1>13, Zenon DEF IInv

-----------------------------------------------------------------------------
(* The cases of a line.                                                    *)

TextBlock == [from |-> current, to |-> Len(lines), type |-> "text", language |-> "", path |-> path]
CodeBlock(to) ==
    [from |-> current, to |-> to, type |-> "code", language |-> fence.language, path |-> path]

\* A text ends with the line before.
LEMMA Flushes ==
    ASSUME Types, OpenBlock, fence = None, FlushText, current' \in {0, Len(lines) + 1}
    PROVE  \/ current = 0 /\ Stays
           \/ current # 0 /\ Ends(TextBlock)
<1>1. current \in Nat /\ current <= Len(lines) /\ Len(lines) \in Nat /\ path \in Seq(Titles)
  BY DEF Types
<1>2. CASE current = 0
  <2>1. blocks' = blocks
    BY <1>2 DEF FlushText, Flushed
  <2>. QED
    BY <1>2, <2>1 DEF Stays
<1>3. CASE current # 0
  <2>. DEFINE S == {n \in current..Len(lines) : n > Len(lines) \/ lines[n].kind # "blank"}
  <2>1. Kind(lines[Len(lines)]) = "text"
    <3>1. Len(lines) \in current..Len(lines)
      BY <1>1
    <3>. QED
      BY <1>3, <3>1, Zenon DEF OpenBlock
  <2>2. lines[Len(lines)].kind # "blank"
    BY <2>1 DEF Kind
  <2>3. Len(lines) \in S
    BY <1>1, <2>2
  <2>4. \A n \in S : n \in Nat /\ n <= Len(lines)
    BY <1>1
  <2>5. Max(S) = Len(lines)
    <3>. HIDE DEF S
    <3>1. S \in SUBSET Nat
      BY <2>4, Zenon
    <3>. QED
      BY <2>3, <2>4, <3>1, MaxIs, Zenon
  <2>6. blocks' = Append(blocks, TextBlock)
    BY <1>3, <2>5, Zenon DEF FlushText, Flushed, TextBlock
  <2>7. TextBlock \in BlockType
    <3>1. "" \in Languages
      BY Zenon DEF Languages
    <3>. QED
      BY <1>1, <3>1 DEF TextBlock, BlockType
  <2>8. TextBlock.from = current /\ TextBlock.to = Len(lines)
    BY DEF TextBlock
  <2>9. TextBlock.to # Len(lines) + 1
    BY <1>1, <2>8
  <2>. QED
    BY <1>3, <2>6, <2>7, <2>8, <2>9, Zenon DEF Ends
<1>. QED
  BY <1>2, <1>3

\* It is whole, because the next line is none of it.
LEMMA TextIsWhole ==
    ASSUME Types, OpenBlock, fence = None, Ends(TextBlock), NEW l \in Line,
           lines' = Append(lines, l), format' = format, Kind(l) # "text",
           NEW M, M = Len(blocks) + 1
    PROVE  BlockIsWhole(M)'
<1>1. current \in Nat /\ current <= Len(lines) /\ Len(lines) \in Nat
  BY DEF Types
<1>2. /\ Len(lines') = Len(lines) + 1 /\ lines'[Len(lines) + 1] = l
      /\ \A n \in 1..Len(lines) : lines'[n] = lines[n] /\ Kind(lines[n])' = Kind(lines[n])
      /\ \A n \in 1..(Len(lines) + 1) : Kind(lines[n])' = Kind(lines'[n])
  BY LinesStay
<1>3. blocks'[M] = TextBlock
  BY BlockAppended DEF Ends
<1>4. /\ blocks'[M].from = current /\ blocks'[M].to = Len(lines) /\ blocks'[M].type = "text"
      /\ current # 0
  <2>1. current # 0
    BY Zenon DEF Ends
  <2>2. TextBlock.from = current /\ TextBlock.to = Len(lines) /\ TextBlock.type = "text"
    BY DEF TextBlock
  <2>. QED
    BY <1>3, <2>1, <2>2, Zenon
<1>5. \A n \in current..Len(lines) : n \in 1..Len(lines)
  BY <1>1, <1>4
<1>6. \A n \in current..Len(lines) : Kind(lines[n])' = "text"
  <2>1. \A n \in current..Len(lines) : Kind(lines[n]) = "text"
    BY <1>4, Zenon DEF OpenBlock
  <2>. QED
    BY <1>2, <1>5, <2>1, Zenon
<1>7. \A n \in Span(M)' : Kind(lines[n])' = "text"
  <2>1. Span(M)' = blocks'[M].from..blocks'[M].to
    BY Zenon DEF Span
  <2>. QED
    BY <1>4, <1>6, <2>1, Zenon
<1>8. Kind(lines[blocks[M].to + 1])' # "text"
  <2>1. Kind(lines[blocks[M].to + 1])' = Kind(lines'[blocks'[M].to + 1])
    BY Zenon DEF Kind
  <2>. QED
    BY <1>2, <1>4, <2>1, Zenon
<1>9. blocks'[M].to < Len(lines')
  BY <1>1, <1>2, <1>4
<1>10. blocks'[M].type # "code"
  BY <1>4
<1>. QED
  BY <1>7, <1>8, <1>9, <1>10, Zenon DEF BlockIsWhole

\* A block of code that a fence closes ends with the line that is read.
LEMMA Closing ==
    ASSUME Types, OpenBlock, phase = "lines", fence # None, NEW l \in Line, Closes(l),
           lines' = Append(lines, l), format' = format,
           blocks' = Flushed("code", fence.language, Here), current' = 0
    PROVE  \E nb : /\ Ends(nb) /\ nb.path = path /\ nb.to = Len(lines) + 1
                   /\ \A M : M = Len(blocks) + 1 => BlockIsWhole(M)'
<1>. DEFINE N  == Len(lines) + 1
            nb == CodeBlock(N)
            S  == {n \in current..N : n > Len(lines) \/ lines[n].kind # "blank"}
<1>1. current \in Nat /\ current <= Len(lines) /\ Len(lines) \in Nat /\ path \in Seq(Titles)
  BY DEF Types
<1>2. /\ current # 0
      /\ Kind(lines[current]) = "fence" /\ lines[current].marker = fence.marker
      /\ \A n \in (current + 1)..Len(lines) :
            ~(lines[n].kind = "fence" /\ lines[n].marker = fence.marker)
  BY Zenon DEF OpenBlock
<1>3. Max(S) = N
  <2>1. N \in S /\ \A n \in S : n \in Nat /\ n <= N
    BY <1>1
  <2>. HIDE DEF S, N
  <2>2. S \in SUBSET Nat
    BY <2>1, Zenon
  <2>. QED
    BY <2>1, <2>2, MaxIs, Zenon
<1>4. blocks' = Append(blocks, nb)
  BY <1>2, <1>3, Zenon DEF Flushed, CodeBlock, Here
<1>5. nb \in BlockType
  <2>1. fence.language \in Languages
    BY DEF Types
  <2>2. N \in Nat /\ current \in Nat
    BY <1>1
  <2>. QED
    BY <1>1, <2>1, <2>2 DEF CodeBlock, BlockType
<1>6. nb.from = current /\ nb.to = N /\ nb.type = "code" /\ nb.path = path
  BY DEF CodeBlock
<1>. HIDE DEF nb
<1>7. Ends(nb)
  BY <1>2, <1>4, <1>5, <1>6, Zenon DEF Ends
<1>8. ASSUME NEW M, M = Len(blocks) + 1 PROVE BlockIsWhole(M)'
  <2>1. /\ Len(lines') = N /\ lines'[N] = l
        /\ \A n \in 1..Len(lines) : lines'[n] = lines[n] /\ Kind(lines[n])' = Kind(lines[n])
    BY LinesStay
  <2>2. blocks'[M] = nb
    BY <1>4, <1>5, <1>8, BlockAppended
  <2>3. blocks'[M].from = current /\ blocks'[M].to = N /\ blocks'[M].type = "code"
    BY <1>6, <2>2, Zenon
  <2>4. current \in 1..Len(lines) /\ N > current
        /\ \A n \in (current + 1)..(N - 1) : n \in 1..Len(lines) /\ n \in (current + 1)..Len(lines)
    BY <1>1, <1>2
  <2>5. lines'[current] = lines[current]
    BY <2>1, <2>4, Zenon
  <2>6. l.kind = "fence" /\ l.marker = lines'[current].marker
    BY <1>2, <2>5, Zenon DEF Closes
  <2>7. \A n \in (current + 1)..(N - 1) :
           ~(lines'[n].kind = "fence" /\ lines'[n].marker = lines'[current].marker)
    BY <1>2, <2>1, <2>4, <2>5, Zenon
  <2>8. Kind(lines[blocks[M].from])' = "fence"
    <3>1. Kind(lines[blocks[M].from])' = Kind(lines'[blocks'[M].from])
      BY Zenon DEF Kind
    <3>. QED
      BY <1>2, <2>3, <2>5, <3>1, Zenon
  <2>. DEFINE from == blocks'[M].from
              to   == blocks'[M].to
  <2>9. /\ \A n \in (from + 1)..(to - 1) :
              ~(lines'[n].kind = "fence" /\ lines'[n].marker = lines'[from].marker)
        /\ to > from /\ lines'[to].kind = "fence" /\ lines'[to].marker = lines'[from].marker
    BY <2>1, <2>3, <2>4, <2>6, <2>7, Zenon
  <2>. QED
    BY <2>3, <2>8, <2>9, Zenon DEF BlockIsWhole, EndsAt
<1>. QED
  BY <1>6, <1>7, <1>8

\* What ReadLine leaves alone, whatever the line is.
Reading(l) ==
    /\ phase = "lines" /\ phase' = "lines"
    /\ lines' = Append(lines, l) /\ format' = format
    /\ start' = start /\ parts' = parts

LEMMA ReadInFence ==
    ASSUME IInv, NEW l \in Line, Reading(l), InFence(l)
    PROVE  IInv'
<1>1. /\ Types /\ BlocksInOrder /\ OpenBlock /\ PathStands
  BY Zenon DEF IInv
<1>2. /\ phase = "lines" /\ phase' = "lines"
      /\ lines' = Append(lines, l) /\ format' = format
      /\ start' = start /\ parts' = parts
  BY Zenon DEF Reading
<1>3. fence # None /\ path' = path
  BY Zenon DEF InFence
<1>4. current \in Nat /\ current <= Len(lines) /\ Len(lines) \in Nat /\ path \in Seq(Titles)
      /\ fence \in {None} \cup [marker : {h.marker : h \in Fences}, language : Languages]
  BY <1>1 DEF Types
<1>5. /\ current # 0
      /\ Kind(lines[current]) = "fence" /\ lines[current].marker = fence.marker
      /\ \A n \in (current + 1)..Len(lines) :
            ~(lines[n].kind = "fence" /\ lines[n].marker = fence.marker)
  BY <1>1, <1>2, <1>3, Zenon DEF OpenBlock
<1>6. PICK N : N = Len(lines) + 1
  OBVIOUS
<1>7. PICK M : M = Len(blocks) + 1
  OBVIOUS
<1>8. CASE Closes(l)
  <2>1. blocks' = Flushed("code", fence.language, Here) /\ current' = 0 /\ fence' = None
    BY <1>8, Zenon DEF InFence
  <2>2. PICK nb : /\ Ends(nb) /\ nb.path = path /\ nb.to = Len(lines) + 1
                  /\ \A m : m = Len(blocks) + 1 => BlockIsWhole(m)'
    BY <1>1, <1>2, <1>3, <1>8, <2>1, Closing
  <2>3. ~Outside(N)'
    BY <1>1, <1>6, <2>2, OutsideNew
  <2>4. PathStands'
    BY <1>1, <1>2, <1>3, <1>6, <2>2, <2>3, PathNext
  <2>5. OpenBlock'
    BY <2>1, Zenon DEF OpenBlock
  <2>6. fence' \in {None} \cup [marker : {h.marker : h \in Fences}, language : Languages]
    BY <2>1, Zenon
  <2>. QED
    BY <1>2, <1>3, <1>4, <1>6, <1>7, <2>2, <2>3, <2>4, <2>5, <2>6, LineRead, Zenon
<1>9. CASE ~Closes(l)
  <2>1. blocks' = blocks /\ current' = current /\ fence' = fence
    BY <1>9, Zenon DEF InFence
  <2>2. Stays
    BY <1>5, <2>1, Zenon DEF Stays
  <2>3. PICK nb : ~Ends(nb)
    BY <2>1, <1>5, <1>4 DEF Ends
  <2>4. ~Outside(N)'
    BY <1>1, <1>5, <1>6, <2>1, <2>2, <2>3, OutsideNew, Zenon
  <2>5. PathStands'
    BY <1>1, <1>2, <1>3, <1>6, <2>2, <2>4, PathNext, Zenon
  <2>6. OpenBlock'
    <3>1. /\ Len(lines') = N /\ lines'[N] = l
          /\ \A n \in 1..Len(lines) : lines'[n] = lines[n] /\ Kind(lines[n])' = Kind(lines[n])
      BY <1>1, <1>2, <1>6, LinesStay
    <3>2. /\ current \in 1..Len(lines)
          /\ \A n \in (current + 1)..N : n \in (current + 1)..Len(lines) \/ n = N
          /\ \A n \in (current + 1)..Len(lines) : n \in 1..Len(lines)
      BY <1>4, <1>5, <1>6
    <3>3. ~(l.kind = "fence" /\ l.marker = fence.marker)
      BY <1>9, Zenon DEF Closes
    <3>4. \A n \in (current + 1)..N : ~(lines'[n].kind = "fence" /\ lines'[n].marker = fence.marker)
      BY <1>5, <3>1, <3>2, <3>3, Zenon
    <3>5. Kind(lines[current])' = "fence" /\ lines'[current].marker = fence.marker
      <4>1. Kind(lines[current])' = Kind(lines'[current'])
        BY <1>2, Zenon DEF Kind
      <4>2. Kind(lines'[current]) = Kind(lines[current])
        BY <3>1, <3>2, Zenon
      <4>. QED
        BY <1>5, <2>1, <3>1, <3>2, <4>1, <4>2, Zenon
    <3>. QED
      BY <1>3, <1>5, <2>1, <3>1, <3>4, <3>5, Zenon DEF OpenBlock
  <2>. QED
    BY <1>2, <1>3, <1>4, <1>6, <1>7, <2>1, <2>2, <2>3, <2>4, <2>5, <2>6, LineRead, Zenon
<1>. QED
  BY <1>8, <1>9

\* A line that is no text ends the text before it, if there is one.
LEMMA ReadFlushing ==
    ASSUME IInv, NEW l \in Line, Reading(l), fence = None, FlushText, Kind(l) # "text",
           current' \in {0, Len(lines) + 1},
           current' = 0 => Kind(l) \in {"blank", "heading"},
           fence' \in {None} \cup [marker : {h.marker : h \in Fences}, language : Languages],
           OpenBlock',
           \/ ~(current' = 0 /\ Kind(l) = "heading") /\ path' = path
           \/ /\ current' = 0 /\ Kind(l) = "heading"
              /\ path' = Made(path, Kept(l.level), l.level - 1 - Kept(l.level), l.title)
    PROVE  IInv'
<1>1. /\ Types /\ BlocksInOrder /\ OpenBlock /\ PathStands
  BY Zenon DEF IInv
<1>2. /\ phase = "lines" /\ phase' = "lines"
      /\ lines' = Append(lines, l) /\ format' = format
      /\ start' = start /\ parts' = parts
  BY Zenon DEF Reading
<1>3. /\ Len(lines) \in Nat /\ current \in Nat /\ path \in Seq(Titles)
  BY <1>1 DEF Types
<1>4. PICK N : N = Len(lines) + 1
  OBVIOUS
<1>5. PICK M : M = Len(blocks) + 1
  OBVIOUS
<1>6. PICK nb : /\ Stays \/ Ends(nb)
                /\ Ends(nb) => nb.path = path /\ nb.to # N /\ BlockIsWhole(M)'
  <2>1. CASE current = 0
    <3>1. Stays
      BY <1>1, <2>1, Flushes
    <3>2. \A nb : ~Ends(nb)
      BY <2>1, Zenon DEF Ends
    <3>. QED
      BY <3>1, <3>2, Zenon
  <2>2. CASE current # 0
    <3>1. Ends(TextBlock)
      BY <1>1, <2>2, Flushes
    <3>2. BlockIsWhole(M)'
      BY <1>1, <1>2, <1>5, <3>1, TextIsWhole
    <3>3. TextBlock.path = path /\ TextBlock.to = Len(lines)
      BY DEF TextBlock
    <3>4. TextBlock.to # N
      BY <1>3, <1>4, <3>3
    <3>. QED
      BY <3>1, <3>2, <3>3, <3>4, Zenon
  <2>. QED
    BY <2>1, <2>2
<1>7. Outside(N)' <=> current' = 0
  BY <1>1, <1>4, <1>6, OutsideNew
<1>8. PathStands' /\ path' \in Seq(Titles)
  <2>1. CASE ~(current' = 0 /\ Kind(l) = "heading") /\ path' = path
    <3>1. ~(Outside(N)' /\ Kind(l) = "heading") /\ path' = path
      BY <1>7, <2>1, Zenon
    <3>2. PathStands'
      BY <1>1, <1>2, <1>4, <1>6, <3>1, PathNext
    <3>. QED
      BY <1>3, <3>1, <3>2, Zenon
  <2>2. CASE /\ current' = 0 /\ Kind(l) = "heading"
             /\ path' = Made(path, Kept(l.level), l.level - 1 - Kept(l.level), l.title)
    <3>1. Outside(N)'
      BY <1>7, <2>2, Zenon
    <3>. QED
      BY <1>1, <1>2, <1>4, <1>6, <2>2, <3>1, PathReplaced
  <2>. QED
    BY <2>1, <2>2, Zenon
<1>9. Outside(N)' => Kind(l) \in {"blank", "heading"}
  BY <1>7
<1>10. Ends(nb) => nb.path = path /\ BlockIsWhole(M)'
  BY <1>6, Zenon
<1>. QED
  BY <1>2, <1>4, <1>5, <1>6, <1>8, <1>9, <1>10, LineRead

LEMMA ReadOpens ==
    ASSUME IInv, NEW l \in Line, Reading(l), Opens(l)
    PROVE  IInv'
<1>1. Types
  BY Zenon DEF IInv
<1>2. /\ fence = None /\ Kind(l) = "fence" /\ FlushText
      /\ fence' = [marker |-> l.marker, language |-> l.language]
      /\ current' = Len(lines) + 1 /\ path' = path
  BY Zenon DEF Opens, Here
<1>3. Len(lines) \in Nat
  BY <1>1 DEF Types
<1>4. l.kind = "fence" /\ l.marker # ""
  BY <1>2, Kinds
<1>5. fence' \in {None} \cup [marker : {h.marker : h \in Fences}, language : Languages]
  <2>1. l \in Fences
    BY <1>4 DEF Fences
  <2>2. l.marker \in {h.marker : h \in Fences} /\ l.language \in Languages
    BY <2>1 DEF Languages
  <2>. QED
    BY <1>2, <2>2
<1>6. OpenBlock'
  <2>1. /\ lines' = Append(lines, l) /\ format' = format
    BY Zenon DEF Reading
  <2>2. /\ Len(lines') = Len(lines) + 1 /\ lines'[Len(lines) + 1] = l
    BY <1>1, <2>1, LinesStay
  <2>3. current' # 0 /\ lines'[current'] = l /\ (current' + 1)..Len(lines') = {}
    BY <1>2, <1>3, <2>2
  <2>4. fence' # None /\ fence'.marker = l.marker
    BY <1>2, <1>4 DEF None
  <2>5. Kind(lines[current])' = Kind(l)
    BY <2>1, <2>3, Zenon DEF Kind
  <2>. QED
    BY <1>2, <2>3, <2>4, <2>5, Zenon DEF OpenBlock
<1>7. current' # 0
  BY <1>2, <1>3
<1>8. current' \in {0, Len(lines) + 1}
  BY <1>2
<1>9. Kind(l) # "text"
  BY <1>2
<1>. QED
  BY <1>2, <1>5, <1>6, <1>7, <1>8, <1>9, ReadFlushing, Zenon

LEMMA ReadHeading ==
    ASSUME IInv, NEW l \in Line, Reading(l), IsHeading(l)
    PROVE  IInv'
<1>1. /\ fence = None /\ Kind(l) = "heading" /\ FlushText
      /\ path' = Made(path, Kept(l.level), l.level - 1 - Kept(l.level), l.title)
      /\ current' = 0 /\ fence' = fence
  BY Zenon DEF IsHeading, Made
<1>2. OpenBlock'
  BY <1>1, Zenon DEF OpenBlock
<1>3. /\ fence' \in {None} \cup [marker : {h.marker : h \in Fences}, language : Languages]
      /\ current' \in {0, Len(lines) + 1} /\ Kind(l) # "text" /\ Kind(l) \in {"blank", "heading"}
  BY <1>1
<1>. QED
  BY <1>1, <1>2, <1>3, ReadFlushing, Zenon

LEMMA ReadBlank ==
    ASSUME IInv, NEW l \in Line, Reading(l), IsBlank(l)
    PROVE  IInv'
<1>1. /\ fence = None /\ Kind(l) = "blank" /\ FlushText
      /\ path' = path /\ current' = 0 /\ fence' = fence
  BY Zenon DEF IsBlank
<1>2. OpenBlock'
  BY <1>1, Zenon DEF OpenBlock
<1>3. /\ fence' \in {None} \cup [marker : {h.marker : h \in Fences}, language : Languages]
      /\ current' \in {0, Len(lines) + 1} /\ Kind(l) # "text" /\ Kind(l) \in {"blank", "heading"}
      /\ Kind(l) # "heading"
  BY <1>1
<1>. QED
  BY <1>1, <1>2, <1>3, ReadFlushing, Zenon

LEMMA ReadText ==
    ASSUME IInv, NEW l \in Line, Reading(l), IsText(l)
    PROVE  IInv'
<1>1. /\ Types /\ BlocksInOrder /\ OpenBlock /\ PathStands
  BY Zenon DEF IInv
<1>2. /\ phase = "lines" /\ phase' = "lines"
      /\ lines' = Append(lines, l) /\ format' = format
      /\ start' = start /\ parts' = parts
  BY Zenon DEF Reading
<1>3. /\ fence = None /\ Kind(l) = "text"
      /\ current' = (IF current = 0 THEN Len(lines) + 1 ELSE current)
      /\ fence' = fence /\ path' = path /\ blocks' = blocks
  BY Zenon DEF IsText, Here
<1>4. current \in Nat /\ current <= Len(lines) /\ Len(lines) \in Nat /\ path \in Seq(Titles)
      /\ Len(blocks) \in Nat
  BY <1>1 DEF Types
<1>5. PICK N : N = Len(lines) + 1
  OBVIOUS
<1>6. PICK M : M = Len(blocks) + 1
  OBVIOUS
<1>7. Stays
  BY <1>3 DEF Stays
<1>8. PICK nb : ~Ends(nb)
  <2>1. \A nb : Ends(nb) => current # 0 /\ current' \in {0, Len(lines) + 1}
    BY Zenon DEF Ends
  <2>2. current # 0 => current' \notin {0, Len(lines) + 1}
    BY <1>3, <1>4
  <2>. QED
    BY <2>1, <2>2, Zenon
<1>9. current' # 0
  BY <1>3, <1>4
<1>10. ~Outside(N)'
  BY <1>1, <1>5, <1>7, <1>8, <1>9, OutsideNew, Zenon
<1>11. PathStands'
  BY <1>1, <1>2, <1>3, <1>5, <1>7, <1>8, <1>10, PathNext, Zenon
<1>12. OpenBlock'
  <2>1. /\ Len(lines') = N /\ lines'[N] = l
        /\ \A n \in 1..Len(lines) : lines'[n] = lines[n] /\ Kind(lines[n])' = Kind(lines[n])
    BY <1>1, <1>2, <1>5, LinesStay
  <2>2. ASSUME NEW n \in current'..N PROVE Kind(lines[n])' = "text"
    <3>1. CASE n = N
      <4>1. Kind(lines[n])' = Kind(lines'[n])
        BY <1>2, Zenon DEF Kind
      <4>. QED
        BY <1>3, <2>1, <3>1, <4>1, Zenon
    <3>2. CASE n # N
      <4>1. current # 0 /\ n \in current..Len(lines) /\ n \in 1..Len(lines)
        BY <1>3, <1>4, <1>5, <3>2
      <4>2. Kind(lines[n]) = "text"
        BY <1>1, <1>3, <4>1, Zenon DEF OpenBlock
      <4>. QED
        BY <2>1, <4>1, <4>2, Zenon
    <3>. QED
      BY <3>1, <3>2
  <2>. QED
    BY <1>3, <2>1, <2>2, Zenon DEF OpenBlock
<1>13. fence' \in {None} \cup [marker : {h.marker : h \in Fences}, language : Languages]
  BY <1>3
<1>14. path' \in Seq(Titles)
  BY <1>3, <1>4
<1>. QED
  BY <1>2, <1>5, <1>6, <1>7, <1>8, <1>10, <1>11, <1>12, <1>13, <1>14, LineRead, Zenon

LEMMA ReadLineInv ==
    ASSUME IInv, ReadLine
    PROVE  IInv'
<1>1. PICK l \in Line :
         /\ InFence(l) \/ Opens(l) \/ IsHeading(l) \/ IsBlank(l) \/ IsText(l)
         /\ lines' = Append(lines, l)
  BY Zenon DEF ReadLine
<1>2. Reading(l)
  BY <1>1, Zenon DEF ReadLine, Reading
<1>. QED
  BY <1>1, <1>2, ReadInFence, ReadOpens, ReadHeading, ReadBlank, ReadText

-----------------------------------------------------------------------------
(* The end of the file.                                                    *)

\* The block that the file ends with: behind it there is nothing but blank lines.
EndsFile(nb) ==
    /\ Adds(nb)
    /\ current <= nb.to /\ nb.to <= Len(lines)
    /\ \A n \in (nb.to + 1)..Len(lines) : lines[n].kind = "blank"

LEMMA LastText ==
    ASSUME Types, OpenBlock, phase = "lines", phase' # "lines", fence = None, LastBlock, current' = 0,
           lines' = lines, format' = format
    PROVE  \/ current = 0 /\ blocks' = blocks
           \/ \E nb : EndsFile(nb) /\ \A M : M = Len(blocks) + 1 => BlockIsWhole(M)'
<1>1. FlushText
  BY Zenon DEF LastBlock, FlushText
<1>2. CASE current = 0
  BY <1>2 DEF LastBlock, Flushed
<1>3. CASE current # 0
  <2>1. Ends(TextBlock)
    BY <1>1, <1>3, Flushes
  <2>2. current \in Nat /\ current <= Len(lines) /\ Len(lines) \in Nat
    BY DEF Types
  <2>3. /\ TextBlock.from = current /\ TextBlock.to = Len(lines)
        /\ TextBlock.type = "text" /\ TextBlock.path = path
    BY DEF TextBlock
  <2>4. EndsFile(TextBlock)
    <3>1. (Len(lines) + 1)..Len(lines) = {} /\ current <= TextBlock.to /\ TextBlock.to <= Len(lines)
      BY <2>2, <2>3
    <3>. QED
      BY <2>1, <2>3, <3>1, Zenon DEF Ends, Adds, EndsFile
  <2>5. ASSUME NEW M, M = Len(blocks) + 1 PROVE BlockIsWhole(M)'
    <3>1. blocks'[M] = TextBlock
      BY <2>1, <2>5, BlockAppended DEF Ends
    <3>2. /\ blocks'[M].from = current /\ blocks'[M].to = Len(lines) /\ blocks'[M].type = "text"
      BY <2>3, <3>1, Zenon
    <3>3. \A n \in current..Len(lines) : Kind(lines[n])' = "text"
      <4>1. \A n \in current..Len(lines) : Kind(lines[n]) = "text"
        BY <1>3, Zenon DEF OpenBlock
      <4>2. \A n : Kind(lines[n])' = Kind(lines[n])
        BY Zenon DEF Kind
      <4>. QED
        BY <4>1, <4>2, Zenon
    <3>4. \A n \in Span(M)' : Kind(lines[n])' = "text"
      <4>1. Span(M)' = blocks'[M].from..blocks'[M].to
        BY Zenon DEF Span
      <4>. QED
        BY <3>2, <3>3, <4>1, Zenon
    <3>5. ~(blocks'[M].to < Len(lines'))
      BY <2>2, <3>2
    <3>6. blocks'[M].type # "code"
      BY <3>2
    <3>. QED
      BY <3>4, <3>5, <3>6, Zenon DEF BlockIsWhole
  <2>. QED
    BY <2>4, <2>5
<1>. QED
  BY <1>2, <1>3

\* An open fence ends with the last line that is not blank, perhaps its own.
LEMMA LastCode ==
    ASSUME Types, OpenBlock, phase = "lines", phase' # "lines", fence # None, LastBlock,
           lines' = lines, format' = format
    PROVE  \E nb : EndsFile(nb) /\ \A M : M = Len(blocks) + 1 => BlockIsWhole(M)'
<1>. DEFINE S  == {n \in current..Len(lines) : n > Len(lines) \/ lines[n].kind # "blank"}
            to == Max(S)
            nb == CodeBlock(to)
<1>1. current \in Nat /\ current <= Len(lines) /\ Len(lines) \in Nat /\ path \in Seq(Titles)
  BY DEF Types
<1>2. /\ current # 0
      /\ Kind(lines[current]) = "fence" /\ lines[current].marker = fence.marker
      /\ \A n \in (current + 1)..Len(lines) :
            ~(lines[n].kind = "fence" /\ lines[n].marker = fence.marker)
  BY Zenon DEF OpenBlock
<1>3. to \in S /\ \A n \in S : n <= to
  <2>1. lines[current].kind # "blank"
    BY <1>2 DEF Kind
  <2>2. current \in S
    BY <1>1, <2>1
  <2>3. S \in SUBSET (0..Len(lines))
    BY <1>1
  <2>. HIDE DEF S
  <2>. QED
    BY <1>1, <2>2, <2>3, MaxOf
<1>4. to \in Nat /\ current <= to /\ to <= Len(lines)
  BY <1>1, <1>3
<1>5. \A n \in (to + 1)..Len(lines) : lines[n].kind = "blank"
  <2>1. ASSUME NEW n \in (to + 1)..Len(lines), lines[n].kind # "blank" PROVE FALSE
    <3>1. n \in current..Len(lines) /\ ~(n <= to)
      BY <1>1, <1>4
    <3>2. n \in S
      BY <2>1, <3>1, Zenon
    <3>. QED
      BY <1>3, <3>1, <3>2, Zenon
  <2>. QED
    BY <2>1, Zenon
<1>6. blocks' = Append(blocks, nb)
  BY <1>2, Zenon DEF LastBlock, Flushed, CodeBlock
<1>. HIDE DEF to
<1>7. nb \in BlockType
  <2>1. fence.language \in Languages
    BY DEF Types
  <2>. QED
    BY <1>1, <1>4, <2>1 DEF CodeBlock, BlockType
<1>8. nb.from = current /\ nb.to = to /\ nb.type = "code" /\ nb.path = path
  BY DEF CodeBlock
<1>. HIDE DEF nb
<1>9. EndsFile(nb)
  BY <1>2, <1>4, <1>5, <1>6, <1>7, <1>8, Zenon DEF EndsFile, Adds
<1>10. ASSUME NEW M, M = Len(blocks) + 1 PROVE BlockIsWhole(M)'
  <2>1. blocks'[M] = nb
    BY <1>6, <1>7, <1>10, BlockAppended
  <2>2. blocks'[M].from = current /\ blocks'[M].to = to /\ blocks'[M].type = "code"
    BY <1>8, <2>1, Zenon
  <2>3. \A n \in (current + 1)..(to - 1) : n \in (current + 1)..Len(lines)
    BY <1>1, <1>4
  <2>4. \A n \in (current + 1)..(to - 1) :
           ~(lines'[n].kind = "fence" /\ lines'[n].marker = lines'[current].marker)
    BY <1>2, <2>3, Zenon
  <2>5. Kind(lines[blocks[M].from])' = "fence"
    <3>1. Kind(lines[blocks[M].from])' = Kind(lines'[blocks'[M].from])
      BY Zenon DEF Kind
    <3>. QED
      BY <1>2, <2>2, <3>1, Zenon
  <2>. DEFINE f == blocks'[M].from
              t == blocks'[M].to
  <2>6. /\ \A n \in (f + 1)..(t - 1) :
              ~(lines'[n].kind = "fence" /\ lines'[n].marker = lines'[f].marker)
        /\ \A n \in (t + 1)..Len(lines') : lines'[n].kind = "blank"
    BY <1>5, <2>2, <2>4, Zenon
  <2>. QED
    BY <2>2, <2>5, <2>6, Zenon DEF BlockIsWhole, EndsAt
<1>. QED
  BY <1>9, <1>10

LEMMA EndOfFileInv ==
    ASSUME IInv, EndOfFile
    PROVE  IInv'
<1>1. /\ Types /\ OpenBlock /\ BlocksInOrder /\ OnlyBlankOutside /\ PathStands /\ BlocksFiled
      /\ ChunksSoFar /\ \A b \in 1..Len(blocks) : BlockIsWhole(b)
  BY Zenon DEF IInv
<1>2. /\ phase = "lines" /\ phase' = "blocks" /\ LastBlock /\ current' = 0
      /\ format' = format /\ lines' = lines /\ fence' = fence /\ path' = path
      /\ start' = start /\ parts' = parts
  BY Zenon DEF EndOfFile
<1>3. current \in Nat /\ current <= Len(lines) /\ Len(lines) \in Nat /\ Len(blocks) \in Nat
      /\ start = 0 /\ blocks \in Seq(BlockType)
  BY <1>1, <1>2 DEF Types
<1>4. phase' # "lines"
  BY <1>2
<1>5. PICK nb : \/ current = 0 /\ blocks' = blocks
                \/ EndsFile(nb) /\ \A M : M = Len(blocks) + 1 => BlockIsWhole(M)'
  <2>1. CASE fence = None
    <3>1. \/ current = 0 /\ blocks' = blocks
          \/ \E nb : EndsFile(nb) /\ \A M : M = Len(blocks) + 1 => BlockIsWhole(M)'
      BY <1>1, <1>2, <1>4, <2>1, LastText
    <3>. QED
      BY <3>1, Zenon
  <2>2. CASE fence # None
    <3>1. \E nb : EndsFile(nb) /\ \A M : M = Len(blocks) + 1 => BlockIsWhole(M)'
      BY <1>1, <1>2, <1>4, <2>2, LastCode
    <3>. QED
      BY <3>1, Zenon
  <2>. QED
    BY <2>1, <2>2
<1>6. EndsFile(nb) => /\ current # 0 /\ nb \in BlockType /\ blocks' = Append(blocks, nb)
                      /\ nb.from = current /\ nb.path = path /\ nb.to \in Nat
                      /\ current <= nb.to /\ nb.to <= Len(lines)
                      /\ \A n \in (nb.to + 1)..Len(lines) : lines[n].kind = "blank"
  <2>1. EndsFile(nb) => nb \in BlockType
    BY Zenon DEF EndsFile, Adds
  <2>2. EndsFile(nb) => nb.to \in Nat
    BY <2>1, BlockFields, Zenon
  <2>. QED
    BY <2>2, Zenon DEF EndsFile, Adds
<1>7. \A n : Kind(lines[n])' = Kind(lines[n])
  BY <1>2, Zenon DEF Kind
<1>8. BlocksInOrder'
  <2>1. CASE blocks' = blocks
    BY <1>1, <1>2, <2>1, Zenon DEF BlocksInOrder
  <2>2. CASE EndsFile(nb)
    <3>1. /\ nb \in BlockType /\ blocks' = Append(blocks, nb) /\ current # 0 /\ nb.from = current
          /\ current <= nb.to
      BY <1>6, <2>2, Zenon
    <3>2. /\ nb.to <= Len(lines') /\ Len(lines') \in Nat /\ Len(lines) <= Len(lines')
          /\ ~(current' # 0)
      BY <1>2, <1>3, <1>6, <2>2
    <3>. QED
      BY <1>1, <3>1, <3>2, OrderAdded
  <2>. QED
    BY <1>5, <2>1, <2>2, Zenon
<1>9. OnlyBlankOutside'
  <2>1. ASSUME NEW n \in 1..Len(lines), Outside(n)' PROVE Kind(lines[n]) \in {"blank", "heading"}
    <3>1. n \notin Covered'
      BY <2>1, Zenon DEF Outside
    <3>2. CASE current = 0 /\ blocks' = blocks
      <4>1. Outside(n)
        BY <3>1, <3>2, Zenon DEF Outside, Covered, Span
      <4>. QED
        BY <1>1, <4>1, Zenon DEF OnlyBlankOutside
    <3>3. CASE EndsFile(nb)
      <4>1. /\ nb \in BlockType /\ blocks' = Append(blocks, nb)
        BY <1>6, <3>3, Zenon
      <4>2. n \notin Covered /\ n \notin nb.from..nb.to
        BY <1>1, <3>1, <4>1, CoveredGrows
      <4>3. CASE n < current
        <5>1. Outside(n)
          BY <4>2, <4>3, Zenon DEF Outside
        <5>. QED
          BY <1>1, <5>1, Zenon DEF OnlyBlankOutside
      <4>4. CASE ~(n < current)
        <5>1. nb.from = current /\ nb.to \in Nat
          BY <1>6, <3>3, Zenon
        <5>2. n \in (nb.to + 1)..Len(lines)
          BY <1>3, <4>2, <4>4, <5>1
        <5>3. lines[n].kind = "blank"
          BY <1>6, <3>3, <5>2, Zenon
        <5>. QED
          BY <5>3 DEF Kind
      <4>. QED
        BY <4>3, <4>4
    <3>. QED
      BY <1>5, <3>2, <3>3, Zenon
  <2>. QED
    BY <1>2, <1>7, <2>1, Zenon DEF OnlyBlankOutside
<1>10. ASSUME NEW b \in 1..Len(blocks), blocks'[b] = blocks[b] PROVE BlockIsWhole(b)'
  <2>1. BlockIsWhole(b)
    BY <1>1, Zenon
  <2>2. Kind(lines[blocks[b].from])' = Kind(lines[blocks[b].from])
    BY <1>2, <1>10, Zenon DEF Kind
  <2>3. Kind(lines[blocks[b].to + 1])' = Kind(lines[blocks[b].to + 1])
    BY <1>2, <1>10, Zenon DEF Kind
  <2>4. CASE blocks[b].type = "code"
    <3>1. /\ \A n \in (blocks[b].from + 1)..(blocks[b].to - 1) :
                ~(lines[n].kind = "fence" /\ lines[n].marker = lines[blocks[b].from].marker)
          /\ Kind(lines[blocks[b].from]) = "fence"
          /\ blocks[b].to > blocks[b].from /\ lines[blocks[b].to].kind = "fence"
          /\ lines[blocks[b].to].marker = lines[blocks[b].from].marker
      BY <1>2, <2>1, <2>4, Zenon DEF BlockIsWhole, EndsAt
    <3>. QED
      BY <1>2, <1>10, <2>2, <2>4, <3>1, Zenon DEF BlockIsWhole, EndsAt
  <2>5. CASE blocks[b].type # "code"
    <3>1. /\ \A n \in blocks[b].from..blocks[b].to : Kind(lines[n]) = "text"
          /\ blocks[b].to < Len(lines) => Kind(lines[blocks[b].to + 1]) # "text"
      BY <2>1, <2>5, Zenon DEF BlockIsWhole, Span
    <3>. QED
      BY <1>2, <1>7, <1>10, <1>4, <2>3, <2>5, <3>1, Zenon DEF BlockIsWhole, Span
  <2>. QED
    BY <2>4, <2>5
<1>11. \A b \in 1..Len(blocks') : BlockIsWhole(b)'
  <2>1. CASE blocks' = blocks
    BY <1>10, <2>1, Zenon
  <2>2. CASE EndsFile(nb) /\ \A M : M = Len(blocks) + 1 => BlockIsWhole(M)'
    <3>1. /\ nb \in BlockType /\ blocks' = Append(blocks, nb)
      BY <1>6, <2>2, Zenon
    <3>2. /\ Len(blocks') = Len(blocks) + 1
          /\ \A b \in 1..Len(blocks) : blocks'[b] = blocks[b]
      BY <1>1, <3>1, BlockAppended
    <3>3. ASSUME NEW b \in 1..Len(blocks') PROVE BlockIsWhole(b)'
      <4>1. b \in 1..Len(blocks) \/ b = Len(blocks) + 1
        BY <1>3, <3>2
      <4>. QED
        BY <1>10, <2>2, <3>2, <4>1, Zenon
    <3>. QED
      BY <3>3, Zenon
  <2>. QED
    BY <1>5, <2>1, <2>2, Zenon
<1>12. BlocksFiled'
  <2>1. \A n \in 1..Len(lines) : lines'[n] = lines[n] /\ Kind(lines[n])' = Kind(lines[n])
    BY <1>2, <1>7, Zenon
  <2>2. Grows(nb)
    BY <1>5, Zenon DEF Grows, EndsFile
  <2>. QED
    BY <1>1, <1>2, <2>1, <2>2, FiledNext
<1>13. ChunksSoFar'
  BY <1>1, <1>2, <1>3, ChunksStay
<1>14. blocks' \in Seq(BlockType)
  <2>1. CASE EndsFile(nb)
    <3>1. /\ nb \in BlockType /\ blocks' = Append(blocks, nb)
      BY <1>6, <2>1, Zenon
    <3>. QED
      BY <1>1, <3>1, BlockAppended, Zenon
  <2>. QED
    BY <1>3, <1>5, <2>1, Zenon
<1>15. current' \in 0..Len(lines') /\ start' \in 0..Len(blocks')
  <2>1. Len(blocks') \in Nat
    BY <1>14
  <2>. QED
    BY <1>2, <1>3, <2>1
<1>16. /\ format' \in {"markdown", "plain"} /\ lines' \in Seq(Line)
       /\ fence' \in {None} \cup [marker : {l.marker : l \in Fences}, language : Languages]
       /\ path' \in Seq(Titles) /\ parts' \in Seq(PartType)
  BY <1>1, <1>2, Zenon DEF Types
<1>17. phase' \in {"lines", "blocks", "done"} /\ phase' # "done"
  BY <1>2
<1>18. Types'
  BY <1>2, <1>14, <1>15, <1>16, <1>17, <1>4, Zenon DEF Types
<1>19. OpenBlock' /\ PathStands'
  BY <1>2, <1>4, Zenon DEF OpenBlock, PathStands
<1>. QED
  BY <1>8, <1>9, <1>11, <1>12, <1>13, <1>18, <1>19, Zenon DEF IInv

-----------------------------------------------------------------------------
(* The chunks.                                                             *)

LEMMA PartEnds ==
    ASSUME NEW p \in PartType
    PROVE  FirstOf(p) \in Nat /\ EndOf(p) \in Nat /\ 1 <= FirstOf(p)
<1>1. p.block \in Nat /\ p.end \in Nat \cup {-1}
  BY DEF PartType
<1>. QED
  BY <1>1 DEF FirstOf, EndOf

\* A group is as long as the metadata are the same, and no longer.
LEMMA GroupIs ==
    ASSUME Types, NEW first \in 1..Len(blocks)
    PROVE  /\ GroupEnd(first) \in first..Len(blocks)
           /\ \A b \in first..GroupEnd(first) : Meta(blocks[b]) = Meta(blocks[first])
           /\ GroupEnd(first) < Len(blocks) =>
                 Meta(blocks[GroupEnd(first)]) # Meta(blocks[GroupEnd(first) + 1])
<1>. DEFINE S == {n \in first..Len(blocks) : \A b \in first..n : Alike(blocks[first], blocks[b])}
            last == GroupEnd(first)
<1>1. Len(blocks) \in Nat
  BY DEF Types
<1>2. last \in S /\ \A n \in S : n <= last
  <2>1. first \in S
    <3>1. \A b \in first..first : b = first
      BY <1>1
    <3>2. Alike(blocks[first], blocks[first])
      BY Zenon DEF Alike
    <3>3. first \in first..Len(blocks)
      BY <1>1
    <3>. QED
      BY <3>1, <3>2, <3>3, Zenon
  <2>2. S \in SUBSET (0..Len(blocks))
    BY <1>1
  <2>3. last = Max(S)
    BY Zenon DEF GroupEnd
  <2>. HIDE DEF S, last
  <2>. QED
    BY <1>1, <2>1, <2>2, <2>3, MaxOf
<1>3. \A x, y : Alike(x, y) <=> Meta(x) = Meta(y)
  BY Zenon DEF Alike, Meta
<1>4. last \in first..Len(blocks) /\ \A b \in first..last : Meta(blocks[b]) = Meta(blocks[first])
  <2>1. last \in first..Len(blocks) /\ \A b \in first..last : Alike(blocks[first], blocks[b])
    BY <1>2, Zenon
  <2>. QED
    BY <1>3, <2>1, Zenon
<1>5. ASSUME last < Len(blocks), Meta(blocks[last]) = Meta(blocks[last + 1]) PROVE FALSE
  <2>1. last + 1 \in first..Len(blocks) /\ ~(last + 1 <= last) /\ last \in first..last
        /\ \A b \in first..(last + 1) : b \in first..last \/ b = last + 1
    BY <1>1, <1>4, <1>5
  <2>2. \A b \in first..(last + 1) : Meta(blocks[first]) = Meta(blocks[b])
    BY <1>4, <1>5, <2>1, Zenon
  <2>3. last + 1 \in S
    BY <1>3, <2>1, <2>2, Zenon
  <2>. QED
    BY <1>2, <2>1, <2>3, Zenon
<1>. QED
  BY <1>4, <1>5, Zenon

LEMMA PartIs ==
    ASSUME Types, NEW first \in 1..Len(blocks), NEW last \in first..Len(blocks), NEW index \in Nat
    PROVE  /\ Part(first, last, index) \in PartType
           /\ Part(first, last, index).index = index
           /\ FirstOf(Part(first, last, index)) = first
           /\ EndOf(Part(first, last, index)) = last
<1>. DEFINE p == Part(first, last, index)
<1>1. blocks[first].path \in Seq(Titles) /\ Len(blocks) \in Nat
  <2>1. blocks[first] \in BlockType
    BY DEF Types
  <2>2. Len(blocks) \in Nat
    BY DEF Types
  <2>. QED
    BY <2>1, <2>2, BlockFields
<1>2. /\ p.block = first - 1 /\ p.end = (IF last > first THEN last - 1 ELSE -1)
      /\ p.index = index /\ p.path = blocks[first].path
  BY DEF Part
<1>3. /\ first - 1 \in Nat /\ (IF last > first THEN last - 1 ELSE -1) \in Nat \cup {-1}
  BY <1>1
<1>4. p \in PartType
  BY <1>1, <1>3 DEF Part, PartType
<1>5. FirstOf(p) = first
  BY <1>1, <1>2 DEF FirstOf
<1>6. EndOf(p) = last
  BY <1>1, <1>2 DEF EndOf
<1>. QED
  BY <1>2, <1>4, <1>5, <1>6

\* The chunks of a group, behind those that are there.
LEMMA PartsAppended ==
    ASSUME Types, NEW first \in 1..Len(blocks), NEW last \in first..Len(blocks),
           NEW pieces \in Nat \ {0},
           parts' = parts \o [k \in 1..pieces |-> Part(first, last, Len(parts) + k - 1)]
    PROVE  /\ parts' \in Seq(PartType) /\ Len(parts') = Len(parts) + pieces
           /\ \A k \in 1..Len(parts) : parts'[k] = parts[k]
           /\ \A k \in (Len(parts) + 1)..(Len(parts) + pieces) :
                /\ parts'[k].index = k - 1
                /\ FirstOf(parts'[k]) = first /\ EndOf(parts'[k]) = last
<1>1. PICK K \in Nat : K = Len(parts)
  BY DEF Types
<1>2. PICK A \in Seq(PartType) : A = parts
  BY DEF Types
<1>3. \A k \in 1..pieces : K + k - 1 \in Nat
  OBVIOUS
<1>4. PICK B \in Seq(PartType) : /\ B = [k \in 1..pieces |-> Part(first, last, Len(parts) + k - 1)]
                                 /\ Len(B) = pieces
                                 /\ \A k \in 1..pieces : B[k] = Part(first, last, K + k - 1)
  <2>. DEFINE b == [k \in 1..pieces |-> Part(first, last, Len(parts) + k - 1)]
  <2>1. \A k \in 1..pieces : Part(first, last, K + k - 1) \in PartType
    BY <1>3, PartIs
  <2>2. \A k \in 1..pieces : b[k] \in PartType /\ b[k] = Part(first, last, K + k - 1)
    BY <1>1, <2>1, Zenon
  <2>3. b \in Seq(PartType) /\ Len(b) = pieces
    BY <1>1, <2>1
  <2>. QED
    BY <2>2, <2>3, Zenon
<1>5. parts' = A \o B
  BY <1>2, <1>4, Zenon
<1>6. /\ A \o B \in Seq(PartType) /\ Len(A \o B) = Len(A) + Len(B)
      /\ \A k \in 1..Len(A) : (A \o B)[k] = A[k]
  OBVIOUS
<1>7. ASSUME NEW k \in (K + 1)..(K + pieces)
      PROVE  (A \o B)[k] = Part(first, last, k - 1)
  <2>1. Len(A) = K
    BY <1>1, <1>2
  <2>2. k \in 1..(Len(A) + Len(B)) /\ ~(k <= Len(A)) /\ k - Len(A) \in 1..pieces
        /\ K + (k - Len(A)) - 1 = k - 1
    BY <1>4, <2>1
  <2>3. (A \o B)[k] = B[k - Len(A)]
    BY <2>2
  <2>. QED
    BY <1>4, <2>2, <2>3, Zenon
<1>8. ASSUME NEW k \in (K + 1)..(K + pieces)
      PROVE  /\ parts'[k].index = k - 1
             /\ FirstOf(parts'[k]) = first /\ EndOf(parts'[k]) = last
  <2>1. parts'[k] = Part(first, last, k - 1)
    BY <1>5, <1>7, Zenon
  <2>2. PICK i \in Nat : i = k - 1
    OBVIOUS
  <2>3. /\ Part(first, last, i).index = i
        /\ FirstOf(Part(first, last, i)) = first /\ EndOf(Part(first, last, i)) = last
    BY PartIs, Zenon
  <2>. QED
    BY <2>1, <2>2, <2>3, Zenon
<1>. QED
  BY <1>1, <1>2, <1>4, <1>5, <1>6, <1>8, Zenon

LEMMA ChunkGroupInv ==
    ASSUME IInv, ChunkGroup
    PROVE  IInv'
<1>1. /\ Types /\ OpenBlock /\ BlocksInOrder /\ OnlyBlankOutside /\ PathStands /\ BlocksFiled
      /\ ChunksSoFar /\ \A b \in 1..Len(blocks) : BlockIsWhole(b)
  BY Zenon DEF IInv
<1>2. /\ phase = "blocks" /\ phase' = phase /\ start < Len(blocks)
      /\ format' = format /\ lines' = lines /\ fence' = fence /\ path' = path
      /\ current' = current /\ blocks' = blocks
  BY Zenon DEF ChunkGroup, parser
<1>3. start \in Nat /\ Len(blocks) \in Nat /\ Len(parts) \in Nat /\ MaxPieces \in Nat \ {0}
  <2>1. MaxPieces \in Nat \ {0}
    BY MarkdownAssumption
  <2>2. start \in 0..Len(blocks) /\ Len(blocks) \in Nat /\ Len(parts) \in Nat
    BY <1>1 DEF Types
  <2>. QED
    BY <2>1, <2>2
<1>4. PICK first \in 1..Len(blocks) : first = start + 1
  BY <1>2, <1>3
<1>5. PICK last \in first..Len(blocks) :
         /\ last = GroupEnd(first)
         /\ \A b \in first..last : Meta(blocks[b]) = Meta(blocks[first])
         /\ last < Len(blocks) => Meta(blocks[last]) # Meta(blocks[last + 1])
  BY <1>1, GroupIs
<1>6. PICK pieces \in 1..MaxPieces :
         parts' = parts \o [k \in 1..pieces |-> Part(first, last, Len(parts) + k - 1)]
  BY <1>4, <1>5, Zenon DEF ChunkGroup
<1>7. start' = last
  BY <1>4, <1>5, Zenon DEF ChunkGroup
<1>8. pieces \in Nat \ {0}
  BY <1>3
<1>9. /\ parts' \in Seq(PartType) /\ Len(parts') = Len(parts) + pieces
      /\ \A k \in 1..Len(parts) : parts'[k] = parts[k]
      /\ \A k \in (Len(parts) + 1)..(Len(parts) + pieces) :
           /\ parts'[k].index = k - 1
           /\ FirstOf(parts'[k]) = first /\ EndOf(parts'[k]) = last
  BY <1>1, <1>6, <1>8, PartsAppended, Zenon
<1>10. ChunksSoFar'
  <2>. DEFINE K == Len(parts)
  <2>1. \A k \in 1..K :
          /\ FirstOf(parts[k]) \in Nat /\ EndOf(parts[k]) \in Nat /\ 1 <= FirstOf(parts[k])
    <3>1. \A k \in 1..K : parts[k] \in PartType
      BY <1>1 DEF Types
    <3>. QED
      BY <3>1, PartEnds
  <2>2. /\ \A k \in 1..K :
             /\ parts[k].index = k - 1
             /\ 1 <= FirstOf(parts[k]) /\ FirstOf(parts[k]) <= EndOf(parts[k]) /\ EndOf(parts[k]) <= start
             /\ \A b \in FirstOf(parts[k])..EndOf(parts[k]) :
                  Meta(blocks[b]) = Meta(blocks[FirstOf(parts[k])])
        /\ \A b \in 1..start : \E k \in 1..K : b \in FirstOf(parts[k])..EndOf(parts[k])
    BY <1>1, Zenon DEF ChunksSoFar
  <2>3. /\ \A k \in 1..(K - 1) :
             \/ /\ FirstOf(parts[k]) = FirstOf(parts[k + 1])
                /\ EndOf(parts[k]) = EndOf(parts[k + 1])
             \/ /\ EndOf(parts[k]) < FirstOf(parts[k + 1])
                /\ Meta(blocks[EndOf(parts[k])]) # Meta(blocks[EndOf(parts[k]) + 1])
        /\ K > 0 => EndOf(parts[K]) = start
        /\ 0 < start /\ start < Len(blocks) => Meta(blocks[start]) # Meta(blocks[start + 1])
    BY <1>1, Zenon DEF ChunksSoFar
  <2>4. \A k \in 1..(K + pieces) : k \in 1..K \/ k \in (K + 1)..(K + pieces)
    BY <1>3
  <2>5. start <= last /\ first <= last /\ 1 <= first /\ start < first
    BY <1>3, <1>4
  <2>6. ASSUME NEW k \in 1..(K + pieces)
        PROVE  /\ parts'[k].index = k - 1
               /\ 1 <= FirstOf(parts'[k]) /\ FirstOf(parts'[k]) <= EndOf(parts'[k])
               /\ EndOf(parts'[k]) <= last
               /\ \A b \in FirstOf(parts'[k])..EndOf(parts'[k]) :
                    Meta(blocks[b]) = Meta(blocks[FirstOf(parts'[k])])
    <3>1. CASE k \in 1..K
      <4>1. parts'[k] = parts[k]
        BY <1>9, <3>1, Zenon
      <4>2. EndOf(parts[k]) <= last
        <5>1. EndOf(parts[k]) \in Nat /\ EndOf(parts[k]) <= start
          BY <2>1, <2>2, <3>1, Zenon
        <5>. QED
          BY <1>3, <2>5, <5>1
      <4>. QED
        BY <2>2, <3>1, <4>1, <4>2, Zenon
    <3>2. CASE k \in (K + 1)..(K + pieces)
      <4>1. parts'[k].index = k - 1 /\ FirstOf(parts'[k]) = first /\ EndOf(parts'[k]) = last
        BY <1>9, <3>2, Zenon
      <4>2. last <= last
        OBVIOUS
      <4>. QED
        BY <1>5, <2>5, <4>1, <4>2, Zenon
    <3>. QED
      BY <2>4, <3>1, <3>2
  <2>7. ASSUME NEW b \in 1..last
        PROVE  \E k \in 1..(K + pieces) : b \in FirstOf(parts'[k])..EndOf(parts'[k])
    <3>1. CASE b \in 1..start
      <4>1. PICK k \in 1..K : b \in FirstOf(parts[k])..EndOf(parts[k])
        BY <2>2, <3>1, Zenon
      <4>2. k \in 1..(K + pieces) /\ parts'[k] = parts[k]
        BY <1>3, <1>9
      <4>. QED
        BY <4>1, <4>2, Zenon
    <3>2. CASE b \in first..last
      <4>1. K + 1 \in (K + 1)..(K + pieces) /\ K + 1 \in 1..(K + pieces)
        BY <1>3, <1>8
      <4>2. FirstOf(parts'[K + 1]) = first /\ EndOf(parts'[K + 1]) = last
        BY <1>9, <4>1, Zenon
      <4>. QED
        BY <3>2, <4>1, <4>2, Zenon
    <3>. QED
      BY <1>3, <1>4, <3>1, <3>2
  <2>8. ASSUME NEW k \in 1..(K + pieces - 1)
        PROVE  \/ /\ FirstOf(parts'[k]) = FirstOf(parts'[k + 1])
                  /\ EndOf(parts'[k]) = EndOf(parts'[k + 1])
               \/ /\ EndOf(parts'[k]) < FirstOf(parts'[k + 1])
                  /\ Meta(blocks[EndOf(parts'[k])]) # Meta(blocks[EndOf(parts'[k]) + 1])
    <3>1. CASE k \in 1..(K - 1)
      <4>1. k \in 1..K /\ k + 1 \in 1..K
        BY <1>3, <3>1
      <4>2. parts'[k] = parts[k] /\ parts'[k + 1] = parts[k + 1]
        BY <1>9, <4>1, Zenon
      <4>. QED
        BY <2>3, <3>1, <4>2, Zenon
    <3>2. CASE k = K
      <4>1. k \in 1..K /\ K > 0 /\ k + 1 \in (K + 1)..(K + pieces)
        BY <1>3, <1>8, <3>2
      <4>2. parts'[k] = parts[k] /\ FirstOf(parts'[k + 1]) = first /\ EndOf(parts[k]) = start
        BY <1>9, <2>3, <3>2, <4>1, Zenon
      <4>3. 0 < start
        <5>1. EndOf(parts[k]) \in Nat /\ FirstOf(parts[k]) \in Nat
              /\ 1 <= FirstOf(parts[k]) /\ FirstOf(parts[k]) <= EndOf(parts[k])
          BY <2>1, <2>2, <4>1, Zenon
        <5>. QED
          BY <4>2, <5>1
      <4>4. Meta(blocks[start]) # Meta(blocks[start + 1])
        BY <1>2, <2>3, <4>3, Zenon
      <4>. QED
        BY <2>5, <4>2, <4>4, Zenon
    <3>3. CASE k \in (K + 1)..(K + pieces)
      <4>1. k + 1 \in (K + 1)..(K + pieces)
        BY <1>3, <1>8, <3>3
      <4>. QED
        BY <1>9, <3>3, <4>1, Zenon
    <3>. QED
      BY <1>3, <1>8, <3>1, <3>2, <3>3
  <2>9. EndOf(parts'[K + pieces]) = last
    <3>1. K + pieces \in (K + 1)..(K + pieces)
      BY <1>3, <1>8
    <3>. QED
      BY <1>9, <3>1, Zenon
  <2>10. Len(parts') = K + pieces
    BY <1>9, Zenon
  <2>11. \A k \in 1..Len(parts') :
           /\ parts'[k].index = k - 1
           /\ 1 <= FirstOf(parts'[k]) /\ FirstOf(parts'[k]) <= EndOf(parts'[k])
           /\ EndOf(parts'[k]) <= start'
           /\ \A b \in FirstOf(parts'[k])..EndOf(parts'[k]) :
                Meta(blocks'[b]) = Meta(blocks'[FirstOf(parts'[k])])
    BY <1>2, <1>7, <2>6, <2>10, Zenon
  <2>12. \A b \in 1..start' : \E k \in 1..Len(parts') : b \in FirstOf(parts'[k])..EndOf(parts'[k])
    BY <1>7, <2>7, <2>10, Zenon
  <2>13. ASSUME NEW k \in 1..(Len(parts') - 1)
         PROVE  \/ /\ FirstOf(parts'[k]) = FirstOf(parts'[k + 1])
                   /\ EndOf(parts'[k]) = EndOf(parts'[k + 1])
                \/ /\ EndOf(parts'[k]) < FirstOf(parts'[k + 1])
                   /\ Meta(blocks'[EndOf(parts'[k])]) # Meta(blocks'[EndOf(parts'[k]) + 1])
    <3>1. k \in 1..(K + pieces - 1)
      BY <1>3, <2>10
    <3>. QED
      BY <1>2, <2>8, <3>1, Zenon
  <2>14. EndOf(parts'[Len(parts')]) = start'
    BY <1>7, <2>9, <2>10, Zenon
  <2>15. start' < Len(blocks') => Meta(blocks'[start']) # Meta(blocks'[start' + 1])
    BY <1>2, <1>5, <1>7, Zenon
  <2>. QED
    BY <2>11, <2>12, <2>13, <2>14, <2>15, Zenon DEF ChunksSoFar
<1>11. OpenBlock' /\ BlocksInOrder' /\ OnlyBlankOutside' /\ PathStands' /\ BlocksFiled'
  <2>1. \A n : Kind(lines[n])' = Kind(lines[n])
    BY <1>2, Zenon DEF Kind
  <2>2. Covered' = Covered
    BY <1>2, Zenon DEF Covered, Span
  <2>3. \A n : Outside(n)' <=> Outside(n)
    BY <1>2, <2>2, Zenon DEF Outside
  <2>4. OpenBlock' /\ PathStands' /\ BlocksInOrder'
    BY <1>1, <1>2, <2>1, Zenon DEF OpenBlock, PathStands, BlocksInOrder
  <2>5. OnlyBlankOutside'
    BY <1>1, <1>2, <2>1, <2>3, Zenon DEF OnlyBlankOutside
  <2>6. \A b : Above(b)' = Above(b)
    BY <1>2, <2>1, <2>2, Zenon DEF Above
  <2>7. BlocksFiled'
    BY <1>1, <1>2, <2>6, Zenon DEF BlocksFiled
  <2>. QED
    BY <2>4, <2>5, <2>7
<1>12. \A b \in 1..Len(blocks') : BlockIsWhole(b)'
  BY <1>1, <1>2, Zenon DEF BlockIsWhole, EndsAt, Span, Kind
<1>13. Types'
  <2>1. start' \in 0..Len(blocks')
    BY <1>2, <1>3, <1>4, <1>7
  <2>2. phase' # "lines" /\ phase' # "done" /\ phase # "lines"
    BY <1>2
  <2>. QED
    BY <1>1, <1>2, <1>9, <2>1, <2>2, Zenon DEF Types
<1>. QED
  BY <1>10, <1>11, <1>12, <1>13, Zenon DEF IInv

LEMMA Stutters ==
    ASSUME IInv, format' = format, lines' = lines, fence' = fence, path' = path, current' = current,
           blocks' = blocks, start' = start, parts' = parts,
           \/ phase' = phase
           \/ phase' = "done" /\ phase = "blocks" /\ start = Len(blocks)
    PROVE  IInv'
<1>1. /\ Types /\ OpenBlock /\ BlocksInOrder /\ OnlyBlankOutside /\ PathStands /\ BlocksFiled
      /\ ChunksSoFar /\ \A b \in 1..Len(blocks) : BlockIsWhole(b)
  BY Zenon DEF IInv
<1>2. phase' = "lines" <=> phase = "lines"
  OBVIOUS
<1>3. \A n : Kind(lines[n])' = Kind(lines[n])
  BY Zenon DEF Kind
<1>4. Covered' = Covered
  BY Zenon DEF Covered, Span
<1>5. \A n : Outside(n)' <=> Outside(n)
  BY <1>4, Zenon DEF Outside
<1>6. OpenBlock' /\ BlocksInOrder'
  BY <1>1, <1>2, <1>3, Zenon DEF OpenBlock, BlocksInOrder
<1>7. OnlyBlankOutside'
  BY <1>1, <1>3, <1>5, Zenon DEF OnlyBlankOutside
<1>8. Standing' = Standing /\ \A b : Above(b)' = Above(b)
  BY <1>3, <1>4, <1>5, Zenon DEF Standing, Above
<1>9. PathStands' /\ BlocksFiled'
  BY <1>1, <1>2, <1>8, Zenon DEF PathStands, BlocksFiled
<1>10. ASSUME NEW b \in 1..Len(blocks) PROVE BlockIsWhole(b)'
  <2>1. BlockIsWhole(b)
    BY <1>1, Zenon
  <2>. QED
    BY <1>2, <2>1, Zenon DEF BlockIsWhole, EndsAt, Span, Kind
<1>11. ChunksSoFar'
  BY <1>1, Zenon DEF ChunksSoFar
<1>12. Types'
  <2>1. CASE phase' = phase
    BY <1>1, <2>1, Zenon DEF Types
  <2>2. CASE phase' = "done" /\ phase = "blocks" /\ start = Len(blocks)
    <3>1. phase # "lines" /\ phase' # "lines"
      BY <2>2
    <3>. QED
      BY <1>1, <2>2, <3>1, Zenon DEF Types
  <2>. QED
    BY <2>1, <2>2
<1>. QED
  BY <1>6, <1>7, <1>9, <1>10, <1>11, <1>12, Zenon DEF IInv

LEMMA InitInv ==
    ASSUME Init
    PROVE  IInv
<1>1. /\ format \in {"markdown", "plain"} /\ lines = <<>> /\ fence = None /\ path = <<>>
      /\ current = 0 /\ blocks = <<>> /\ start = 0 /\ parts = <<>> /\ phase = "lines"
  BY Zenon DEF Init
<1>2. Len(lines) = 0 /\ Len(blocks) = 0 /\ Len(parts) = 0 /\ Len(lines) \in Nat
  BY <1>1
<1>3. 1..Len(lines) = {} /\ 1..Len(blocks) = {} /\ 1..Len(parts) = {} /\ 1..(Len(parts) - 1) = {}
      /\ 1..start = {} /\ ~(Len(parts) > 0) /\ ~(0 < start) /\ current \in 0..Len(lines)
      /\ start \in 0..Len(blocks)
  BY <1>1, <1>2
<1>4. phase # "done" /\ phase \in {"lines", "blocks", "done"}
  BY <1>1
<1>5. lines \in Seq(Line) /\ path \in Seq(Titles) /\ blocks \in Seq(BlockType) /\ parts \in Seq(PartType)
  BY <1>1
<1>6. Types
  BY <1>1, <1>3, <1>4, <1>5, Zenon DEF Types
<1>7. OpenBlock /\ BlocksInOrder /\ OnlyBlankOutside /\ BlocksFiled /\ ChunksSoFar
  BY <1>1, <1>3, Zenon DEF OpenBlock, BlocksInOrder, OnlyBlankOutside, BlocksFiled, ChunksSoFar
<1>8. PathStands
  <2>1. Standing = {}
    BY <1>3, Zenon DEF Standing
  <2>. QED
    BY <1>1, <2>1, Zenon DEF PathStands, PathOf
<1>. QED
  BY <1>3, <1>6, <1>7, <1>8, Zenon DEF IInv

-----------------------------------------------------------------------------
(* The theorems.                                                           *)

\* The inductive invariant holds for files of any length.
THEOREM Invariant == Spec => []IInv
<1>1. Init => IInv
  BY InitInv
<1>2. IInv /\ [Next]_vars => IInv'
  <2>. SUFFICES ASSUME IInv, [Next]_vars PROVE IInv'
    OBVIOUS
  <2>1. CASE ReadLine
    BY <2>1, ReadLineInv
  <2>2. CASE EndOfFile
    BY <2>2, EndOfFileInv
  <2>3. CASE ChunkGroup
    BY <2>3, ChunkGroupInv
  <2>4. CASE Finish
    BY <2>4, Stutters, Zenon DEF Finish, parser
  <2>5. CASE UNCHANGED vars
    BY <2>5, Stutters, Zenon DEF vars, parser
  <2>. QED
    BY <2>1, <2>2, <2>3, <2>4, <2>5 DEF Next
<1>. QED
  BY <1>1, <1>2, PTL DEF Spec

\* No line is lost and none is in two blocks (ParseMarkdownBlocks, ParsePlainBlocks).
THEOREM NoLineIsLost == Spec => []EveryLineOnce
<1>1. IInv => EveryLineOnce
  <2>. SUFFICES ASSUME IInv, Parsed PROVE EveryLineOnce
    BY Zenon DEF EveryLineOnce
  <2>1. Types /\ BlocksInOrder /\ OnlyBlankOutside
    BY Zenon DEF IInv
  <2>2. current = 0 /\ Len(blocks) \in Nat
    BY <2>1 DEF Types, Parsed
  <2>3. ASSUME NEW b \in 1..(Len(blocks) - 1) PROVE blocks[b].to < blocks[b + 1].from
    <3>1. b \in 1..Len(blocks) /\ b + 1 \in 1..Len(blocks) /\ b < b + 1
      BY <2>2
    <3>. QED
      BY <2>1, <3>1, Zenon DEF BlocksInOrder
  <2>4. ASSUME NEW n \in 1..Len(lines), n \notin Covered PROVE Kind(lines[n]) \in {"blank", "heading"}
    BY <2>1, <2>2, <2>4, Zenon DEF OnlyBlankOutside, Outside
  <2>. QED
    BY <2>3, <2>4, Zenon DEF EveryLineOnce
<1>. QED
  BY <1>1, Invariant, PTL

\* A fence is never cut nor runs over its end, and a paragraph is never cut.
THEOREM FencesAndParagraphsAreWhole == Spec => []BlocksAreWhole
<1>1. IInv => BlocksAreWhole
  <2>. SUFFICES ASSUME IInv, Parsed PROVE BlocksAreWhole
    BY Zenon DEF BlocksAreWhole
  <2>1. \A b \in 1..Len(blocks) : BlockIsWhole(b)
    BY Zenon DEF IInv
  <2>. QED
    BY <2>1, Zenon DEF BlocksAreWhole, BlockIsWhole, EndsAt
<1>. QED
  BY <1>1, Invariant, PTL

\* The headings that a citation shows are those the block stands under in the file,
\* whatever levels are skipped and whatever '#' there is in code.
THEOREM PathsAreTrue == Spec => []FiledWhereItStands
<1>1. IInv => FiledWhereItStands
  <2>. SUFFICES ASSUME IInv, Parsed PROVE FiledWhereItStands
    BY Zenon DEF FiledWhereItStands
  <2>1. BlocksFiled
    BY Zenon DEF IInv
  <2>2. ASSUME NEW b \in 1..Len(blocks) PROVE EnclosingHeadings(blocks[b].from) = PathOf(Above(b), lines)
    BY Zenon DEF EnclosingHeadings, PathOf, Above, HeadingAt, LastOf
  <2>. QED
    BY <2>1, <2>2, Zenon DEF FiledWhereItStands, BlocksFiled
<1>. QED
  BY <1>1, Invariant, PTL

\* Chunks name every block once, in order, and never across a change of section,
\* of language or from prose to code (ChunkBlocks).
THEOREM ChunksAreSections == Spec => []ChunksFollowSections
<1>1. IInv => ChunksFollowSections
  <2>1. SUFFICES ASSUME IInv, phase = "done" PROVE ChunksFollowSections
    BY Zenon DEF ChunksFollowSections
  <2>2. Types /\ ChunksSoFar
    BY <2>1, Zenon DEF IInv
  <2>3. start = Len(blocks) /\ Len(blocks) \in Nat /\ Len(parts) \in Nat
    BY <2>1, <2>2 DEF Types
  <2>4. \A p : Blocks(p) = FirstOf(p)..EndOf(p)
    BY Zenon DEF Blocks, FirstOf, EndOf
  <2>5. ASSUME NEW k \in 1..Len(parts)
        PROVE  /\ parts[k].index = k - 1
               /\ FirstOf(parts[k]) \in Nat /\ EndOf(parts[k]) \in Nat
               /\ 1 <= FirstOf(parts[k]) /\ FirstOf(parts[k]) <= EndOf(parts[k])
               /\ EndOf(parts[k]) <= Len(blocks)
               /\ \A b \in Blocks(parts[k]) : Meta(blocks[b]) = Meta(blocks[FirstOf(parts[k])])
               /\ Max(Blocks(parts[k])) = EndOf(parts[k]) /\ Min(Blocks(parts[k])) = FirstOf(parts[k])
    <3>1. parts[k] \in PartType
      BY <2>2 DEF Types
    <3>2. FirstOf(parts[k]) \in Nat /\ EndOf(parts[k]) \in Nat
      BY <3>1, PartEnds
    <3>3. /\ parts[k].index = k - 1
          /\ 1 <= FirstOf(parts[k]) /\ FirstOf(parts[k]) <= EndOf(parts[k])
          /\ EndOf(parts[k]) <= start
          /\ \A b \in FirstOf(parts[k])..EndOf(parts[k]) :
               Meta(blocks[b]) = Meta(blocks[FirstOf(parts[k])])
      BY <2>2, Zenon DEF ChunksSoFar
    <3>4. /\ Max(FirstOf(parts[k])..EndOf(parts[k])) = EndOf(parts[k])
          /\ Min(FirstOf(parts[k])..EndOf(parts[k])) = FirstOf(parts[k])
      BY <3>2, <3>3, IntervalEnds
    <3>. QED
      BY <2>3, <2>4, <3>2, <3>3, <3>4, Zenon
  <2>6. \A b \in 1..Len(blocks) : \E k \in 1..Len(parts) : b \in Blocks(parts[k])
    BY <2>2, <2>3, <2>4, Zenon DEF ChunksSoFar
  <2>7. \A k \in 1..Len(parts) : \A b \in Blocks(parts[k]) : b \in 1..Len(blocks)
    <3>. SUFFICES ASSUME NEW k \in 1..Len(parts), NEW b \in FirstOf(parts[k])..EndOf(parts[k])
                  PROVE  b \in 1..Len(blocks)
      BY <2>4, Zenon
    <3>1. /\ FirstOf(parts[k]) \in Nat /\ EndOf(parts[k]) \in Nat
          /\ 1 <= FirstOf(parts[k]) /\ EndOf(parts[k]) <= Len(blocks)
      BY <2>5, Zenon
    <3>. QED
      BY <2>3, <3>1
  <2>8. UNION {Blocks(parts[k]) : k \in 1..Len(parts)} = 1..Len(blocks)
    BY <2>6, <2>7, Zenon
  <2>9. \A b : <<blocks[b].type, blocks[b].language, blocks[b].path>> = Meta(blocks[b])
    BY Zenon DEF Meta
  <2>10. ASSUME NEW k \in 1..Len(parts)
         PROVE  /\ parts[k].index = k - 1
                /\ \A b, c \in Blocks(parts[k]) : Meta(blocks[b]) = Meta(blocks[c])
    BY <2>5, Zenon
  <2>11. ASSUME NEW k \in 1..(Len(parts) - 1)
         PROVE  \/ Blocks(parts[k]) = Blocks(parts[k + 1])
                \/ /\ Max(Blocks(parts[k])) < Min(Blocks(parts[k + 1]))
                   /\ Meta(blocks[Max(Blocks(parts[k]))]) # Meta(blocks[Max(Blocks(parts[k])) + 1])
    <3>1. k \in 1..Len(parts) /\ k + 1 \in 1..Len(parts)
      BY <2>3
    <3>2. \/ FirstOf(parts[k]) = FirstOf(parts[k + 1]) /\ EndOf(parts[k]) = EndOf(parts[k + 1])
          \/ /\ EndOf(parts[k]) < FirstOf(parts[k + 1])
             /\ Meta(blocks[EndOf(parts[k])]) # Meta(blocks[EndOf(parts[k]) + 1])
      BY <2>2, Zenon DEF ChunksSoFar
    <3>. QED
      BY <2>4, <2>5, <3>1, <3>2, Zenon
  <2>. QED
    BY <2>8, <2>9, <2>10, <2>11, Zenon DEF ChunksFollowSections
<1>. QED
  BY <1>1, Invariant, PTL
=============================================================================
