---------------------------- MODULE ChunkerProofs ---------------------------
(***************************************************************************)
(* What chunkText guarantees for texts of every length, for every          *)
(* CHUNK_SIZE and every CHUNK_OVERLAP.                                     *)
(***************************************************************************)
EXTENDS Chunker, TLAPS

\* The overlap in use is shorter than a chunk, whatever was configured.
LEMMA NormalizedRange ==
    ASSUME NEW o \in Int, NEW s \in Nat \ {0}
    PROVE  Normalized(o, s) \in 0..(s - 1)
<1>1. CASE o < 0
  BY <1>1 DEF Normalized
<1>2. CASE o >= s
  <2>1. s \div 5 \in 0..(s - 1)
    OBVIOUS
  <2>. QED
    BY <1>2, <2>1 DEF Normalized
<1>3. CASE 0 <= o /\ o < s
  BY <1>3 DEF Normalized
<1>. QED
  BY <1>1, <1>2, <1>3

\* What is within d of a is within d of every later b.
LEMMA FartherReach ==
    ASSUME NEW a \in Nat, NEW b \in Nat, NEW d \in Nat, NEW i \in Nat,
           a < b, i <= a + d
    PROVE  i <= b + d
OBVIOUS

\* The facts about the state that the leaves below need.
LEMMA Types ==
    ASSUME TypeOK
    PROVE  /\ text.len \in Nat /\ size \in Nat /\ overlap \in Nat /\ start \in Nat /\ end \in Nat
           /\ size > 0 /\ overlap < size
           /\ Len(chunks) \in Nat
           /\ \A k \in 1..Len(chunks) : chunks[k].from \in Nat /\ chunks[k].to \in Nat
<1>1. text.len \in Nat
  BY DEF TypeOK
<1>2. size \in Nat /\ size > 0 /\ overlap \in Nat /\ overlap < size
  BY DEF TypeOK
<1>3. start \in Nat /\ end \in Nat
  BY <1>1 DEF TypeOK
<1>4. /\ Len(chunks) \in Nat
      /\ \A k \in 1..Len(chunks) : chunks[k] \in Chunk
  BY DEF TypeOK
<1>5. \A k \in 1..Len(chunks) : chunks[k].from \in Nat /\ chunks[k].to \in Nat
  BY <1>4 DEF Chunk
<1>. QED
  BY <1>1, <1>2, <1>3, <1>4, <1>5

\* The quotients the code compares positions with.
LEMMA Quotients ==
    ASSUME TypeOK
    PROVE  Half \in Nat /\ Skip \in Nat
<1>1. text.len \in Nat /\ ScanDivisor \in Nat \ {0} /\ size \in Nat
  BY ChunkerAssumption, Types
<1>. QED
  BY <1>1 DEF Half, Skip

\* Where an iteration may end its window: not before the last one ended, and
\* after it if the overlap is at most half a chunk.
LEMMA WindowEnd ==
    ASSUME IInv, ~done, NEW e,
           \/ e = Limit
           \/ e \in text.stops /\ CutsAt(e)
    PROVE  /\ e \in 1..text.len /\ start < e /\ e <= start + size
           /\ end <= e /\ (overlap <= Half => end < e)
<1>0. /\ text.len \in Nat /\ size \in Nat /\ overlap \in Nat /\ start \in Nat /\ end \in Nat
      /\ size > 0 /\ overlap < size
      /\ Half \in Nat /\ Skip \in Nat
      /\ start < text.len /\ end < text.len /\ end - overlap <= start /\ start <= end /\ NoWayBack
      /\ text.stops \subseteq 1..text.len
  BY Types, Quotients DEF IInv, TypeOK
<1>1. /\ Limit \in Int /\ start < Limit /\ Limit <= text.len /\ Limit <= start + size
      /\ end < Limit
  BY <1>0 DEF Limit
<1>2. CASE e = Limit
  BY <1>0, <1>1, <1>2
<1>3. CASE e \in text.stops /\ CutsAt(e)
  <2>1. /\ e \in 1..text.len /\ e <= Limit /\ e > start + Half
        /\ e > start + Skip
        /\ Limit < text.len
    BY <1>0, <1>3 DEF CutsAt, InReach, Stops
  <2>2. end <= e
    <3>1. SUFFICES ASSUME e < end PROVE FALSE
      BY <1>0, <2>1
    <3>2. end \in text.stops
      BY <1>0, <1>3, <2>1, <3>1 DEF NoWayBack
    <3>3. InReach(end)
      BY <1>0, <1>1, <2>1, <3>1, <3>2 DEF InReach, Stops
    <3>. QED
      BY <1>0, <1>3, <2>1, <3>1, <3>2, <3>3 DEF CutsAt
  <2>. QED
    BY <1>0, <1>1, <2>1, <2>2
<1>. QED
  BY <1>2, <1>3

\* A step of the loop takes a window that ends at some such e; where it is
\* not cut, no sentence ends within its reach.
LEMMA Iteration ==
    ASSUME Next
    PROVE  \E e : /\ ~done /\ Take(e)
                  /\ \/ e = Limit /\ \A b \in text.stops : ~InReach(b)
                     \/ e \in text.stops /\ CutsAt(e)
BY DEF Next, CutAtSentence, CutAtSize

\* The invariant holds when the loop is entered.
LEMMA LoopEntry == Init => IInv
<1> SUFFICES ASSUME Init PROVE IInv
  OBVIOUS
<1>1. text.len \in Nat \ {0} /\ text.stops \subseteq 1..text.len /\ text.blank \subseteq 1..text.len
  <2>1. PICK n \in Lengths : text \in [len : {n}, stops : SUBSET (1..n), blank : SUBSET (2..(n - 1))]
    BY DEF Init, Text
  <2>2. n \in Nat \ {0} /\ 2..(n - 1) \subseteq 1..n
    BY ChunkerAssumption
  <2>. QED
    BY <2>1, <2>2
<1>2. size \in Nat \ {0} /\ overlap \in 0..(size - 1)
  BY NormalizedRange, ChunkerAssumption DEF Init
<1>3. TypeOK
  <2>1. start = 0 /\ end = 0 /\ chunks = <<>> /\ done = FALSE
    BY DEF Init
  <2>2. 0 \in 0..text.len
    BY <1>1
  <2>3. chunks \in Seq(Chunk)
    <3>1. <<>> \in Seq(Chunk)
      OBVIOUS
    <3>. QED
      BY <2>1, <3>1
  <2>5. done \in BOOLEAN
    BY <2>1
  <2>4. start \in 0..text.len /\ end \in 0..text.len
    BY <2>1, <2>2
  <2>. QED
    BY <1>1, <1>2, <2>3, <2>4, <2>5 DEF TypeOK
<1>4. CoveredTo(end)
  BY DEF Init, CoveredTo
<1>5. NoWayBack
  BY <1>1 DEF Init, NoWayBack
<1>. QED
  BY <1>1, <1>2, <1>3, <1>4, <1>5 DEF Init, IInv, ChunksFit, ChunksAdvance

\* Every iteration keeps it.
LEMMA LoopBody == IInv /\ [Next]_vars => IInv'
<1> SUFFICES ASSUME IInv, [Next]_vars PROVE IInv'
  OBVIOUS
<1>1. CASE UNCHANGED vars
  BY <1>1 DEF vars, IInv, TypeOK, ChunksFit, ChunksAdvance, CoveredTo, NoWayBack, Contains, Half, Skip
<1>2. CASE Next
  <2>1. PICK e : /\ ~done /\ Take(e)
                 /\ \/ e = Limit /\ \A b \in text.stops : ~InReach(b)
                    \/ e \in text.stops /\ CutsAt(e)
    BY <1>2, Iteration
  <2>2. /\ e \in 1..text.len /\ start < e /\ e <= start + size
        /\ end <= e /\ (overlap <= Half => end < e)
    BY <2>1, WindowEnd
  <2>3. text' = text /\ size' = size /\ overlap' = overlap /\ end' = e
        /\ Half' = Half /\ Skip' = Skip
    BY <2>1 DEF Take, input, Half, Skip
  <2>4. /\ TypeOK /\ ChunksFit /\ ChunksAdvance /\ CoveredTo(end)
        /\ end - overlap <= start /\ start <= end
        /\ \A k \in 1..Len(chunks) : chunks[k].to <= end
        /\ text.len \in Nat /\ size \in Nat /\ overlap \in Nat /\ start \in Nat /\ end \in Nat
        /\ size > 0 /\ overlap < size
        /\ Len(chunks) \in Nat
        /\ \A k \in 1..Len(chunks) : chunks[k].from \in Nat /\ chunks[k].to \in Nat
        /\ text.stops \subseteq 1..text.len
    BY <2>1, Types DEF IInv, TypeOK
  <2>. USE <2>4
  <2>5. /\ done' \in BOOLEAN /\ (done' <=> e = text.len)
        /\ start' = IF e = text.len THEN start ELSE NextStart(e)
    BY <2>1 DEF Take
  <2>6. ~done' => /\ start < start' /\ e - overlap <= start' /\ start' <= e /\ e < text.len
    BY <2>2, <2>5 DEF NextStart
  <2>7. start' \in 0..text.len /\ done' \in BOOLEAN
    BY <2>2, <2>5 DEF NextStart, TypeOK
  <2>8. ~done' => NoWayBack'
    <3>1. CASE e \in text.stops
      BY <3>1, <2>3 DEF NoWayBack
    <3>2. CASE e = Limit /\ \A b \in text.stops : ~InReach(b)
      <4>. SUFFICES ASSUME ~done', NEW i \in text.stops, i <= e
                    PROVE  i <= start' + Half \/ i <= start' + Skip
        BY <2>3 DEF NoWayBack
      <4>1. i \in Nat /\ i <= Limit /\ ~InReach(i) /\ Limit < text.len
        BY <2>6, <3>2
      <4>2. Half \in Nat /\ Skip \in Nat
        BY Quotients
      <4>3. i <= start + Skip \/ i <= start + Half
        <5>1. ~(start + Skip < i) \/ ~(i > start + Half)
          BY <4>1 DEF InReach, Stops
        <5>. QED
          BY <5>1, <4>1, <4>2
      <4>4. start \in Nat /\ start' \in Nat /\ start < start'
        BY <2>6, <2>7
      <4>. QED
        BY <4>1, <4>2, <4>3, <4>4, FartherReach
    <3>. QED
      BY <2>1, <3>1, <3>2
  <2>. DEFINE c == [from |-> start, to |-> e]
  <2>9. CASE (start + 1)..e \subseteq text.blank
    <3>1. chunks' = chunks
      BY <2>1, <2>9 DEF Take
    <3>2. TypeOK'
      BY <2>2, <2>3, <2>5, <2>7, <3>1 DEF TypeOK
    <3>3. CoveredTo(end)'
      <4>. SUFFICES ASSUME NEW q \in 1..e, q \notin text.blank
                    PROVE  \E k \in 1..Len(chunks) : Contains(chunks[k], q)
        BY <2>3, <3>1 DEF CoveredTo, Contains
      <4>1. q <= end
        BY <2>2, <2>9
      <4>. QED
        BY <4>1, <2>2 DEF CoveredTo
    <3>4. \A k \in 1..Len(chunks) : chunks[k].to <= e
      BY <2>2
    <3>. QED
      BY <2>3, <2>5, <2>6, <2>8, <3>1, <3>2, <3>3, <3>4 DEF IInv, ChunksFit, ChunksAdvance
  <2>10. CASE ~((start + 1)..e \subseteq text.blank)
    <3>1. chunks' = Append(chunks, c)
      BY <2>1, <2>10 DEF Take
    <3>2. c \in Chunk /\ c.from = start /\ c.to = e
      BY <2>2 DEF Chunk
    <3>3. /\ chunks' \in Seq(Chunk)
          /\ Len(chunks') = Len(chunks) + 1
          /\ chunks'[Len(chunks) + 1] = c
          /\ \A k \in 1..Len(chunks) : chunks'[k] = chunks[k]
          /\ \A k \in 1..Len(chunks') : k \in 1..Len(chunks) \/ k = Len(chunks) + 1
      BY <3>1, <3>2 DEF TypeOK
    <3>. HIDE DEF c
    <3>4. TypeOK'
      BY <2>2, <2>3, <2>5, <2>7, <3>3 DEF TypeOK
    <3>5. CoveredTo(end)'
      <4>. SUFFICES ASSUME NEW q \in 1..e, q \notin text.blank
                    PROVE  \E k \in 1..Len(chunks') : Contains(chunks'[k], q)
        BY <2>3 DEF CoveredTo, Contains
      <4>1. CASE q <= end
        <5>1. PICK k \in 1..Len(chunks) : Contains(chunks[k], q)
          BY <4>1, <2>2 DEF CoveredTo
        <5>2. k \in 1..Len(chunks') /\ chunks'[k] = chunks[k]
          BY <3>3
        <5>. QED
          BY <5>1, <5>2
      <4>2. CASE q > end
        <5>1. Contains(c, q)
          BY <4>2, <2>2, <3>2 DEF Contains
        <5>2. Len(chunks) + 1 \in 1..Len(chunks') /\ chunks'[Len(chunks) + 1] = c
          BY <3>3
        <5>. QED
          BY <5>1, <5>2
      <4>. QED
        BY <4>1, <4>2, <2>2
    <3>6. \A k \in 1..Len(chunks') : chunks'[k].to <= e
      BY <2>2, <3>2, <3>3
    <3>7. ChunksFit'
      <4>1. \A k \in 1..Len(chunks') :
               chunks'[k].from < chunks'[k].to /\ chunks'[k].to - chunks'[k].from <= size
        BY <2>2, <3>2, <3>3 DEF ChunksFit
      <4>2. \A k \in 1..(Len(chunks') - 1) : chunks'[k + 1].from >= chunks'[k].to - overlap
        <5>. SUFFICES ASSUME NEW k \in 1..Len(chunks)
                      PROVE  chunks'[k + 1].from >= chunks'[k].to - overlap
          BY <3>3
        <5>1. CASE k = Len(chunks)
          BY <5>1, <3>2, <3>3
        <5>2. CASE k < Len(chunks)
          BY <5>2, <3>3 DEF ChunksFit
        <5>. QED
          BY <5>1, <5>2
      <4>. QED
        BY <4>1, <4>2, <2>3 DEF ChunksFit
    <3>8. ChunksAdvance'
      <4>. SUFFICES ASSUME NEW k \in 1..Len(chunks)
                    PROVE  /\ chunks'[k].to <= chunks'[k + 1].to
                           /\ overlap <= Half => chunks'[k].to < chunks'[k + 1].to
        BY <2>3, <3>3 DEF ChunksAdvance
      <4>1. CASE k = Len(chunks)
        BY <4>1, <2>2, <3>2, <3>3
      <4>2. CASE k < Len(chunks)
        <5>1. /\ k \in 1..(Len(chunks) - 1)
              /\ chunks'[k] = chunks[k] /\ chunks'[k + 1] = chunks[k + 1]
          BY <4>2, <3>3
        <5>. QED
          BY <5>1 DEF ChunksAdvance
      <4>. QED
        BY <4>1, <4>2
    <3>. QED
      BY <2>3, <2>5, <2>6, <2>8, <3>4, <3>5, <3>6, <3>7, <3>8 DEF IInv
  <2>. QED
    BY <2>9, <2>10
<1>. QED
  BY <1>1, <1>2

-----------------------------------------------------------------------------
\* The inductive invariant holds throughout the loop.
THEOREM Invariant == Spec => []IInv
BY LoopEntry, LoopBody, PTL DEF Spec

\* Every variable of the loop keeps its type; in particular the window never
\* reaches beyond the text, where runes[start:end] would panic.
THEOREM TypeCorrect == Spec => []TypeOK
<1>1. IInv => TypeOK
  BY DEF IInv
<1>. QED
  BY <1>1, Invariant, PTL

\* Whatever the text, the size and the overlap, every rune that is not blank
\* is in a chunk when the loop of chunkText ends.
THEOREM CoversTheText == Spec => []NothingLost
<1>1. IInv => NothingLost
  BY Types DEF IInv, NothingLost, CoveredTo
<1>. QED
  BY <1>1, Invariant, PTL

\* No chunk of chunkText is longer than CHUNK_SIZE, and two chunks in a row
\* share at most the overlap.
THEOREM ChunksAreBounded == Spec => []ChunksFit
<1>1. IInv => ChunksFit
  BY DEF IInv
<1>. QED
  BY <1>1, Invariant, PTL

\* The chunks of chunkText follow the text; with an overlap of up to half a
\* chunk each ends after the one before it.
THEOREM ChunksFollowTheText == Spec => []ChunksAdvance
<1>1. IInv => ChunksAdvance
  BY DEF IInv
<1>. QED
  BY <1>1, Invariant, PTL

\* Every iteration of the loop of chunkText begins its next window later than
\* its own or is the last one.
THEOREM LoopAdvances == Spec => Progress
<1>1. IInv /\ [Next]_vars => [done' \/ start' > start]_vars
  <2>. SUFFICES ASSUME IInv, Next PROVE done' \/ start' > start
    OBVIOUS
  <2>1. PICK e : /\ ~done /\ Take(e)
                 /\ e = Limit \/ (e \in text.stops /\ CutsAt(e))
    BY Iteration
  <2>2. start < e
    BY <2>1, WindowEnd
  <2>3. start' > start \/ done'
    <3>1. /\ done' <=> (e = text.len)
          /\ start' = IF e = text.len THEN start ELSE NextStart(e)
      BY <2>1 DEF Take
    <3>2. e \in 1..text.len
      BY <2>1, WindowEnd
    <3>. QED
      BY <2>2, <3>1, <3>2, Types DEF NextStart, IInv
  <2>. QED
    BY <2>3
<1>. QED
  BY <1>1, Invariant, PTL DEF Spec, Progress
=============================================================================
