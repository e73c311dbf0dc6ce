------------------------------ MODULE Chunker -------------------------------
(***************************************************************************)
(* chunkText and findBoundary of internal/rag/chunker.go: a window of at   *)
(* most size runes moves over the text, is cut back to the end of a        *)
(* sentence where there is one in its second half, and steps back by       *)
(* overlap runes for the next chunk.                                       *)
(*                                                                         *)
(* Runes are numbered from 1; of a rune it matters whether it ends a       *)
(* sentence and whether TrimSpace removes it.  A chunk is the half-open    *)
(* range <<from, to]] that is cut before it is trimmed.                    *)
(***************************************************************************)
EXTENDS Integers, Sequences

CONSTANTS
    Lengths,        \* lengths of the trimmed text
    Sizes,          \* CHUNK_SIZE
    Overlaps,       \* CHUNK_OVERLAP, as configured
    ScanDivisor     \* 100 in findBoundary: no stop is taken in the first 1/100

ASSUME ChunkerAssumption ==
    /\ Lengths \subseteq Nat \ {0}
    /\ Sizes \subseteq Nat \ {0}
    /\ Overlaps \subseteq Int
    /\ ScanDivisor \in Nat \ {0}

VARIABLES
    text,       \* the input: its length, where sentences end, what is blank
    size,
    overlap,    \* the overlap in use
    start, end, \* the window of this iteration begins after start; the last one ended at end
    chunks,
    done

input == <<text, size, overlap>>
vars  == <<text, size, overlap, start, end, chunks, done>>

\* A negative overlap is 0, one of a whole chunk or more is a fifth of it.
Normalized(o, s) == CASE o < 0  -> 0
                      [] o >= s -> s \div 5
                      [] OTHER  -> o

\* The text was trimmed: its first and last runes are not blank.
Text == UNION {[len : {n}, stops : SUBSET (1..n), blank : SUBSET (2..(n - 1))] : n \in Lengths}

Init ==
    /\ text \in Text
    /\ size \in Sizes
    /\ \E o \in Overlaps : overlap = Normalized(o, size)
    /\ start = 0
    /\ end = 0
    /\ chunks = <<>>
    /\ done = FALSE

-----------------------------------------------------------------------------
\* Faulty variant: the window is cut one rune too late.
PastLimit == IF start + size > text.len THEN text.len ELSE start + size + 1

Limit == IF start + size > text.len THEN text.len ELSE start + size

\* findBoundary stops scanning there, and chunkText where half a chunk is left.
Skip == text.len \div ScanDivisor
Half == size \div 2

\* A sentence ends at b, in the part of the window that findBoundary scans.
Stops(b) == /\ b \in text.stops
            /\ start + Skip < b /\ b <= Limit

\* Faulty variant: the window is cut back to any sentence.
EverySentence(b) == Limit < text.len /\ Stops(b)

\* The window may be cut back to b: more than half of it remains.
InReach(b) == Limit < text.len /\ Stops(b) /\ b > start + Half

\* It is cut at the last of them.
CutsAt(b) == InReach(b) /\ \A i \in text.stops : InReach(i) => i <= b

\* Faulty variant: the overlap is taken whatever it does.
StepBack(e) == e - overlap

\* Faulty variant: the next window leaves a rune out.
StepOver(e) == IF e - overlap <= start THEN e + 1 ELSE e - overlap

NextStart(e) == IF e - overlap <= start THEN e ELSE e - overlap

\* The window that is taken: the text up to end, or up to the boundary.
Take(e) ==
    /\ end' = e
    /\ chunks' = IF (start + 1)..e \subseteq text.blank
                 THEN chunks
                 ELSE Append(chunks, [from |-> start, to |-> e])
    /\ done' = (e = text.len)
    /\ start' = IF e = text.len THEN start ELSE NextStart(e)
    /\ UNCHANGED input

CutAtSentence == ~done /\ \E b \in text.stops : CutsAt(b) /\ Take(b)

CutAtSize == ~done /\ (\A b \in text.stops : ~InReach(b)) /\ Take(Limit)

Next == CutAtSentence \/ CutAtSize

Spec == Init /\ [][Next]_vars

-----------------------------------------------------------------------------
(* Properties.                                                             *)

Chunk == [from : Nat, to : Nat]

TypeOK ==
    /\ text.len \in Nat \ {0}
    /\ text.stops \subseteq 1..text.len
    /\ text.blank \subseteq 1..text.len
    /\ size \in Nat \ {0}
    /\ overlap \in 0..(size - 1)
    /\ start \in 0..text.len
    /\ end \in 0..text.len
    /\ chunks \in Seq(Chunk)
    /\ done \in BOOLEAN

Contains(c, p) == c.from < p /\ p <= c.to

\* Nothing that can be read is lost: when the loop ends, every rune that is
\* not blank is in some chunk, whatever the overlap and wherever it was cut.
NothingLost ==
    done => \A p \in 1..text.len :
              p \notin text.blank => \E k \in 1..Len(chunks) : Contains(chunks[k], p)

\* No chunk is longer than CHUNK_SIZE, and two chunks in a row share at most
\* the overlap.
ChunksFit ==
    /\ \A k \in 1..Len(chunks) :
          chunks[k].from < chunks[k].to /\ chunks[k].to - chunks[k].from <= size
    /\ \A k \in 1..(Len(chunks) - 1) : chunks[k + 1].from >= chunks[k].to - overlap

\* The chunks follow the text: none ends before the one before it, and with
\* an overlap of up to half a chunk (200 of 1200 by default) each ends after
\* it, so that none only repeats text already indexed.
ChunksAdvance ==
    \A k \in 1..(Len(chunks) - 1) :
        /\ chunks[k].to <= chunks[k + 1].to
        /\ overlap <= Half => chunks[k].to < chunks[k + 1].to

\* Every iteration moves on, even with an overlap as long as the cut window.
Progress == [][done' \/ start' > start]_vars

\* The last window ended at a sentence, or none is left within the reach of
\* the next one up to there: no later window can end before it.
NoWayBack ==
    \/ end \in text.stops
    \/ \A i \in text.stops :
          i <= end => i <= start + Half \/ i <= start + Skip

\* The chunks cover the text up to p.
CoveredTo(p) ==
    \A q \in 1..p : q \notin text.blank => \E k \in 1..Len(chunks) : Contains(chunks[k], q)

\* The inductive invariant of the proofs: where the next window begins, and
\* what the chunks cover up to there.
IInv ==
    /\ TypeOK
    /\ ~done => end - overlap <= start /\ start <= end /\ end < text.len /\ NoWayBack
    /\ done => end = text.len
    /\ CoveredTo(end)
    /\ \A k \in 1..Len(chunks) : chunks[k].to <= end
    /\ ChunksFit
    /\ ChunksAdvance
=============================================================================
