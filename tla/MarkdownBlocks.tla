--------------------------- MODULE MarkdownBlocks ---------------------------
(***************************************************************************)
(* ParseMarkdownBlocks, ParsePlainBlocks and ChunkBlocks of                *)
(* internal/rag/chunker.go: a file is read line by line into blocks, each  *)
(* with the path of headings it stands under, and runs of blocks with the  *)
(* same metadata are chunked together.                                     *)
(*                                                                         *)
(* Of a line it matters what markdownFence, markdownHeading and TrimSpace  *)
(* make of it.  The file grows as it is read: every file of at most        *)
(* MaxLines lines is a behaviour.  How a text is cut into chunks is module *)
(* Chunker's; here a group yields between one and MaxPieces of them.       *)
(***************************************************************************)
EXTENDS Integers, Sequences, FiniteSetsExt

CONSTANTS
    Line,       \* the lines a file may have
    MaxLines,   \* lines of the longest file
    MaxPieces   \* chunks of the longest group

\* The values of Line: what a trimmed line is to the parser.
Plain            == [kind |-> "text"]
Blank            == [kind |-> "blank"]
Heading(l, t)    == [kind |-> "heading", level |-> l, title |-> t]
Fence(m, lang)   == [kind |-> "fence", marker |-> m, language |-> lang]

ASSUME MarkdownAssumption ==
    /\ \A l \in Line : l.kind \in {"text", "blank", "heading", "fence"}
    /\ \A l \in Line : l.kind = "heading" => l.level \in 1..6
    /\ \A l \in Line : l.kind = "fence" => l.marker # ""
    /\ MaxLines \in Nat
    /\ MaxPieces \in Nat \ {0}

VARIABLES
    format,     \* markdown or plain, by the name of the file
    lines,      \* the lines read
    fence,      \* the open fence, or None
    path,       \* headingPath
    current,    \* the first line of the block that is being read, 0 for none
    blocks,
    start,      \* blocks that are chunked
    parts,
    phase       \* lines, blocks, done

parser == <<fence, path, current, blocks>>
vars   == <<format, lines, parser, start, parts, phase>>

None == [marker |-> "", language |-> ""]

Init ==
    /\ format \in {"markdown", "plain"}
    /\ lines = <<>>
    /\ fence = None
    /\ path = <<>>
    /\ current = 0
    /\ blocks = <<>>
    /\ start = 0
    /\ parts = <<>>
    /\ phase = "lines"

-----------------------------------------------------------------------------
(* The lines.                                                              *)

\* ParsePlainBlocks knows no headings and no fences.
Kind(l) == IF format = "plain" /\ l.kind # "blank" THEN "text" ELSE l.kind

Here == Len(lines) + 1

\* The block of the lines from current to the last one before to that is not
\* blank is appended; nothing is, if there is none.
Flushed(type, language, to) ==
    IF current = 0 THEN blocks
    ELSE Append(blocks, [from     |-> current,
                         to       |-> Max({n \in current..to :
                                             n > Len(lines) \/ lines[n].kind # "blank"}),
                         type     |-> type,
                         language |-> language,
                         path     |-> path])

FlushText == blocks' = Flushed("text", "", Len(lines))

\* Faulty variant: a fence ends at any fence.
ClosesAny(l) == l.kind = "fence"

\* The line begins with the marker, whatever follows it.
Closes(l) == l.kind = "fence" /\ l.marker = fence.marker

InFence(l) ==
    /\ fence # None
    /\ IF Closes(l)
       THEN /\ blocks' = Flushed("code", fence.language, Here)
            /\ current' = 0
            /\ fence' = None
       ELSE UNCHANGED <<blocks, current, fence>>
    /\ UNCHANGED path

Opens(l) ==
    /\ fence = None /\ Kind(l) = "fence"
    /\ FlushText
    /\ fence' = [marker |-> l.marker, language |-> l.language]
    /\ current' = Here
    /\ UNCHANGED path

\* Faulty variant: a heading replaces only what lies below it.
KeptHeadings(level) == IF level < Len(path) THEN level - 1 ELSE Len(path)

\* How many headings of the path remain above a heading of this level.
Kept(level) == IF level <= Len(path) THEN level - 1 ELSE Len(path)

\* Skipped levels are filled with "".
IsHeading(l) ==
    /\ fence = None /\ Kind(l) = "heading"
    /\ FlushText
    /\ path' = [n \in 1..Kept(l.level) |-> path[n]]
               \o [n \in 1..(l.level - 1 - Kept(l.level)) |-> ""] \o <<l.title>>
    /\ current' = 0
    /\ UNCHANGED fence

IsBlank(l) ==
    /\ fence = None /\ Kind(l) = "blank"
    /\ FlushText
    /\ current' = 0
    /\ UNCHANGED <<fence, path>>

IsText(l) ==
    /\ fence = None /\ Kind(l) = "text"
    /\ current' = IF current = 0 THEN Here ELSE current
    /\ UNCHANGED <<fence, path, blocks>>

ReadLine ==
    /\ phase = "lines" /\ Len(lines) < MaxLines
    /\ \E l \in Line :
          /\ InFence(l) \/ Opens(l) \/ IsHeading(l) \/ IsBlank(l) \/ IsText(l)
          /\ lines' = Append(lines, l)
    /\ UNCHANGED <<format, start, parts, phase>>

\* Faulty variant: what an open fence holds is lost.
LastBlockOfText == IF fence = None THEN FlushText ELSE UNCHANGED blocks

\* A fence that is still open ends with the file.
LastBlock ==
    blocks' = IF fence = None THEN Flushed("text", "", Len(lines))
              ELSE Flushed("code", fence.language, Len(lines))

EndOfFile ==
    /\ phase = "lines"
    /\ LastBlock
    /\ current' = 0
    /\ phase' = "blocks"
    /\ UNCHANGED <<format, lines, fence, path, start, parts>>

-----------------------------------------------------------------------------
(* The chunks.                                                             *)

\* Faulty variant: only the place of a block is compared.
SamePlace(b, c) == b.path = c.path

\* The metadata are equal.
Alike(b, c) == <<b.type, b.language, b.path>> = <<c.type, c.language, c.path>>

\* The last block that is chunked with the first one.
GroupEnd(first) ==
    Max({n \in first..Len(blocks) : \A b \in first..n : Alike(blocks[first], blocks[b])})

\* Faulty variant: the end of a group is exclusive in its metadata too.
PartExclusive(first, last, index) ==
    [block |-> first - 1, end |-> IF last > first THEN last ELSE -1, index |-> index,
     path |-> blocks[first].path]

\* block_index, block_end_index (-1 if it is absent) and chunk_index, from 0; the
\* path is also written before the text.
Part(first, last, index) ==
    [block |-> first - 1, end |-> IF last > first THEN last - 1 ELSE -1, index |-> index,
     path |-> blocks[first].path]

ChunkGroup ==
    /\ phase = "blocks" /\ start < Len(blocks)
    /\ LET first == start + 1
           last  == GroupEnd(first)
       IN /\ \E pieces \in 1..MaxPieces :
                parts' = parts \o [k \in 1..pieces |-> Part(first, last, Len(parts) + k - 1)]
          /\ start' = last
    /\ UNCHANGED <<format, lines, parser, phase>>

Finish ==
    /\ phase = "blocks" /\ start = Len(blocks)
    /\ phase' = "done"
    /\ UNCHANGED <<format, lines, parser, start, parts>>

Next == ReadLine \/ EndOfFile \/ ChunkGroup \/ Finish

Spec == Init /\ [][Next]_vars

-----------------------------------------------------------------------------
(* Properties.                                                             *)

\* Type correctness of every variable; an open fence has its line in the block.
TypeOK ==
    /\ format \in {"markdown", "plain"}
    /\ lines \in Seq(Line) /\ Len(lines) <= MaxLines
    /\ fence # None => format = "markdown" /\ (phase = "lines" => current # 0)
    /\ Len(path) <= 6
    /\ current \in 0..Len(lines)
    /\ \A b \in 1..Len(blocks) : blocks[b].from \in 1..blocks[b].to
    /\ start \in 0..Len(blocks)
    /\ phase \in {"lines", "blocks", "done"}

Parsed == phase # "lines"

Span(b) == blocks[b].from..blocks[b].to

Covered == UNION {Span(b) : b \in 1..Len(blocks)}

\* No line is lost and none is taken twice: blocks follow each other, and only
\* blank lines and headings are outside of them.
EveryLineOnce ==
    Parsed =>
      /\ \A b \in 1..(Len(blocks) - 1) : blocks[b].to < blocks[b + 1].from
      /\ \A n \in 1..Len(lines) :
            n \notin Covered => Kind(lines[n]) \in {"blank", "heading"}

\* A block of code is what stands between a fence and the next one of its kind or
\* the end of the file; a block of text is a run of lines that are nothing else.
BlocksAreWhole ==
    Parsed => \A b \in 1..Len(blocks) :
        LET from == blocks[b].from
            to   == blocks[b].to
            Ends(n) == lines[n].kind = "fence" /\ lines[n].marker = lines[from].marker
        IN IF blocks[b].type = "code"
           THEN /\ Kind(lines[from]) = "fence"
                /\ \A n \in (from + 1)..(to - 1) : ~Ends(n)
                /\ \/ to > from /\ Ends(to)
                   \/ \A n \in (to + 1)..Len(lines) : lines[n].kind = "blank"
           ELSE /\ \A n \in Span(b) : Kind(lines[n]) = "text"
                /\ to < Len(lines) => Kind(lines[to + 1]) # "text"

\* The heading path of a block, from the headings themselves: at each level the
\* last heading of that level, unless a higher one stands after it.
EnclosingHeadings(from) ==
    LET headings == {n \in 1..(from - 1) : n \notin Covered /\ Kind(lines[n]) = "heading"}
        Last(l)  == Max({n \in headings : lines[n].level <= l})
        HasAny(l) == \E n \in headings : lines[n].level <= l
    IN IF headings = {} THEN <<>>
       ELSE [l \in 1..lines[Max(headings)].level |->
                IF HasAny(l) /\ lines[Last(l)].level = l THEN lines[Last(l)].title ELSE ""]

\* Every block is filed under the headings it stands under in the file: what
\* citations and prompts show as its place.
FiledWhereItStands ==
    Parsed => \A b \in 1..Len(blocks) : blocks[b].path = EnclosingHeadings(blocks[b].from)

\* The blocks a chunk names with its metadata.
Blocks(p) == (p.block + 1)..(IF p.end = -1 THEN p.block + 1 ELSE p.end + 1)

\* The chunks are numbered without a gap, in the order of the blocks; together
\* they name every block, and two of them name the same blocks or none in common.
\* None mixes code with prose, two languages or two heading paths, and neighbours
\* that could be one group are one: short paragraphs of a section are merged.
ChunksFollowSections ==
    LET Meta(b) == <<blocks[b].type, blocks[b].language, blocks[b].path>> IN
    phase = "done" =>
      /\ UNION {Blocks(parts[k]) : k \in 1..Len(parts)} = 1..Len(blocks)
      /\ \A k \in 1..Len(parts) :
            /\ parts[k].index = k - 1
            /\ \A b, c \in Blocks(parts[k]) : Meta(b) = Meta(c)
      /\ \A k \in 1..(Len(parts) - 1) :
            LET last == Max(Blocks(parts[k])) IN
            \/ Blocks(parts[k]) = Blocks(parts[k + 1])
            \/ last < Min(Blocks(parts[k + 1])) /\ Meta(last) # Meta(last + 1)
=============================================================================
