-------------------------- MODULE MCMarkdownBlocks --------------------------
(* MarkdownBlocks with every kind of line: see MCMarkdownBlocks.cfg.       *)
EXTENDS MarkdownBlocks

MCLine == {Plain, Blank,
           Heading(1, "A"), Heading(1, "B"), Heading(2, "A"), Heading(3, "A"),
           Fence("backticks", ""), Fence("backticks", "go"), Fence("tildes", "")}
=============================================================================
