------------------------------ MODULE MCChunker -----------------------------
(* Chunker on all short texts: see MCChunker.cfg.                          *)
EXTENDS Chunker

ShortTexts   == 1..6
SmallWindows == 1..5
AnyOverlap   == -1..5
=============================================================================
