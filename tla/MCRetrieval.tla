---------------------------- MODULE MCRetrieval -----------------------------
(* Retrieval over two documents, the second of which repeats a text of the *)
(* first: see MCRetrieval.cfg.                                             *)
EXTENDS Retrieval

DocOf  == <<"guide", "guide", "notes">>
KeyOf  == <<"install", "start", "install">>
SizeOf == <<1, 1, 2>>
=============================================================================
