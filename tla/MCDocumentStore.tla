--------------------------- MODULE MCDocumentStore --------------------------
(* DocumentStore on a small instance: see MCDocumentStore.cfg.             *)
EXTENDS DocumentStore
=============================================================================
