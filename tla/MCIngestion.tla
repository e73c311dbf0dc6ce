----------------------------- MODULE MCIngestion ----------------------------
(* Ingestion on small instances: see MCIngestion.cfg, MCSource.cfg and     *)
(* MCIngestionLive.cfg.                                                    *)
EXTENDS Ingestion, TLC

Perms == Permutations(Job) \cup Permutations(Doc) \cup Permutations(Content)
=============================================================================
