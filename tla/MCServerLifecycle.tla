------------------------- MODULE MCServerLifecycle --------------------------
(* ServerLifecycle with a few requests: see MCServerLifecycle.cfg.         *)
EXTENDS ServerLifecycle
=============================================================================
