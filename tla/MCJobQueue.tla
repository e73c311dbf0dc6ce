----------------------------- MODULE MCJobQueue -----------------------------
(* JobQueue on a small instance: see MCJobQueue.cfg.                       *)
EXTENDS JobQueue, TLC

Delays == <<1>>
Perms  == Permutations(Job) \cup Permutations(Worker)
=============================================================================
