----------------------------- MODULE MCBaseline -----------------------------
(* Baseline with small reports: see MCBaseline.cfg and MCLatency.cfg.      *)
EXTENDS Baseline, TLC

ModeSymmetry == Permutations(Mode)
=============================================================================
