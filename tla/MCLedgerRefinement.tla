------------------------ MODULE MCLedgerRefinement ------------------------
(* Instances of LedgerRefinement for TLC.                                  *)
EXTENDS MCProbeScheduler, LedgerRefinement
=============================================================================
