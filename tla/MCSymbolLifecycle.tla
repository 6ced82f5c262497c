------------------------- MODULE MCSymbolLifecycle -------------------------
(***************************************************************************)
(* Small instance of SymbolLifecycle for TLC.                              *)
(***************************************************************************)
EXTENDS SymbolLifecycle, TLC

=============================================================================
