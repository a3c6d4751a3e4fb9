-------------------------- MODULE MCSettlementFeed --------------------------
(* Small thresholds, and a buffer that two entries fill.                   *)
EXTENDS SettlementFeed, TLC

CONSTANTS c1
=============================================================================
