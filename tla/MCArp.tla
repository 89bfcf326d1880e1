------------------------------- MODULE MCArp -------------------------------
(* Small instances of ArpQueue for TLC.                                     *)
EXTENDS ArpQueue
=============================================================================
