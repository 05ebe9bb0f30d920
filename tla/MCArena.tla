------------------------------ MODULE MCArena -------------------------------
(* The arena instantiated for TLC.                                         *)
EXTENDS Arena

=============================================================================
