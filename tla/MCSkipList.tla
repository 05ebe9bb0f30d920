----------------------------- MODULE MCSkipList -----------------------------
(* The skip list instantiated for TLC.                                     *)
EXTENDS SkipList

=============================================================================
