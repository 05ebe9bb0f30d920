------------------------------- MODULE MCWAL -------------------------------
(* The write-ahead log instantiated for TLC.                               *)
EXTENDS WAL, TLC

(* Threads are interchangeable: none is named by any definition of WAL.    *)
ThreadSymmetry == Permutations(Threads)

=============================================================================
