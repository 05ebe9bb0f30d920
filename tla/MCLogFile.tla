----------------------------- MODULE MCLogFile ------------------------------
(* The log file and its recovery instantiated for TLC.                     *)
EXTENDS LogFile

=============================================================================
