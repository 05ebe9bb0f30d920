------------------------------- MODULE MCScan -------------------------------
(* The scan and the compaction merge instantiated for TLC.                 *)
EXTENDS Scan

MCEnds == {2, 3, NoEnd}

(* Values name the source that first had them, so that versions differ.    *)
MCValues == [s \in 0 .. MaxTables |-> {s}]

=============================================================================
