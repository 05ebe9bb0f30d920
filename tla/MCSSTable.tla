----------------------------- MODULE MCSSTable ------------------------------
(* Sorted tables and the block cache instantiated for TLC.                 *)
EXTENDS SSTable

Entry(k, v) == [key |-> k, val |-> v]

(* An empty table, and tables of one, two and three blocks: of 5 bytes, of *)
(* 14 and 1, and of 9, 10 and 1.  The cache has room for 12 bytes, so one  *)
(* block never fits, two small ones do, and three meet the other limit.    *)
MCContents ==
  {<<>>,
   <<Entry(2, 4)>>,
   <<Entry(1, 0), Entry(3, 12), Entry(4, Tomb)>>,
   <<Entry(1, 8), Entry(3, 9), Entry(4, 0)>>}

(* Two keys share both hashes, and so all their bits: the filter lets one  *)
(* through for the other.                                                  *)
MCHash == [k \in 1 .. 4 |-> CASE k \in {1, 2} -> <<3, 1>> [] k = 3 -> <<6, 3>>
                              [] k = 4 -> <<4, 5>>]

=============================================================================
