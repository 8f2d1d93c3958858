------------------------- MODULE MCParallelScanner -------------------------
(* A listing shorter than the pool, and one longer: some workers stay      *)
(* inactive in the first, some take two processes in the second.           *)
EXTENDS ParallelScanner

MCListings == {<<2, 1>>, <<3, 1, 4, 2, 5>>}
MCHidden == {2}
MCReports == {{}, {1, 2}}
=============================================================================
