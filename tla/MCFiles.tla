------------------------------- MODULE MCFiles -------------------------------
(* Two row counts and every single rewrite of a segment file; manifests of up *)
(* to one entry too many, over a small range of rows; a file damaged twice.   *)
EXTENDS Files, MCSegmentReader

MCEntryFirsts == 0 .. MaxRows
MCEntryCounts == 0 .. MaxSegmentRows + 1
MCTotals == 0 .. MaxRows + 1
===============================================================================
