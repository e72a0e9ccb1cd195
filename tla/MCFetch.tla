------------------------------ MODULE MCFetch -------------------------------
(* Two scans of one process.  The first has a retried call and a single     *)
(* attempt, which compete for its only slot; the second one retried call.   *)
EXTENDS Fetch

CONSTANTS c1, c2, c3, k1, k2

MCClientOf == [c \in Call |-> IF c = c3 THEN k2 ELSE k1]
=============================================================================
