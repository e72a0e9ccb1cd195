---------------------------- MODULE MCSiteCache -----------------------------
(* An entry page with two scripts: one with a map, which leads to a chunk   *)
(* without one, and one on another origin that has a map too.               *)
EXTENDS SiteCache

CONSTANTS index, app, chunk, lib

MCLinks == [p \in Page |-> IF p = index THEN {app, lib} ELSE IF p = app THEN {chunk} ELSE {}]
MCSlotOf == [p \in Page |-> p]
MCPathOf == [s \in Script |-> s]
=============================================================================
