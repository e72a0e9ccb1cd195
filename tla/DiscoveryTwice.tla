--------------------------- MODULE DiscoveryTwice ---------------------------
(***************************************************************************)
(* Two scans of the same site, one after the other, neither with a cache:  *)
(* when the first is complete its result is put aside and the loop starts  *)
(* again from nothing.  The site answers both the same way, so all that    *)
(* may differ is the order in which concurrent tasks are served.           *)
(***************************************************************************)
EXTENDS Discovery

VARIABLE earlier   \* the scripts of the first scan, as a set of at most one

twiceVars == <<vars, earlier>>

InitTwice == Init /\ earlier = {}

Scan == Next /\ ~aborted' /\ UNCHANGED earlier

\* A new Pipeline: Init again, of the same site.
ScanAgain ==
  /\ phase = "complete" /\ earlier = {}
  /\ earlier' = {Known}
  /\ phase' = "prime" /\ fallbackChecked' = FALSE
  /\ base' = Start /\ redirected' = {}
  /\ seen' = {} /\ queue' = {} /\ done' = {} /\ keys' = {}
  /\ fragSeen' = {} /\ fragments' = <<>>
  /\ prefixes' = {Site(Start)} /\ publics' = <<>>
  /\ htmlEntries' = <<>> /\ entries' = {} /\ analysed' = {}
  /\ UNCHANGED <<scanVars, aborted, turn, task>>

SpecTwice == InitTwice /\ [][Scan \/ ScanAgain]_twiceVars
-----------------------------------------------------------------------------
(* README.md and the pipeline's header: two scans of the same site yield the *)
(* same set of scripts.  The code does not keep it: with more pages than the *)
(* budget holds, the pages entered depend on which page is served first, and *)
(* with them the scripts found.                                              *)
SameScripts == phase = "complete" => earlier \subseteq {Known}
=============================================================================
