------------------------------ MODULE Worklist ------------------------------
(***************************************************************************)
(* What the discovery loop promises about its URLs, whatever the site:     *)
(* a URL is taken up at most once, work that was taken up is finished      *)
(* before the scan is declared complete, and only an abort (or an entry    *)
(* page that cannot be had) ends the scan with work outstanding.           *)
(* Discovery.tla is shown to implement this specification.                 *)
(***************************************************************************)
VARIABLES pending,   \* jobs taken up and not finished
          finished,  \* jobs finished
          outcome    \* "open", "complete" or "cut"

listVars == <<pending, finished, outcome>>

ListInit == pending = {} /\ finished = {} /\ outcome = "open"

\* New jobs are taken up: never one that was taken up before.
TakeUp ==
  /\ outcome = "open"
  /\ pending \subseteq pending'
  /\ (pending' \ pending) \cap finished = {}
  /\ UNCHANGED <<finished, outcome>>

FinishJob(j) ==
  /\ outcome = "open"
  /\ pending' = pending \ {j}
  /\ finished' = finished \cup {j}
  /\ UNCHANGED outcome

Complete ==
  /\ outcome = "open"
  /\ pending = {}
  /\ outcome' = "complete"
  /\ UNCHANGED <<pending, finished>>

CutShort ==
  /\ outcome = "open"
  /\ outcome' = "cut"
  /\ UNCHANGED <<pending, finished>>

ListNext ==
  \/ TakeUp
  \/ \E j \in pending : FinishJob(j)
  \/ Complete
  \/ CutShort

ListSpec == ListInit /\ [][ListNext]_listVars
=============================================================================
