----------------------------- MODULE FrontEnds ------------------------------
(***************************************************************************)
(* The three ways into a scan: the command line, the library call with a   *)
(* registry the caller composes, and the scan service; and what comes of   *)
(* it when two of them scan one site at the same time, over one cache.  A  *)
(* process is one of them, so `front` is chosen once; the variables of the *)
(* others keep the values they start with.                                 *)
(***************************************************************************)
EXTENDS CommandLine, JobService, SharedScope

CONSTANTS
  Orders,       \* the options library callers pass
  Custom,       \* plugins a caller may register
  MaxChanges    \* bound: changes to the caller's registry

VARIABLES front, changes

allVars == <<front, changes, scanVars, cliVars, jobVars, scopeVars>>

ASSUME FrontAssumption ==
  /\ MaxChanges \in Nat
  /\ Custom \subseteq [name : STRING, object : Nat]
  /\ \A o \in Orders : o.plugins \in BOOLEAN /\ o.onlyPlugins \in Seq(STRING)

Init ==
  /\ front \in {"cli", "library", "service", "two scans"} /\ changes = 0
  /\ ScanInit /\ JobInit /\ ScopeInit
  /\ CliInit /\ (front # "cli" => argv = <<>>)

\* What a caller may do to a registry it keeps, while no scan uses it.
Recompose ==
  /\ call = "idle" /\ changes < MaxChanges
  /\ changes' = changes + 1
  /\ \/ \E p \in Custom : mine' = Register(mine, p)
     \/ \E name \in Names(mine) : mine' = Remove(mine, name)
     \/ \E a, b \in Names(mine) : mine' = Select(mine, <<a, b>>)
     \/ \E name \in Names(mine) : mine' = Exclude(mine, <<name>>)
  /\ UNCHANGED <<options, call, used, store, client>>

CallScan ==
  /\ call = "idle"
  /\ call' = "asked"
  /\ options' \in Orders
  /\ UNCHANGED <<changes, mine, used, store, client>>

Next ==
  \/ front = "cli" /\ CliNext /\ UNCHANGED <<front, changes, jobVars, scopeVars>>
  \/ /\ front = "library"
     /\ \/ Recompose \/ CallScan
        \/ ScanNext /\ UNCHANGED changes
     /\ UNCHANGED <<front, cliVars, jobVars, scopeVars>>
  \/ front = "service" /\ JobNext /\ UNCHANGED <<front, changes, scanVars, cliVars, scopeVars>>
  \/ front = "two scans" /\ ScopeNext /\ UNCHANGED <<front, changes, scanVars, cliVars, jobVars>>

\* The scan of a job ends by itself (Termination of Discovery.tla).  Nothing
\* makes a client send requests or cancel, or anyone stop the process.
Fairness ==
  \A i \in Id : WF_allVars(front = "service" /\ ScanEnds(i)
                             /\ UNCHANGED <<front, changes, scanVars, cliVars, scopeVars>>)

Spec == Init /\ [][Next]_allVars /\ Fairness
-----------------------------------------------------------------------------
(* A job that waits for a slot is not forgotten: it scans to the end, or   *)
(* is cancelled, or the process exits.  Slots given back by cancelled and  *)
(* failed scans are as good as others.                                     *)
EveryJobEnds ==
  \A i \in Id : (status[i] = "queued") ~> (status[i] \in Over \/ process = "exited")
=============================================================================
