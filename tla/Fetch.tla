------------------------------- MODULE Fetch --------------------------------
(***************************************************************************)
(* src/src/fetcher: one call of fetchWithStatus (or of the single-attempt  *)
(* fetchWithHeaders and fetchWithStatusHead) through NodeHttpClient, and   *)
(* the loopback forwarder (TLS sidecar) that every client of the process   *)
(* shares.  Each client belongs to one scan and has one abort signal.      *)
(*                                                                         *)
(*   new      not called yet                                               *)
(*   asking   waiting for a slot of the client's semaphore                 *)
(*   loading  has its slot, ensureSidecar is awaited                       *)
(*   flight   fetch is awaited, the slot is held                           *)
(*   backoff  the attempt failed, delay is awaited; no slot is held        *)
(*   ok, failed, aborted   the promise is settled                          *)
(*                                                                         *)
(* Which of several waiting calls gets a slot is Semaphore.tla's business; *)
(* here any of them may.                                                   *)
(***************************************************************************)
EXTENDS Integers, FiniteSets

CONSTANTS
  Call, Client,
  ClientOf,     \* the client a call is made on
  Retrying,     \* the calls of fetchWithStatus
  Limit,        \* the client's concurrency
  MaxAttempts,  \* MAX_TRANSPORT_RETRIES
  Watched,      \* any client, the one whose bound is looked at
  Packaged      \* whether @jsdj/tls-sidecar may be installed

ASSUME FetchAssumption ==
  /\ IsFiniteSet(Call)
  /\ ClientOf \in [Call -> Client]
  /\ Retrying \subseteq Call
  /\ Watched \in Client
  /\ Limit \in Nat \ {0}
  /\ MaxAttempts \in Nat \ {0}
  /\ Packaged \in BOOLEAN

VARIABLES
  pc,         \* pc[c], as above
  attempt,    \* attempt[c], from 0
  routed,     \* calls whose request goes through the forwarder
  aborted,    \* clients whose scan's signal has fired
  closed,     \* clients that were closed
  sidecar,    \* clients whose this.sidecar is set
  forwarder   \* the module's cached promise: "none", "starting", "up",
              \* "down" (stopped) or "absent" (resolved to null)

callVars == <<pc, attempt, routed>>
clientVars == <<aborted, closed>>
forwarderVars == <<sidecar, forwarder>>
vars == <<callVars, clientVars, forwarderVars>>

Settled == {"ok", "failed", "aborted"}
Status == {"new", "asking", "loading", "flight", "backoff"} \cup Settled

TypeOK ==
  /\ pc \in [Call -> Status]
  /\ attempt \in [Call -> 0..(MaxAttempts - 1)]
  /\ routed \subseteq Call
  /\ aborted \subseteq Client /\ closed \subseteq Client /\ sidecar \subseteq Client
  /\ forwarder \in {"none", "starting", "up", "down", "absent"}

Init ==
  /\ pc = [c \in Call |-> "new"]
  /\ attempt = [c \in Call |-> 0]
  /\ routed = {}
  /\ aborted = {} /\ closed = {} /\ sidecar = {}
  /\ forwarder = "none"

Asking(k) == {c \in Call : ClientOf[c] = k /\ pc[c] = "asking"}
Holding(k) == {c \in Call : ClientOf[c] = k /\ pc[c] \in {"loading", "flight"}}
Aborted(c) == ClientOf[c] \in aborted
Becomes(c, status) == pc' = [pc EXCEPT ![c] = status]
-----------------------------------------------------------------------------
\* Bug: one attempt too many.
AttemptFailsOnceMore(c) ==
  IF c \in Retrying /\ attempt[c] < MaxAttempts
  THEN /\ Becomes(c, IF Aborted(c) THEN "aborted" ELSE "backoff")
       /\ attempt' = [attempt EXCEPT ![c] = @ + 1]
  ELSE Becomes(c, "failed") /\ UNCHANGED attempt

\* The attempt of c failed: retried after a delay while attempts are left,
\* unless the signal has fired by now.
AttemptFails(c) ==
  IF c \in Retrying /\ attempt[c] < MaxAttempts - 1
  THEN /\ Becomes(c, IF Aborted(c) THEN "aborted" ELSE "backoff")
       /\ attempt' = [attempt EXCEPT ![c] = @ + 1]
  ELSE Becomes(c, "failed") /\ UNCHANGED attempt

\* An attempt begins: the first one, or the next one when the delay is over.
Beginning(c) == pc[c] \in {"new", "backoff"}

\* fetchWithStatus looks at the signal first, execute at `closed` first.
BeginAborted(c) ==
  /\ Beginning(c) /\ Aborted(c)
  /\ c \in Retrying \/ ClientOf[c] \notin closed
  /\ Becomes(c, "aborted")
  /\ UNCHANGED <<attempt, routed, clientVars, forwarderVars>>

BeginClosed(c) ==
  /\ Beginning(c) /\ ClientOf[c] \in closed
  /\ ~(c \in Retrying /\ Aborted(c))
  /\ AttemptFails(c)
  /\ UNCHANGED <<routed, clientVars, forwarderVars>>

BeginAsking(c) ==
  /\ Beginning(c) /\ ~Aborted(c) /\ ClientOf[c] \notin closed
  /\ Becomes(c, "asking")
  /\ UNCHANGED <<attempt, routed, clientVars, forwarderVars>>

\* The signal fires while the call waits for a slot.
LeaveQueue(c) ==
  /\ pc[c] = "asking" /\ Aborted(c)
  /\ Becomes(c, "aborted")
  /\ UNCHANGED <<attempt, routed, clientVars, forwarderVars>>

\* Bug: one slot too many.
EnterOffByOne(c) ==
  /\ pc[c] = "asking" /\ ~Aborted(c) /\ Cardinality(Holding(ClientOf[c])) <= Limit
  /\ Becomes(c, "loading")
  /\ forwarder' = IF forwarder = "none" THEN "starting" ELSE forwarder
  /\ UNCHANGED <<attempt, routed, clientVars, sidecar>>

\* A slot is free or handed over; the first call of all starts the forwarder.
Enter(c) ==
  /\ pc[c] = "asking" /\ ~Aborted(c) /\ Cardinality(Holding(ClientOf[c])) < Limit
  /\ Becomes(c, "loading")
  /\ forwarder' = IF forwarder = "none" THEN "starting" ELSE forwarder
  /\ UNCHANGED <<attempt, routed, clientVars, sidecar>>

\* import and factory.create settle: a missing package, a failure and a
\* malformed forwarder all come to null.
ForwarderReady ==
  /\ forwarder = "starting"
  /\ forwarder' \in {"absent"} \cup (IF Packaged THEN {"up"} ELSE {})
  /\ UNCHANGED <<callVars, clientVars, sidecar>>

\* ensureSidecar of c is through: the client remembers the forwarder, if there
\* is one.
Through(c) ==
  /\ pc[c] = "loading" /\ forwarder \in {"up", "down", "absent"}
  /\ sidecar' = IF forwarder = "absent" THEN sidecar ELSE sidecar \cup {ClientOf[c]}
  /\ UNCHANGED <<attempt, clientVars, forwarder>>

\* Bug: the signal is not looked at again after the wait.
SendUnchecked(c) ==
  /\ Through(c)
  /\ Becomes(c, "flight")
  /\ routed' = IF forwarder = "absent" THEN routed \ {c} ELSE routed \cup {c}

\* The request goes out, by the forwarder if there is one.
Send(c) ==
  /\ Through(c) /\ ~Aborted(c)
  /\ Becomes(c, "flight")
  /\ routed' = IF forwarder = "absent" THEN routed \ {c} ELSE routed \cup {c}

\* Bug: the signal is looked at before the forwarder is remembered.
GiveUpEarly(c) ==
  /\ pc[c] = "loading" /\ Aborted(c) /\ forwarder \in {"up", "down", "absent"}
  /\ Becomes(c, "aborted")
  /\ UNCHANGED <<attempt, routed, clientVars, forwarderVars>>

\* The signal fired while ensureSidecar was awaited: nothing is sent.
GiveUp(c) ==
  /\ Through(c) /\ Aborted(c)
  /\ Becomes(c, "aborted")
  /\ UNCHANGED routed

\* The response and its body are in.
Answered(c) ==
  /\ pc[c] = "flight"
  /\ c \in routed => forwarder = "up"
  /\ Becomes(c, "ok")
  /\ UNCHANGED <<attempt, routed, clientVars, forwarderVars>>

\* Bug: attempts are not counted.
BrokenForever(c) ==
  /\ pc[c] = "flight"
  /\ Becomes(c, IF Aborted(c) THEN "aborted" ELSE "backoff")
  /\ UNCHANGED <<attempt, routed, clientVars, forwarderVars>>

\* A transport failure, or the timeout: fetch rejects.
Broken(c) ==
  /\ pc[c] = "flight"
  /\ AttemptFails(c)
  /\ UNCHANGED <<routed, clientVars, forwarderVars>>

\* The signal fires while fetch or the delay is awaited.
CutOff(c) ==
  /\ pc[c] \in {"flight", "backoff"} /\ Aborted(c)
  /\ Becomes(c, "aborted")
  /\ UNCHANGED <<attempt, routed, clientVars, forwarderVars>>

\* The caller aborts the scan.
Abort(k) ==
  /\ k \in Client \ aborted
  /\ aborted' = aborted \cup {k}
  /\ UNCHANGED <<callVars, closed, forwarderVars>>

\* scanWithPipeline's finally, when every call of the scan is settled: the
\* client stops the forwarder it used.
Close(k) ==
  /\ k \in Client \ closed
  /\ \A c \in Call : ClientOf[c] = k => pc[c] \in Settled \cup {"new"}
  /\ closed' = closed \cup {k}
  /\ sidecar' = sidecar \ {k}
  /\ forwarder' = IF k \in sidecar THEN "down" ELSE forwarder
  /\ UNCHANGED <<callVars, aborted>>

Step(c) ==
  \/ BeginAborted(c) \/ BeginClosed(c) \/ BeginAsking(c) \/ LeaveQueue(c) \/ Enter(c)
  \/ Send(c) \/ GiveUp(c) \/ Answered(c) \/ Broken(c) \/ CutOff(c)

Next ==
  \/ \E c \in Call : Step(c)
  \/ ForwarderReady
  \/ \E k \in Client : Abort(k) \/ Close(k)

\* Whoever holds a slot or waits on a timer goes on: fetch answers, fails or
\* is cut off by the timeout, import and factory.create settle, a free slot is
\* granted.  Nobody has to begin, abort or close.
Fairness ==
  /\ \A c \in Call : /\ WF_vars(pc[c] # "new" /\ Step(c))
                     /\ SF_vars(Enter(c))
  /\ WF_vars(ForwarderReady)

Spec == Init /\ [][Next]_vars /\ Fairness
-----------------------------------------------------------------------------
(* After the abort of a scan none of its requests is put on the wire: not a *)
(* first attempt that was waiting for a slot or for the forwarder, not a    *)
(* retry.                                                                   *)
NothingSentAfterAbort ==
  [][\A c \in Call : (pc[c] # "flight" /\ pc'[c] = "flight") => ~Aborted(c)]_vars

(* A forwarder that was started is stopped by the last scan that ends, the  *)
(* scans that were aborted while it was starting included.                  *)
NoForwarderLeft == closed = Client => forwarder \notin {"starting", "up"}

(* Every call is answered: retries come to an end, a wait for a slot ends,  *)
(* and an abort leaves nothing hanging.                                     *)
EveryCallSettles == \A c \in Call : (pc[c] # "new") ~> (pc[c] \in Settled)

Pool == INSTANCE SlotPool WITH
          Call <- {c \in Call : ClientOf[c] = Watched},
          asking <- Asking(Watched), holding <- Holding(Watched)

(* The semaphore bounds the requests of a client through retries, aborts    *)
(* and waits for the forwarder: a slot is held from the grant to the answer *)
(* and by no call that sleeps.                                              *)
ImplementsPool == Pool!PoolSafety

(* The comment on the module's cached forwarder: repeated scans in one      *)
(* process reuse a single forwarder, so what is handed out is running.  The *)
(* code does not keep it: the scan that ends first stops the forwarder, and *)
(* the cached promise still hands it to the next.                           *)
HandsOutRunning ==
  [][\A c \in Call : (pc[c] # "flight" /\ pc'[c] = "flight" /\ c \in routed')
                       => forwarder = "up"]_vars
=============================================================================
