----------------------------- MODULE Semaphore ------------------------------
(***************************************************************************)
(* src/src/fetcher/semaphore.ts: the counting semaphore behind             *)
(* --concurrency.  A call of acquire is an element of Call; what the       *)
(* caller's promise is at, is call[c]:                                     *)
(*                                                                         *)
(*   new       acquire not called yet                                      *)
(*   waiting   the promise is pending, its waiter is in the queue          *)
(*   granted   the promise is resolved, its continuation has not run yet   *)
(*   running   run is awaiting fn, holding the slot                        *)
(*   released  the release function was called                             *)
(*   rejected  the promise was rejected with an AbortError                 *)
(*                                                                         *)
(* One action is one synchronous stretch of JavaScript, but for an abort:  *)
(* while a signal runs its listeners, one by one, nothing else happens.    *)
(* Between granted and running an abort may fire: the slot is already the  *)
(* call's, and it is fn that has to notice.                                *)
(***************************************************************************)
EXTENDS Integers, Sequences, FiniteSets

CONSTANTS Call,       \* the calls of acquire in the life of one semaphore
          Limit,      \* the constructor's argument
          Signal,     \* abort signals; one may be shared by many calls
          NoSignal,   \* a call made without a signal
          SignalOf    \* the signal each call passes

ASSUME SemaphoreAssumption ==
  /\ IsFiniteSet(Call)
  /\ Limit \in Nat \ {0}
  /\ NoSignal \notin Signal
  /\ SignalOf \in [Call -> Signal \cup {NoSignal}]

VARIABLES available,  \* slots nobody holds
          waiters,    \* pending calls, oldest first
          call,       \* call[c], as above
          aborted,    \* signals that have fired
          firing      \* calls whose abort listener is about to run

vars == <<available, waiters, call, aborted, firing>>

Status == {"new", "waiting", "granted", "running", "released", "rejected"}

TypeOK ==
  /\ available \in 0..Limit
  /\ waiters \in Seq(Call)
  /\ call \in [Call -> Status]
  /\ aborted \subseteq Signal
  /\ firing \subseteq Call

Init ==
  /\ available = Limit
  /\ waiters = <<>>
  /\ call = [c \in Call |-> "new"]
  /\ aborted = {}
  /\ firing = {}

Quiet == firing = {}
Holding == {c \in Call : call[c] \in {"granted", "running"}}
Waiting == {c \in Call : call[c] = "waiting"}
-----------------------------------------------------------------------------
\* Bug: the test lets one call through when no slot is left.
AcquireFreeOffByOne(c) ==
  /\ Quiet /\ call[c] = "new" /\ SignalOf[c] \notin aborted
  /\ available >= 0
  /\ available' = IF available = 0 THEN 0 ELSE available - 1
  /\ call' = [call EXCEPT ![c] = "granted"]
  /\ UNCHANGED <<waiters, aborted, firing>>

AcquireAborted(c) ==
  /\ Quiet /\ call[c] = "new" /\ SignalOf[c] \in aborted
  /\ call' = [call EXCEPT ![c] = "rejected"]
  /\ UNCHANGED <<available, waiters, aborted, firing>>

AcquireFree(c) ==
  /\ Quiet /\ call[c] = "new" /\ SignalOf[c] \notin aborted
  /\ available > 0
  /\ available' = available - 1
  /\ call' = [call EXCEPT ![c] = "granted"]
  /\ UNCHANGED <<waiters, aborted, firing>>

AcquireWait(c) ==
  /\ Quiet /\ call[c] = "new" /\ SignalOf[c] \notin aborted
  /\ available = 0
  /\ waiters' = Append(waiters, c)
  /\ call' = [call EXCEPT ![c] = "waiting"]
  /\ UNCHANGED <<available, aborted, firing>>

\* The continuation of `await this.acquire(signal)` in run: fn is called.
Start(c) ==
  /\ Quiet /\ call[c] = "granted"
  /\ call' = [call EXCEPT ![c] = "running"]
  /\ UNCHANGED <<available, waiters, aborted, firing>>

\* Bug: the newest waiter is served (pop for shift).
ReleaseToNewest(c) ==
  /\ Quiet /\ call[c] = "running"
  /\ IF waiters = <<>>
     THEN /\ available' = available + 1
          /\ call' = [call EXCEPT ![c] = "released"]
          /\ UNCHANGED waiters
     ELSE /\ waiters' = SubSeq(waiters, 1, Len(waiters) - 1)
          /\ call' = [call EXCEPT ![c] = "released",
                                  ![waiters[Len(waiters)]] = "granted"]
          /\ UNCHANGED available
  /\ UNCHANGED <<aborted, firing>>

\* The first call of the release function: the oldest waiter inherits the
\* slot, and available moves only when nobody waits.
Release(c) ==
  /\ Quiet /\ call[c] = "running"
  /\ IF waiters = <<>>
     THEN /\ available' = available + 1
          /\ call' = [call EXCEPT ![c] = "released"]
          /\ UNCHANGED waiters
     ELSE /\ waiters' = Tail(waiters)
          /\ call' = [call EXCEPT ![c] = "released", ![Head(waiters)] = "granted"]
          /\ UNCHANGED available
  /\ UNCHANGED <<aborted, firing>>

\* Bug: without the `released` flag a second call gives a slot back again.
ReleaseTwice(c) ==
  /\ Quiet /\ call[c] = "released"
  /\ available' = IF waiters = <<>> THEN available + 1 ELSE available
  /\ waiters' = IF waiters = <<>> THEN waiters ELSE Tail(waiters)
  /\ call' = IF waiters = <<>> THEN call
             ELSE [call EXCEPT ![Head(waiters)] = "granted"]
  /\ UNCHANGED <<aborted, firing>>

\* Any later call of it: the `released` flag of the closure makes it nothing.
ReleaseAgain(c) ==
  /\ Quiet /\ call[c] = "released"
  /\ UNCHANGED vars

\* The signal fires: every waiter that registered a listener on it is hit.
Abort(s) ==
  /\ Quiet /\ s \in Signal \ aborted
  /\ aborted' = aborted \cup {s}
  /\ firing' = {c \in Waiting : SignalOf[c] = s}
  /\ UNCHANGED <<available, waiters, call>>

\* Bug: splice(-1, 1), the index not being looked at: the newest waiter
\* leaves the queue in place of the aborted one.
OnAbortNewest(c) ==
  /\ c \in firing
  /\ firing' = firing \ {c}
  /\ call' = [call EXCEPT ![c] = "rejected"]
  /\ waiters' = SubSeq(waiters, 1, Len(waiters) - 1)
  /\ UNCHANGED <<available, aborted>>

\* onAbort: the waiter leaves the queue, wherever it stands in it, and its
\* promise is rejected.
OnAbort(c) ==
  /\ c \in firing
  /\ firing' = firing \ {c}
  /\ call' = [call EXCEPT ![c] = "rejected"]
  /\ \E n \in DOMAIN waiters :
       /\ waiters[n] = c
       /\ waiters' = [m \in 1..(Len(waiters) - 1) |->
                        IF m < n THEN waiters[m] ELSE waiters[m + 1]]
  /\ UNCHANGED <<available, aborted>>

Next ==
  \/ \E c \in Call : \/ AcquireAborted(c) \/ AcquireFree(c) \/ AcquireWait(c)
                     \/ Start(c) \/ Release(c) \/ ReleaseAgain(c)
                     \/ OnAbort(c)
  \/ \E s \in Signal : Abort(s)

\* run releases in a finally: a call that has its slot starts fn and, since
\* every request is bounded by a timeout, returns; a listener runs at once.
\* Nobody has to call acquire, and no signal has to fire.
Fairness ==
  /\ \A c \in Call : WF_vars(Start(c)) /\ WF_vars(Release(c))
  /\ WF_vars(\E c \in Call : OnAbort(c))

Spec == Init /\ [][Next]_vars /\ Fairness
-----------------------------------------------------------------------------
(* A slot is free or held by exactly one call, at every moment: neither an *)
(* abort racing a hand-over nor a release called twice loses or invents    *)
(* one.                                                                    *)
SlotsConserved == available + Cardinality(Holding) = Limit

(* The queue holds exactly the pending calls, each once, and never while a *)
(* slot is free: no call sleeps beside a free slot.                        *)
NoIdleSlot ==
  /\ \A c \in Call : c \in Waiting <=> \E i \in DOMAIN waiters : waiters[i] = c
  /\ \A i, j \in DOMAIN waiters : waiters[i] = waiters[j] => i = j
  /\ waiters # <<>> => available = 0

(* A pending call is never overtaken: while it waits, no call that asked   *)
(* later, or has yet to ask, is granted a slot.                            *)
NoOvertaking ==
  [][\A a, b \in Call :
       (/\ call[a] = "waiting" /\ call'[a] = "waiting"
        /\ call[b] \in {"new", "waiting"} /\ call'[b] = "granted")
       => \E i, j \in DOMAIN waiters : waiters[i] = b /\ waiters[j] = a /\ i < j]_vars

Pool == INSTANCE SlotPool WITH asking <- Waiting, holding <- Holding

(* The semaphore is a bounded pool of slots: at most Limit requests in     *)
(* flight, each slot passed on or given back, and every pending call is    *)
(* answered, with a slot or with an AbortError, once the others finish.    *)
ImplementsPool == Pool!PoolSpec
=============================================================================
