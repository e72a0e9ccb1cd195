---------------------------- MODULE Fetch_proofs ----------------------------
(***************************************************************************)
(* Proofs about the calls of a process and the forwarder they share, for   *)
(* any number of scans, calls, slots and attempts: types, nothing is sent  *)
(* after an abort, the forwarder is stopped by the last scan, and every    *)
(* client implements the abstract slot pool.                               *)
(***************************************************************************)
EXTENDS Fetch, TLAPS

\* Only a call of an open client is anywhere near the network; only an open
\* client remembers the forwarder.
OnlyOpen ==
  /\ \A c \in Call : pc[c] \in {"asking", "loading", "flight"} => ClientOf[c] \notin closed
  /\ sidecar \cap closed = {}

\* Whoever will stop the forwarder: a call that waits for it, until some
\* client remembers it.
Loading == \E c \in Call : pc[c] = "loading"
Kept ==
  /\ forwarder = "starting" => Loading
  /\ forwarder = "up" => Loading \/ sidecar # {}

IInv == TypeOK /\ OnlyOpen /\ Kept

LEMMA InitIInv == Init => IInv
  BY FetchAssumption DEF Init, IInv, TypeOK, Status, Settled, OnlyOpen, Kept, Loading

LEMMA BecomesType ==
  ASSUME TypeOK, NEW c \in Call, NEW status \in Status, Becomes(c, status)
  PROVE  /\ pc' \in [Call -> Status]
         /\ \A d \in Call : pc'[d] = IF d = c THEN status ELSE pc[d]
  BY DEF TypeOK, Becomes

LEMMA FailsTo ==
  ASSUME TypeOK, NEW c \in Call, AttemptFails(c)
  PROVE  /\ \E status \in {"aborted", "backoff", "failed"} : Becomes(c, status)
         /\ attempt' \in [Call -> 0..(MaxAttempts - 1)]
<1>1. CASE c \in Retrying /\ attempt[c] < MaxAttempts - 1
  <2>1. attempt[c] + 1 \in 0..(MaxAttempts - 1)
    BY <1>1, FetchAssumption DEF TypeOK
  <2>2. QED
    BY <1>1, <2>1 DEF AttemptFails, TypeOK
<1>2. CASE ~(c \in Retrying /\ attempt[c] < MaxAttempts - 1)
  BY <1>2 DEF AttemptFails, TypeOK
<1>3. QED
  BY <1>1, <1>2

\* What a step of a call does to its pc: where it was and where it gets to.
Moves(c, from, status) == pc[c] \in from /\ Becomes(c, status)

LEMMA StepMoves ==
  ASSUME TypeOK, NEW c \in Call, Step(c)
  PROVE  \/ \E s \in {"aborted", "backoff", "failed"} : Moves(c, {"new", "backoff"}, s)
         \/ Moves(c, {"new", "backoff"}, "asking") /\ ClientOf[c] \notin closed
         \/ Moves(c, {"asking"}, "aborted")
         \/ Enter(c) /\ Moves(c, {"asking"}, "loading")
         \/ Send(c) /\ Moves(c, {"loading"}, "flight")
         \/ GiveUp(c) /\ Moves(c, {"loading"}, "aborted")
         \/ \E s \in {"ok", "aborted", "backoff", "failed"} : Moves(c, {"flight"}, s)
         \/ Moves(c, {"backoff"}, "aborted")
<1>1. CASE BeginAborted(c)
  BY <1>1 DEF BeginAborted, Beginning, Moves
<1>2. CASE BeginClosed(c)
  BY <1>2, FailsTo DEF BeginClosed, Beginning, Moves
<1>3. CASE BeginAsking(c)
  BY <1>3 DEF BeginAsking, Beginning, Moves
<1>4. CASE LeaveQueue(c)
  BY <1>4 DEF LeaveQueue, Moves
<1>5. CASE Enter(c)
  BY <1>5 DEF Enter, Moves
<1>6. CASE Send(c)
  BY <1>6 DEF Send, Through, Moves
<1>7. CASE GiveUp(c)
  BY <1>7 DEF GiveUp, Through, Moves
<1>8. CASE Answered(c)
  BY <1>8 DEF Answered, Moves
<1>9. CASE Broken(c)
  BY <1>9, FailsTo DEF Broken, Moves
<1>10. CASE CutOff(c)
  BY <1>10 DEF CutOff, Moves
<1>11. QED
  BY <1>1, <1>2, <1>3, <1>4, <1>5, <1>6, <1>7, <1>8, <1>9, <1>10 DEF Step

\* All but these three leave the clients and the forwarder alone.
LEMMA StepKeeps ==
  ASSUME NEW c \in Call, Step(c), ~Enter(c), ~Send(c), ~GiveUp(c)
  PROVE  UNCHANGED <<clientVars, forwarderVars>>
  BY DEF Step, BeginAborted, BeginClosed, BeginAsking, LeaveQueue, Answered, Broken, CutOff

LEMMA StepTypes == ASSUME TypeOK, NEW c \in Call, Step(c) PROVE TypeOK'
<1>1. \E s \in Status : Becomes(c, s)
  BY StepMoves DEF Moves, Status, Settled
<1>2. pc' \in [Call -> Status]
  BY <1>1, BecomesType
<1>3. attempt' \in [Call -> 0..(MaxAttempts - 1)]
  BY FailsTo DEF TypeOK, Step, BeginAborted, BeginClosed, BeginAsking, LeaveQueue, Enter, Send,
     GiveUp, Through, Answered, Broken, CutOff
<1>4. routed' \subseteq Call
  BY DEF TypeOK, Step, BeginAborted, BeginClosed, BeginAsking, LeaveQueue, Enter, Send,
     GiveUp, Answered, Broken, CutOff
<1>5. aborted' \subseteq Client /\ closed' \subseteq Client
  BY DEF TypeOK, Step, BeginAborted, BeginClosed, BeginAsking, LeaveQueue, Enter, Send,
     GiveUp, Through, Answered, Broken, CutOff, clientVars
<1>6. sidecar' \subseteq Client
  BY FetchAssumption DEF TypeOK, Step, BeginAborted, BeginClosed, BeginAsking, LeaveQueue, Enter,
     Send, GiveUp, Through, Answered, Broken, CutOff, forwarderVars
<1>7. forwarder' \in {"none", "starting", "up", "down", "absent"}
  BY DEF TypeOK, Step, BeginAborted, BeginClosed, BeginAsking, LeaveQueue, Enter,
     Send, GiveUp, Through, Answered, Broken, CutOff, forwarderVars
<1>8. QED
  BY <1>2, <1>3, <1>4, <1>5, <1>6, <1>7 DEF TypeOK

LEMMA StepIInv == IInv /\ [Next]_vars => IInv'
<1> SUFFICES ASSUME IInv, [Next]_vars PROVE IInv'
  OBVIOUS
<1>1. ASSUME NEW c \in Call, Step(c) PROVE IInv'
  <2>1. TypeOK'
    BY <1>1, StepTypes DEF IInv
  <2>2. CASE Enter(c)
    <3>1. \A d \in Call : pc'[d] = IF d = c THEN "loading" ELSE pc[d]
      BY <2>2, BecomesType DEF Enter, IInv, Status
    <3>2. pc[c] = "asking"
      BY <2>2 DEF Enter
    <3>3. UNCHANGED <<clientVars, sidecar>>
      BY <2>2 DEF Enter
    <3>4. Loading'
      BY <3>1 DEF Loading
    <3>5. forwarder' = "up" => sidecar' # {} \/ Loading'
      BY <3>4
    <3>6. QED
      BY <2>1, <3>1, <3>2, <3>3, <3>4, <3>5 DEF IInv, OnlyOpen, Kept, clientVars
  <2>3. CASE Send(c) \/ GiveUp(c)
    <3>1. \E s \in {"flight", "aborted"} : \A d \in Call : pc'[d] = IF d = c THEN s ELSE pc[d]
      BY <2>3, BecomesType DEF Send, GiveUp, IInv, Status, Settled
    <3>2. /\ pc[c] = "loading" /\ forwarder' = forwarder /\ closed' = closed
          /\ forwarder \in {"up", "down", "absent"}
          /\ sidecar' = IF forwarder = "absent" THEN sidecar ELSE sidecar \cup {ClientOf[c]}
      BY <2>3 DEF Send, GiveUp, Through, clientVars
    <3>3. OnlyOpen'
      BY <3>1, <3>2 DEF IInv, OnlyOpen
    <3>4. Kept'
      BY <3>2 DEF Kept
    <3>5. QED
      BY <2>1, <3>3, <3>4 DEF IInv
  <2>4. CASE ~Enter(c) /\ ~Send(c) /\ ~GiveUp(c)
    <3>1. UNCHANGED <<clientVars, forwarderVars>>
      BY <1>1, <2>4, StepKeeps
    <3>2. PICK s \in Status :
            /\ Becomes(c, s) /\ pc[c] # "loading" /\ s # "loading"
            /\ s \in {"asking", "flight"} => s = "asking" /\ ClientOf[c] \notin closed
      BY <1>1, <2>4, StepMoves DEF IInv, Moves, Status, Settled
    <3>3. \A d \in Call : pc'[d] = IF d = c THEN s ELSE pc[d]
      BY <3>2, BecomesType DEF IInv
    <3>4. OnlyOpen'
      BY <3>1, <3>2, <3>3 DEF IInv, OnlyOpen, clientVars, forwarderVars
    <3>5. Loading => Loading'
      BY <3>2, <3>3 DEF Loading
    <3>6. QED
      BY <2>1, <3>1, <3>4, <3>5 DEF IInv, Kept, forwarderVars
  <2>5. QED
    BY <2>2, <2>3, <2>4
<1>2. CASE ForwarderReady
  BY <1>2 DEF ForwarderReady, IInv, TypeOK, OnlyOpen, Kept, Loading, callVars, clientVars
<1>3. ASSUME NEW k \in Client, Abort(k) PROVE IInv'
  BY <1>3 DEF Abort, IInv, TypeOK, OnlyOpen, Kept, Loading, callVars, forwarderVars
<1>4. ASSUME NEW k \in Client, Close(k) PROVE IInv'
  <2>1. TypeOK'
    BY <1>4 DEF Close, IInv, TypeOK, callVars
  <2>2. OnlyOpen'
    BY <1>4 DEF Close, IInv, TypeOK, OnlyOpen, callVars, Settled
  <2>3. Kept'
    BY <1>4 DEF Close, IInv, TypeOK, Kept, Loading, callVars
  <2>4. QED
    BY <2>1, <2>2, <2>3 DEF IInv
<1>5. CASE UNCHANGED vars
  BY <1>5 DEF IInv, TypeOK, OnlyOpen, Kept, Loading, vars, callVars, clientVars, forwarderVars
<1>6. QED
  BY <1>1, <1>2, <1>3, <1>4, <1>5 DEF Next

THEOREM Inductive == Spec => []IInv
<1>1. QED
  BY InitIInv, StepIInv, PTL DEF Spec

\* Types, attempts staying below the limit included.
THEOREM TypeCorrect == Spec => []TypeOK
<1>1. IInv => TypeOK
  BY DEF IInv
<1>2. QED
  BY <1>1, Inductive, PTL

\* However many scans share the forwarder, when all of them are closed it is
\* neither running nor about to.
THEOREM ForwarderIsStopped == Spec => []NoForwarderLeft
<1>1. IInv => NoForwarderLeft
  <2> SUFFICES ASSUME IInv, closed = Client PROVE forwarder \notin {"starting", "up"}
    BY DEF NoForwarderLeft
  <2>1. ~Loading
    BY FetchAssumption DEF Loading, IInv, OnlyOpen
  <2>2. sidecar = {}
    BY DEF IInv, TypeOK, OnlyOpen
  <2>3. QED
    BY <2>1, <2>2 DEF IInv, Kept
<1>2. QED
  BY <1>1, Inductive, PTL

\* Whatever is waited for when the signal fires, nothing is sent afterwards.
THEOREM NothingIsSent == Spec => NothingSentAfterAbort
<1>1. ASSUME IInv, [Next]_vars
      PROVE  \A c \in Call : (pc[c] # "flight" /\ pc'[c] = "flight") => ~Aborted(c)
  <2> SUFFICES ASSUME NEW d \in Call, pc[d] # "flight", pc'[d] = "flight" PROVE ~Aborted(d)
    OBVIOUS
  <2>1. PICK c \in Call : Step(c)
    BY <1>1 DEF Next, ForwarderReady, Abort, Close, vars, callVars
  <2>2. c = d
    <3>1. \E s \in Status : Becomes(c, s)
      BY <1>1, <2>1, StepMoves DEF IInv, Moves, Status, Settled
    <3>2. QED
      BY <1>1, <3>1, BecomesType DEF IInv
  <2>3. Send(c)
    <3>1. \A s \in Status : Becomes(c, s) => s = "flight"
      BY <1>1, <2>2, BecomesType DEF IInv
    <3>2. QED
      BY <1>1, <2>1, <3>1, StepMoves DEF IInv, Moves, Status, Settled
  <2>4. QED
    BY <2>2, <2>3 DEF Send
<1>2. QED
  BY <1>1, Inductive, PTL DEF Spec, NothingSentAfterAbort

-----------------------------------------------------------------------------
\* What a move of c makes of the callers of the watched client's semaphore.
LEMMA MoveCallers ==
  ASSUME TypeOK, NEW c \in Call, NEW status \in Status, Becomes(c, status)
  PROVE  /\ ClientOf[c] # Watched =>
              Asking(Watched)' = Asking(Watched) /\ Holding(Watched)' = Holding(Watched)
         /\ ClientOf[c] = Watched =>
              /\ Asking(Watched)' = IF status = "asking" THEN Asking(Watched) \cup {c}
                                    ELSE Asking(Watched) \ {c}
              /\ Holding(Watched)' = IF status \in {"loading", "flight"}
                                     THEN Holding(Watched) \cup {c} ELSE Holding(Watched) \ {c}
<1>1. \A d \in Call : pc'[d] = IF d = c THEN status ELSE pc[d]
  BY BecomesType
<1>2. QED
  BY <1>1 DEF Asking, Holding

LEMMA StepPool == IInv /\ [Next]_vars => [Pool!PoolNext]_(Pool!poolVars)
<1> SUFFICES ASSUME IInv, [Next]_vars PROVE [Pool!PoolNext]_(Pool!poolVars)
  OBVIOUS
<1>1. ASSUME NEW c \in Call, Step(c) PROVE [Pool!PoolNext]_(Pool!poolVars)
  <2>1. CASE ClientOf[c] # Watched
    <3>1. \E s \in Status : Becomes(c, s)
      BY <1>1, StepMoves DEF IInv, Moves, Status, Settled
    <3>2. QED
      BY <2>1, <3>1, MoveCallers DEF IInv, Pool!poolVars
  <2>2. CASE ClientOf[c] = Watched
    <3>1. c \in Asking(Watched) <=> pc[c] = "asking"
      BY <2>2 DEF Asking
    <3>2. c \in Holding(Watched) <=> pc[c] \in {"loading", "flight"}
      BY <2>2 DEF Holding
    <3>3. CASE \/ \E s \in {"aborted", "backoff", "failed"} : Moves(c, {"new", "backoff"}, s)
               \/ Moves(c, {"backoff"}, "aborted")
               \/ Moves(c, {"loading"}, "flight")
      <4>1. Asking(Watched)' = Asking(Watched) /\ Holding(Watched)' = Holding(Watched)
        BY <2>2, <3>1, <3>2, <3>3, MoveCallers DEF IInv, Moves, Status, Settled
      <4>2. QED
        BY <4>1 DEF Pool!poolVars
    <3>4. CASE Moves(c, {"new", "backoff"}, "asking")
      <4>1. /\ Asking(Watched)' = Asking(Watched) \cup {c} /\ Holding(Watched)' = Holding(Watched)
            /\ c \notin Asking(Watched) \cup Holding(Watched)
        BY <2>2, <3>1, <3>2, <3>4, MoveCallers DEF IInv, Moves, Status, Settled
      <4>2. Pool!Ask(c)
        BY <4>1 DEF Pool!Ask
      <4>3. QED
        BY <2>2, <4>2 DEF Pool!PoolNext
    <3>5. CASE Moves(c, {"asking"}, "aborted")
      <4>1. /\ Asking(Watched)' = Asking(Watched) \ {c} /\ Holding(Watched)' = Holding(Watched)
            /\ {c} \subseteq Asking(Watched)
        BY <2>2, <3>1, <3>2, <3>5, MoveCallers DEF IInv, Moves, Status, Settled
      <4>2. Pool!TurnAway({c})
        BY <4>1 DEF Pool!TurnAway
      <4>3. QED
        BY <2>2, <4>2 DEF Pool!PoolNext
    <3>6. CASE Enter(c)
      <4>1. Becomes(c, "loading") /\ pc[c] = "asking"
        BY <3>6 DEF Enter
      <4>2. /\ Holding(Watched)' = Holding(Watched) \cup {c} /\ c \notin Holding(Watched)
            /\ Asking(Watched)' = Asking(Watched) \ {c}
        BY <2>2, <3>1, <3>2, <4>1, MoveCallers DEF IInv, Status
      <4>3. Cardinality(Holding(Watched)) < Limit
        BY <2>2, <3>6 DEF Enter
      <4>4. Pool!Grant(c)
        BY <4>2, <4>3 DEF Pool!Grant, Pool!Cardinality, Cardinality
      <4>5. QED
        BY <2>2, <4>4 DEF Pool!PoolNext
    <3>7. CASE \/ Moves(c, {"loading"}, "aborted")
               \/ \E s \in {"ok", "aborted", "backoff", "failed"} : Moves(c, {"flight"}, s)
      <4>1. /\ Asking(Watched)' = Asking(Watched) /\ Holding(Watched)' = Holding(Watched) \ {c}
            /\ c \in Holding(Watched)
        BY <2>2, <3>1, <3>2, <3>7, MoveCallers DEF IInv, Moves, Status, Settled
      <4>2. Pool!GiveBack(c)
        BY <4>1 DEF Pool!GiveBack
      <4>3. QED
        BY <2>2, <4>2 DEF Pool!PoolNext
    <3>8. QED
      BY <1>1, <3>3, <3>4, <3>5, <3>6, <3>7, StepMoves DEF IInv
  <2>3. QED
    BY <2>1, <2>2
<1>2. CASE ForwarderReady \/ (\E k \in Client : Abort(k) \/ Close(k))
  BY <1>2 DEF ForwarderReady, Abort, Close, callVars, Pool!poolVars, Asking, Holding
<1>3. CASE UNCHANGED vars
  BY <1>3 DEF vars, callVars, Pool!poolVars, Asking, Holding
<1>4. QED
  BY <1>1, <1>2, <1>3 DEF Next

\* Through retries, aborts and waits for the forwarder, every client is a slot
\* pool of Limit slots (Watched is any client).
THEOREM IsPool == Spec => ImplementsPool
<1>1. Init => Pool!PoolInit
  BY DEF Init, Pool!PoolInit, Asking, Holding
<1>2. QED
  BY <1>1, StepPool, Inductive, PTL DEF Spec, ImplementsPool, Pool!PoolSafety
=============================================================================
