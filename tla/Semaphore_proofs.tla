-------------------------- MODULE Semaphore_proofs --------------------------
(* The semaphore keeps its slots, for any number of calls, slots and       *)
(* signals, and implements the bounded pool of SlotPool.tla.               *)
EXTENDS Semaphore, TLAPS, FiniteSetTheorems

\* What an abort in progress still has to do: every call about to be taken
\* out of the queue is in it.
FiringWaits == firing \subseteq Waiting

IInv == TypeOK /\ SlotsConserved /\ NoIdleSlot /\ FiringWaits
-----------------------------------------------------------------------------
(* The calls that hold a slot can be counted. *)
LEMMA HoldingFinite ==
  /\ IsFiniteSet(Holding) /\ Cardinality(Holding) \in Nat
  /\ IsFiniteSet(Holding)' /\ Cardinality(Holding)' \in Nat
<1>1. IsFiniteSet(Holding)
  BY FS_Subset, SemaphoreAssumption, Holding \in SUBSET Call DEF Holding, SemaphoreAssumption
<1>2. IsFiniteSet(Holding')
  BY FS_Subset, SemaphoreAssumption, Holding' \in SUBSET Call DEF Holding, SemaphoreAssumption
<1> QED
  BY <1>1, <1>2, FS_CardinalityType

(* One more call holds a slot, or one fewer. *)
LEMMA OneMore ==
  ASSUME NEW c, c \notin Holding, Holding' = Holding \cup {c}
  PROVE  Cardinality(Holding)' = Cardinality(Holding) + 1
  BY FS_AddElement, HoldingFinite

LEMMA OneFewer ==
  ASSUME NEW c \in Holding, Holding' = Holding \ {c}
  PROVE  Cardinality(Holding)' = Cardinality(Holding) - 1
  BY FS_RemoveElement, HoldingFinite

(* A slot that changes hands leaves the count alone. *)
LEMMA Passed ==
  ASSUME NEW c \in Holding, NEW d, d \notin Holding, Holding' = (Holding \ {c}) \cup {d}
  PROVE  Cardinality(Holding)' = Cardinality(Holding)
<1>1. /\ IsFiniteSet(Holding \ {c})
      /\ Cardinality(Holding \ {c}) = Cardinality(Holding) - 1
  BY FS_RemoveElement, HoldingFinite
<1>2. Cardinality(Holding') = Cardinality(Holding \ {c}) + 1
  BY <1>1, FS_AddElement
<1> QED
  BY <1>1, <1>2, HoldingFinite
-----------------------------------------------------------------------------
(* The state is well typed and its slots, queue and listeners agree at the *)
(* start.                                                                  *)
LEMMA InitIInv == Init => IInv
<1> SUFFICES ASSUME Init PROVE IInv
  OBVIOUS
<1>1. TypeOK
  BY SemaphoreAssumption DEF Init, TypeOK, Status, SemaphoreAssumption
<1>2. Holding = {} /\ Waiting = {}
  BY DEF Init, Holding, Waiting
<1>3. SlotsConserved
  BY <1>2, FS_EmptySet, SemaphoreAssumption DEF Init, SlotsConserved, SemaphoreAssumption
<1>4. NoIdleSlot
  BY <1>2 DEF Init, NoIdleSlot
<1>5. FiringWaits
  BY DEF Init, FiringWaits
<1> QED
  BY <1>1, <1>3, <1>4, <1>5 DEF IInv

(* The queue after the waiter at place n left it.                          *)
LEMMA Spliced ==
  ASSUME TypeOK, NEW n \in DOMAIN waiters,
         waiters' = [m \in 1..(Len(waiters) - 1) |->
                      IF m < n THEN waiters[m] ELSE waiters[m + 1]]
  PROVE  /\ waiters' \in Seq(Call)
         /\ \A m \in DOMAIN waiters' :
              \E k \in DOMAIN waiters \ {n} : waiters'[m] = waiters[k]
         /\ \A k \in DOMAIN waiters \ {n} :
              \E m \in DOMAIN waiters' : waiters'[m] = waiters[k]
<1> DEFINE L == Len(waiters)
           w == waiters'
<1>1. L \in Nat /\ DOMAIN waiters = 1..L /\ n \in 1..L /\ \A k \in 1..L : waiters[k] \in Call
  BY DEF TypeOK
<1>2. DOMAIN w = 1..(L - 1)
  OBVIOUS
<1>3. \A m \in 1..(L - 1) : /\ m < n => m \in 1..L \ {n} /\ w[m] = waiters[m]
                            /\ ~(m < n) => m + 1 \in 1..L \ {n} /\ w[m] = waiters[m + 1]
  BY <1>1
<1>4. w \in [1..(L - 1) -> Call]
  BY <1>1
<1>5. w \in Seq(Call)
  BY <1>1, <1>4, L - 1 \in Nat
<1>6. \A k \in 1..L \ {n} : \E m \in 1..(L - 1) : w[m] = waiters[k]
  <2> SUFFICES ASSUME NEW k \in 1..L \ {n} PROVE \E m \in 1..(L - 1) : w[m] = waiters[k]
    OBVIOUS
  <2>1. CASE k < n
    <3>1. k \in 1..(L - 1)
      BY <1>1, <2>1
    <3> QED
      BY <3>1, <1>3, <2>1
  <2>2. CASE ~(k < n)
    <3>1. k - 1 \in 1..(L - 1) /\ ~(k - 1 < n) /\ (k - 1) + 1 = k
      BY <1>1, <2>2
    <3> QED
      BY <3>1, <1>3
  <2> QED
    BY <2>1, <2>2
<1> QED
  BY <1>1, <1>2, <1>3, <1>5, <1>6
-----------------------------------------------------------------------------
(* Every step keeps the state well typed and its slots, queue and listeners *)
(* in agreement.                                                            *)
LEMMA StepIInv == IInv /\ [Next]_vars => IInv'
<1> SUFFICES ASSUME IInv, [Next]_vars PROVE IInv'
  OBVIOUS
<1> USE DEF IInv
<1>0. /\ Limit \in Nat /\ available \in 0..Limit /\ available \in Int
      /\ Cardinality(Holding) \in Nat /\ Cardinality(Holding)' \in Nat
      /\ Len(waiters) \in Nat /\ DOMAIN waiters = 1..Len(waiters)
      /\ waiters \in Seq(Call)
  BY SemaphoreAssumption, HoldingFinite DEF TypeOK, SemaphoreAssumption
<1>1. ASSUME NEW c \in Call, AcquireAborted(c) PROVE IInv'
  <2>1. Holding' = Holding /\ Waiting' = Waiting
    BY <1>1 DEF AcquireAborted, Holding, Waiting, TypeOK, Status
  <2>2. TypeOK'
    BY <1>1 DEF AcquireAborted, TypeOK, Status
  <2>3. SlotsConserved'
    BY <1>1, <2>1 DEF AcquireAborted, SlotsConserved
  <2>4. NoIdleSlot' /\ FiringWaits'
    BY <1>1, <2>1 DEF AcquireAborted, NoIdleSlot, FiringWaits
  <2> QED
    BY <2>2, <2>3, <2>4
<1>2. ASSUME NEW c \in Call, AcquireFree(c) PROVE IInv'
  <2>1. /\ Holding' = Holding \cup {c} /\ c \notin Holding
        /\ Waiting' = Waiting
    BY <1>2 DEF AcquireFree, Holding, Waiting, TypeOK, Status
  <2>2. TypeOK'
    BY <1>0, <1>2 DEF AcquireFree, TypeOK, Status
  <2>3. SlotsConserved'
    <3>1. Cardinality(Holding)' = Cardinality(Holding) + 1
      BY <2>1, OneMore
    <3> QED
      BY <1>0, <1>2, <3>1 DEF AcquireFree, SlotsConserved
  <2>4. NoIdleSlot' /\ FiringWaits'
    BY <1>0, <1>2, <2>1 DEF AcquireFree, NoIdleSlot, FiringWaits
  <2> QED
    BY <2>2, <2>3, <2>4
<1>3. ASSUME NEW c \in Call, AcquireWait(c) PROVE IInv'
  <2>1. /\ Holding' = Holding /\ Waiting' = Waiting \cup {c}
        /\ c \notin Waiting
    BY <1>3 DEF AcquireWait, Holding, Waiting, TypeOK, Status
  <2>2. /\ waiters' \in Seq(Call) /\ DOMAIN waiters' = 1..(Len(waiters) + 1)
        /\ \A n \in 1..Len(waiters) : waiters'[n] = waiters[n]
        /\ waiters'[Len(waiters) + 1] = c
    BY <1>0, <1>3 DEF AcquireWait
  <2>3. TypeOK'
    BY <1>3, <2>2 DEF AcquireWait, TypeOK, Status
  <2>4. SlotsConserved'
    BY <1>3, <2>1 DEF AcquireWait, SlotsConserved
  <2>5. \A n \in DOMAIN waiters : waiters[n] \in Waiting
    BY <1>0 DEF NoIdleSlot
  <2>6. \A d \in Call : d \in Waiting' <=> \E n \in DOMAIN waiters' : waiters'[n] = d
    BY <1>0, <2>1, <2>2 DEF NoIdleSlot
  <2>7. \A m, n \in DOMAIN waiters' : waiters'[m] = waiters'[n] => m = n
    BY <1>0, <2>1, <2>2, <2>5 DEF NoIdleSlot
  <2>8. NoIdleSlot' /\ FiringWaits'
    BY <1>3, <2>1, <2>6, <2>7 DEF AcquireWait, NoIdleSlot, FiringWaits
  <2> QED
    BY <2>3, <2>4, <2>8
<1>4. ASSUME NEW c \in Call, Start(c) PROVE IInv'
  <2>1. Holding' = Holding /\ Waiting' = Waiting
    BY <1>4 DEF Start, Holding, Waiting, TypeOK, Status
  <2>2. TypeOK'
    BY <1>4 DEF Start, TypeOK, Status
  <2>3. SlotsConserved' /\ NoIdleSlot' /\ FiringWaits'
    BY <1>4, <2>1 DEF Start, SlotsConserved, NoIdleSlot, FiringWaits
  <2> QED
    BY <2>2, <2>3
<1>5. ASSUME NEW c \in Call, Release(c) PROVE IInv'
  <2>1. CASE waiters = <<>>
    <3>1. /\ Holding' = Holding \ {c} /\ c \in Holding
          /\ Waiting' = Waiting
      BY <1>5, <2>1 DEF Release, Holding, Waiting, TypeOK, Status
    <3>2. Cardinality(Holding)' = Cardinality(Holding) - 1
      BY <3>1, OneFewer
    <3>3. TypeOK'
      BY <1>0, <1>5, <2>1, <3>2 DEF Release, TypeOK, Status, SlotsConserved
    <3>4. SlotsConserved'
      BY <1>0, <1>5, <2>1, <3>2 DEF Release, SlotsConserved
    <3>5. NoIdleSlot' /\ FiringWaits'
      BY <1>5, <2>1, <3>1 DEF Release, NoIdleSlot, FiringWaits
    <3> QED
      BY <3>3, <3>4, <3>5
  <2>2. CASE waiters # <<>>
    <3> DEFINE d == Head(waiters)
    <3>1. /\ d = waiters[1] /\ 1 \in DOMAIN waiters /\ d \in Call
          /\ waiters' = Tail(waiters) /\ waiters' \in Seq(Call)
          /\ DOMAIN waiters' = 1..(Len(waiters) - 1)
          /\ \A n \in 1..(Len(waiters) - 1) :
               waiters'[n] = waiters[n + 1] /\ n + 1 \in 1..Len(waiters) /\ n + 1 # 1
          /\ \A n \in 1..Len(waiters) : n # 1 =>
               n - 1 \in 1..(Len(waiters) - 1) /\ waiters'[n - 1] = waiters[n]
      BY <1>0, <1>5, <2>2, SMTT(20) DEF Release
    <3>2. d \in Waiting /\ d # c
      BY <1>5, <3>1 DEF NoIdleSlot, Release, Waiting
    <3>3. call' = [call EXCEPT ![c] = "released", ![d] = "granted"]
      BY <1>5, <2>2 DEF Release
    <3>4. /\ Holding' = (Holding \ {c}) \cup {d} /\ c \in Holding /\ d \notin Holding
          /\ Waiting' = Waiting \ {d}
      BY <1>5, <3>1, <3>2, <3>3 DEF Release, Holding, Waiting, TypeOK, Status
    <3>5. TypeOK'
      BY <1>5, <2>2, <3>1, <3>3 DEF Release, TypeOK, Status
    <3>6. SlotsConserved'
      BY <1>5, <2>2, <3>4, Passed DEF Release, SlotsConserved
    <3>7. \A e \in Call : e \in Waiting' <=> \E n \in DOMAIN waiters' : waiters'[n] = e
      <4>1. \A n \in DOMAIN waiters' : waiters'[n] \in Waiting /\ waiters'[n] # d
        BY <1>0, <3>1 DEF NoIdleSlot
      <4>2. \A e \in Waiting \ {d} : \E n \in DOMAIN waiters' : waiters'[n] = e
        <5> SUFFICES ASSUME NEW e \in Waiting \ {d}
                     PROVE  \E n \in DOMAIN waiters' : waiters'[n] = e
          OBVIOUS
        <5>1. PICK n \in DOMAIN waiters : waiters[n] = e
          BY DEF NoIdleSlot, Waiting
        <5> QED
          BY <1>0, <3>1, <5>1
      <4> QED
        BY <3>4, <4>1, <4>2
    <3>8. \A m, n \in DOMAIN waiters' : waiters'[m] = waiters'[n] => m = n
      BY <1>0, <3>1 DEF NoIdleSlot
    <3>9. NoIdleSlot' /\ FiringWaits'
      BY <1>5, <2>2, <3>7, <3>8 DEF Release, Quiet, NoIdleSlot, FiringWaits
    <3> QED
      BY <3>5, <3>6, <3>9
  <2> QED
    BY <2>1, <2>2
<1>6. ASSUME NEW c \in Call, ReleaseAgain(c) PROVE IInv'
  BY <1>6 DEF ReleaseAgain, vars, TypeOK, SlotsConserved, NoIdleSlot, FiringWaits, Holding,
              Waiting
<1>7. ASSUME NEW c \in Call, OnAbort(c) PROVE IInv'
  <2>1. PICK n \in DOMAIN waiters :
          /\ waiters[n] = c
          /\ waiters' = [m \in 1..(Len(waiters) - 1) |->
                           IF m < n THEN waiters[m] ELSE waiters[m + 1]]
    BY <1>7 DEF OnAbort
  <2>2. /\ waiters' \in Seq(Call)
        /\ \A m \in DOMAIN waiters' :
             \E k \in DOMAIN waiters \ {n} : waiters'[m] = waiters[k]
        /\ \A k \in DOMAIN waiters \ {n} :
             \E m \in DOMAIN waiters' : waiters'[m] = waiters[k]
    BY <2>1, Spliced
  <2>3. c \in Waiting
    BY <2>1 DEF NoIdleSlot
  <2>4. Holding' = Holding /\ Waiting' = Waiting \ {c}
    BY <1>7, <2>3 DEF OnAbort, Holding, Waiting, TypeOK, Status
  <2>5. TypeOK'
    BY <1>7, <2>2 DEF OnAbort, TypeOK, Status
  <2>6. SlotsConserved'
    BY <1>7, <2>4 DEF OnAbort, SlotsConserved
  <2>7. \A e \in Call : e \in Waiting' <=> \E m \in DOMAIN waiters' : waiters'[m] = e
    <3>1. \A m \in DOMAIN waiters' : waiters'[m] \in Waiting /\ waiters'[m] # c
      <4> SUFFICES ASSUME NEW m \in DOMAIN waiters'
                   PROVE  waiters'[m] \in Waiting /\ waiters'[m] # c
        OBVIOUS
      <4>1. PICK k \in DOMAIN waiters \ {n} : waiters'[m] = waiters[k]
        BY <2>2
      <4>2. waiters[k] \in Call
        BY <1>0
      <4> QED
        BY <2>1, <4>1, <4>2 DEF NoIdleSlot
    <3>2. \A e \in Waiting \ {c} : \E m \in DOMAIN waiters' : waiters'[m] = e
      <4> SUFFICES ASSUME NEW e \in Waiting \ {c}
                   PROVE  \E m \in DOMAIN waiters' : waiters'[m] = e
        OBVIOUS
      <4>1. PICK k \in DOMAIN waiters : waiters[k] = e
        BY DEF NoIdleSlot, Waiting
      <4> QED
        BY <2>1, <2>2, <4>1
    <3> QED
      BY <2>4, <3>1, <3>2
  <2>8. \A m, k \in DOMAIN waiters' : waiters'[m] = waiters'[k] => m = k
    <3>1. DOMAIN waiters' = 1..(Len(waiters) - 1)
      BY <2>1
    <3>2. \A m \in 1..(Len(waiters) - 1) :
            waiters'[m] = waiters[IF m < n THEN m ELSE m + 1]
      BY <1>0, <2>1
    <3>3. \A m \in 1..(Len(waiters) - 1) : (IF m < n THEN m ELSE m + 1) \in DOMAIN waiters
      BY <1>0
    <3> SUFFICES ASSUME NEW m \in 1..(Len(waiters) - 1), NEW k \in 1..(Len(waiters) - 1),
                        waiters'[m] = waiters'[k]
                 PROVE  m = k
      BY <3>1
    <3>4. (IF m < n THEN m ELSE m + 1) = (IF k < n THEN k ELSE k + 1)
      BY <3>2, <3>3 DEF NoIdleSlot
    <3> QED
      BY <1>0, <3>4
  <2>9. NoIdleSlot' /\ FiringWaits'
    <3>1. waiters # <<>>
      BY <1>0
    <3>2. available' = 0
      BY <1>7, <3>1 DEF OnAbort, NoIdleSlot
    <3>3. FiringWaits'
      BY <1>7, <2>4 DEF OnAbort, FiringWaits
    <3> QED
      BY <2>7, <2>8, <3>2, <3>3 DEF NoIdleSlot
  <2> QED
    BY <2>5, <2>6, <2>9
<1>8. ASSUME NEW s \in Signal, Abort(s) PROVE IInv'
  <2>1. Holding' = Holding /\ Waiting' = Waiting
    BY <1>8 DEF Abort, Holding, Waiting
  <2>2. TypeOK' /\ FiringWaits'
    BY <1>8, <2>1 DEF Abort, TypeOK, FiringWaits, Waiting
  <2>3. SlotsConserved' /\ NoIdleSlot'
    BY <1>8, <2>1 DEF Abort, SlotsConserved, NoIdleSlot
  <2> QED
    BY <2>2, <2>3
<1>9. CASE UNCHANGED vars
  BY <1>9 DEF vars, TypeOK, SlotsConserved, NoIdleSlot, FiringWaits, Holding, Waiting
<1> QED
  BY <1>1, <1>2, <1>3, <1>4, <1>5, <1>6, <1>7, <1>8, <1>9 DEF Next
-----------------------------------------------------------------------------
THEOREM Inductive == Spec => []IInv
  BY InitIInv, StepIInv, PTL DEF Spec

(* The state of the semaphore stays well typed.                             *)
THEOREM TypeCorrect == Spec => []TypeOK
  BY Inductive, PTL DEF IInv

(* No slot is lost or invented, whatever races an abort or a double release *)
(* makes: free slots and held slots add up to the limit.                    *)
THEOREM SlotsAreConserved == Spec => []SlotsConserved
  BY Inductive, PTL DEF IInv

(* No call sleeps beside a free slot, and the queue holds each pending call *)
(* exactly once.                                                            *)
THEOREM NoSlotIsIdle == Spec => []NoIdleSlot
  BY Inductive, PTL DEF IInv
-----------------------------------------------------------------------------
\* NoOvertaking, of one step.
Fair(a, b) ==
  (/\ call[a] = "waiting" /\ call'[a] = "waiting"
   /\ call[b] \in {"new", "waiting"} /\ call'[b] = "granted")
  => \E i, j \in DOMAIN waiters : waiters[i] = b /\ waiters[j] = a /\ i < j

(* A step that grants a slot grants it to the head of the queue, or there   *)
(* is no queue.                                                             *)
LEMMA StepFair == IInv /\ [Next]_vars => \A a, b \in Call : Fair(a, b)
<1> SUFFICES ASSUME IInv, [Next]_vars, NEW a \in Call, NEW b \in Call PROVE Fair(a, b)
  OBVIOUS
<1> USE DEF IInv
<1>1. ASSUME NEW c \in Call, AcquireFree(c) PROVE Fair(a, b)
  <2>1. waiters = <<>>
    BY <1>1, SemaphoreAssumption DEF AcquireFree, NoIdleSlot, TypeOK, SemaphoreAssumption
  <2>2. call[a] # "waiting"
    BY <2>1 DEF NoIdleSlot, Waiting
  <2> QED
    BY <2>2 DEF Fair
<1>2. ASSUME NEW c \in Call, Release(c) PROVE Fair(a, b)
  <2>1. CASE waiters = <<>>
    BY <1>2, <2>1 DEF Release, Fair, TypeOK, Status
  <2>2. CASE waiters # <<>>
    <3> SUFFICES ASSUME call[a] = "waiting", call'[a] = "waiting",
                        call[b] \in {"new", "waiting"}, call'[b] = "granted"
                 PROVE  \E i, j \in DOMAIN waiters :
                          waiters[i] = b /\ waiters[j] = a /\ i < j
      BY DEF Fair
    <3>1. /\ 1 \in DOMAIN waiters /\ waiters[1] \in Call
          /\ call' = [call EXCEPT ![c] = "released", ![waiters[1]] = "granted"]
      BY <1>2, <2>2 DEF Release, TypeOK
    <3>2. b = waiters[1] /\ a # waiters[1]
      BY <1>2, <3>1 DEF Release, TypeOK
    <3>3. PICK j \in DOMAIN waiters : waiters[j] = a
      BY DEF NoIdleSlot, Waiting
    <3>4. 1 < j
      BY <3>2, <3>3 DEF TypeOK
    <3> QED
      BY <3>1, <3>2, <3>3, <3>4
  <2> QED
    BY <2>1, <2>2
<1>3. ASSUME NEW c \in Call,
             AcquireAborted(c) \/ AcquireWait(c) \/ Start(c) \/ ReleaseAgain(c) \/ OnAbort(c)
      PROVE  Fair(a, b)
  BY <1>3 DEF AcquireAborted, AcquireWait, Start, ReleaseAgain, OnAbort, Fair, vars, TypeOK,
              Status
<1>4. ASSUME NEW s \in Signal, Abort(s) PROVE Fair(a, b)
  BY <1>4 DEF Abort, Fair
<1>5. CASE UNCHANGED vars
  BY <1>5 DEF vars, Fair
<1> QED
  BY <1>1, <1>2, <1>3, <1>4, <1>5 DEF Next

(* A pending call is never overtaken by one that asked later.               *)
THEOREM NobodyOvertakes == Spec => NoOvertaking
<1>1. IInv /\ [Next]_vars =>
        [\A a, b \in Call :
           (/\ call[a] = "waiting" /\ call'[a] = "waiting"
            /\ call[b] \in {"new", "waiting"} /\ call'[b] = "granted")
           => \E i, j \in DOMAIN waiters : waiters[i] = b /\ waiters[j] = a /\ i < j]_vars
  BY StepFair DEF Fair
<1> QED
  BY <1>1, Inductive, PTL DEF Spec, NoOvertaking
-----------------------------------------------------------------------------
(* A step of the semaphore is a step of the pool, or none.                  *)
LEMMA StepPool == IInv /\ [Next]_vars => [Pool!PoolNext]_(Pool!poolVars)
<1> SUFFICES ASSUME IInv, [Next]_vars PROVE [Pool!PoolNext]_(Pool!poolVars)
  OBVIOUS
<1> USE DEF IInv
<1>1. ASSUME NEW c \in Call, AcquireAborted(c) \/ Start(c) \/ ReleaseAgain(c)
      PROVE  UNCHANGED Pool!poolVars
  BY <1>1 DEF AcquireAborted, Start, ReleaseAgain, vars, Pool!poolVars, Holding, Waiting,
              TypeOK, Status
<1>2. ASSUME NEW c \in Call, AcquireFree(c) PROVE Pool!Grant(c)
  <2>1. /\ Holding' = Holding \cup {c} /\ c \notin Holding
        /\ Waiting' = Waiting \ {c}
    BY <1>2 DEF AcquireFree, Holding, Waiting, TypeOK, Status
  <2>2. Cardinality(Holding) < Limit
    BY <1>2, SemaphoreAssumption, HoldingFinite
       DEF AcquireFree, SlotsConserved, TypeOK, SemaphoreAssumption
  <2> QED
    BY <2>1, <2>2 DEF Pool!Grant, Pool!Cardinality, Cardinality
<1>3. ASSUME NEW c \in Call, AcquireWait(c) PROVE Pool!Ask(c)
  BY <1>3 DEF AcquireWait, Pool!Ask, Holding, Waiting, TypeOK, Status
<1>4. ASSUME NEW c \in Call, Release(c) PROVE Pool!PoolNext
  <2>1. CASE waiters = <<>>
    <3>1. Pool!GiveBack(c)
      BY <1>4, <2>1 DEF Release, Pool!GiveBack, Holding, Waiting, TypeOK, Status
    <3> QED
      BY <3>1 DEF Pool!PoolNext
  <2>2. CASE waiters # <<>>
    <3>1. /\ 1 \in DOMAIN waiters /\ waiters[1] \in Call
          /\ call' = [call EXCEPT ![c] = "released", ![waiters[1]] = "granted"]
      BY <1>4, <2>2 DEF Release, TypeOK
    <3>2. waiters[1] \in Waiting
      BY <3>1 DEF NoIdleSlot
    <3>3. Pool!HandOver(c, waiters[1])
      BY <1>4, <3>1, <3>2 DEF Release, Pool!HandOver, Holding, Waiting, TypeOK, Status
    <3> QED
      BY <3>1, <3>3 DEF Pool!PoolNext
  <2> QED
    BY <2>1, <2>2
<1>5. ASSUME NEW c \in Call, OnAbort(c) PROVE Pool!TurnAway({c})
  BY <1>5 DEF OnAbort, Pool!TurnAway, FiringWaits, Holding, Waiting, TypeOK, Status
<1>6. ASSUME NEW s \in Signal, Abort(s) PROVE UNCHANGED Pool!poolVars
  BY <1>6 DEF Abort, Pool!poolVars, Holding, Waiting
<1>7. CASE UNCHANGED vars
  BY <1>7 DEF vars, Pool!poolVars, Holding, Waiting
<1> QED
  BY <1>1, <1>2, <1>3, <1>4, <1>5, <1>6, <1>7 DEF Next, Pool!PoolNext

(* The semaphore implements the bounded pool: at most Limit calls hold a    *)
(* slot, and slots pass from call to call as the pool allows.               *)
THEOREM IsPool == Spec => Pool!PoolSafety
<1>1. Init => Pool!PoolInit
  BY DEF Init, Pool!PoolInit, Holding, Waiting
<1> QED
  BY <1>1, StepPool, Inductive, PTL DEF Spec, Pool!PoolSafety
=============================================================================
